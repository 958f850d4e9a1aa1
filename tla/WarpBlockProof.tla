--------------------------- MODULE WarpBlockProof ---------------------------
(***************************************************************************)
(* A kernel whose steps are in order does what it should in every          *)
(* interleaving of its warps and tensor cores.                             *)
(*                                                                         *)
(* The rules of WarpBlock speak of the programs and of an order of their   *)
(* steps.  The invariant says that a run keeps to that order: whatever     *)
(* comes before a step that has been performed has been performed, too,    *)
(* for a step waits for just that.  What a warp finds in a stage, and      *)
(* whether it can go on, then follows from the order.                      *)
(***************************************************************************)
EXTENDS WarpBlock, FiniteSetTheorems, WellFoundedInduction, TLAPS

-----------------------------------------------------------------------------
(***************************************************************************)
(* Parities.                                                               *)
(***************************************************************************)
LEMMA TurnSplits ==
    ASSUME NEW t \in Nat, NEW S \in Nat \ {0}
    PROVE  t \div S \in Nat /\ t % S \in 0 .. S - 1
  OBVIOUS

\* A parity bit tells a waiter that is at most one phase behind.
LEMMA ParityTells ==
    ASSUME NEW p \in Nat, NEW n \in Nat, n = 0 \/ p >= n - 1, p % 2 # 1 - (n % 2)
    PROVE  p >= n
  OBVIOUS

LEMMA ParityTellsWaiter ==
    ASSUME NEW p \in Nat, NEW u \in Nat, p >= u, p % 2 # u % 2
    PROVE  p >= u + 1
  OBVIOUS

LEMMA ParityDiffers ==
    ASSUME NEW u \in Nat
    PROVE  u % 2 # 1 - (u % 2) /\ (u + 1) % 2 # u % 2
  OBVIOUS

-----------------------------------------------------------------------------
(***************************************************************************)
(* One barrier: made[m] counts the arrivals of member m.                   *)
(***************************************************************************)
\* Every member is in the running phase, or has arrived in it.
Tally(M, F, made, bar) ==
    /\ bar \in MbarType(F)
    /\ \A m \in M : made[m] \in {bar.phase, bar.phase + 1}
    /\ bar.pending = F - Cardinality({m \in M : made[m] = bar.phase + 1})
    /\ M = {} => bar.phase = 0

LEMMA TallyArrives ==
    ASSUME NEW M, IsFiniteSet(M), NEW F \in Nat \ {0}, Cardinality(M) <= F,
           NEW bar, NEW made, Tally(M, F, made, bar),
           NEW a \in M, made[a] = bar.phase,
           NEW made2, made2[a] = made[a] + 1, \A m \in M \ {a} : made2[m] = made[m]
    PROVE  /\ Tally(M, F, made2, MbarArrive(bar, F))
           /\ MbarArrive(bar, F).phase \in {bar.phase, bar.phase + 1}
  <1> DEFINE p == bar.phase
             A == {m \in M : made[m] = p + 1}
             A2 == {m \in M : made2[m] = p + 1}
             bar2 == MbarArrive(bar, F)
  <1>1. p \in Nat /\ bar.pending \in 1 .. F /\ bar = [pending |-> bar.pending, phase |-> p]
    BY DEF Tally, MbarType
  <1>2. A2 = A \cup {a} /\ a \notin A /\ A \subseteq M /\ A2 \subseteq M
    BY <1>1 DEF Tally
  <1>3. IsFiniteSet(A) /\ IsFiniteSet(A2) /\ Cardinality(M) \in Nat
    BY <1>2, FS_Subset, FS_CardinalityType
  <1>4. Cardinality(A) \in Nat /\ Cardinality(A2) = Cardinality(A) + 1
    <2>1. Cardinality(A \cup {a}) = Cardinality(A) + 1
      BY <1>2, <1>3, FS_AddElement
    <2> QED BY <1>2, <1>3, <2>1, FS_CardinalityType
  <1>5. bar.pending = F - Cardinality(A)
    BY DEF Tally
  <1>6. \A m \in M : made2[m] \in {p, p + 1}
    BY <1>1 DEF Tally
  <1>7. CASE bar.pending = 1
    <2>1. bar2 = [pending |-> F, phase |-> p + 1]
      BY <1>7 DEF MbarArrive
    <2>2. Cardinality(A2) = F
      BY <1>4, <1>5, <1>7
    <2>3. A2 = M
      <3>1. Cardinality(A2) <= Cardinality(M)
        BY <1>2, FS_Subset
      <3>2. Cardinality(A2) = Cardinality(M)
        BY <1>3, <1>4, <2>2, <3>1
      <3> QED BY <1>2, <3>2, FS_Subset
    <2>4. {m \in M : made2[m] = p + 1 + 1} = {}
      BY <1>1, <2>3
    <2>5. Cardinality({m \in M : made2[m] = p + 1 + 1}) = 0
      BY <2>4, FS_EmptySet
    <2>6. \A m \in M : made2[m] \in {p + 1, p + 1 + 1}
      BY <2>3
    <2>7. bar2.phase = p + 1 /\ bar2.pending = F /\ bar2 \in MbarType(F)
      BY <1>1, <2>1 DEF MbarType
    <2>8. F = F - 0
      OBVIOUS
    <2> HIDE DEF bar2
    <2>9. Tally(M, F, made2, bar2)
      BY <2>5, <2>6, <2>7, <2>8 DEF Tally
    <2> QED BY <2>7, <2>9 DEF bar2
  <1>8. CASE bar.pending # 1
    <2>1. bar2 = [pending |-> bar.pending - 1, phase |-> p]
      BY <1>1, <1>8 DEF MbarArrive
    <2>2. bar2.phase = p /\ bar2.pending = bar.pending - 1 /\ bar2 \in MbarType(F)
      BY <1>1, <1>8, <2>1 DEF MbarType
    <2>3. bar2.pending = F - Cardinality(A2)
      BY <1>1, <1>4, <1>5, <2>2
    <2> HIDE DEF bar2
    <2>4. Tally(M, F, made2, bar2)
      BY <1>6, <2>2, <2>3 DEF Tally
    <2> QED BY <2>2, <2>4 DEF bar2
  <1> QED BY <1>7, <1>8

\* The phase that all members have made is complete.
LEMMA PhaseReached ==
    ASSUME NEW M, IsFiniteSet(M), NEW F \in Nat, NEW made, NEW bar,
           Tally(M, F, made, bar), M # {} => Cardinality(M) = F,
           NEW n \in Nat, \A m \in M : made[m] >= n, M = {} => n = 0
    PROVE  bar.phase >= n
  <1>1. bar.phase \in Nat /\ bar.pending \in 1 .. F
    BY DEF Tally, MbarType
  <1>2. CASE M = {}
    BY <1>1, <1>2
  <1>3. CASE M # {}
    <2> SUFFICES ASSUME ~(bar.phase >= n) PROVE FALSE
      OBVIOUS
    <2>1. n >= bar.phase + 1
      BY <1>1
    <2>2. \A m \in M : made[m] = bar.phase + 1
      <3>1. ASSUME NEW m \in M PROVE made[m] = bar.phase + 1
        BY <1>1, <2>1, <3>1 DEF Tally
      <3> QED BY <3>1
    <2>3. {m \in M : made[m] = bar.phase + 1} = M
      BY <2>2
    <2>4. bar.pending = F - F
      BY <1>3, <2>3 DEF Tally
    <2> QED BY <1>1, <2>4
  <1> QED BY <1>2, <1>3

LEMMA PhaseMade ==
    ASSUME NEW M, NEW F, NEW made, NEW bar, Tally(M, F, made, bar), NEW m \in M
    PROVE  bar.phase \in Nat /\ made[m] \in Nat /\ made[m] >= bar.phase
  BY DEF Tally, MbarType

-----------------------------------------------------------------------------
(***************************************************************************)
(* Counting the arrivals of a program.                                     *)
(***************************************************************************)
Count(k, a, r, b, s, n) == Cardinality(Arrivals(k, a, r, b, s, n))

LEMMA CountZero ==
    ASSUME NEW k, NEW a, NEW r, NEW b, NEW s
    PROVE  Count(k, a, r, b, s, 0) = 0
  <1>1. Arrivals(k, a, r, b, s, 0) = {}
    BY DEF Arrivals
  <1> QED BY <1>1, FS_EmptySet DEF Count

LEMMA CountType ==
    ASSUME NEW k, NEW a, NEW r, NEW b, NEW s, NEW n \in Nat
    PROVE  Count(k, a, r, b, s, n) \in Nat
  <1>1. IsFiniteSet(1 .. n) /\ Arrivals(k, a, r, b, s, n) \subseteq 1 .. n
    BY FS_Interval DEF Arrivals
  <1> QED BY <1>1, FS_Subset, FS_CardinalityType DEF Count

LEMMA CountNext ==
    ASSUME NEW k, NEW a, NEW r, NEW b, NEW s, NEW n \in Nat
    PROVE  Count(k, a, r, b, s, n + 1) =
             IF <<r, s>> \in Arrives(Acts(k, a)[n + 1], b)
             THEN Count(k, a, r, b, s, n) + 1 ELSE Count(k, a, r, b, s, n)
  <1> DEFINE A == Arrivals(k, a, r, b, s, n)
             A2 == Arrivals(k, a, r, b, s, n + 1)
  <1>1. IsFiniteSet(1 .. n) /\ A \subseteq 1 .. n
    BY FS_Interval DEF Arrivals
  <1>2. IsFiniteSet(A) /\ Cardinality(A) \in Nat
    BY <1>1, FS_Subset, FS_CardinalityType
  <1>3. 1 .. n + 1 = (1 .. n) \cup {n + 1} /\ n + 1 \notin 1 .. n
    OBVIOUS
  <1>4. CASE <<r, s>> \in Arrives(Acts(k, a)[n + 1], b)
    <2>1. A2 = A \cup {n + 1} /\ n + 1 \notin A
      BY <1>1, <1>3, <1>4 DEF Arrivals
    <2>2. Cardinality(A2) = Cardinality(A) + 1
      BY <1>2, <2>1, FS_AddElement
    <2> QED BY <1>4, <2>2 DEF Count
  <1>5. CASE <<r, s>> \notin Arrives(Acts(k, a)[n + 1], b)
    <2>1. A2 = A
      BY <1>3, <1>5 DEF Arrivals
    <2> QED BY <1>5, <2>1 DEF Count
  <1> QED BY <1>4, <1>5

LEMMA CountMonotone ==
    ASSUME NEW k, NEW a, NEW r, NEW b, NEW s, NEW n \in Nat, NEW m \in Nat, n <= m
    PROVE  Count(k, a, r, b, s, n) <= Count(k, a, r, b, s, m)
  <1> DEFINE A == Arrivals(k, a, r, b, s, n)
             B == Arrivals(k, a, r, b, s, m)
  <1>1. A \subseteq B /\ B \subseteq 1 .. m
    BY DEF Arrivals
  <1>2. IsFiniteSet(B)
    BY <1>1, FS_Interval, FS_Subset
  <1> HIDE DEF A, B
  <1>3. Cardinality(A) <= Cardinality(B)
    BY <1>1, <1>2, FS_Subset
  <1> QED BY <1>3 DEF Count, A, B

LEMMA LeastNatural ==
    ASSUME NEW S \in SUBSET Nat, NEW n \in S
    PROVE  \E m \in S : \A i \in S : m <= i
  <1> DEFINE R == {z \in Nat \X Nat : z[1] < z[2]}
  <1>1. IsWellFoundedOn(R, Nat)
    BY NatLessThanWellFounded DEF OpToRel
  <1>2. PICK m \in S : \A i \in S : ~ (<<i, m>> \in R)
    <2> HIDE DEF R
    <2>1. S \subseteq Nat /\ S # {}
      OBVIOUS
    <2> QED BY <1>1, <2>1, WFMin
  <1>3. ASSUME NEW i \in S PROVE m <= i
    <2>1. ~(<<i, m>> \in R) /\ i \in Nat /\ m \in Nat
      BY <1>2
    <2> QED BY <2>1
  <1> QED BY <1>3

\* A program that arrives more than u times has a step that does so for use u.
LEMMA ArrivalFor ==
    ASSUME NEW k, NEW a, NEW r, NEW b, NEW s, NEW n \in Nat, NEW u \in Nat,
           Count(k, a, r, b, s, n) > u
    PROVE  \E j \in 1 .. n : /\ <<r, s>> \in Arrives(Acts(k, a)[j], b)
                             /\ Count(k, a, r, b, s, j - 1) = u
  <1> DEFINE S == {i \in Nat : Count(k, a, r, b, s, i) > u}
  <1>1. S \in SUBSET Nat /\ n \in S
    OBVIOUS
  <1>2. PICK j \in S : \A i \in S : j <= i
    <2> HIDE DEF S
    <2> QED BY <1>1, LeastNatural
  <1>3. j \in Nat /\ j <= n /\ Count(k, a, r, b, s, j) > u
    BY <1>1, <1>2
  <1> HIDE DEF S
  <1>4. Count(k, a, r, b, s, 0) = 0
    BY CountZero
  <1>5. PICK i \in Nat : j = i + 1
    <2>1. j # 0
      BY <1>3, <1>4
    <2>2. j - 1 \in Nat /\ j = j - 1 + 1
      BY <1>3, <2>1
    <2> QED BY <2>2
  <1>6. Count(k, a, r, b, s, i) \in Nat
    BY CountType
  <1>7. Count(k, a, r, b, s, i) <= u
    <2>1. i \notin S
      BY <1>2, <1>5
    <2> QED BY <1>6, <2>1 DEF S
  <1>8. Count(k, a, r, b, s, i + 1) =
          IF <<r, s>> \in Arrives(Acts(k, a)[i + 1], b)
          THEN Count(k, a, r, b, s, i) + 1 ELSE Count(k, a, r, b, s, i)
    BY CountNext
  <1>9. <<r, s>> \in Arrives(Acts(k, a)[j], b) /\ Count(k, a, r, b, s, i) = u
    BY <1>3, <1>5, <1>6, <1>7, <1>8
  <1> QED BY <1>3, <1>5, <1>9

-----------------------------------------------------------------------------
(***************************************************************************)
(* Agents and events.                                                      *)
(***************************************************************************)
LEMMA AgentShape ==
    ASSUME NEW k, NEW m \in Agents(k)
    PROVE  m[1] \in Warps(k) /\ m[2] \in {"warp", "tensor"} /\ m = <<m[1], m[2]>>
  <1>1. m \in Warps(k) \X {"warp", "tensor"}
    BY DEF Agents
  <1> HIDE DEF Warps
  <1> QED BY <1>1

LEMMA WarpAgents ==
    ASSUME NEW k, NEW w \in Warps(k)
    PROVE  /\ <<w, "warp">> \in Agents(k) /\ Acts(k, <<w, "warp">>) = k.todo[w]
           /\ <<w, "tensor">> \in Agents(k) /\ Acts(k, <<w, "tensor">>) = k.handed[w]
  BY DEF Agents, Acts

LEMMA EventShape ==
    ASSUME NEW k, NEW e \in Events(k)
    PROVE  e[1] \in Agents(k) /\ e[2] \in 1 .. Len(Acts(k, e[1])) /\ e = <<e[1], e[2]>>
  <1>1. PICK a \in Agents(k) : e \in {a} \X (1 .. Len(Acts(k, a)))
    BY DEF Events
  <1> QED BY <1>1

LEMMA EventOf ==
    ASSUME NEW k, NEW a \in Agents(k), NEW i \in 1 .. Len(Acts(k, a))
    PROVE  /\ <<a, i>> \in Events(k) /\ <<a, i>>[1] = a /\ <<a, i>>[2] = i
           /\ Act(k, <<a, i>>) = Acts(k, a)[i]
  <1>1. <<a, i>> \in {a} \X (1 .. Len(Acts(k, a)))
    OBVIOUS
  <1>2. <<a, i>> \in Events(k)
    BY <1>1 DEF Events
  <1> QED BY <1>2 DEF Act

LEMMA MembersFinite ==
    ASSUME NEW k, NEW b, NEW r, NEW s, IsFiniteSet(Warps(k))
    PROVE  IsFiniteSet(Members(k, r, b, s)) /\ Members(k, r, b, s) \subseteq Agents(k)
  <1>1. IsFiniteSet({"warp", "tensor"})
    <2>1. IsFiniteSet({}) /\ IsFiniteSet({} \cup {"tensor"})
      BY FS_EmptySet, FS_AddElement
    <2>2. IsFiniteSet(({} \cup {"tensor"}) \cup {"warp"})
      BY <2>1, FS_AddElement
    <2>3. ({} \cup {"tensor"}) \cup {"warp"} = {"warp", "tensor"}
      OBVIOUS
    <2> QED BY <2>2, <2>3
  <1>2. IsFiniteSet(Agents(k))
    BY <1>1, FS_Product DEF Agents
  <1>3. Members(k, r, b, s) \subseteq Agents(k)
    BY DEF Members
  <1> QED BY <1>2, <1>3, FS_Subset

LEMMA ArriverIsMember ==
    ASSUME NEW k, NEW e \in Events(k), NEW r, NEW b, NEW s, ArrivesAt(k, e, r, b, s)
    PROVE  e[1] \in Members(k, r, b, s)
  <1>1. e[1] \in Agents(k) /\ e[2] \in 1 .. Len(Acts(k, e[1]))
    BY EventShape
  <1>2. e[2] \in Arrivals(k, e[1], r, b, s, Len(Acts(k, e[1])))
    BY <1>1 DEF Arrivals, ArrivesAt, Act
  <1> QED BY <1>1, <1>2 DEF Members

-----------------------------------------------------------------------------
(***************************************************************************)
(* The inductive invariant.                                                *)
(***************************************************************************)
Bar(r, b, s) == IF b = "full" THEN ring[r].full[s] ELSE ring[r].empty[s]

\* How many steps an agent has performed, and the arrivals among them.
Done(a) == IF a[2] = "warp" THEN pc[a[1]] - 1 ELSE tc[a[1]]
Performed(e) == e[2] <= Done(e[1])
Counts(k, r, b, s) ==
    [m \in Members(k, r, b, s) |-> Count(k, m, r, b, s, Done(m))]

Counters(k) == pc \in [Warps(k) -> Nat \ {0}] /\ tc \in [Warps(k) -> Nat]

InProgram(k) == \A a \in Agents(k) : Done(a) \in Nat /\ Done(a) <= Len(Acts(k, a))

Shaped(k) == \A r \in Rings(k) : /\ DOMAIN ring[r].full = StagesOf(k, r)
                                 /\ DOMAIN ring[r].empty = StagesOf(k, r)

Tallied(k) ==
    \A r \in Rings(k), b \in Sides : Needs(k, r, b) > 0 => \A s \in StagesOf(k, r) :
        Tally(Members(k, r, b, s), Needs(k, r, b), Counts(k, r, b, s), Bar(r, b, s))

\* The run keeps to the order.
Closed(k, order) == \A e \in Events(k) : Performed(e) =>
    \A a \in Agents(k) : order.clock[e][a] <= Done(a)

BarInv(k, order) == InProgram(k) /\ Shaped(k) /\ Tallied(k) /\ Closed(k, order)

\* What is in part p of a stage is what was written there last, and it has
\* landed if all that was written there is settled.
CellShaped(k) == \A r \in Rings(k) :
    /\ DOMAIN cell[r] = StagesOf(k, r)
    /\ \A s \in StagesOf(k, r), p \in Parts :
          /\ cell[r][s][p].landed \in BOOLEAN
          /\ cell[r][s][p] = [x |-> cell[r][s][p].x, landed |-> cell[r][s][p].landed]

WrittenLast(k, order, r, s, p, d, x) ==
    /\ WrittenBy(k, d, r, s, p) = {x} /\ Performed(d)
    /\ \A c \in Writers(k, r, s, p) : Performed(c) =>
          Precedes(order, c, d) \/ WrittenBy(k, c, r, s, p) = {x}

Settled(k, order, r, s, p, c) ==
    \/ PutBy(k, c, r, s, p) # {}
    \/ \E g \in Events(k) : /\ Performed(g) /\ Precedes(order, c, g)
                            /\ LandsBy(k, g, r, s, p) \/ WrittenBy(k, g, r, s, p) # {}

StoredAt(k, order, r, s, p) ==
    /\ cell[r][s][p].x # Nothing =>
          \E c \in Writers(k, r, s, p) :
              Performed(c) /\ cell[r][s][p].x \in WrittenBy(k, c, r, s, p)
    /\ \A d \in Writers(k, r, s, p) : \A x :
          WrittenLast(k, order, r, s, p, d, x) => cell[r][s][p].x = x
    /\ (\A c \in Writers(k, r, s, p) : Performed(c) => Settled(k, order, r, s, p, c))
          => cell[r][s][p].landed

Stored(k, order) ==
    \A r \in Rings(k) : \A s \in StagesOf(k, r), p \in Parts : StoredAt(k, order, r, s, p)

DataInv(k, order) == CellShaped(k) /\ Stored(k, order)

Inv ==
    \A k \in Running :
        /\ Counters(k)
        /\ \A order : Sound(k, order) =>
              BarInv(k, order) /\ (ChangesSeen(k) => DataInv(k, order))

-----------------------------------------------------------------------------
(***************************************************************************)
(* Waiting.                                                                *)
(***************************************************************************)
LEMMA BarPhase ==
    ASSUME NEW k, Tallied(k), NEW r \in Rings(k), NEW b \in Sides, Needs(k, r, b) > 0,
           NEW s \in StagesOf(k, r)
    PROVE  /\ Tally(Members(k, r, b, s), Needs(k, r, b), Counts(k, r, b, s), Bar(r, b, s))
           /\ Bar(r, b, s).phase \in Nat
  BY DEF Tallied, Tally, MbarType

\* The phase for which every member has arrived is complete.
LEMMA ArrivedPhase ==
    ASSUME NEW k, WellFormed(k), InProgram(k), Tallied(k), NEW r \in Rings(k),
           NEW b \in Sides, Needs(k, r, b) > 0, NEW s \in StagesOf(k, r), NEW n \in Nat,
           NEW done, \A m \in Members(k, r, b, s) : done[m] \in Nat /\ done[m] <= Done(m),
           Arrived(k, r, b, s, n, done)
    PROVE  Bar(r, b, s).phase >= n
  <1> DEFINE M == Members(k, r, b, s)
             C == Counts(k, r, b, s)
  <1>1. Tally(M, Needs(k, r, b), C, Bar(r, b, s))
    BY BarPhase
  <1>2. IsFiniteSet(M) /\ M \subseteq Agents(k) /\ Needs(k, r, b) \in Nat
    BY MembersFinite DEF WellFormed
  <1>3. M # {} => Cardinality(M) = Needs(k, r, b)
    BY DEF WellFormed
  <1>4. ASSUME NEW m \in M PROVE C[m] >= n
    <2>1. C[m] = Count(k, m, r, b, s, Done(m))
      BY DEF Counts
    <2>2. Count(k, m, r, b, s, done[m]) >= n
      BY DEF Arrived, Count
    <2>3. Done(m) \in Nat /\ done[m] \in Nat /\ done[m] <= Done(m)
      BY <1>2 DEF InProgram
    <2>4. Count(k, m, r, b, s, done[m]) <= Count(k, m, r, b, s, Done(m))
      BY <2>3, CountMonotone
    <2>5. Count(k, m, r, b, s, done[m]) \in Nat /\ Count(k, m, r, b, s, Done(m)) \in Nat
      BY <2>3, CountType
    <2> QED BY <2>1, <2>2, <2>4, <2>5
  <1>5. M = {} => n = 0
    BY DEF Arrived
  <1> HIDE DEF M, C
  <1> QED BY <1>1, <1>2, <1>3, <1>4, <1>5, PhaseReached

\* All arrivals for a phase that is complete are behind.
LEMMA PhaseArrived ==
    ASSUME NEW k, WellFormed(k), InProgram(k), Tallied(k), NEW r \in Rings(k),
           NEW b \in Sides, Needs(k, r, b) > 0, NEW s \in StagesOf(k, r),
           NEW d \in Events(k), ArrivesAt(k, d, r, b, s),
           Bar(r, b, s).phase >= UseAt(k, d, r, b, s) + 1
    PROVE  Performed(d)
  <1> SUFFICES ASSUME ~Performed(d) PROVE FALSE
    OBVIOUS
  <1> DEFINE a == d[1]
  <1>1. a \in Agents(k) /\ d[2] \in 1 .. Len(Acts(k, a))
    BY EventShape
  <1>2. Len(Acts(k, a)) \in Nat /\ Done(a) \in Nat
    BY <1>1 DEF WellFormed, InProgram
  <1>3. d[2] - 1 \in Nat /\ Done(a) <= d[2] - 1
    BY <1>1, <1>2 DEF Performed
  <1>4. Count(k, a, r, b, s, Done(a)) <= Count(k, a, r, b, s, d[2] - 1)
    BY <1>2, <1>3, CountMonotone
  <1>5. Count(k, a, r, b, s, d[2] - 1) = UseAt(k, d, r, b, s)
    BY DEF UseAt, Count
  <1>6. a \in Members(k, r, b, s)
    BY ArriverIsMember
  <1>7. /\ Bar(r, b, s).phase \in Nat
        /\ Count(k, a, r, b, s, Done(a)) \in Nat
        /\ Count(k, a, r, b, s, Done(a)) >= Bar(r, b, s).phase
    <2>1. Counts(k, r, b, s)[a] = Count(k, a, r, b, s, Done(a))
      BY <1>6 DEF Counts
    <2> HIDE DEF a
    <2> QED BY <1>6, <2>1, BarPhase, PhaseMade
  <1>8. Count(k, a, r, b, s, d[2] - 1) \in Nat
    BY <1>3, CountType
  <1> QED BY <1>4, <1>5, <1>7, <1>8

\* The phases that a warp awaits, as the barriers show them.
LEMMA AwaitShape ==
    ASSUME NEW k, WellFormed(k), NEW e \in Events(k), NEW g \in Awaits(k, e)
    PROVE  /\ g[1] \in Rings(k) /\ g[2] \in Sides /\ g[3] \in StagesOf(k, g[1])
           /\ g[4] \in Nat /\ Needs(k, g[1], g[2]) > 0 /\ e[1][2] = "warp"
  <1>1. e[1][2] = "warp"
    BY DEF Awaits
  <1>2. ASSUME NEW o, o \in Act(k, e).acq \/ o \in Act(k, e).wait
        PROVE  /\ o[1] \in Rings(k)
               /\ o[2] % k.shape[o[1]].stages \in StagesOf(k, o[1])
               /\ o[2] \div k.shape[o[1]].stages \in Nat
    <2>1. o[1] \in Rings(k) /\ o[2] \in Nat
      BY <1>2 DEF WellFormed
    <2>2. k.shape[o[1]].stages \in Nat \ {0}
      BY <2>1 DEF WellFormed
    <2> QED BY <2>1, <2>2, TurnSplits DEF StagesOf
  <1>3. CASE \E o \in Act(k, e).acq :
                g = <<o[1], "empty", o[2] % k.shape[o[1]].stages, o[2] \div k.shape[o[1]].stages>>
    <2>1. PICK o \in Act(k, e).acq :
             g = <<o[1], "empty", o[2] % k.shape[o[1]].stages, o[2] \div k.shape[o[1]].stages>>
      BY <1>3
    <2>2. Needs(k, o[1], "empty") > 0
      BY DEF WellFormed
    <2> QED BY <1>1, <1>2, <2>1, <2>2 DEF Sides
  <1>4. CASE \E o \in Act(k, e).wait :
                g = <<o[1], "full", o[2] % k.shape[o[1]].stages, o[2] \div k.shape[o[1]].stages + 1>>
    <2>1. PICK o \in Act(k, e).wait :
             g = <<o[1], "full", o[2] % k.shape[o[1]].stages, o[2] \div k.shape[o[1]].stages + 1>>
      BY <1>4
    <2>2. Needs(k, o[1], "full") > 0
      BY DEF WellFormed
    <2> QED BY <1>1, <1>2, <2>1, <2>2 DEF Sides
  <1> QED BY <1>3, <1>4 DEF Awaits

\* The parity of a barrier tells that the phase is complete if the one before
\* it is; and it does tell it while no other phase has been completed.
LEMMA ParityAwaited ==
    ASSUME NEW k, WellFormed(k), Tallied(k), NEW e \in Events(k), e[1][2] = "warp",
           NEW g \in Awaits(k, e)
    PROVE  /\ Ready(k, Act(k, e)) /\ (g[4] = 0 \/ Bar(g[1], g[2], g[3]).phase >= g[4] - 1)
                 => Bar(g[1], g[2], g[3]).phase >= g[4]
  <1>1. /\ g[1] \in Rings(k) /\ g[2] \in Sides /\ g[3] \in StagesOf(k, g[1])
        /\ g[4] \in Nat /\ Needs(k, g[1], g[2]) > 0
    BY AwaitShape
  <1>2. Bar(g[1], g[2], g[3]).phase \in Nat
    BY <1>1, BarPhase
  <1> SUFFICES ASSUME Ready(k, Act(k, e)),
                      g[4] = 0 \/ Bar(g[1], g[2], g[3]).phase >= g[4] - 1
               PROVE  Bar(g[1], g[2], g[3]).phase >= g[4]
    OBVIOUS
  <1>3. CASE \E o \in Act(k, e).acq :
                g = <<o[1], "empty", o[2] % k.shape[o[1]].stages, o[2] \div k.shape[o[1]].stages>>
    <2>1. PICK o \in Act(k, e).acq :
             g = <<o[1], "empty", o[2] % k.shape[o[1]].stages, o[2] \div k.shape[o[1]].stages>>
      BY <1>3
    <2>2. ring[g[1]].empty[g[3]].phase % 2 # 1 - (g[4] % 2)
      BY <2>1 DEF Ready, CanAcquire, MbarWaitable, StageOf, PhaseOf
    <2>3. Bar(g[1], g[2], g[3]).phase % 2 # 1 - (g[4] % 2)
      BY <2>1, <2>2 DEF Bar
    <2> QED BY <1>1, <1>2, <2>3, ParityTells
  <1>4. CASE \E o \in Act(k, e).wait :
                g = <<o[1], "full", o[2] % k.shape[o[1]].stages, o[2] \div k.shape[o[1]].stages + 1>>
    <2>1. PICK o \in Act(k, e).wait :
             g = <<o[1], "full", o[2] % k.shape[o[1]].stages, o[2] \div k.shape[o[1]].stages + 1>>
      BY <1>4
    <2> DEFINE u == o[2] \div k.shape[o[1]].stages
    <2>2. ring[g[1]].full[g[3]].phase % 2 # u % 2
      BY <2>1 DEF Ready, CanConsume, MbarWaitable, StageOf, PhaseOf
    <2>3. Bar(g[1], g[2], g[3]).phase % 2 # u % 2
      BY <2>1, <2>2 DEF Bar
    <2>4. g[4] = u + 1 /\ u \in Nat
      <3>1. o[1] \in Rings(k) /\ o[2] \in Nat
        BY DEF WellFormed
      <3>2. k.shape[o[1]].stages \in Nat \ {0}
        BY <3>1 DEF WellFormed
      <3> QED BY <2>1, <3>1, <3>2, TurnSplits
    <2> HIDE DEF u
    <2>5. Bar(g[1], g[2], g[3]).phase >= u
      BY <1>2, <2>4
    <2> QED BY <1>2, <2>3, <2>4, <2>5, ParityTellsWaiter
  <1> QED BY <1>3, <1>4 DEF Awaits

-----------------------------------------------------------------------------
(***************************************************************************)
(* Steps.                                                                  *)
(***************************************************************************)
\* The agent that performs a step, and nobody else, has one more behind it.
Advances(k, a) ==
    /\ Done(a)' = Done(a) + 1
    /\ \A m \in Agents(k) \ {a} : Done(m)' = Done(m)

\* An agent can perform its next step, and does.
Able(k, a) == IF a[2] = "warp" THEN CanStep(k, a[1]) ELSE CanExecute(k, a[1])

Performs(k, a) == /\ a \in Agents(k)
                  /\ Able(k, a)
                  /\ Advances(k, a)
                  /\ Perform(k, a[1], Acts(k, a)[Done(a) + 1])
                  /\ Counters(k)'
                  /\ Running = {k} /\ Running' = {k}

LEMMA StepPerforms ==
    ASSUME NEW k \in Running, Counters(k), NEW w \in Warps(k), Step(k, w)
    PROVE  Performs(k, <<w, "warp">>)
  <1> DEFINE a == <<w, "warp">>
  <1>1. a \in Agents(k) /\ a[1] = w /\ a[2] = "warp" /\ Acts(k, a) = k.todo[w]
    BY DEF Agents, Acts
  <1>2. pc[w] \in Nat \ {0} /\ Done(a) = pc[w] - 1
    BY <1>1 DEF Counters, Done
  <1>3. Running' = {k} /\ Running = {k} /\ pc' = [pc EXCEPT ![w] = pc[w] + 1] /\ tc' = tc
    BY DEF Step, Running
  <1>4. Counters(k)'
    BY <1>2, <1>3 DEF Counters, Warps
  <1>5. Advances(k, a)
    <2>1. Done(a)' = Done(a) + 1
      BY <1>1, <1>2, <1>3 DEF Done, Counters
    <2>2. ASSUME NEW m \in Agents(k) \ {a} PROVE Done(m)' = Done(m)
      <3>1. m = <<m[1], m[2]>> /\ m[1] \in Warps(k)
        BY AgentShape
      <3>2. CASE m[2] = "warp"
        <4>1. m[1] # w
          BY <3>1, <3>2
        <4>2. pc'[m[1]] = pc[m[1]]
          BY <1>3, <3>1, <4>1 DEF Counters
        <4> QED BY <3>2, <4>2 DEF Done
      <3>3. CASE m[2] # "warp"
        BY <1>3, <3>3 DEF Done
      <3> QED BY <3>2, <3>3
    <2> QED BY <2>1, <2>2 DEF Advances
  <1>6. Able(k, a)
    BY <1>1 DEF Able, Step
  <1>7. Perform(k, a[1], Acts(k, a)[Done(a) + 1])
    <2>1. Done(a) + 1 = pc[w]
      BY <1>2
    <2> QED BY <1>1, <2>1 DEF Step, Todo
  <1> QED BY <1>1, <1>3, <1>4, <1>5, <1>6, <1>7 DEF Performs

LEMMA ExecutePerforms ==
    ASSUME NEW k \in Running, Counters(k), NEW w \in Warps(k), Execute(k, w)
    PROVE  Performs(k, <<w, "tensor">>)
  <1> DEFINE a == <<w, "tensor">>
  <1>1. a \in Agents(k) /\ a[1] = w /\ a[2] = "tensor" /\ Acts(k, a) = k.handed[w]
    BY DEF Agents, Acts
  <1>2. tc[w] \in Nat /\ Done(a) = tc[w]
    BY <1>1 DEF Counters, Done
  <1>3. Running' = {k} /\ Running = {k} /\ tc' = [tc EXCEPT ![w] = tc[w] + 1] /\ pc' = pc
    BY DEF Execute, Running
  <1>4. Counters(k)'
    BY <1>2, <1>3 DEF Counters, Warps
  <1>5. Advances(k, a)
    <2>1. Done(a)' = Done(a) + 1
      BY <1>1, <1>2, <1>3 DEF Done, Counters
    <2>2. ASSUME NEW m \in Agents(k) \ {a} PROVE Done(m)' = Done(m)
      <3>1. m = <<m[1], m[2]>> /\ m[1] \in Warps(k) /\ m[2] \in {"warp", "tensor"}
        BY AgentShape
      <3>2. CASE m[2] = "tensor"
        <4>1. m[1] # w
          BY <3>1, <3>2
        <4>2. tc'[m[1]] = tc[m[1]]
          BY <1>3, <3>1, <4>1 DEF Counters
        <4> QED BY <3>2, <4>2 DEF Done
      <3>3. CASE m[2] = "warp"
        BY <1>3, <3>3 DEF Done
      <3> QED BY <3>1, <3>2, <3>3
    <2> QED BY <2>1, <2>2 DEF Advances
  <1>6. Able(k, a)
    BY <1>1 DEF Able, Execute
  <1>7. Perform(k, a[1], Acts(k, a)[Done(a) + 1])
    BY <1>1, <1>2 DEF Execute, Handed
  <1> QED BY <1>1, <1>3, <1>4, <1>5, <1>6, <1>7 DEF Performs

\* The next step of an agent.
NextOf(a) == <<a, Done(a) + 1>>

\* What directly precedes a step that can be performed has been performed; and
\* so has all that comes before it.
LEMMA AbleOrdered ==
    ASSUME NEW k, NEW order, Sound(k, order), Counters(k), BarInv(k, order),
           NEW a \in Agents(k), Able(k, a)
    PROVE  /\ NextOf(a) \in Events(k) /\ ~Performed(NextOf(a))
           /\ \A c \in Agents(k) : /\ order.clock[NextOf(a)][c] \in Nat
                                   /\ order.clock[NextOf(a)][c] <= Done(c)
  <1> DEFINE e == NextOf(a)
             w == a[1]
  <1>1. /\ WellFormed(k) /\ HappensBefore(k, order) /\ InTurn(k, order)
        /\ InProgram(k) /\ Tallied(k) /\ Closed(k, order)
    BY DEF Sound, BarInv
  <1>2. w \in Warps(k) /\ a[2] \in {"warp", "tensor"} /\ pc[w] \in Nat \ {0} /\ tc[w] \in Nat
    BY AgentShape DEF Counters
  <1>3. Done(a) \in Nat /\ Len(Acts(k, a)) \in Nat
    BY <1>1 DEF InProgram, WellFormed
  <1>4. Done(a) + 1 \in 1 .. Len(Acts(k, a))
    <2>1. CASE a[2] = "warp"
      BY <1>2, <1>3, <2>1 DEF Able, CanStep, Done, Acts
    <2>2. CASE a[2] = "tensor"
      BY <1>2, <1>3, <2>2 DEF Able, CanExecute, Done, Acts
    <2> QED BY <1>2, <2>1, <2>2
  <1>5. e \in Events(k) /\ e[1] = a /\ e[2] = Done(a) + 1
    BY <1>4, EventOf DEF NextOf
  <1>6. ~Performed(e)
    BY <1>3, <1>5 DEF Performed
  <1> HIDE DEF e
  <1>7. ASSUME NEW d \in Direct(k, e) PROVE Performed(d) /\ d \in Events(k)
    <2>1. d \in Events(k)
      BY DEF Direct
    <2>2. CASE d = <<e[1], e[2] - 1>>
      <3>1. d[1] = e[1] /\ d[2] = e[2] - 1
        BY <2>2
      <3>2. d[2] <= Done(d[1])
        BY <1>3, <1>5, <3>1
      <3> QED BY <2>1, <3>2 DEF Performed
    <2>3. CASE e[1][2] = "tensor" /\ d = << <<e[1][1], "warp">>, Act(k, e).step>>
      <3>1. Act(k, e) = k.handed[w][tc[w] + 1] /\ a[2] = "tensor"
        BY <1>5, <2>3 DEF Act, Acts, Done
      <3>2. Act(k, e).step < pc[w] /\ Act(k, e).step \in Nat
        BY <1>1, <1>5, <2>3, <3>1 DEF Able, CanExecute, Handed, WellFormed
      <3>3. Done(d[1]) = pc[w] - 1
        BY <1>5, <2>3 DEF Done
      <3> QED BY <1>2, <2>1, <2>3, <3>2, <3>3 DEF Performed
    <2>4. CASE \E g \in Awaits(k, e) : /\ ArrivesAt(k, d, g[1], g[2], g[3])
                                       /\ UseAt(k, d, g[1], g[2], g[3]) + 1 = g[4]
      <3>1. PICK g \in Awaits(k, e) : /\ ArrivesAt(k, d, g[1], g[2], g[3])
                                      /\ UseAt(k, d, g[1], g[2], g[3]) + 1 = g[4]
        BY <2>4
      <3>2. /\ g[1] \in Rings(k) /\ g[2] \in Sides /\ g[3] \in StagesOf(k, g[1])
            /\ g[4] \in Nat /\ Needs(k, g[1], g[2]) > 0 /\ e[1][2] = "warp"
        BY <1>1, <1>5, AwaitShape
      <3>3. Act(k, e) = k.todo[w][pc[w]]
        BY <1>2, <1>5, <3>2 DEF Act, Acts, Done
      <3>4. Ready(k, Act(k, e))
        BY <1>5, <3>2, <3>3 DEF Able, CanStep, Todo
      <3>5. g[4] = 0 \/ Bar(g[1], g[2], g[3]).phase >= g[4] - 1
        <4>1. CASE g[4] # 0
          <5>1. Arrived(k, g[1], g[2], g[3], g[4] - 1, Known(k, order, e))
            BY <1>1, <1>5, <4>1 DEF InTurn
          <5>2. ASSUME NEW m \in Agents(k)
                PROVE  Known(k, order, e)[m] \in Nat /\ Known(k, order, e)[m] <= Done(m)
            <6>1. CASE m = a
              BY <1>3, <1>5, <6>1 DEF Known
            <6>2. CASE m # a /\ e[2] = 1
              BY <1>1, <1>5, <6>2 DEF Known, InProgram
            <6>3. CASE m # a /\ e[2] # 1
              <7>1. Done(a) \in 1 .. Len(Acts(k, a)) /\ e[2] - 1 = Done(a)
                BY <1>3, <1>4, <1>5, <6>3
              <7>2. <<a, Done(a)>> \in Events(k) /\ Performed(<<a, Done(a)>>)
                BY <1>3, <7>1, EventOf DEF Performed
              <7>3. Known(k, order, e)[m] = order.clock[<<a, Done(a)>>][m]
                BY <1>5, <6>3, <7>1 DEF Known
              <7> QED BY <1>1, <7>2, <7>3 DEF Closed, HappensBefore
            <6> QED BY <6>1, <6>2, <6>3
          <5>3. g[4] - 1 \in Nat
            BY <3>2, <4>1
          <5>4. Members(k, g[1], g[2], g[3]) \subseteq Agents(k)
            BY DEF Members
          <5> QED BY <1>1, <3>2, <5>1, <5>2, <5>3, <5>4, ArrivedPhase
        <4> QED BY <4>1
      <3>6. Bar(g[1], g[2], g[3]).phase >= g[4]
        BY <1>1, <1>5, <3>2, <3>4, <3>5, ParityAwaited
      <3> QED BY <1>1, <2>1, <3>1, <3>2, <3>6, PhaseArrived
    <2> QED BY <2>1, <2>2, <2>3, <2>4 DEF Direct
  <1>8. ASSUME NEW c \in Agents(k)
        PROVE  order.clock[e][c] \in Nat /\ order.clock[e][c] <= Done(c)
    <2>1. order.clock[e][c] \in Nat /\ Done(c) \in Nat
      BY <1>1, <1>5 DEF HappensBefore, InProgram
    <2>2. CASE order.clock[e][c] > 0
      <3>1. PICK d \in Direct(k, e) : \/ d[1] = c /\ order.clock[e][c] <= d[2]
                                      \/ order.clock[e][c] <= order.clock[d][c]
        BY <1>1, <1>5, <2>2 DEF HappensBefore
      <3>2. Performed(d) /\ d \in Events(k)
        BY <1>7
      <3>3. d[2] \in Nat /\ order.clock[d][c] \in Nat
        <4>1. Len(Acts(k, d[1])) \in Nat /\ d[2] \in 1 .. Len(Acts(k, d[1]))
          BY <1>1, <3>2, EventShape DEF WellFormed
        <4> QED BY <1>1, <3>2, <4>1 DEF HappensBefore
      <3>4. order.clock[d][c] <= Done(c)
        BY <1>1, <3>2 DEF Closed
      <3> QED BY <2>1, <3>1, <3>2, <3>3, <3>4 DEF Performed
    <2> QED BY <2>1, <2>2
  <1> QED BY <1>5, <1>6, <1>8 DEF e

-----------------------------------------------------------------------------
(***************************************************************************)
(* A step keeps the run in order.                                          *)
(***************************************************************************)
\* What a step does to a barrier.
LEMMA BarAfter ==
    ASSUME NEW k, WellFormed(k), Shaped(k), NEW e \in Events(k),
           Perform(k, e[1][1], Act(k, e)),
           NEW r \in Rings(k), NEW b \in Sides, NEW s \in StagesOf(k, r)
    PROVE  /\ DOMAIN ring'[r].full = StagesOf(k, r) /\ DOMAIN ring'[r].empty = StagesOf(k, r)
           /\ Bar(r, b, s)' = IF ArrivesAt(k, e, r, b, s)
                              THEN MbarArrive(Bar(r, b, s), Needs(k, r, b))
                              ELSE Bar(r, b, s)
  <1> DEFINE do == Act(k, e)
  <1>1. /\ do.renew = {}
        /\ ArrivesAt(k, e, r, b, s) => r \in do.signals
        /\ b \in {"full", "empty"}
        /\ DOMAIN ring[r].full = StagesOf(k, r) /\ DOMAIN ring[r].empty = StagesOf(k, r)
    BY DEF WellFormed, ArrivesAt, Sides, Shaped
  <1>2. CASE r \in do.signals
    <2>1. ring'[r] = Signalled(k, do, r)
      BY <1>1, <1>2 DEF Perform
    <2>2. /\ ring'[r].full = [x \in DOMAIN ring[r].full |->
                 IF <<r, x>> \in do.com THEN MbarArrive(ring[r].full[x], k.shape[r].fulls)
                                        ELSE ring[r].full[x]]
          /\ ring'[r].empty = [x \in DOMAIN ring[r].empty |->
                 IF <<r, x>> \in do.rel THEN MbarArrive(ring[r].empty[x], k.shape[r].empties)
                                        ELSE ring[r].empty[x]]
      BY <2>1 DEF Signalled
    <2> HIDE DEF do
    <2>3. CASE b = "full"
      <3>1. ring'[r].full[s] = IF <<r, s>> \in do.com
                               THEN MbarArrive(ring[r].full[s], k.shape[r].fulls)
                               ELSE ring[r].full[s]
        BY <1>1, <2>2
      <3>2. (ArrivesAt(k, e, r, b, s) <=> <<r, s>> \in do.com) /\ Needs(k, r, b) = k.shape[r].fulls
        BY <2>3 DEF Arrives, ArrivesAt, Needs, do
      <3>3. Bar(r, b, s)' = ring'[r].full[s] /\ Bar(r, b, s) = ring[r].full[s]
        BY <2>3 DEF Bar
      <3> QED BY <1>1, <2>2, <3>1, <3>2, <3>3
    <2>4. CASE b = "empty"
      <3>1. ring'[r].empty[s] = IF <<r, s>> \in do.rel
                                THEN MbarArrive(ring[r].empty[s], k.shape[r].empties)
                                ELSE ring[r].empty[s]
        BY <1>1, <2>2
      <3>2. (ArrivesAt(k, e, r, b, s) <=> <<r, s>> \in do.rel) /\ Needs(k, r, b) = k.shape[r].empties
        BY <2>4 DEF Arrives, ArrivesAt, Needs, do
      <3>3. Bar(r, b, s)' = ring'[r].empty[s] /\ Bar(r, b, s) = ring[r].empty[s]
        BY <2>4 DEF Bar
      <3> QED BY <1>1, <2>2, <3>1, <3>2, <3>3
    <2> QED BY <1>1, <2>3, <2>4
  <1>3. CASE r \notin do.signals
    <2>1. ring'[r] = ring[r] /\ ~ArrivesAt(k, e, r, b, s)
      BY <1>1, <1>3 DEF Perform
    <2>2. Bar(r, b, s)' = Bar(r, b, s)
      BY <2>1 DEF Bar
    <2> QED BY <1>1, <2>1, <2>2
  <1> QED BY <1>2, <1>3

\* The step is performed, and nothing that comes after it was before.
LEMMA PerformsNext ==
    ASSUME NEW k, NEW order, Sound(k, order), Counters(k), BarInv(k, order),
           NEW a, Performs(k, a), NEW d \in Events(k)
    PROVE  /\ Performed(d)' <=> Performed(d) \/ d = NextOf(a)
           /\ Performed(d)' => ~Precedes(order, NextOf(a), d)
  <1> DEFINE e == NextOf(a)
  <1>1. HappensBefore(k, order) /\ InProgram(k) /\ Closed(k, order)
    BY DEF Sound, BarInv
  <1>2. /\ a \in Agents(k) /\ Able(k, a)
        /\ Done(a)' = Done(a) + 1 /\ \A m \in Agents(k) \ {a} : Done(m)' = Done(m)
    BY DEF Performs, Advances
  <1>3. /\ e \in Events(k) /\ ~Performed(e)
        /\ \A c \in Agents(k) : order.clock[e][c] \in Nat /\ order.clock[e][c] <= Done(c)
    BY <1>2, AbleOrdered
  <1>4. e[1] = a /\ e[2] = Done(a) + 1 /\ Done(a) \in Nat
    BY <1>1, <1>2 DEF NextOf, InProgram
  <1>5. d[1] \in Agents(k) /\ d[2] \in 1 .. Len(Acts(k, d[1])) /\ d = <<d[1], d[2]>>
    BY EventShape
  <1>6. d[2] \in Nat
    BY <1>5 DEF Sound, WellFormed
  <1>7. Performed(d)' <=> d[2] <= Done(d[1])'
    BY DEF Performed
  <1>8. Performed(d)' <=> Performed(d) \/ d = e
    <2>1. CASE d[1] = a
      <3>1. d = e <=> d[2] = Done(a) + 1
        BY <1>4, <1>5, <2>1 DEF NextOf
      <3> QED BY <1>2, <1>4, <1>6, <1>7, <2>1, <3>1 DEF Performed
    <2>2. CASE d[1] # a
      BY <1>2, <1>4, <1>5, <1>7, <2>2 DEF Performed
    <2> QED BY <2>1, <2>2
  <1>9. ASSUME Performed(d)' PROVE ~Precedes(order, e, d)
    <2>1. order.clock[d][a] \in Nat /\ order.clock[d][a] <= Done(a)
      BY <1>1, <1>2, <1>3, <1>8, <1>9 DEF HappensBefore, Closed
    <2> HIDE DEF e
    <2> QED BY <1>4, <2>1 DEF Precedes
  <1> QED BY <1>8, <1>9

LEMMA PerformsBar ==
    ASSUME NEW k, NEW order, Sound(k, order), Counters(k), BarInv(k, order),
           NEW a, Performs(k, a)
    PROVE  BarInv(k, order)'
  <1> DEFINE e == NextOf(a)
  <1>1. /\ WellFormed(k) /\ HappensBefore(k, order) /\ InTurn(k, order)
        /\ InProgram(k) /\ Shaped(k) /\ Tallied(k) /\ Closed(k, order)
    BY DEF Sound, BarInv
  <1>2. /\ a \in Agents(k) /\ Able(k, a)
        /\ Done(a)' = Done(a) + 1 /\ \A m \in Agents(k) \ {a} : Done(m)' = Done(m)
    BY DEF Performs, Advances
  <1>3. /\ e \in Events(k) /\ ~Performed(e)
        /\ \A c \in Agents(k) : order.clock[e][c] \in Nat /\ order.clock[e][c] <= Done(c)
    BY <1>2, AbleOrdered
  <1>4. e[1] = a /\ e[2] = Done(a) + 1 /\ e[2] \in 1 .. Len(Acts(k, a))
    <2>1. e[1] = a /\ e[2] = Done(a) + 1
      BY DEF NextOf
    <2> QED BY <1>3, <2>1, EventShape
  <1>5. Perform(k, e[1][1], Act(k, e))
    BY <1>4 DEF Performs, Act
  <1> HIDE DEF e
  <1>6. \A m \in Agents(k) : Done(m) \in Nat /\ Len(Acts(k, m)) \in Nat
    BY <1>1 DEF InProgram, WellFormed
  <1>7. InProgram(k)'
    <2>1. ASSUME NEW m \in Agents(k) PROVE Done(m)' \in Nat /\ Done(m)' <= Len(Acts(k, m))
      <3>1. CASE m = a
        BY <1>2, <1>4, <1>6, <3>1
      <3>2. CASE m # a
        BY <1>1, <1>2, <3>2 DEF InProgram
      <3> QED BY <3>1, <3>2
    <2> QED BY <2>1 DEF InProgram, Agents, Acts, Warps
  <1>8. Shaped(k)'
    <2>1. ASSUME NEW r \in Rings(k)
          PROVE  DOMAIN ring'[r].full = StagesOf(k, r) /\ DOMAIN ring'[r].empty = StagesOf(k, r)
      <3>1. 0 \in StagesOf(k, r)
        BY <1>1 DEF WellFormed, StagesOf
      <3>2. "full" \in Sides
        BY DEF Sides
      <3> QED BY <1>1, <1>3, <1>5, <3>1, <3>2, BarAfter
    <2> QED BY <2>1 DEF Shaped, Rings, StagesOf
  <1>9. Tallied(k)'
    <2>1. ASSUME NEW r \in Rings(k), NEW b \in Sides, Needs(k, r, b) > 0, NEW s \in StagesOf(k, r)
          PROVE  Tally(Members(k, r, b, s), Needs(k, r, b), Counts(k, r, b, s)', Bar(r, b, s)')
      <3> DEFINE M == Members(k, r, b, s)
                 F == Needs(k, r, b)
                 made == Counts(k, r, b, s)
                 bar == Bar(r, b, s)
      <3>1. Tally(M, F, made, bar) /\ bar.phase \in Nat
        BY <1>1, <2>1, BarPhase
      <3>2. IsFiniteSet(M) /\ M \subseteq Agents(k) /\ F \in Nat \ {0}
        BY <1>1, <2>1, MembersFinite DEF WellFormed
      <3>3. PICK made2 : made2 = [m \in M |-> Count(k, m, r, b, s, Done(m)')]
        OBVIOUS
      <3>4. Counts(k, r, b, s)' = made2
        BY <3>3 DEF Counts, Members, Agents, Warps, Acts, Arrivals, Count
      <3>5. PICK bar2 : bar2 = IF ArrivesAt(k, e, r, b, s) THEN MbarArrive(bar, F) ELSE bar
        OBVIOUS
      <3>6. Bar(r, b, s)' = bar2
        BY <1>1, <1>3, <1>5, <3>5, BarAfter
      <3>7. \A m \in M : made[m] = Count(k, m, r, b, s, Done(m))
        BY DEF Counts
      <3>8. \A m \in M \ {a} : made2[m] = made[m]
        BY <1>2, <3>2, <3>3, <3>7
      <3>9. Count(k, a, r, b, s, Done(a) + 1) =
              IF ArrivesAt(k, e, r, b, s) THEN Count(k, a, r, b, s, Done(a)) + 1
                                          ELSE Count(k, a, r, b, s, Done(a))
        BY <1>2, <1>4, <1>6, CountNext DEF ArrivesAt, Act
      <3>10. CASE ArrivesAt(k, e, r, b, s)
        <4>1. a \in M
          BY <1>3, <1>4, <3>10, ArriverIsMember
        <4>2. made2[a] = made[a] + 1
          BY <1>2, <3>3, <3>7, <3>9, <3>10, <4>1
        <4>3. UseAt(k, e, r, b, s) = made[a]
          <5>1. e[2] - 1 = Done(a)
            BY <1>2, <1>4, <1>6
          <5> QED BY <1>4, <3>7, <4>1, <5>1 DEF UseAt, Count
        <4>4. bar.phase >= made[a]
          <5>1. Arrived(k, r, b, s, UseAt(k, e, r, b, s), order.clock[e])
            <6>1. <<r, s>> \in Arrives(Act(k, e), b)
              BY <3>10 DEF ArrivesAt
            <6>2. <<r, s>>[1] = r /\ <<r, s>>[2] = s
              OBVIOUS
            <6> QED BY <1>1, <1>3, <6>1, <6>2 DEF InTurn
          <5>2. \A m \in M : order.clock[e][m] \in Nat /\ order.clock[e][m] <= Done(m)
            BY <1>3, <3>2
          <5>3. made[a] \in Nat
            BY <1>2, <1>6, <3>7, <4>1, CountType
          <5> QED BY <1>1, <2>1, <4>1, <4>3, <5>1, <5>2, <5>3, ArrivedPhase
        <4>5. made[a] = bar.phase
          <5> HIDE DEF M, F, made, bar
          <5>1. made[a] \in Nat /\ made[a] >= bar.phase
            BY <3>1, <4>1, PhaseMade
          <5> QED BY <3>1, <4>4, <5>1
        <4>6. Cardinality(M) <= F
          BY <1>1, <3>2, <4>1 DEF WellFormed
        <4> HIDE DEF M, F, made, bar
        <4>7. Tally(M, F, made2, MbarArrive(bar, F))
          BY <3>1, <3>2, <3>8, <4>1, <4>2, <4>5, <4>6, TallyArrives
        <4> QED BY <3>4, <3>5, <3>6, <3>10, <4>7 DEF M, F
      <3>11. CASE ~ArrivesAt(k, e, r, b, s)
        <4>1. \A m \in M : made2[m] = made[m]
          BY <1>2, <3>3, <3>7, <3>8, <3>9, <3>11
        <4>2. made2 = made
          BY <3>3, <4>1 DEF Counts
        <4> QED BY <3>1, <3>4, <3>5, <3>6, <3>11, <4>2
      <3> QED BY <3>10, <3>11
    <2> QED BY <2>1 DEF Tallied, Members, Needs, StagesOf, Rings, Agents, Warps, Acts, Arrivals
  <1>10. Closed(k, order)'
    <2>1. ASSUME NEW d \in Events(k), Performed(d)', NEW c \in Agents(k)
          PROVE  order.clock[d][c] <= Done(c)'
      <3>1. Done(c) \in Nat /\ (Done(c)' = Done(c) \/ Done(c)' = Done(c) + 1)
        BY <1>2, <1>6
      <3>2. order.clock[d][c] \in Nat
        BY <1>1 DEF HappensBefore
      <3>3. order.clock[d][c] <= Done(c)
        <4>1. CASE d = e
          BY <1>3, <4>1
        <4>2. CASE d # e
          <5>1. Performed(d)
            BY <2>1, <4>2, PerformsNext DEF e
          <5> QED BY <1>1, <5>1 DEF Closed
        <4> QED BY <4>1, <4>2
      <3> QED BY <3>1, <3>2, <3>3
    <2> QED BY <2>1 DEF Closed, Events, Agents, Warps, Acts
  <1> QED BY <1>7, <1>8, <1>9, <1>10 DEF BarInv

\* What a step does to one part of a stage.
LEMMA CellAfter ==
    ASSUME NEW k, CellShaped(k), ChangesSeen(k), NEW e \in Events(k),
           Perform(k, e[1][1], Act(k, e)),
           NEW r \in Rings(k), NEW s \in StagesOf(k, r), NEW p \in Parts
    PROVE  /\ DOMAIN cell'[r] = StagesOf(k, r)
           /\ cell'[r][s][p].landed \in BOOLEAN
           /\ cell'[r][s][p] = [x |-> cell'[r][s][p].x, landed |-> cell'[r][s][p].landed]
           /\ WrittenBy(k, e, r, s, p) # {} => cell'[r][s][p].x \in WrittenBy(k, e, r, s, p)
           /\ PutBy(k, e, r, s, p) # {} => cell'[r][s][p].landed
           /\ WrittenBy(k, e, r, s, p) = {} =>
                 /\ cell'[r][s][p].x = cell[r][s][p].x
                 /\ cell[r][s][p].landed \/ LandsBy(k, e, r, s, p) => cell'[r][s][p].landed
  <1> DEFINE do == Act(k, e)
             mine == p \in k.parts[e[1][1]]
             put == PutBy(k, e, r, s, p)
             st == Of(do.tma, r, s) \cup IF mine THEN Of(do.cpa, r, s) ELSE {}
             old == cell[r][s][p]
             new == cell'[r][s][p]
  <1>1. WrittenBy(k, e, r, s, p) = put \cup st
    BY DEF WrittenBy
  <1>2. DOMAIN cell[r] = StagesOf(k, r) /\ old.landed \in BOOLEAN
        /\ old = [x |-> old.x, landed |-> old.landed]
    BY DEF CellShaped
  <1>3. CASE r \in do.changes
    <2>1. cell'[r] = [z \in DOMAIN cell[r] |-> [q \in Parts |-> Left(k, e[1][1], do, r, z, q)]]
      BY <1>3 DEF Perform
    <2>2. DOMAIN cell'[r] = StagesOf(k, r) /\ new = Left(k, e[1][1], do, r, s, p)
      BY <1>2, <2>1
    <2>3. CASE put # {}
      <3>1. PICK x \in put : new = [x |-> x, landed |-> TRUE]
        BY <2>2, <2>3 DEF Left, PutBy
      <3> HIDE DEF put, st, new
      <3>2. new.x = x /\ new.landed = TRUE
        BY <3>1
      <3> QED BY <1>1, <2>2, <3>1, <3>2 DEF put, new
    <2>4. CASE put = {} /\ st # {}
      <3>1. PICK x \in st : new = [x |-> x, landed |-> FALSE]
        BY <2>2, <2>4 DEF Left, PutBy
      <3> HIDE DEF put, st, new
      <3>2. new.x = x /\ new.landed = FALSE
        BY <3>1
      <3> QED BY <1>1, <2>2, <2>4, <3>1, <3>2 DEF put, new
    <2>5. CASE put = {} /\ st = {}
      <3> DEFINE L == \/ old.landed
                      \/ <<r, s>> \in do.waited
                      \/ (mine /\ <<r, s>> \in do.landed)
      <3>1. new = [old EXCEPT !.landed = L]
        BY <2>2, <2>5 DEF Left, PutBy
      <3>2. L \in BOOLEAN /\ (LandsBy(k, e, r, s, p) => L) /\ (old.landed => L)
        BY DEF LandsBy
      <3> HIDE DEF put, st, new, old, L
      <3>3. new = [x |-> old.x, landed |-> L]
        BY <1>2, <3>1
      <3>4. new.x = old.x /\ new.landed = L
        BY <3>3
      <3>5. new.landed \in BOOLEAN /\ new = [x |-> new.x, landed |-> new.landed]
        BY <3>2, <3>3, <3>4
      <3>6. WrittenBy(k, e, r, s, p) = {}
        BY <1>1, <2>5
      <3> QED BY <2>2, <2>5, <3>2, <3>4, <3>5, <3>6 DEF put, new, old
    <2> QED BY <2>3, <2>4, <2>5
  <1>4. CASE r \notin do.changes
    <2>1. cell'[r] = cell[r]
      BY <1>4 DEF Perform
    <2>2. WrittenBy(k, e, r, s, p) = {} /\ ~LandsBy(k, e, r, s, p)
      BY <1>4 DEF ChangesSeen
    <2>3. put = {}
      BY <1>1, <2>2
    <2> QED BY <1>2, <2>1, <2>2, <2>3
  <1> QED BY <1>3, <1>4

LEMMA PerformsData ==
    ASSUME NEW k, NEW order, Sound(k, order), Counters(k), BarInv(k, order),
           ChangesSeen(k), DataInv(k, order), NEW a, Performs(k, a)
    PROVE  DataInv(k, order)'
  <1> DEFINE e == NextOf(a)
  <1>1. e \in Events(k) /\ e[1] = a
    <2>1. e \in Events(k)
      BY AbleOrdered DEF Performs
    <2> QED BY <2>1 DEF NextOf
  <1>2. Perform(k, e[1][1], Act(k, e))
    BY <1>1 DEF Performs, Act, NextOf
  <1>3. CellShaped(k) /\ Stored(k, order)
    BY DEF DataInv
  <1>4. \A d \in Events(k) : /\ Performed(d)' <=> Performed(d) \/ d = e
                             /\ Performed(d)' => ~Precedes(order, e, d)
    BY PerformsNext
  <1> HIDE DEF e
  <1>5. CellShaped(k)'
    <2>1. ASSUME NEW r \in Rings(k)
          PROVE  /\ DOMAIN cell'[r] = StagesOf(k, r)
                 /\ \A s \in StagesOf(k, r), p \in Parts :
                       /\ cell'[r][s][p].landed \in BOOLEAN
                       /\ cell'[r][s][p] = [x |-> cell'[r][s][p].x, landed |-> cell'[r][s][p].landed]
      <3>1. 0 \in StagesOf(k, r) /\ 1 \in Parts
        BY DEF Sound, WellFormed, StagesOf, Parts
      <3>2. ASSUME NEW s \in StagesOf(k, r), NEW p \in Parts
            PROVE  /\ DOMAIN cell'[r] = StagesOf(k, r)
                   /\ cell'[r][s][p].landed \in BOOLEAN
                   /\ cell'[r][s][p] = [x |-> cell'[r][s][p].x, landed |-> cell'[r][s][p].landed]
        BY <1>1, <1>2, <1>3, CellAfter
      <3> QED BY <3>1, <3>2
    <2> QED BY <2>1 DEF CellShaped
  <1>6. ASSUME NEW r \in Rings(k), NEW s \in StagesOf(k, r), NEW p \in Parts
        PROVE  StoredAt(k, order, r, s, p)'
    <2> DEFINE W(c) == WrittenBy(k, c, r, s, p)
               All == Writers(k, r, s, p)
    <2>1. StoredAt(k, order, r, s, p)
      BY <1>3 DEF Stored
    <2>2. /\ W(e) # {} => cell'[r][s][p].x \in W(e)
          /\ PutBy(k, e, r, s, p) # {} => cell'[r][s][p].landed
          /\ W(e) = {} => /\ cell'[r][s][p].x = cell[r][s][p].x
                          /\ cell[r][s][p].landed \/ LandsBy(k, e, r, s, p)
                                => cell'[r][s][p].landed
      BY <1>1, <1>2, <1>3, CellAfter
    <2>3. /\ All \subseteq Events(k) /\ \A c \in All : W(c) # {}
          /\ W(e) # {} => e \in All
      BY <1>1 DEF Writers
    <2>4. ASSUME cell'[r][s][p].x # Nothing
          PROVE  \E c \in All : Performed(c)' /\ cell'[r][s][p].x \in W(c)
      <3>1. CASE W(e) # {}
        BY <1>1, <1>4, <2>2, <2>3, <3>1
      <3>2. CASE W(e) = {}
        BY <1>4, <2>1, <2>2, <2>3, <2>4, <3>2 DEF StoredAt
      <3> QED BY <3>1, <3>2
    <2>5. ASSUME NEW d \in All, NEW x, W(d) = {x}, Performed(d)',
                 \A c \in All : Performed(c)' => Precedes(order, c, d) \/ W(c) = {x}
          PROVE  cell'[r][s][p].x = x
      <3>1. CASE W(e) # {}
        <4>1. W(e) = {x}
          BY <1>1, <1>4, <2>3, <2>5, <3>1
        <4> QED BY <2>2, <4>1
      <3>2. CASE W(e) = {}
        <4>1. Performed(d)
          BY <1>4, <2>3, <2>5, <3>2
        <4>2. \A c \in All : Performed(c) => Precedes(order, c, d) \/ W(c) = {x}
          BY <1>4, <2>3, <2>5
        <4>3. WrittenLast(k, order, r, s, p, d, x)
          BY <2>5, <4>1, <4>2 DEF WrittenLast
        <4> QED BY <2>1, <2>2, <3>2, <4>3 DEF StoredAt
      <3> QED BY <3>1, <3>2
    <2>6. ASSUME \A c \in All : Performed(c)' => Settled(k, order, r, s, p, c)'
          PROVE  cell'[r][s][p].landed
      <3>1. \A c \in All : Performed(c)' =>
               \/ PutBy(k, c, r, s, p) # {}
               \/ \E g \in Events(k) : /\ Performed(g)' /\ Precedes(order, c, g)
                                       /\ LandsBy(k, g, r, s, p) \/ W(g) # {}
        BY <2>6 DEF Settled
      <3>2. CASE W(e) # {}
        <4>1. PutBy(k, e, r, s, p) # {}
          BY <1>1, <1>4, <2>3, <3>1, <3>2
        <4> QED BY <2>2, <4>1
      <3>3. CASE W(e) = {} /\ LandsBy(k, e, r, s, p)
        BY <2>2, <3>3
      <3>4. CASE W(e) = {} /\ ~LandsBy(k, e, r, s, p)
        <4>1. ASSUME NEW c \in All, Performed(c) PROVE Settled(k, order, r, s, p, c)
          <5>1. Performed(c)'
            BY <1>4, <2>3, <4>1
          <5>2. CASE PutBy(k, c, r, s, p) # {}
            BY <5>2 DEF Settled
          <5>3. CASE \E g \in Events(k) : /\ Performed(g)' /\ Precedes(order, c, g)
                                          /\ LandsBy(k, g, r, s, p) \/ W(g) # {}
            <6>1. PICK g \in Events(k) : /\ Performed(g)' /\ Precedes(order, c, g)
                                         /\ LandsBy(k, g, r, s, p) \/ W(g) # {}
              BY <5>3
            <6>2. Performed(g)
              BY <1>4, <3>4, <6>1
            <6> QED BY <6>1, <6>2 DEF Settled
          <5> QED BY <3>1, <5>1, <5>2, <5>3
        <4>2. cell[r][s][p].landed
          BY <2>1, <4>1 DEF StoredAt
        <4> QED BY <2>2, <3>4, <4>2
      <3> QED BY <3>2, <3>3, <3>4
    <2> QED BY <2>4, <2>5, <2>6 DEF StoredAt, WrittenLast
  <1>7. Stored(k, order)'
    BY <1>6 DEF Stored
  <1> QED BY <1>5, <1>7 DEF DataInv

-----------------------------------------------------------------------------
(***************************************************************************)
(* The invariant holds.                                                    *)
(***************************************************************************)
LEMMA InitInv == Init => Inv
  <1> SUFFICES ASSUME Init, NEW k \in Running PROVE
        /\ Counters(k)
        /\ \A order : Sound(k, order) =>
              BarInv(k, order) /\ (ChangesSeen(k) => DataInv(k, order))
    BY DEF Inv
  <1>1. k = Code[kernel]
    BY DEF Running
  <1>2. /\ pc = [w \in Warps(k) |-> 1]
        /\ tc = [w \in Warps(k) |-> 0]
        /\ ring = [r \in Rings(k) |-> Fresh(k.shape[r])]
        /\ cell = [r \in Rings(k) |-> [s \in 0 .. k.shape[r].stages - 1 |->
                      [p \in Parts |-> [x |-> Nothing, landed |-> TRUE]]]]
    BY <1>1 DEF Init, Running
  <1>3. Counters(k)
    BY <1>2 DEF Counters
  <1>4. \A m \in Agents(k) : Done(m) = 0
    BY <1>2, AgentShape DEF Done
  <1>5. ASSUME NEW order, Sound(k, order)
        PROVE  BarInv(k, order) /\ DataInv(k, order)
    <2>1. WellFormed(k)
      BY <1>5 DEF Sound
    <2>2. ASSUME NEW e \in Events(k) PROVE ~Performed(e)
      <3>1. e[1] \in Agents(k) /\ e[2] \in 1 .. Len(Acts(k, e[1]))
        BY EventShape
      <3>2. Len(Acts(k, e[1])) \in Nat /\ Done(e[1]) = 0
        BY <1>4, <2>1, <3>1 DEF WellFormed
      <3> QED BY <3>1, <3>2 DEF Performed
    <2>3. InProgram(k)
      <3>1. ASSUME NEW a \in Agents(k) PROVE Done(a) \in Nat /\ Done(a) <= Len(Acts(k, a))
        <4>1. Done(a) = 0 /\ Len(Acts(k, a)) \in Nat
          BY <1>4, <2>1 DEF WellFormed
        <4> QED BY <4>1
      <3> QED BY <3>1 DEF InProgram
    <2>4. ASSUME NEW r \in Rings(k)
          PROVE  /\ ring[r].full = [s \in StagesOf(k, r) |-> MbarInit(k.shape[r].fulls)]
                 /\ ring[r].empty = [s \in StagesOf(k, r) |-> MbarInit(k.shape[r].empties)]
      <3>1. ring[r] = Fresh(k.shape[r])
        BY <1>2
      <3> QED BY <3>1 DEF Fresh, PipeInit, StagesOf
    <2>5. Shaped(k)
      BY <2>4 DEF Shaped
    <2>6. ASSUME NEW r \in Rings(k), NEW b \in Sides, Needs(k, r, b) > 0,
                 NEW s \in StagesOf(k, r)
          PROVE  Tally(Members(k, r, b, s), Needs(k, r, b), Counts(k, r, b, s), Bar(r, b, s))
      <3>1. Bar(r, b, s) = [pending |-> Needs(k, r, b), phase |-> 0]
        <4>1. b = "full" \/ b = "empty"
          BY DEF Sides
        <4>2. ring[r].full[s] = MbarInit(k.shape[r].fulls)
              /\ ring[r].empty[s] = MbarInit(k.shape[r].empties)
          BY <2>4
        <4> QED BY <4>1, <4>2 DEF Bar, MbarInit, Needs
      <3>2. Needs(k, r, b) \in Nat \ {0}
        BY <2>1, <2>6 DEF WellFormed
      <3>3. Bar(r, b, s) \in MbarType(Needs(k, r, b))
        BY <3>1, <3>2 DEF MbarType
      <3>4. ASSUME NEW m \in Members(k, r, b, s) PROVE Counts(k, r, b, s)[m] = 0
        <4>1. m \in Agents(k)
          BY DEF Members
        <4>2. Done(m) = 0
          BY <1>4, <4>1
        <4> QED BY <4>2, CountZero DEF Counts
      <3>5. {m \in Members(k, r, b, s) : Counts(k, r, b, s)[m] = 0 + 1} = {}
        BY <3>4
      <3>6. Needs(k, r, b) = Needs(k, r, b) - Cardinality({})
        BY <3>2, FS_EmptySet
      <3>7. Bar(r, b, s).phase = 0 /\ Bar(r, b, s).pending = Needs(k, r, b)
        BY <3>1
      <3> QED BY <3>3, <3>4, <3>5, <3>6, <3>7 DEF Tally
    <2>7. Tallied(k)
      BY <2>6 DEF Tallied
    <2>8. Closed(k, order)
      BY <2>2 DEF Closed
    <2>9. ASSUME NEW r \in Rings(k)
          PROVE cell[r] = [s \in StagesOf(k, r) |-> [p \in Parts |->
                              [x |-> Nothing, landed |-> TRUE]]]
      BY <1>2 DEF StagesOf
    <2>10. ASSUME NEW r \in Rings(k), NEW s \in StagesOf(k, r), NEW p \in Parts
           PROVE  cell[r][s][p] = [x |-> Nothing, landed |-> TRUE]
      <3>1. cell[r][s] = [q \in Parts |-> [x |-> Nothing, landed |-> TRUE]]
        BY <2>9
      <3> QED BY <3>1
    <2>11. \A r \in Rings(k) : DOMAIN cell[r] = StagesOf(k, r)
      BY <2>9
    <2>12. CellShaped(k)
      <3>1. ASSUME NEW r \in Rings(k), NEW s \in StagesOf(k, r), NEW p \in Parts
            PROVE  /\ cell[r][s][p].landed \in BOOLEAN
                   /\ cell[r][s][p] = [x |-> cell[r][s][p].x, landed |-> cell[r][s][p].landed]
        <4>1. cell[r][s][p] = [x |-> Nothing, landed |-> TRUE]
          BY <2>10
        <4> QED BY <4>1
      <3> QED BY <2>11, <3>1 DEF CellShaped
    <2>13. Stored(k, order)
      <3>1. ASSUME NEW r \in Rings(k), NEW s \in StagesOf(k, r), NEW p \in Parts
            PROVE  StoredAt(k, order, r, s, p)
        <4>1. Writers(k, r, s, p) \subseteq Events(k)
          BY DEF Writers
        <4>2. cell[r][s][p].x = Nothing /\ cell[r][s][p].landed
          <5>1. cell[r][s][p] = [x |-> Nothing, landed |-> TRUE]
            BY <2>10
          <5> QED BY <5>1
        <4>3. \A d \in Writers(k, r, s, p) : ~Performed(d)
          BY <2>2, <4>1
        <4> QED BY <4>2, <4>3 DEF StoredAt, WrittenLast
      <3> QED BY <3>1 DEF Stored
    <2> QED BY <2>3, <2>5, <2>7, <2>8, <2>12, <2>13 DEF BarInv, DataInv
  <1> QED BY <1>3, <1>5

LEMMA PerformsInv ==
    ASSUME Inv, NEW k \in Running, NEW a, Performs(k, a)
    PROVE  Inv'
  <1>1. Running' = {k} /\ Counters(k)' /\ Counters(k)
    BY DEF Performs, Inv
  <1>2. ASSUME NEW order, Sound(k, order)
        PROVE  BarInv(k, order)' /\ (ChangesSeen(k) => DataInv(k, order)')
    BY <1>1, <1>2, PerformsBar, PerformsData DEF Inv
  <1> QED BY <1>1, <1>2 DEF Inv

LEMMA NextInv == Inv /\ [Next]_vars => Inv'
  <1> SUFFICES ASSUME Inv, [Next]_vars PROVE Inv'
    OBVIOUS
  <1>1. ASSUME NEW k \in Running, NEW w \in Warps(k), Step(k, w) PROVE Inv'
    BY <1>1, StepPerforms, PerformsInv DEF Inv
  <1>2. ASSUME NEW k \in Running, NEW w \in Warps(k), Execute(k, w) PROVE Inv'
    BY <1>2, ExecutePerforms, PerformsInv DEF Inv
  <1>3. CASE UNCHANGED vars
    <2>1. pc' = pc /\ tc' = tc /\ ring' = ring /\ cell' = cell /\ Running' = Running
      BY <1>3 DEF vars, Running
    <2>2. \A r, b, s : Bar(r, b, s)' = Bar(r, b, s)
      BY <2>1 DEF Bar
    <2>3. \A m : Done(m)' = Done(m)
      BY <2>1 DEF Done
    <2>4. \A e : Performed(e)' <=> Performed(e)
      BY <2>3 DEF Performed
    <2>5. ASSUME NEW k, NEW order, BarInv(k, order) PROVE BarInv(k, order)'
      <3>1. \A r, b, s : Counts(k, r, b, s)' = Counts(k, r, b, s)
        BY <2>3 DEF Counts
      <3>2. Shaped(k)' /\ Tallied(k)'
        BY <2>1, <2>2, <2>5, <3>1 DEF BarInv, Shaped, Tallied
      <3>3. InProgram(k)' /\ Closed(k, order)'
        BY <2>3, <2>4, <2>5 DEF BarInv, InProgram, Closed
      <3> QED BY <3>2, <3>3 DEF BarInv
    <2>6. ASSUME NEW k, NEW order, DataInv(k, order) PROVE DataInv(k, order)'
      <3>1. CellShaped(k)'
        BY <2>1, <2>6 DEF DataInv, CellShaped
      <3>2. ASSUME NEW r \in Rings(k), NEW s \in StagesOf(k, r), NEW p \in Parts
            PROVE  StoredAt(k, order, r, s, p)'
        <4>1. StoredAt(k, order, r, s, p)
          BY <2>6 DEF DataInv, Stored
        <4>2. \A c : Settled(k, order, r, s, p, c)' <=> Settled(k, order, r, s, p, c)
          BY <2>4 DEF Settled
        <4>3. \A d, x : WrittenLast(k, order, r, s, p, d, x)' <=> WrittenLast(k, order, r, s, p, d, x)
          BY <2>4 DEF WrittenLast
        <4> QED BY <2>1, <2>4, <4>1, <4>2, <4>3 DEF StoredAt
      <3> QED BY <3>1, <3>2 DEF DataInv, Stored
    <2>7. \A k \in Running : Counters(k)'
      BY <2>1 DEF Inv, Counters
    <2> QED BY <2>1, <2>5, <2>6, <2>7 DEF Inv
  <1> QED BY <1>1, <1>2, <1>3 DEF Next, Progress, Terminating

-----------------------------------------------------------------------------
(***************************************************************************)
(* Barriers of a stage alternate.                                          *)
(***************************************************************************)
\* A phase that is complete was made by an arrival that has been performed.
LEMMA PhaseEvent ==
    ASSUME NEW k, NEW order, Sound(k, order), BarInv(k, order),
           NEW r \in Rings(k), NEW b \in Sides, Needs(k, r, b) > 0,
           NEW s \in StagesOf(k, r), NEW n \in Nat, Bar(r, b, s).phase > n
    PROVE  \E d \in Events(k) : /\ Performed(d) /\ ArrivesAt(k, d, r, b, s)
                                /\ UseAt(k, d, r, b, s) = n
  <1> DEFINE M == Members(k, r, b, s)
  <1>1. WellFormed(k) /\ InProgram(k) /\ Tallied(k)
    BY DEF Sound, BarInv
  <1>2. Tally(M, Needs(k, r, b), Counts(k, r, b, s), Bar(r, b, s)) /\ Bar(r, b, s).phase \in Nat
    BY <1>1, BarPhase
  <1>3. PICK m \in M : TRUE
    BY <1>2 DEF Tally
  <1>4. m \in Agents(k)
    BY DEF Members
  <1>5. Done(m) \in Nat /\ Done(m) <= Len(Acts(k, m)) /\ Len(Acts(k, m)) \in Nat
    BY <1>1, <1>4 DEF InProgram, WellFormed
  <1>6. Count(k, m, r, b, s, Done(m)) > n
    <2>1. Counts(k, r, b, s)[m] = Count(k, m, r, b, s, Done(m))
      BY DEF Counts
    <2> HIDE DEF M
    <2>2. Counts(k, r, b, s)[m] >= Bar(r, b, s).phase
      BY <1>2, PhaseMade
    <2>3. Count(k, m, r, b, s, Done(m)) \in Nat
      BY <1>5, CountType
    <2> QED BY <1>2, <2>1, <2>2, <2>3
  <1>7. PICK j \in 1 .. Done(m) : /\ <<r, s>> \in Arrives(Acts(k, m)[j], b)
                                  /\ Count(k, m, r, b, s, j - 1) = n
    BY <1>5, <1>6, ArrivalFor
  <1>8. j \in 1 .. Len(Acts(k, m))
    BY <1>5
  <1>9. /\ <<m, j>> \in Events(k) /\ <<m, j>>[1] = m /\ <<m, j>>[2] = j
        /\ Act(k, <<m, j>>) = Acts(k, m)[j]
    BY <1>4, <1>8, EventOf
  <1>10. Performed(<<m, j>>) /\ ArrivesAt(k, <<m, j>>, r, b, s)
    BY <1>5, <1>7, <1>9 DEF Performed, ArrivesAt
  <1>11. UseAt(k, <<m, j>>, r, b, s) = n
    BY <1>7, <1>9 DEF UseAt, Count
  <1> QED BY <1>9, <1>10, <1>11

\* What an event that has been performed knows to have arrived has done so.
LEMMA PerformedKnows ==
    ASSUME NEW k, NEW order, Sound(k, order), BarInv(k, order),
           NEW d \in Events(k), Performed(d),
           NEW r \in Rings(k), NEW b \in Sides, Needs(k, r, b) > 0,
           NEW s \in StagesOf(k, r), NEW n \in Nat, Arrived(k, r, b, s, n, order.clock[d])
    PROVE  Bar(r, b, s).phase >= n
  <1>1. /\ WellFormed(k) /\ HappensBefore(k, order)
        /\ InProgram(k) /\ Tallied(k) /\ Closed(k, order)
    BY DEF Sound, BarInv
  <1>2. \A m \in Members(k, r, b, s) : order.clock[d][m] \in Nat /\ order.clock[d][m] <= Done(m)
    BY <1>1 DEF Members, HappensBefore, Closed
  <1> QED BY <1>1, <1>2, ArrivedPhase

LEMMA Alternates ==
    ASSUME NEW k, NEW order, Sound(k, order), Alternating(k, order), BarInv(k, order),
           NEW r \in Rings(k), k.shape[r].empties > 0, NEW s \in StagesOf(k, r)
    PROVE  ring[r].full[s].phase - ring[r].empty[s].phase \in {0, 1}
  <1> DEFINE f == ring[r].full[s].phase
             e == ring[r].empty[s].phase
  <1>1. "full" \in Sides /\ "empty" \in Sides
    BY DEF Sides
  <1>2. Needs(k, r, "full") > 0 /\ Needs(k, r, "empty") > 0
    BY DEF Sound, WellFormed, Needs
  <1>3. Bar(r, "full", s).phase = f /\ Bar(r, "empty", s).phase = e
    BY DEF Bar
  <1>4. f \in Nat /\ e \in Nat
    BY <1>1, <1>2, <1>3, BarPhase DEF BarInv
  <1> HIDE DEF f, e
  <1>5. e <= f
    <2> SUFFICES ASSUME e > 0 PROVE e <= f
      BY <1>4
    <2>1. e - 1 \in Nat /\ e > e - 1 /\ e - 1 + 1 = e
      BY <1>4
    <2>2. PICK d \in Events(k) : /\ Performed(d) /\ ArrivesAt(k, d, r, "empty", s)
                                 /\ UseAt(k, d, r, "empty", s) = e - 1
      BY <1>1, <1>2, <1>3, <2>1, PhaseEvent
    <2>3. Arrived(k, r, "full", s, e, order.clock[d])
      BY <2>1, <2>2 DEF Alternating
    <2> QED BY <1>1, <1>2, <1>3, <1>4, <2>2, <2>3, PerformedKnows
  <1>6. f <= e + 1
    <2> SUFFICES ASSUME f > 0 PROVE f <= e + 1
      BY <1>4
    <2>1. f - 1 \in Nat /\ f > f - 1
      BY <1>4
    <2>2. PICK d \in Events(k) : /\ Performed(d) /\ ArrivesAt(k, d, r, "full", s)
                                 /\ UseAt(k, d, r, "full", s) = f - 1
      BY <1>1, <1>2, <1>3, <2>1, PhaseEvent
    <2>3. Arrived(k, r, "empty", s, f - 1, order.clock[d])
      BY <2>2 DEF Alternating
    <2>4. e >= f - 1
      BY <1>1, <1>2, <1>3, <2>1, <2>2, <2>3, PerformedKnows
    <2> QED BY <1>4, <2>4
  <1> QED BY <1>4, <1>5, <1>6 DEF f, e

\* The stages of a kernel whose arrivals alternate are full or empty in every
\* state: no producer laps its consumers.
THEOREM AlternatingIsFullOrEmpty ==
    Spec => []((\A k \in Running : \E order : Sound(k, order) /\ Alternating(k, order))
                  => FullOrEmpty)
  <1>1. Inv => ((\A k \in Running : \E order : Sound(k, order) /\ Alternating(k, order))
                   => FullOrEmpty)
    <2> SUFFICES ASSUME Inv, NEW k \in Running, NEW order,
                        Sound(k, order), Alternating(k, order),
                        NEW r \in Rings(k), k.shape[r].empties > 0, NEW s \in DOMAIN ring[r].full
                 PROVE  ring[r].full[s].phase - ring[r].empty[s].phase \in {0, 1}
      BY DEF FullOrEmpty
    <2>1. BarInv(k, order)
      BY DEF Inv
    <2>2. s \in StagesOf(k, r)
      BY <2>1 DEF BarInv, Shaped
    <2> QED BY <2>1, <2>2, Alternates
  <1> QED BY <1>1, InitInv, NextInv, PTL DEF Spec

-----------------------------------------------------------------------------
(***************************************************************************)
(* What is read.                                                           *)
(***************************************************************************)
\* When an agent can perform its next step, what comes before it has been
\* performed, and nothing that comes after it.
LEMMA NextInOrder ==
    ASSUME NEW k, NEW order, Sound(k, order), Counters(k), BarInv(k, order),
           NEW a \in Agents(k), Able(k, a), NEW d \in Events(k)
    PROVE  /\ Precedes(order, d, NextOf(a)) => Performed(d)
           /\ Performed(d) => d # NextOf(a) /\ ~Precedes(order, NextOf(a), d)
  <1> DEFINE e == NextOf(a)
  <1>1. /\ e \in Events(k) /\ ~Performed(e)
        /\ \A c \in Agents(k) : order.clock[e][c] \in Nat /\ order.clock[e][c] <= Done(c)
    BY AbleOrdered
  <1>2. e[1] = a /\ e[2] = Done(a) + 1 /\ Done(a) \in Nat
    BY DEF BarInv, InProgram, NextOf
  <1>3. d[1] \in Agents(k) /\ d[2] \in Nat /\ Done(d[1]) \in Nat
    <2>1. d[1] \in Agents(k) /\ d[2] \in 1 .. Len(Acts(k, d[1]))
      BY EventShape
    <2> QED BY <2>1 DEF Sound, WellFormed, BarInv, InProgram
  <1> HIDE DEF e
  <1>4. Precedes(order, d, e) => Performed(d)
    <2>1. order.clock[e][d[1]] \in Nat /\ order.clock[e][d[1]] <= Done(d[1])
      BY <1>1, <1>3
    <2> QED BY <1>3, <2>1 DEF Precedes, Performed
  <1>5. ASSUME Performed(d) PROVE ~Precedes(order, e, d)
    <2>1. order.clock[d][a] \in Nat /\ order.clock[d][a] <= Done(a)
      BY <1>5 DEF Sound, HappensBefore, BarInv, Closed
    <2> QED BY <1>2, <2>1 DEF Precedes
  <1> QED BY <1>1, <1>4, <1>5 DEF e

LEMMA AbleFinds ==
    ASSUME NEW k, NEW order, Sound(k, order), Counters(k), BarInv(k, order),
           DataInv(k, order), NEW a \in Agents(k), Able(k, a),
           NEW r \in Rings(k), NEW s \in StagesOf(k, r), NEW p \in Parts, NEW x,
           FindsInOrder(k, order, NextOf(a), r, s, p, x)
    PROVE  /\ cell[r][s][p].x = x
           /\ cell[r][s][p].landed \/ <<r, s>> \in Act(k, NextOf(a)).waited
  <1> DEFINE e == NextOf(a)
             behind == Behind(k, order, e, r, s, p)
  <1>1. \A d \in Events(k) : /\ Precedes(order, d, e) => Performed(d)
                             /\ Performed(d) => d # e /\ ~Precedes(order, e, d)
    BY NextInOrder
  <1>2. StoredAt(k, order, r, s, p)
    BY DEF DataInv, Stored
  <1>3. Writers(k, r, s, p) \subseteq Events(k)
    BY DEF Writers
  <1>4. \A c \in Writers(k, r, s, p) : Performed(c) => c \in behind
    BY <1>1, <1>3 DEF Behind
  <1>5. behind \subseteq Writers(k, r, s, p)
    BY DEF Behind
  <1> HIDE DEF e
  <1>6. cell[r][s][p].x = x
    <2>1. PICK d \in behind :
             /\ Precedes(order, d, e) /\ WrittenBy(k, d, r, s, p) = {x}
             /\ \A c \in behind : Precedes(order, c, d) \/ WrittenBy(k, c, r, s, p) = {x}
      BY DEF FindsInOrder, e
    <2> HIDE DEF behind
    <2>2. d \in Writers(k, r, s, p) /\ Performed(d)
      BY <1>1, <1>3, <1>5, <2>1
    <2>3. WrittenLast(k, order, r, s, p, d, x)
      BY <1>4, <2>1, <2>2 DEF WrittenLast
    <2> QED BY <1>2, <2>2, <2>3 DEF StoredAt
  <1>7. ASSUME <<r, s>> \notin Act(k, e).waited PROVE cell[r][s][p].landed
    <2>1. \A c \in behind : SettledAt(k, order, c, e, r, s, p)
      BY <1>7 DEF FindsInOrder, e
    <2> HIDE DEF behind
    <2>2. ASSUME NEW c \in Writers(k, r, s, p), Performed(c)
          PROVE  Settled(k, order, r, s, p, c)
      <3>1. SettledAt(k, order, c, e, r, s, p)
        BY <1>4, <2>1, <2>2
      <3> QED BY <1>1, <3>1 DEF SettledAt, Settled
    <2> QED BY <1>2, <2>2 DEF StoredAt
  <1> QED BY <1>6, <1>7 DEF e

LEMMA AbleFindsAll ==
    ASSUME Inv, NEW k \in Running, NEW order, Sound(k, order), ReadsInOrder(k, order),
           NEW a \in Agents(k), Able(k, a)
    PROVE  FindsAll(k, a[1], Act(k, NextOf(a)))
  <1> DEFINE e == NextOf(a)
  <1>1. Counters(k) /\ BarInv(k, order) /\ DataInv(k, order)
    BY DEF Inv, ReadsInOrder
  <1>2. e \in Events(k) /\ e[1] = a
    <2>1. e \in Events(k)
      BY <1>1, AbleOrdered
    <2> QED BY <2>1 DEF NextOf
  <1>3. k.parts[a[1]] \subseteq Parts
    BY AgentShape DEF Sound, WellFormed
  <1>4. ASSUME NEW o \in Act(k, e).use PROVE Finds(Act(k, e), o, Parts)
    <2>1. o[1] \in Rings(k) /\ o[2] \in StagesOf(k, o[1])
      BY <1>2 DEF ReadsInOrder
    <2>2. ASSUME NEW p \in Parts
          PROVE  /\ cell[o[1]][o[2]][p].x = o[3]
                 /\ cell[o[1]][o[2]][p].landed \/ <<o[1], o[2]>> \in Act(k, e).waited
      <3>1. FindsInOrder(k, order, e, o[1], o[2], p, o[3])
        BY <1>2 DEF ReadsInOrder
      <3> QED BY <1>1, <2>1, <3>1, AbleFinds
    <2> QED BY <2>2 DEF Finds
  <1>5. ASSUME NEW o \in Act(k, e).mine PROVE Finds(Act(k, e), o, k.parts[a[1]])
    <2>1. o[1] \in Rings(k) /\ o[2] \in StagesOf(k, o[1])
      BY <1>2 DEF ReadsInOrder
    <2>2. ASSUME NEW p \in k.parts[a[1]]
          PROVE  /\ cell[o[1]][o[2]][p].x = o[3]
                 /\ cell[o[1]][o[2]][p].landed \/ <<o[1], o[2]>> \in Act(k, e).waited
      <3>1. FindsInOrder(k, order, e, o[1], o[2], p, o[3]) /\ p \in Parts
        BY <1>2, <1>3 DEF ReadsInOrder
      <3> QED BY <1>1, <2>1, <3>1, AbleFinds
    <2> QED BY <2>2 DEF Finds
  <1> QED BY <1>4, <1>5 DEF FindsAll

\* The next step of a warp and of its tensor cores.
LEMMA NextActs ==
    ASSUME NEW k, Counters(k), NEW w \in Warps(k)
    PROVE  /\ <<w, "warp">> \in Agents(k) /\ <<w, "warp">>[1] = w
           /\ Act(k, NextOf(<<w, "warp">>)) = Todo(k, w)
           /\ Able(k, <<w, "warp">>) <=> CanStep(k, w)
           /\ <<w, "tensor">> \in Agents(k) /\ <<w, "tensor">>[1] = w
           /\ Act(k, NextOf(<<w, "tensor">>)) = Handed(k, w)
           /\ Able(k, <<w, "tensor">>) <=> CanExecute(k, w)
  <1>1. pc[w] - 1 + 1 = pc[w] /\ tc[w] \in Nat
    BY DEF Counters
  <1>2. Act(k, NextOf(<<w, "warp">>)) = Todo(k, w)
    BY <1>1 DEF Act, Acts, NextOf, Done, Todo
  <1>3. Act(k, NextOf(<<w, "tensor">>)) = Handed(k, w)
    BY <1>1 DEF Act, Acts, NextOf, Done, Handed
  <1>4. /\ Able(k, <<w, "warp">>) <=> CanStep(k, w)
        /\ Able(k, <<w, "tensor">>) <=> CanExecute(k, w)
    BY DEF Able
  <1> QED BY <1>2, <1>3, <1>4 DEF Agents

\* In a kernel whose reads are in order, a step that is performed finds what
\* the serial algorithm has there, and landed.
THEOREM OrderedReadsOwn ==
    Spec => []((\A k \in Running : \E order : Sound(k, order) /\ ReadsInOrder(k, order))
                  => ReadsOwn)
  <1>1. Inv => ((\A k \in Running : \E order : Sound(k, order) /\ ReadsInOrder(k, order))
                   => ReadsOwn)
    <2> SUFFICES ASSUME Inv, NEW k \in Running, NEW order,
                        Sound(k, order), ReadsInOrder(k, order), NEW w \in Warps(k)
                 PROVE  /\ CanStep(k, w) => FindsAll(k, w, Todo(k, w))
                        /\ CanExecute(k, w) => FindsAll(k, w, Handed(k, w))
      BY DEF ReadsOwn
    <2>1. Counters(k)
      BY DEF Inv
    <2>2. CanStep(k, w) => FindsAll(k, w, Todo(k, w))
      <3> DEFINE a == <<w, "warp">>
      <3>1. /\ a \in Agents(k) /\ a[1] = w /\ Act(k, NextOf(a)) = Todo(k, w)
            /\ Able(k, a) <=> CanStep(k, w)
        BY <2>1, NextActs
      <3> HIDE DEF a
      <3>2. Able(k, a) => FindsAll(k, a[1], Act(k, NextOf(a)))
        BY <3>1, AbleFindsAll
      <3> QED BY <3>1, <3>2
    <2>3. CanExecute(k, w) => FindsAll(k, w, Handed(k, w))
      <3> DEFINE a == <<w, "tensor">>
      <3>1. /\ a \in Agents(k) /\ a[1] = w /\ Act(k, NextOf(a)) = Handed(k, w)
            /\ Able(k, a) <=> CanExecute(k, w)
        BY <2>1, NextActs
      <3> HIDE DEF a
      <3>2. Able(k, a) => FindsAll(k, a[1], Act(k, NextOf(a)))
        BY <3>1, AbleFindsAll
      <3> QED BY <3>1, <3>2
    <2> QED BY <2>2, <2>3
  <1> QED BY <1>1, InitInv, NextInv, PTL DEF Spec

\* What a warp reads without waiting is of no later chunk.
THEOREM OrderedPeeksNothingLater ==
    Spec => []((\A k \in Running : \E order : Sound(k, order) /\ PeeksInOrder(k, order))
                  => PeeksNothingLater)
  <1>1. Inv => ((\A k \in Running : \E order : Sound(k, order) /\ PeeksInOrder(k, order))
                   => PeeksNothingLater)
    <2> SUFFICES ASSUME Inv, NEW k \in Running, NEW order,
                        Sound(k, order), PeeksInOrder(k, order),
                        NEW w \in Warps(k), CanStep(k, w), NEW o \in Todo(k, w).peek,
                        NEW p \in Parts
                 PROVE  \/ cell[o[1]][o[2]][p].x = Nothing
                        \/ cell[o[1]][o[2]][p].x[1] <= o[3][1]
      BY DEF PeeksNothingLater
    <2> DEFINE a == <<w, "warp">>
               e == NextOf(a)
               x == cell[o[1]][o[2]][p].x
    <2>1. Counters(k) /\ BarInv(k, order) /\ DataInv(k, order)
      BY DEF Inv, PeeksInOrder
    <2>2. a \in Agents(k) /\ Act(k, e) = Todo(k, w) /\ Able(k, a)
      BY <2>1, NextActs
    <2> HIDE DEF a
    <2>3. e \in Events(k)
      BY <2>1, <2>2, AbleOrdered
    <2>4. o[1] \in Rings(k) /\ o[2] \in StagesOf(k, o[1])
      BY <2>2, <2>3 DEF PeeksInOrder
    <2>5. \A c \in Behind(k, order, e, o[1], o[2], p) :
             \A y \in WrittenBy(k, c, o[1], o[2], p) : y[1] <= o[3][1]
      BY <2>2, <2>3 DEF PeeksInOrder
    <2>6. StoredAt(k, order, o[1], o[2], p)
      BY <2>1, <2>4 DEF DataInv, Stored
    <2>7. CASE x # Nothing
      <3>1. PICK c \in Writers(k, o[1], o[2], p) :
               Performed(c) /\ x \in WrittenBy(k, c, o[1], o[2], p)
        BY <2>6, <2>7 DEF StoredAt
      <3>2. c \in Events(k)
        BY DEF Writers
      <3>3. c \in Behind(k, order, e, o[1], o[2], p)
        BY <2>1, <2>2, <3>1, <3>2, NextInOrder DEF Behind
      <3> QED BY <2>5, <3>1, <3>3
    <2> QED BY <2>7
  <1> QED BY <1>1, InitInv, NextInv, PTL DEF Spec

-----------------------------------------------------------------------------
(***************************************************************************)
(* Going on.                                                               *)
(***************************************************************************)
\* When all that directly precedes a step has been performed, the phases that
\* it awaits are complete, and no phase after them.
LEMMA AwaitedPhase ==
    ASSUME NEW k, NEW order, Sound(k, order), AwaitsInOrder(k, order), BarInv(k, order),
           NEW e \in Events(k), ~Performed(e), \A d \in Direct(k, e) : Performed(d),
           NEW g \in Awaits(k, e)
    PROVE  Bar(g[1], g[2], g[3]).phase = g[4]
  <1> DEFINE r == g[1]
             b == g[2]
             s == g[3]
             n == g[4]
             M == Members(k, r, b, s)
             T == Counts(k, r, b, s)
             bar == Bar(r, b, s)
  <1>1. /\ WellFormed(k) /\ HappensBefore(k, order)
        /\ InProgram(k) /\ Tallied(k) /\ Closed(k, order)
    BY DEF Sound, BarInv
  <1>2. /\ r \in Rings(k) /\ b \in Sides /\ s \in StagesOf(k, r)
        /\ n \in Nat /\ Needs(k, r, b) > 0
    BY <1>1, AwaitShape
  <1> HIDE DEF r, b, s, n
  <1>3. Tally(M, Needs(k, r, b), T, bar) /\ bar.phase \in Nat
    BY <1>1, <1>2, BarPhase
  <1>4. /\ IsFiniteSet(M) /\ M \subseteq Agents(k) /\ Needs(k, r, b) \in Nat
        /\ M # {} => Cardinality(M) = Needs(k, r, b)
    BY <1>1, <1>2, MembersFinite DEF WellFormed
  <1>5. /\ M = {} => n = 0
        /\ \A m \in M : Count(k, m, r, b, s, Len(Acts(k, m))) >= n
        /\ M # {} => \E m \in M : \A j \in 1 .. Len(Acts(k, m)) :
              ArrivesAt(k, <<m, j>>, r, b, s) /\ UseAt(k, <<m, j>>, r, b, s) = n
                 => <<m, j>> = e \/ Precedes(order, e, <<m, j>>)
    BY DEF AwaitsInOrder, Count, r, b, s, n
  <1>6. \A m \in M : Done(m) \in Nat /\ Done(m) <= Len(Acts(k, m)) /\ Len(Acts(k, m)) \in Nat
    BY <1>1, <1>4 DEF InProgram, WellFormed
  <1>7. bar.phase >= n
    <2>1. ASSUME NEW m \in M PROVE T[m] >= n
      <3>1. T[m] = Count(k, m, r, b, s, Done(m)) /\ T[m] \in Nat
        BY <1>6, CountType DEF Counts
      <3> SUFFICES ASSUME n > 0 PROVE T[m] >= n
        BY <1>2, <3>1
      <3>2. n - 1 \in Nat /\ Count(k, m, r, b, s, Len(Acts(k, m))) > n - 1
        <4>1. Count(k, m, r, b, s, Len(Acts(k, m))) \in Nat
          BY <1>6, CountType
        <4>2. Count(k, m, r, b, s, Len(Acts(k, m))) >= n
          BY <1>5
        <4> QED BY <1>2, <4>1, <4>2
      <3>3. PICK j \in 1 .. Len(Acts(k, m)) : /\ <<r, s>> \in Arrives(Acts(k, m)[j], b)
                                              /\ Count(k, m, r, b, s, j - 1) = n - 1
        BY <1>6, <3>2, ArrivalFor
      <3>4. /\ <<m, j>> \in Events(k) /\ <<m, j>>[1] = m /\ <<m, j>>[2] = j
            /\ Act(k, <<m, j>>) = Acts(k, m)[j]
        BY <1>4, EventOf
      <3>5. ArrivesAt(k, <<m, j>>, r, b, s) /\ UseAt(k, <<m, j>>, r, b, s) + 1 = g[4]
        <4>1. UseAt(k, <<m, j>>, r, b, s) = n - 1
          BY <3>3, <3>4 DEF UseAt, Count
        <4>2. ArrivesAt(k, <<m, j>>, r, b, s)
          BY <3>3, <3>4 DEF ArrivesAt
        <4> QED BY <1>2, <4>1, <4>2 DEF n
      <3>6. <<m, j>> \in Direct(k, e)
        BY <3>4, <3>5 DEF Direct, r, b, s
      <3>7. j <= Done(m) /\ j \in Nat /\ j - 1 \in Nat /\ j - 1 + 1 = j
        BY <3>4, <3>6 DEF Performed
      <3>8. Count(k, m, r, b, s, j) = Count(k, m, r, b, s, j - 1) + 1
        <4>1. PICK i \in Nat : i = j - 1
          BY <3>7
        <4>2. Count(k, m, r, b, s, i + 1) = Count(k, m, r, b, s, i) + 1
          BY <3>3, <3>7, <4>1, CountNext
        <4> QED BY <3>7, <4>1, <4>2
      <3>9. Count(k, m, r, b, s, j) <= Count(k, m, r, b, s, Done(m))
        BY <1>6, <3>7, CountMonotone
      <3> QED BY <1>2, <3>1, <3>3, <3>8, <3>9
    <2> HIDE DEF M, T, bar
    <2> QED BY <1>2, <1>3, <1>4, <1>5, <2>1, PhaseReached
  <1>8. bar.phase <= n
    <2> SUFFICES ASSUME bar.phase > n PROVE FALSE
      BY <1>2, <1>3
    <2>1. M # {}
      BY <1>2, <1>3 DEF Tally
    <2>2. PICK m \in M : \A j \in 1 .. Len(Acts(k, m)) :
              ArrivesAt(k, <<m, j>>, r, b, s) /\ UseAt(k, <<m, j>>, r, b, s) = n
                 => <<m, j>> = e \/ Precedes(order, e, <<m, j>>)
      BY <1>5, <2>1
    <2>3. Count(k, m, r, b, s, Done(m)) > n
      <3>1. T[m] = Count(k, m, r, b, s, Done(m))
        BY DEF Counts
      <3>2. T[m] \in Nat /\ T[m] >= bar.phase
        <4> HIDE DEF M, T, bar
        <4> QED BY <1>3, PhaseMade
      <3> QED BY <1>2, <1>3, <3>1, <3>2
    <2>4. PICK j \in 1 .. Done(m) : /\ <<r, s>> \in Arrives(Acts(k, m)[j], b)
                                    /\ Count(k, m, r, b, s, j - 1) = n
      BY <1>2, <1>6, <2>3, ArrivalFor
    <2>5. j \in 1 .. Len(Acts(k, m)) /\ m \in Agents(k)
      BY <1>4, <1>6
    <2>6. /\ <<m, j>> \in Events(k) /\ <<m, j>>[1] = m /\ <<m, j>>[2] = j
          /\ Act(k, <<m, j>>) = Acts(k, m)[j]
      BY <2>5, EventOf
    <2>7. Performed(<<m, j>>) /\ ArrivesAt(k, <<m, j>>, r, b, s)
          /\ UseAt(k, <<m, j>>, r, b, s) = n
      BY <1>6, <2>4, <2>6 DEF Performed, ArrivesAt, UseAt, Count
    <2>8. Precedes(order, e, <<m, j>>)
      BY <2>2, <2>5, <2>7
    <2>9. PICK d \in Events(k) : Performed(d) /\ Precedes(order, e, d)
      BY <2>6, <2>7, <2>8
    <2>10. e[1] \in Agents(k) /\ e[2] \in Nat /\ Done(e[1]) \in Nat
      <3>1. e[1] \in Agents(k) /\ e[2] \in 1 .. Len(Acts(k, e[1]))
        BY EventShape
      <3> QED BY <1>1, <3>1 DEF WellFormed, InProgram
    <2>11. order.clock[d][e[1]] \in Nat /\ order.clock[d][e[1]] <= Done(e[1])
      BY <1>1, <2>9, <2>10 DEF HappensBefore, Closed
    <2> QED BY <2>9, <2>10, <2>11 DEF Precedes, Performed
  <1> QED BY <1>2, <1>3, <1>7, <1>8 DEF r, b, s, n

\* A step whose direct predecessors have been performed can be performed.
LEMMA DirectAble ==
    ASSUME NEW k, NEW order, Sound(k, order), AwaitsInOrder(k, order),
           Counters(k), BarInv(k, order),
           NEW e \in Events(k), ~Performed(e), \A d \in Direct(k, e) : Performed(d)
    PROVE  Able(k, e[1])
  <1> DEFINE a == e[1]
             w == a[1]
  <1>1. a \in Agents(k) /\ e[2] \in 1 .. Len(Acts(k, a)) /\ e = <<a, e[2]>>
    BY EventShape
  <1>2. /\ WellFormed(k) /\ InProgram(k)
        /\ Done(a) \in Nat /\ Len(Acts(k, a)) \in Nat
    BY <1>1 DEF Sound, WellFormed, BarInv, InProgram
  <1>3. /\ w \in Warps(k) /\ a[2] \in {"warp", "tensor"} /\ a = <<w, a[2]>>
        /\ pc[w] \in Nat \ {0} /\ tc[w] \in Nat
    BY <1>1, AgentShape DEF Counters
  <1>4. e[2] = Done(a) + 1
    <2>1. Done(a) < e[2]
      BY <1>1, <1>2 DEF Performed
    <2>2. CASE e[2] = 1
      BY <1>2, <2>1, <2>2
    <2>3. CASE e[2] # 1
      <3>1. e[2] - 1 \in 1 .. Len(Acts(k, a))
        BY <1>1, <1>2, <2>3
      <3>2. PICK i \in 1 .. Len(Acts(k, a)) : i = e[2] - 1
        BY <3>1
      <3>3. <<a, i>> \in Events(k) /\ <<a, i>>[1] = a /\ <<a, i>>[2] = i
        BY <1>1, EventOf
      <3>4. <<a, i>> \in Direct(k, e)
        BY <3>2, <3>3 DEF Direct
      <3>5. i <= Done(a)
        BY <3>3, <3>4 DEF Performed
      <3> QED BY <1>1, <1>2, <2>1, <3>2, <3>5
    <2> QED BY <2>2, <2>3
  <1>5. CASE a[2] = "warp"
    <2>1. Done(a) = pc[w] - 1 /\ Acts(k, a) = k.todo[w]
      BY <1>5 DEF Done, Acts
    <2>2. e[2] = pc[w] /\ pc[w] <= Len(k.todo[w])
      BY <1>1, <1>2, <1>3, <1>4, <2>1
    <2>3. Act(k, e) = Todo(k, w)
      BY <2>1, <2>2 DEF Act, Todo
    <2>4. \A g \in Awaits(k, e) : Bar(g[1], g[2], g[3]).phase = g[4]
      BY AwaitedPhase
    <2>5. ASSUME NEW o, o \in Act(k, e).acq \/ o \in Act(k, e).wait
          PROVE  o[2] \div k.shape[o[1]].stages \in Nat
      <3>1. o[1] \in Rings(k) /\ o[2] \in Nat
        BY <1>2, <2>5 DEF WellFormed
      <3>2. k.shape[o[1]].stages \in Nat \ {0}
        BY <1>2, <3>1 DEF WellFormed
      <3> QED BY <3>1, <3>2, TurnSplits
    <2>6. ASSUME NEW o \in Act(k, e).acq
          PROVE  CanAcquire(ring[o[1]], o[2], k.shape[o[1]].stages)
      <3> DEFINE S == k.shape[o[1]].stages
                 g == <<o[1], "empty", o[2] % S, o[2] \div S>>
      <3>1. g \in Awaits(k, e)
        BY <1>5 DEF Awaits
      <3>2. Bar(g[1], g[2], g[3]).phase = g[4]
        BY <2>4, <3>1
      <3>3. ring[o[1]].empty[o[2] % S].phase = o[2] \div S
        BY <3>2 DEF Bar
      <3>4. o[2] \div S \in Nat
        BY <2>5
      <3> QED BY <3>3, <3>4, ParityDiffers DEF CanAcquire, MbarWaitable, StageOf, PhaseOf
    <2>7. ASSUME NEW o \in Act(k, e).wait
          PROVE  CanConsume(ring[o[1]], o[2], k.shape[o[1]].stages)
      <3> DEFINE S == k.shape[o[1]].stages
                 g == <<o[1], "full", o[2] % S, o[2] \div S + 1>>
      <3>1. g \in Awaits(k, e)
        BY <1>5 DEF Awaits
      <3>2. Bar(g[1], g[2], g[3]).phase = g[4]
        BY <2>4, <3>1
      <3>3. ring[o[1]].full[o[2] % S].phase = o[2] \div S + 1
        BY <3>2 DEF Bar
      <3>4. o[2] \div S \in Nat
        BY <2>5
      <3> QED BY <3>3, <3>4, ParityDiffers DEF CanConsume, MbarWaitable, StageOf, PhaseOf
    <2>8. Ready(k, Todo(k, w))
      BY <2>3, <2>6, <2>7 DEF Ready
    <2> QED BY <1>5, <2>2, <2>8 DEF Able, CanStep
  <1>6. CASE a[2] = "tensor"
    <2>1. Done(a) = tc[w] /\ Acts(k, a) = k.handed[w]
      BY <1>6 DEF Done, Acts
    <2>2. e[2] = tc[w] + 1 /\ tc[w] < Len(k.handed[w])
      BY <1>1, <1>2, <1>3, <1>4, <2>1
    <2>3. Act(k, e) = Handed(k, w)
      BY <2>1, <2>2 DEF Act, Handed
    <2>4. Act(k, e).step \in 1 .. Len(k.todo[w])
      BY <1>2, <1>6 DEF WellFormed
    <2>5. PICK i \in 1 .. Len(k.todo[w]) : i = Act(k, e).step
      BY <2>4
    <2>6. <<w, "warp">> \in Agents(k) /\ Acts(k, <<w, "warp">>) = k.todo[w]
      BY <1>3, WarpAgents
    <2>7. /\ << <<w, "warp">>, i>> \in Events(k)
          /\ << <<w, "warp">>, i>>[1] = <<w, "warp">> /\ << <<w, "warp">>, i>>[2] = i
      BY <2>6, EventOf
    <2>8. << <<w, "warp">>, i>> \in Direct(k, e)
      BY <1>6, <2>5, <2>7 DEF Direct
    <2>9. i <= Done(<<w, "warp">>)
      BY <2>7, <2>8 DEF Performed
    <2>10. Done(<<w, "warp">>) = pc[w] - 1
      BY DEF Done
    <2>11. i \in Nat /\ i < pc[w]
      BY <1>3, <2>9, <2>10
    <2> QED BY <1>6, <2>2, <2>3, <2>5, <2>11 DEF Able, CanExecute
  <1> QED BY <1>3, <1>5, <1>6

\* The end has been reached when every step has been performed.
LEMMA AllPerformed ==
    ASSUME NEW k, Counters(k), WellFormed(k), InProgram(k)
    PROVE  AllDone(k) <=> \A e \in Events(k) : Performed(e)
  <1>1. ASSUME AllDone(k), NEW e \in Events(k) PROVE Performed(e)
    <2> DEFINE a == e[1]
               w == a[1]
    <2>1. a \in Agents(k) /\ e[2] \in 1 .. Len(Acts(k, a))
      BY EventShape
    <2>2. w \in Warps(k) /\ a[2] \in {"warp", "tensor"}
      BY <2>1, AgentShape
    <2>3. /\ pc[w] \in Nat \ {0} /\ pc[w] > Len(k.todo[w]) /\ tc[w] = Len(k.handed[w])
          /\ Len(Acts(k, a)) \in Nat
      BY <1>1, <2>1, <2>2 DEF Counters, AllDone, WellFormed
    <2>4. CASE a[2] = "warp"
      BY <2>1, <2>3, <2>4 DEF Performed, Done, Acts
    <2>5. CASE a[2] = "tensor"
      BY <2>1, <2>3, <2>5 DEF Performed, Done, Acts
    <2> QED BY <2>2, <2>4, <2>5
  <1>2. ASSUME \A e \in Events(k) : Performed(e) PROVE AllDone(k)
    <2>1. ASSUME NEW a \in Agents(k) PROVE Done(a) = Len(Acts(k, a))
      <3>1. Done(a) \in Nat /\ Done(a) <= Len(Acts(k, a)) /\ Len(Acts(k, a)) \in Nat
        BY DEF InProgram, WellFormed
      <3> SUFFICES ASSUME Len(Acts(k, a)) > 0 PROVE Done(a) = Len(Acts(k, a))
        BY <3>1
      <3>2. PICK i \in 1 .. Len(Acts(k, a)) : i = Len(Acts(k, a))
        BY <3>1
      <3>3. <<a, i>> \in Events(k) /\ <<a, i>>[1] = a /\ <<a, i>>[2] = i
        BY EventOf
      <3>4. i <= Done(a)
        BY <1>2, <3>3 DEF Performed
      <3> QED BY <3>1, <3>2, <3>4
    <2>2. ASSUME NEW w \in Warps(k) PROVE pc[w] > Len(k.todo[w]) /\ tc[w] = Len(k.handed[w])
      <3>1. Done(<<w, "warp">>) = Len(k.todo[w]) /\ Done(<<w, "tensor">>) = Len(k.handed[w])
        BY <2>1, WarpAgents
      <3>2. Done(<<w, "warp">>) = pc[w] - 1 /\ Done(<<w, "tensor">>) = tc[w]
        BY DEF Done
      <3>3. pc[w] \in Nat
        BY DEF Counters
      <3> QED BY <3>1, <3>2, <3>3
    <2> QED BY <2>2 DEF AllDone
  <1> QED BY <1>1, <1>2

\* A kernel in which the awaited arrive often enough, and not once too often,
\* ends: until then some warp or some tensor core can go on.
THEOREM OrderedNeverStuck ==
    Spec => []((\A k \in Running : \E order : Sound(k, order) /\ AwaitsInOrder(k, order))
                  => NeverStuck)
  <1>1. Inv => ((\A k \in Running : \E order : Sound(k, order) /\ AwaitsInOrder(k, order))
                   => NeverStuck)
    <2> SUFFICES ASSUME Inv, NEW k \in Running, NEW order,
                        Sound(k, order), AwaitsInOrder(k, order), ~AllDone(k)
                 PROVE  \E w \in Warps(k) : CanStep(k, w) \/ CanExecute(k, w)
      BY DEF NeverStuck
    <2>1. Counters(k) /\ BarInv(k, order)
      BY DEF Inv
    <2>2. WellFormed(k) /\ HappensBefore(k, order) /\ InProgram(k)
      BY <2>1 DEF Sound, BarInv
    <2> DEFINE U == {e \in Events(k) : ~Performed(e)}
               R == {order.rank[e] : e \in U}
    <2>3. R \in SUBSET Nat /\ \E n : n \in R
      <3>1. \E e : e \in U
        BY <2>1, <2>2, AllPerformed
      <3>2. \A e \in U : order.rank[e] \in Nat
        BY <2>2 DEF HappensBefore
      <3> HIDE DEF U
      <3> QED BY <3>1, <3>2
    <2>4. PICK n \in R : \A i \in R : n <= i
      <3> HIDE DEF R
      <3> QED BY <2>3, LeastNatural
    <2>5. PICK e \in U : n = order.rank[e]
      BY <2>4
    <2>6. ASSUME NEW d \in Direct(k, e) PROVE Performed(d)
      <3>1. d \in Events(k) /\ order.rank[d] < order.rank[e]
        BY <2>2, <2>5 DEF Direct, HappensBefore
      <3>2. order.rank[d] \in Nat /\ order.rank[e] \in Nat
        BY <2>2, <2>5, <3>1 DEF HappensBefore
      <3>3. ~(order.rank[e] <= order.rank[d])
        BY <3>1, <3>2
      <3> QED BY <2>4, <2>5, <3>1, <3>3
    <2>7. Able(k, e[1])
      BY <2>1, <2>5, <2>6, DirectAble
    <2>8. e[1][1] \in Warps(k)
      BY <2>5, EventShape, AgentShape
    <2> QED BY <2>7, <2>8 DEF Able
  <1> QED BY <1>1, InitInv, NextInv, PTL DEF Spec

-----------------------------------------------------------------------------
(***************************************************************************)
(* What is left at the end.                                                *)
(***************************************************************************)
\* When all who arrive at a barrier have arrived equally often, its phase has
\* just begun.
LEMMA TallyAtRest ==
    ASSUME NEW M, IsFiniteSet(M), NEW F \in Nat, M # {} => Cardinality(M) = F,
           NEW made, NEW bar, Tally(M, F, made, bar),
           \A m, n \in M : made[m] = made[n]
    PROVE  bar.pending = F
  <1> DEFINE A == {m \in M : made[m] = bar.phase + 1}
  <1>1. bar.pending \in 1 .. F /\ bar.pending = F - Cardinality(A)
    BY DEF Tally, MbarType
  <1>2. A = {} \/ A = M
    OBVIOUS
  <1>3. CASE A = {}
    <2>1. Cardinality(A) = 0
      BY <1>3, FS_EmptySet
    <2> HIDE DEF A
    <2> QED BY <1>1, <2>1
  <1>4. CASE A = M /\ M # {}
    <2>1. Cardinality(A) = F
      BY <1>4
    <2> HIDE DEF A
    <2> QED BY <1>1, <2>1
  <1> QED BY <1>2, <1>3, <1>4

\* Nothing is under way when a kernel that ends in order has ended, and no
\* tensor core is at work when its first warp leaves.
THEOREM OrderedLeavesNothing ==
    Spec => []((\A k \in Running : \E order : Sound(k, order) /\ LeavesInOrder(k, order))
                  => LeavesNothing)
  <1>1. Inv => ((\A k \in Running : \E order : Sound(k, order) /\ LeavesInOrder(k, order))
                   => LeavesNothing)
    <2> SUFFICES ASSUME Inv, NEW k \in Running, NEW order,
                        Sound(k, order), LeavesInOrder(k, order)
                 PROVE
                   /\ (\E w \in Warps(k) : pc[w] > Len(k.todo[w])) =>
                          \A v \in Warps(k) \ k.left : tc[v] = Len(k.handed[v])
                   /\ AllDone(k) => \A r \in Rings(k) :
                          /\ \A s \in DOMAIN cell[r] : \A p \in Parts : cell[r][s][p].landed
                          /\ k.shape[r].empties > 0 =>
                                \A s \in DOMAIN ring[r].full :
                                   /\ ring[r].full[s].pending = k.shape[r].fulls
                                   /\ ring[r].empty[s].pending = k.shape[r].empties
      BY DEF LeavesNothing
    <2>1. Counters(k) /\ BarInv(k, order) /\ DataInv(k, order)
      BY DEF Inv, LeavesInOrder
    <2>2. /\ WellFormed(k) /\ HappensBefore(k, order)
          /\ InProgram(k) /\ Tallied(k) /\ Closed(k, order)
      BY <2>1 DEF Sound, BarInv
    <2>3. ASSUME NEW w \in Warps(k), pc[w] > Len(k.todo[w]), NEW v \in Warps(k) \ k.left
          PROVE  tc[v] = Len(k.handed[v])
      <3> DEFINE a == <<w, "warp">>
                 c == <<v, "tensor">>
      <3>1. /\ a \in Agents(k) /\ Acts(k, a) = k.todo[w] /\ Done(a) = pc[w] - 1
            /\ c \in Agents(k) /\ Acts(k, c) = k.handed[v] /\ Done(c) = tc[v]
        BY WarpAgents DEF Done
      <3>2. /\ Len(k.todo[w]) \in Nat /\ Len(k.handed[v]) \in Nat
            /\ pc[w] \in Nat /\ tc[v] \in Nat /\ tc[v] <= Len(k.handed[v])
        BY <2>1, <2>2, <3>1 DEF WellFormed, InProgram, Counters
      <3> HIDE DEF a, c
      <3> SUFFICES ASSUME Len(k.handed[v]) > 0 PROVE tc[v] = Len(k.handed[v])
        BY <3>2
      <3>3. /\ Len(k.todo[w]) > 0
            /\ Precedes(order, <<c, Len(k.handed[v])>>, <<a, Len(k.todo[w])>>)
        BY DEF LeavesInOrder, a, c
      <3>4. PICK i \in 1 .. Len(Acts(k, a)) : i = Len(k.todo[w])
        BY <3>1, <3>2, <3>3
      <3>5. <<a, i>> \in Events(k) /\ <<a, i>>[1] = a /\ <<a, i>>[2] = i
        BY <3>1, EventOf
      <3>6. Performed(<<a, i>>)
        BY <2>3, <3>1, <3>2, <3>4, <3>5 DEF Performed
      <3>7. order.clock[<<a, i>>][c] \in Nat /\ order.clock[<<a, i>>][c] <= Done(c)
        BY <2>2, <3>1, <3>5, <3>6 DEF HappensBefore, Closed
      <3>8. Len(k.handed[v]) <= order.clock[<<a, i>>][c]
        BY <3>3, <3>4 DEF Precedes
      <3> QED BY <3>1, <3>2, <3>7, <3>8
    <2>4. ASSUME AllDone(k), NEW r \in Rings(k), NEW s \in StagesOf(k, r), NEW p \in Parts
          PROVE  cell[r][s][p].landed
      <3>1. \A e \in Events(k) : Performed(e)
        BY <2>1, <2>2, <2>4, AllPerformed
      <3>2. ASSUME NEW c \in Writers(k, r, s, p) PROVE Settled(k, order, r, s, p, c)
        BY <3>1 DEF LeavesInOrder, Settled
      <3>3. StoredAt(k, order, r, s, p)
        BY <2>1 DEF DataInv, Stored
      <3> QED BY <3>2, <3>3 DEF StoredAt
    <2>5. ASSUME AllDone(k), NEW r \in Rings(k), k.shape[r].empties > 0,
                 NEW s \in StagesOf(k, r), NEW b \in Sides
          PROVE  Bar(r, b, s).pending = Needs(k, r, b)
      <3> DEFINE M == Members(k, r, b, s)
                 T == Counts(k, r, b, s)
                 F == Needs(k, r, b)
      <3>1. F \in Nat /\ F > 0 /\ (M # {} => Cardinality(M) = F)
        BY <2>2, <2>5 DEF WellFormed, Needs, Sides
      <3>2. IsFiniteSet(M) /\ M \subseteq Agents(k)
        BY <2>2, MembersFinite DEF WellFormed
      <3>3. Tally(M, F, T, Bar(r, b, s))
        BY <2>2, <3>1, BarPhase
      <3>4. ASSUME NEW m \in M PROVE T[m] = Count(k, m, r, b, s, Len(Acts(k, m)))
        <4>1. m[1] \in Warps(k) /\ m[2] \in {"warp", "tensor"}
          BY <3>2, AgentShape
        <4>2. /\ pc[m[1]] \in Nat /\ pc[m[1]] > Len(k.todo[m[1]])
              /\ tc[m[1]] = Len(k.handed[m[1]])
          BY <2>1, <2>5, <4>1 DEF Counters, AllDone
        <4>3. Done(m) \in Nat /\ Done(m) <= Len(Acts(k, m)) /\ Len(Acts(k, m)) \in Nat
          BY <2>2, <3>2 DEF InProgram, WellFormed
        <4>4. Done(m) = Len(Acts(k, m))
          <5>1. CASE m[2] = "warp"
            BY <4>2, <4>3, <5>1 DEF Done, Acts
          <5>2. CASE m[2] = "tensor"
            BY <4>2, <5>2 DEF Done, Acts
          <5> QED BY <4>1, <5>1, <5>2
        <4> QED BY <4>4 DEF Counts
      <3>5. \A m, n \in M : T[m] = T[n]
        BY <2>5, <3>4 DEF LeavesInOrder, Count
      <3> HIDE DEF M, T, F
      <3>6. Bar(r, b, s).pending = F
        BY <3>1, <3>2, <3>3, <3>5, TallyAtRest
      <3> QED BY <3>6 DEF F
    <2>6. ASSUME NEW r \in Rings(k)
          PROVE  DOMAIN cell[r] = StagesOf(k, r) /\ DOMAIN ring[r].full = StagesOf(k, r)
      BY <2>1 DEF DataInv, CellShaped, BarInv, Shaped
    <2>7. ASSUME AllDone(k), NEW r \in Rings(k), k.shape[r].empties > 0,
                 NEW s \in StagesOf(k, r)
          PROVE  /\ ring[r].full[s].pending = k.shape[r].fulls
                 /\ ring[r].empty[s].pending = k.shape[r].empties
      <3>1. Bar(r, "full", s).pending = Needs(k, r, "full")
        BY <2>5, <2>7 DEF Sides
      <3>2. Bar(r, "empty", s).pending = Needs(k, r, "empty")
        BY <2>5, <2>7 DEF Sides
      <3> QED BY <3>1, <3>2 DEF Bar, Needs
    <2> QED BY <2>3, <2>4, <2>6, <2>7
  <1> QED BY <1>1, InitInv, NextInv, PTL DEF Spec
=============================================================================
