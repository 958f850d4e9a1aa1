----------------------------- MODULE DeltaHProof -----------------------------
(***************************************************************************)
(* DeltaH proved: its type, the discipline of its barriers, what the       *)
(* stages hold, the gates, the end of the block, that it writes what the   *)
(* serial recurrence writes, and that it is never stuck.                   *)
(*                                                                         *)
(* The argument.  A warp enters and leaves one turn of each of its         *)
(* pipelines per chunk (h0: per unit), so its place gives the number of    *)
(* turns it has entered and left, Begun and Done.  Those numbers, not the  *)
(* phases, carry the proof: the turns 0 .. n - 1 of a ring fall on stage s *)
(* Uses(n, S, s) times, and StageInv ties the two barriers of a stage to   *)
(* the uses its participants have made of it.  Four lemmas about a stage   *)
(* (acquire, fill, wait, take) become four about a ring, and those the     *)
(* kinds of steps of the block; every action is of one of these kinds      *)
(* (LoadMoves, ..., StillMoves).  Core is the invariant they keep.         *)
(*                                                                         *)
(* On Core rest Shape, the types of the data; Hold, what a stage holds     *)
(* while its turn lasts (TileHolds, PartHolds), the shares of a gk tile    *)
(* that are scaled (GateHolds) and the registers (Regs); and Outs, how     *)
(* much of each output is written.  Progress needs no more than these: of  *)
(* the warps in the earliest unit one trails the others.                   *)
(***************************************************************************)
EXTENDS DeltaH, FiniteSetTheorems, WellFoundedInduction, TLAPS

\* The least element of a set of naturals: induction, for one predicate
\* at a time, is that the set of counterexamples has none.
Below == {p \in Nat \X Nat : p[1] < p[2]}

LEMMA Least ==
    ASSUME NEW S \in SUBSET Nat, S # {}
    PROVE  \E m \in S : \A y \in S : m <= y
  <1>1. IsWellFoundedOn(Below, Nat)
    <2>1. OpToRel(<, Nat) = Below
      BY DEF OpToRel, Below
    <2> QED BY <2>1, NatLessThanWellFounded
  <1>2. PICK m \in S : \A y \in S : ~(<<y, m>> \in Below)
    BY <1>1, WFMin
  <1>3. ASSUME NEW y \in S PROVE m <= y
    <2>1. y \in Nat /\ m \in Nat
      OBVIOUS
    <2>2. y < m => <<y, m>> \in Below
      BY <2>1 DEF Below
    <2> QED BY <1>2, <2>1, <2>2
  <1> QED BY <1>3

-----------------------------------------------------------------------------
(***************************************************************************)
(* Rings.  Uses(n, S, s) of the turns 0 .. n - 1 of a ring of S stages     *)
(* are at stage s.                                                         *)
(***************************************************************************)
Uses(n, S, s) == n \div S + IF s < n % S THEN 1 ELSE 0

LEMMA DivModUnique ==
    ASSUME NEW S \in Nat \ {0}, NEW d \in Nat, NEW r \in 0 .. S - 1
    PROVE  (S * d + r) \div S = d /\ (S * d + r) % S = r
  OBVIOUS

LEMMA DivMod ==
    ASSUME NEW n \in Nat, NEW S \in Nat \ {0}
    PROVE  \E d \in Nat, r \in 0 .. S - 1 :
              n = S * d + r /\ n \div S = d /\ n % S = r
  <1> DEFINE d == n \div S
  <1>1. d \in Nat /\ d * S <= n /\ n < d * S + S
    OBVIOUS
  <1> HIDE DEF d
  <1> DEFINE r == n - d * S
  <1>2. r \in 0 .. S - 1 /\ n = S * d + r
    <2>1. d * S \in Nat /\ d * S = S * d
      BY <1>1
    <2> QED BY <1>1, <2>1
  <1> HIDE DEF r
  <1>3. (S * d + r) % S = r
    BY <1>1, <1>2, DivModUnique
  <1>4. n % S = r
    BY <1>2, <1>3
  <1>5. n \div S = d
    BY DEF d
  <1> QED BY <1>1, <1>2, <1>4, <1>5

LEMMA UsesType ==
    ASSUME NEW n \in Nat, NEW S \in Nat \ {0}, NEW s \in 0 .. S - 1
    PROVE  Uses(n, S, s) \in Nat
  BY DivMod DEF Uses

LEMMA UsesZero ==
    ASSUME NEW S \in Nat \ {0}, NEW s \in 0 .. S - 1
    PROVE  Uses(0, S, s) = 0
  <1>1. 0 = S * 0 + 0
    OBVIOUS
  <1>2. 0 \div S = 0 /\ 0 % S = 0
    BY <1>1, DivModUnique
  <1> QED BY <1>2 DEF Uses

LEMMA DivModNext ==
    ASSUME NEW n \in Nat, NEW S \in Nat \ {0}
    PROVE  IF n % S = S - 1
           THEN (n + 1) \div S = n \div S + 1 /\ (n + 1) % S = 0
           ELSE (n + 1) \div S = n \div S /\ (n + 1) % S = (n % S) + 1
  <1>1. PICK d \in Nat, r \in 0 .. S - 1 :
               n = S * d + r /\ n \div S = d /\ n % S = r
    BY DivMod
  <1>2. CASE r = S - 1
    <2>1. n + 1 = S * (d + 1) + 0
      BY <1>1, <1>2
    <2>2. (n + 1) \div S = d + 1 /\ (n + 1) % S = 0
      BY <1>1, <2>1, DivModUnique
    <2> QED BY <1>2, <1>1, <2>2
  <1>3. CASE r # S - 1
    <2>1. n + 1 = S * d + (r + 1) /\ r + 1 \in 0 .. S - 1
      BY <1>1, <1>3
    <2>2. (n + 1) \div S = d /\ (n + 1) % S = r + 1
      BY <1>1, <2>1, DivModUnique
    <2> QED BY <1>3, <1>1, <2>2
  <1> QED BY <1>2, <1>3

LEMMA UsesNext ==
    ASSUME NEW n \in Nat, NEW S \in Nat \ {0}, NEW s \in 0 .. S - 1
    PROVE  Uses(n + 1, S, s) = Uses(n, S, s) + IF n % S = s THEN 1 ELSE 0
  <1>1. n \div S \in Nat /\ n % S \in 0 .. S - 1
    BY DivMod
  <1> DEFINE d == n \div S
             r == n % S
             e == (n + 1) \div S
             q == (n + 1) % S
  <1>2. IF r = S - 1 THEN e = d + 1 /\ q = 0 ELSE e = d /\ q = r + 1
    BY DivModNext
  <1>3. Uses(n, S, s) = d + (IF s < r THEN 1 ELSE 0)
    BY DEF Uses
  <1>4. Uses(n + 1, S, s) = e + (IF s < q THEN 1 ELSE 0)
    BY DEF Uses
  <1>5. d \in Nat /\ r \in 0 .. S - 1
    BY <1>1
  <1> HIDE DEF d, r, e, q
  <1>6. Uses(n + 1, S, s) = Uses(n, S, s) + IF r = s THEN 1 ELSE 0
    BY <1>2, <1>3, <1>4, <1>5
  <1> QED BY <1>6 DEF r

LEMMA UsesOwn ==
    ASSUME NEW n \in Nat, NEW S \in Nat \ {0}
    PROVE  n % S \in 0 .. S - 1 /\ Uses(n, S, n % S) = n \div S
  BY DivMod DEF Uses

LEMMA UsesRound ==
    ASSUME NEW n \in Nat, NEW S \in Nat \ {0}, NEW s \in 0 .. S - 1
    PROVE  Uses(n + S, S, s) = Uses(n, S, s) + 1 /\ (n + S) % S = n % S
  <1>1. PICK d \in Nat, r \in 0 .. S - 1 :
               n = S * d + r /\ n \div S = d /\ n % S = r
    BY DivMod
  <1>2. n + S = S * (d + 1) + r
    BY <1>1
  <1>3. (n + S) \div S = d + 1 /\ (n + S) % S = r
    BY <1>1, <1>2, DivModUnique
  <1> QED BY <1>1, <1>3 DEF Uses

LEMMA UsesMono ==
    ASSUME NEW m \in Nat, NEW n \in Nat, m <= n,
           NEW S \in Nat \ {0}, NEW s \in 0 .. S - 1
    PROVE  Uses(m, S, s) <= Uses(n, S, s)
  <1>1. PICK d \in Nat, r \in 0 .. S - 1 :
               m = S * d + r /\ m \div S = d /\ m % S = r
    BY DivMod
  <1>2. PICK e \in Nat, q \in 0 .. S - 1 :
               n = S * e + q /\ n \div S = e /\ n % S = q
    BY DivMod
  <1>3. d <= e
    <2>1. SUFFICES ASSUME d >= e + 1 PROVE FALSE
      BY <1>1, <1>2
    <2>2. PICK k \in Nat : d = e + 1 + k
      <3>1. d - e - 1 \in Nat /\ d = e + 1 + (d - e - 1)
        BY <1>1, <1>2, <2>1
      <3> QED BY <3>1
    <2>3. S * d = S * e + S + S * k /\ S * k >= 0
      BY <1>2, <2>2
    <2> QED BY <1>1, <1>2, <2>3
  <1>4. d = e => r <= q
    BY <1>1, <1>2
  <1> QED BY <1>1, <1>2, <1>3, <1>4 DEF Uses

\* Who has handled turn t has used its stage once more than before t.
LEMMA UsesPast ==
    ASSUME NEW t \in Nat, NEW n \in Nat, NEW S \in Nat \ {0},
           Uses(t, S, t % S) < Uses(n, S, t % S)
    PROVE  t < n
  <1>1. t % S \in 0 .. S - 1
    BY DivMod
  <1>2. n <= t => Uses(n, S, t % S) <= Uses(t, S, t % S)
    BY <1>1, UsesMono
  <1>3. Uses(n, S, t % S) \in Nat /\ Uses(t, S, t % S) \in Nat
    BY <1>1, UsesType
  <1> QED BY <1>2, <1>3

\* Two turns of one stage within a round are one.
LEMMA WindowUnique ==
    ASSUME NEW a \in Nat, NEW b \in Nat, NEW S \in Nat \ {0},
           a % S = b % S, a < b + S, b < a + S
    PROVE  a = b
  <1>1. PICK d \in Nat, r \in 0 .. S - 1 :
               a = S * d + r /\ a \div S = d /\ a % S = r
    BY DivMod
  <1>2. PICK e \in Nat, q \in 0 .. S - 1 :
               b = S * e + q /\ b \div S = e /\ b % S = q
    BY DivMod
  <1> q = r
    BY <1>1, <1>2
  <1>3. ASSUME NEW i \in Nat, NEW j \in Nat, S * i < S * j + S PROVE i <= j
    <2>1. SUFFICES ASSUME i >= j + 1 PROVE FALSE
      BY <1>3
    <2>2. PICK k \in Nat : i = j + 1 + k
      <3>1. i - j - 1 \in Nat /\ i = j + 1 + (i - j - 1)
        BY <1>3, <2>1
      <3> QED BY <3>1
    <2>3. S * i = S * j + S + S * k /\ S * k >= 0
      BY <2>2
    <2> QED BY <1>3, <2>3
  <1>4. S * d < S * e + S /\ S * e < S * d + S
    BY <1>1, <1>2
  <1>5. d <= e /\ e <= d
    BY <1>1, <1>2, <1>3, <1>4
  <1> QED BY <1>1, <1>2, <1>5

-----------------------------------------------------------------------------
(***************************************************************************)
(* Before, a recursive function: that it is one, and what it returns.      *)
(***************************************************************************)
\* f satisfies the recursion on 0 .. n.
Sums(f, n) ==
    /\ DOMAIN f = 0 .. n
    /\ \A u \in 0 .. n : f[u] = IF u <= 1 THEN 0 ELSE f[u - 1] + Units[u - 1]

LEMMA SumsAgree ==
    ASSUME NEW n \in Nat, NEW m \in Nat, NEW f, NEW g, Sums(f, n), Sums(g, m),
           NEW u \in Nat, u <= n, u <= m
    PROVE  f[u] = g[u]
  <1> DEFINE D == {v \in Nat : v <= n /\ v <= m /\ f[v] # g[v]}
  <1>1. SUFFICES ASSUME D # {} PROVE FALSE
    OBVIOUS
  <1>2. PICK v \in D : \A y \in D : v <= y
    <2>1. D \in SUBSET Nat
      OBVIOUS
    <2> HIDE DEF D
    <2> QED BY <1>1, <2>1, Least
  <1>3. v > 1
    BY DEF Sums
  <1>4. v - 1 \in Nat /\ v - 1 \notin D
    BY <1>2, <1>3
  <1>5. f[v - 1] = g[v - 1]
    BY <1>4
  <1>6. f[v] = f[v - 1] + Units[v - 1] /\ g[v] = g[v - 1] + Units[v - 1]
    BY <1>3 DEF Sums
  <1> QED BY <1>5, <1>6

LEMMA SumsExist ==
    ASSUME NEW n \in Nat
    PROVE  \E f : Sums(f, n)
  <1> DEFINE D == {v \in Nat : ~ \E f : Sums(f, v)}
  <1>1. SUFFICES ASSUME D # {} PROVE FALSE
    OBVIOUS
  <1>2. PICK v \in D : \A y \in D : v <= y
    <2>1. D \in SUBSET Nat
      OBVIOUS
    <2> HIDE DEF D
    <2> QED BY <1>1, <2>1, Least
  <1>3. v # 0
    <2>1. Sums([u \in 0 .. 0 |-> 0], 0)
      BY DEF Sums
    <2> QED BY <2>1
  <1>4. PICK f : Sums(f, v - 1)
    <2>1. v - 1 \in Nat /\ v - 1 \notin D
      BY <1>2, <1>3
    <2> QED BY <2>1
  <1> DEFINE g == [u \in 0 .. v |-> IF u = v
                  THEN IF v <= 1 THEN 0 ELSE f[v - 1] + Units[v - 1] ELSE f[u]]
  <1>5. Sums(g, v)
    <2>1. ASSUME NEW u \in 0 .. v
          PROVE  g[u] = IF u <= 1 THEN 0 ELSE g[u - 1] + Units[u - 1]
      <3>1. CASE u = v
        <4>1. CASE v <= 1
          BY <3>1, <4>1
        <4>2. CASE v > 1
          <5>1. g[u - 1] = f[v - 1]
            BY <3>1, <4>2
          <5> QED BY <3>1, <4>2, <5>1
        <4> QED BY <4>1, <4>2
      <3>2. CASE u < v
        <4>1. u \in 0 .. v - 1 /\ g[u] = f[u]
          BY <3>2
        <4>2. u > 1 => g[u - 1] = f[u - 1]
          BY <3>2
        <4> QED BY <1>4, <4>1, <4>2 DEF Sums
      <3> QED BY <3>1, <3>2
    <2> QED BY <2>1 DEF Sums
  <1> QED BY <1>2, <1>5

LEMMA BeforeExists ==
    Before = [u \in Nat |-> IF u <= 1 THEN 0 ELSE Before[u - 1] + Units[u - 1]]
  <1> DEFINE F(n) == CHOOSE f : Sums(f, n)
             g == [u \in Nat |-> F(u)[u]]
  <1>1. ASSUME NEW n \in Nat PROVE Sums(F(n), n)
    BY SumsExist
  <1> HIDE DEF F
  <1>2. ASSUME NEW u \in Nat
        PROVE  g[u] = IF u <= 1 THEN 0 ELSE g[u - 1] + Units[u - 1]
    <2>1. g[u] = F(u)[u] /\ Sums(F(u), u)
      BY <1>1
    <2>2. CASE u <= 1
      BY <2>1, <2>2 DEF Sums
    <2>3. CASE u > 1
      <3>1. u - 1 \in Nat /\ g[u - 1] = F(u - 1)[u - 1] /\ Sums(F(u - 1), u - 1)
        BY <1>1, <2>3
      <3>2. F(u - 1)[u - 1] = F(u)[u - 1]
        BY <2>1, <3>1, SumsAgree
      <3>3. F(u)[u] = F(u)[u - 1] + Units[u - 1]
        BY <2>1, <2>3 DEF Sums
      <3> QED BY <2>1, <2>3, <3>1, <3>2, <3>3
    <2> QED BY <2>2, <2>3
  <1>3. g = [u \in Nat |-> IF u <= 1 THEN 0 ELSE g[u - 1] + Units[u - 1]]
    BY <1>2
  <1> HIDE DEF g
  <1> QED BY <1>3 DEF Before

LEMMA BeforeNext ==
    /\ Before[1] = 0
    /\ \A u \in 1 .. Len(Units) : Before[u + 1] = Before[u] + Units[u]
  <1>1. \A u \in Nat : Before[u] =
           IF u <= 1 THEN 0 ELSE Before[u - 1] + Units[u - 1]
    BY BeforeExists
  <1>2. Before[1] = 0
    BY <1>1
  <1>3. ASSUME NEW u \in 1 .. Len(Units)
        PROVE  Before[u + 1] = Before[u] + Units[u]
    <2>1. u \in Nat /\ u >= 1 /\ u + 1 \in Nat /\ u + 1 > 1 /\ (u + 1) - 1 = u
      BY UnitsAssumption
    <2> QED BY <1>1, <2>1
  <1> QED BY <1>2, <1>3

LEMMA BeforeType ==
    \A u \in 1 .. Len(Units) + 1 : Before[u] \in Nat
  <1> DEFINE D == {v \in Nat : v \in 1 .. Len(Units) + 1 /\ Before[v] \notin Nat}
  <1>0. Len(Units) \in Nat
    BY UnitsAssumption
  <1>1. SUFFICES ASSUME D # {} PROVE FALSE
    BY <1>0
  <1>2. PICK v \in D : \A y \in D : v <= y
    <2>1. D \in SUBSET Nat
      OBVIOUS
    <2> HIDE DEF D
    <2> QED BY <1>1, <2>1, Least
  <1>3. v # 1
    BY BeforeNext
  <1>4. v - 1 \in 1 .. Len(Units) /\ v - 1 \notin D
    BY <1>0, <1>2, <1>3
  <1>5. Before[v - 1] \in Nat
    BY <1>0, <1>4
  <1>6. Before[(v - 1) + 1] = Before[v - 1] + Units[v - 1] /\ Units[v - 1] \in Nat
    BY <1>4, BeforeNext, UnitsAssumption
  <1>7. (v - 1) + 1 = v
    BY <1>0
  <1> QED BY <1>5, <1>6, <1>7

\* The turns of a unit come before those of a later unit.
LEMMA BeforeMono ==
    ASSUME NEW u \in 1 .. Len(Units), NEW v \in 1 .. Len(Units) + 1, u < v
    PROVE  Before[u] + Units[u] <= Before[v]
  <1> DEFINE D == {w \in Nat : /\ w \in 1 .. Len(Units) + 1 /\ u < w
                               /\ ~ (Before[u] + Units[u] <= Before[w])}
  <1>0. Len(Units) \in Nat /\ Units[u] \in Nat
    BY UnitsAssumption
  <1>1. SUFFICES ASSUME D # {} PROVE FALSE
    BY <1>0
  <1>2. PICK w \in D : \A y \in D : w <= y
    <2>1. D \in SUBSET Nat
      OBVIOUS
    <2> HIDE DEF D
    <2> QED BY <1>1, <2>1, Least
  <1>3. w # u + 1
    <2>1. Before[u + 1] = Before[u] + Units[u]
      BY BeforeNext
    <2>2. Before[u + 1] \in Nat
      BY <1>0, BeforeType
    <2> QED BY <2>1, <2>2
  <1>4. w - 1 \in 1 .. Len(Units) /\ u < w - 1 /\ w - 1 \notin D
    BY <1>0, <1>2, <1>3
  <1>5. Before[u] + Units[u] <= Before[w - 1]
    BY <1>0, <1>4
  <1>6. Before[(w - 1) + 1] = Before[w - 1] + Units[w - 1] /\ Units[w - 1] \in Nat
    BY <1>4, BeforeNext, UnitsAssumption
  <1>7. (w - 1) + 1 = w
    BY <1>0
  <1>8. Before[w - 1] \in Nat /\ Before[u] \in Nat
    BY <1>0, <1>4, BeforeType
  <1> QED BY <1>0, <1>5, <1>6, <1>7, <1>8

-----------------------------------------------------------------------------
(***************************************************************************)
(* Names and turns.  The data of chunk c of unit u is what a pipeline of   *)
(* chunks carries in its turn Before[u] + c; h0 is carried in turn u - 1.  *)
(***************************************************************************)
TurnOf(x, u, c) == IF x = "h0" THEN u - 1 ELSE Before[u] + c

Named(x, tag, t) ==
    \E u \in 1 .. Len(Units), c \in Nat :
        /\ tag = <<u, c>>
        /\ t = TurnOf(x, u, c)
        /\ IF x = "h0" THEN c = 0 ELSE c < Units[u]

LEMMA NamedOnce ==
    ASSUME NEW x, NEW a, NEW b, NEW t, Named(x, a, t), Named(x, b, t)
    PROVE  a = b
  <1>0. Len(Units) \in Nat /\ \A u \in 1 .. Len(Units) : Units[u] \in Nat
    BY UnitsAssumption
  <1>1. PICK u \in 1 .. Len(Units), c \in Nat :
           /\ a = <<u, c>> /\ t = TurnOf(x, u, c)
           /\ IF x = "h0" THEN c = 0 ELSE c < Units[u]
    BY DEF Named
  <1>2. PICK v \in 1 .. Len(Units), d \in Nat :
           /\ b = <<v, d>> /\ t = TurnOf(x, v, d)
           /\ IF x = "h0" THEN d = 0 ELSE d < Units[v]
    BY DEF Named
  <1>3. CASE x = "h0"
    BY <1>0, <1>1, <1>2, <1>3 DEF TurnOf
  <1>4. CASE x # "h0"
    <2>1. Before[u] + c = Before[v] + d /\ c < Units[u] /\ d < Units[v]
      BY <1>1, <1>2, <1>4 DEF TurnOf
    <2>2. Before[u] \in Nat /\ Before[v] \in Nat
      BY <1>0, BeforeType
    <2>3. ~ (u < v)
      <3>1. u < v => Before[u] + Units[u] <= Before[v]
        BY <1>0, BeforeMono
      <3> QED BY <1>0, <2>1, <2>2, <3>1
    <2>4. ~ (v < u)
      <3>1. v < u => Before[v] + Units[v] <= Before[u]
        BY <1>0, BeforeMono
      <3> QED BY <1>0, <2>1, <2>2, <3>1
    <2>5. u = v
      BY <1>0, <2>3, <2>4
    <2>6. c = d
      BY <2>1, <2>2, <2>5
    <2> QED BY <1>1, <1>2, <2>5, <2>6
  <1> QED BY <1>3, <1>4

-----------------------------------------------------------------------------
(***************************************************************************)
(* A stage.  f and e are its full and empty barrier, M and T the processes *)
(* that fill it and those that empty it; be[m] and fi[m] count how often m *)
(* acquired the stage and arrived at f, wa[q] and ta[q] how often q waited *)
(* for it and arrived at e.                                                *)
(***************************************************************************)
Tally(b, A, n) ==
    /\ b \in MbarType(Cardinality(A))
    /\ \A a \in A : n[a] \in {b.phase, b.phase + 1}
    /\ b.pending = Cardinality({a \in A : n[a] = b.phase})

StageInv(f, e, M, T, fi, be, ta, wa) ==
    /\ Tally(f, M, fi)
    /\ Tally(e, T, ta)
    /\ \A m \in M : be[m] \in {fi[m], fi[m] + 1} /\ be[m] <= e.phase + 1
    /\ \A q \in T : wa[q] \in {ta[q], ta[q] + 1} /\ wa[q] <= f.phase

LEMMA TallyInit ==
    ASSUME NEW A, IsFiniteSet(A), A # {}
    PROVE  Tally(MbarInit(Cardinality(A)), A, [a \in A |-> 0])
  <1>1. Cardinality(A) \in Nat /\ Cardinality(A) # 0
    BY FS_CardinalityType, FS_EmptySet
  <1>2. {a \in A : [b \in A |-> 0][a] = 0} = A
    OBVIOUS
  <1> QED BY <1>1, <1>2 DEF Tally, MbarInit, MbarType

\* Somebody is missing in the phase that runs.
LEMMA TallyMissing ==
    ASSUME NEW A, IsFiniteSet(A), NEW b, NEW n, Tally(b, A, n)
    PROVE  \E a \in A : n[a] = b.phase
  <1>1. b.pending # 0
    BY FS_CardinalityType DEF Tally, MbarType
  <1>2. {a \in A : n[a] = b.phase} # {}
    BY <1>1, FS_EmptySet DEF Tally
  <1> QED BY <1>2

LEMMA TallyArrive ==
    ASSUME NEW A, IsFiniteSet(A), NEW b, NEW n, Tally(b, A, n),
           NEW k \in A, n[k] = b.phase,
           NEW o, \A a \in A : o[a] = IF a = k THEN n[a] + 1 ELSE n[a]
    PROVE  /\ Tally(MbarArrive(b, Cardinality(A)), A, o)
           /\ MbarArrive(b, Cardinality(A)).phase \in {b.phase, b.phase + 1}
  <1> DEFINE N == Cardinality(A)
             S == {a \in A : n[a] = b.phase}
             c == MbarArrive(b, N)
  <1>1. N \in Nat /\ N # 0
    BY FS_CardinalityType, FS_EmptySet
  <1>2. b \in [pending : 1 .. N, phase : Nat] /\ b.pending = Cardinality(S)
    BY DEF Tally, MbarType
  <1>3. IsFiniteSet(S) /\ k \in S
    BY FS_Subset
  <1>4. Cardinality(S \ {k}) = Cardinality(S) - 1 /\ IsFiniteSet(S \ {k})
    BY <1>3, FS_RemoveElement
  <1>5. \A a \in A : n[a] \in {b.phase, b.phase + 1}
    BY DEF Tally
  <1>6. CASE b.pending = 1
    <2>1. S = {k}
      <3>1. S \ {k} = {}
        BY <1>2, <1>4, <1>6, FS_EmptySet
      <3> QED BY <1>3, <3>1
    <2>2. \A a \in A : o[a] = b.phase + 1
      BY <1>2, <1>5, <2>1
    <2>3. c = [pending |-> N, phase |-> b.phase + 1]
      BY <1>6 DEF MbarArrive
    <2>4. {a \in A : o[a] = c.phase} = A
      BY <2>2, <2>3
    <2>5. c \in MbarType(N)
      BY <1>1, <1>2, <2>3 DEF MbarType
    <2> QED BY <2>2, <2>3, <2>4, <2>5 DEF Tally
  <1>7. CASE b.pending # 1
    <2>1. c = [pending |-> b.pending - 1, phase |-> b.phase]
      BY <1>2, <1>7 DEF MbarArrive
    <2>2. {a \in A : o[a] = c.phase} = S \ {k}
      BY <1>2, <1>5, <2>1
    <2>3. c \in MbarType(N)
      BY <1>1, <1>2, <1>7, <2>1 DEF MbarType
    <2>4. \A a \in A : o[a] \in {c.phase, c.phase + 1}
      BY <1>2, <1>5, <2>1
    <2>5. c.pending = Cardinality(S \ {k})
      BY <1>2, <1>4, <2>1
    <2> QED BY <2>1, <2>2, <2>3, <2>4, <2>5 DEF Tally
  <1> QED BY <1>6, <1>7

\* What a participant of a stage is given.
Participants(M, T, fi, be, ta, wa) ==
    /\ IsFiniteSet(M) /\ M # {} /\ IsFiniteSet(T) /\ T # {}
    /\ \A m \in M : fi[m] \in Nat /\ be[m] \in Nat
    /\ \A q \in T : ta[q] \in Nat /\ wa[q] \in Nat

\* A stage is full or empty.
LEMMA StageFullOrEmpty ==
    ASSUME NEW f, NEW e, NEW M, NEW T, NEW fi, NEW be, NEW ta, NEW wa,
           Participants(M, T, fi, be, ta, wa),
           StageInv(f, e, M, T, fi, be, ta, wa)
    PROVE  /\ f.phase \in Nat /\ e.phase \in Nat
           /\ f.phase \in {e.phase, e.phase + 1}
           /\ \A m \in M : fi[m] \in {f.phase, f.phase + 1}
           /\ \A q \in T : ta[q] \in {e.phase, e.phase + 1}
  <1>1. PICK m \in M : fi[m] = f.phase
    BY TallyMissing DEF StageInv, Participants
  <1>2. PICK q \in T : ta[q] = e.phase
    BY TallyMissing DEF StageInv, Participants
  <1>3. f.phase \in Nat /\ e.phase \in Nat
    BY DEF StageInv, Tally, MbarType
  <1>4. be[m] \in {fi[m], fi[m] + 1} /\ be[m] <= e.phase + 1
    BY DEF StageInv
  <1>5. wa[q] \in {ta[q], ta[q] + 1} /\ wa[q] <= f.phase
    BY DEF StageInv
  <1>6. f.phase \in {e.phase, e.phase + 1}
    BY <1>1, <1>2, <1>3, <1>4, <1>5
  <1> QED BY <1>3, <1>6 DEF StageInv, Tally

\* acquire: the stage was empty, and every producer at this turn.
LEMMA StageAcquire ==
    ASSUME NEW f, NEW e, NEW M, NEW T, NEW fi, NEW be, NEW ta, NEW wa,
           Participants(M, T, fi, be, ta, wa),
           StageInv(f, e, M, T, fi, be, ta, wa),
           NEW k \in M, MbarWaitable(e, 1 - (be[k] % 2)),
           NEW be2, \A m \in M : be2[m] = IF m = k THEN be[m] + 1 ELSE be[m]
    PROVE  StageInv(f, e, M, T, fi, be2, ta, wa) /\ fi[k] = be[k]
  <1>1. /\ f.phase \in Nat /\ e.phase \in Nat
        /\ f.phase \in {e.phase, e.phase + 1}
        /\ fi[k] \in {f.phase, f.phase + 1}
    BY StageFullOrEmpty
  <1>2. /\ be[k] \in {fi[k], fi[k] + 1} /\ be[k] <= e.phase + 1
        /\ be[k] \in Nat /\ fi[k] \in Nat
    BY DEF StageInv, Participants
  <1>3. e.phase % 2 # 1 - (be[k] % 2)
    BY DEF MbarWaitable
  <1>4. be[k] = e.phase /\ fi[k] = e.phase
    BY <1>1, <1>2, <1>3
  <1> QED BY <1>1, <1>4 DEF StageInv

\* An arrival at the full barrier, of a process that acquired the stage.
LEMMA StageFill ==
    ASSUME NEW f, NEW e, NEW M, NEW T, NEW fi, NEW be, NEW ta, NEW wa,
           Participants(M, T, fi, be, ta, wa),
           StageInv(f, e, M, T, fi, be, ta, wa),
           NEW k \in M, be[k] = fi[k] + 1,
           NEW fi2, \A m \in M : fi2[m] = IF m = k THEN fi[m] + 1 ELSE fi[m]
    PROVE  StageInv(MbarArrive(f, Cardinality(M)), e, M, T, fi2, be, ta, wa)
  <1>1. /\ f.phase \in Nat /\ e.phase \in Nat
        /\ f.phase \in {e.phase, e.phase + 1}
        /\ fi[k] \in {f.phase, f.phase + 1}
    BY StageFullOrEmpty
  <1>2. be[k] <= e.phase + 1 /\ fi[k] \in Nat
    BY DEF StageInv, Participants
  <1>3. fi[k] = f.phase
    BY <1>1, <1>2
  <1>4. /\ Tally(MbarArrive(f, Cardinality(M)), M, fi2)
        /\ MbarArrive(f, Cardinality(M)).phase \in {f.phase, f.phase + 1}
    BY <1>3, TallyArrive DEF StageInv, Participants
  <1> DEFINE g == MbarArrive(f, Cardinality(M))
  <1> HIDE DEF g
  <1>5. \A m \in M : be[m] \in {fi2[m], fi2[m] + 1} /\ be[m] <= e.phase + 1
    BY DEF StageInv, Participants
  <1>6. g.phase \in {f.phase, f.phase + 1}
    BY <1>4 DEF g
  <1>7. \A q \in T : wa[q] \in {ta[q], ta[q] + 1} /\ wa[q] <= g.phase
    BY <1>1, <1>6 DEF StageInv, Participants
  <1>8. Tally(g, M, fi2)
    BY <1>4 DEF g
  <1>9. StageInv(g, e, M, T, fi2, be, ta, wa)
    BY <1>5, <1>7, <1>8 DEF StageInv
  <1> QED BY <1>9 DEF g

\* wait: the stage was full, with the turn of this consumer.
LEMMA StageWait ==
    ASSUME NEW f, NEW e, NEW M, NEW T, NEW fi, NEW be, NEW ta, NEW wa,
           Participants(M, T, fi, be, ta, wa),
           StageInv(f, e, M, T, fi, be, ta, wa),
           NEW k \in T, MbarWaitable(f, wa[k] % 2),
           NEW wa2, \A q \in T : wa2[q] = IF q = k THEN wa[q] + 1 ELSE wa[q]
    PROVE  StageInv(f, e, M, T, fi, be, ta, wa2) /\ ta[k] = wa[k]
  <1>1. /\ f.phase \in Nat /\ e.phase \in Nat
        /\ f.phase \in {e.phase, e.phase + 1}
        /\ ta[k] \in {e.phase, e.phase + 1}
    BY StageFullOrEmpty
  <1>2. /\ wa[k] \in {ta[k], ta[k] + 1} /\ wa[k] <= f.phase
        /\ wa[k] \in Nat /\ ta[k] \in Nat
    BY DEF StageInv, Participants
  <1>3. f.phase % 2 # wa[k] % 2
    BY DEF MbarWaitable
  <1>4. ta[k] = wa[k] /\ wa[k] + 1 = f.phase
    BY <1>1, <1>2, <1>3
  <1> QED BY <1>1, <1>4 DEF StageInv

\* An arrival at the empty barrier, of a process that waited for the stage.
LEMMA StageTake ==
    ASSUME NEW f, NEW e, NEW M, NEW T, NEW fi, NEW be, NEW ta, NEW wa,
           Participants(M, T, fi, be, ta, wa),
           StageInv(f, e, M, T, fi, be, ta, wa),
           NEW k \in T, wa[k] = ta[k] + 1,
           NEW ta2, \A q \in T : ta2[q] = IF q = k THEN ta[q] + 1 ELSE ta[q]
    PROVE  StageInv(f, MbarArrive(e, Cardinality(T)), M, T, fi, be, ta2, wa)
  <1>1. /\ f.phase \in Nat /\ e.phase \in Nat
        /\ f.phase \in {e.phase, e.phase + 1}
        /\ ta[k] \in {e.phase, e.phase + 1}
    BY StageFullOrEmpty
  <1>2. wa[k] <= f.phase /\ ta[k] \in Nat
    BY DEF StageInv, Participants
  <1>3. ta[k] = e.phase
    BY <1>1, <1>2
  <1>4. /\ Tally(MbarArrive(e, Cardinality(T)), T, ta2)
        /\ MbarArrive(e, Cardinality(T)).phase \in {e.phase, e.phase + 1}
    BY <1>3, TallyArrive DEF StageInv, Participants
  <1> DEFINE g == MbarArrive(e, Cardinality(T))
  <1> HIDE DEF g
  <1>5. \A q \in T : wa[q] \in {ta2[q], ta2[q] + 1} /\ wa[q] <= f.phase
    BY DEF StageInv, Participants
  <1>6. g.phase \in {e.phase, e.phase + 1}
    BY <1>4 DEF g
  <1>7. \A m \in M : be[m] \in {fi[m], fi[m] + 1} /\ be[m] <= g.phase + 1
    BY <1>1, <1>6 DEF StageInv, Participants
  <1>8. Tally(g, T, ta2)
    BY <1>4 DEF g
  <1>9. StageInv(f, g, M, T, fi, be, ta2, wa)
    BY <1>5, <1>7, <1>8 DEF StageInv
  <1> QED BY <1>9 DEF g

-----------------------------------------------------------------------------
(***************************************************************************)
(* Control.                                                                *)
(***************************************************************************)
InChunk == {"state", "hout", "u", "u_read", "wh", "wh_read", "vnew", "vst",
            "gk", "gk_exp", "gk_sync", "gk_read", "kv", "kv_read"}

\* The labels a warp stands at before, within and after its chunks.
AtUnit(p, l) ==
    \/ l = "h0" /\ p \in CCs
    \/ l = "h0" /\ p = "load" /\ UseInitialState
    \/ l = "h0_read" /\ p \in CCs /\ UseInitialState

AtChunk(p, l) ==
    /\ \/ p = "load" /\ l \in {"w", "kt", "u", "gk"}
       \/ p = "mma" /\ l \in {"wh", "kv"}
       \/ p = "store" /\ l \in {"hout", "hout_read", "vst", "vst_read"}
       \/ p \in CCs /\ l \in InChunk
    /\ l \in {"gk", "gk_exp", "gk_sync", "gk_read"} => UseGk
    /\ l \in {"vst", "vst_read"} => SaveVNew

AtEnd(p, l) == l = "end" \/ (l = "final" /\ p \in CCs)

\* Where a warp may be: its unit, its chunk, its label.
Place(p, u, c, l) ==
    /\ u \in 1 .. Len(Units) + 1
    /\ c \in Nat
    /\ u = Len(Units) + 1 => l = "exit" /\ c = 0
    /\ u # Len(Units) + 1 =>
          \/ AtUnit(p, l) /\ c = 0
          \/ AtChunk(p, l) /\ c < Units[u]
          \/ AtEnd(p, l) /\ c = IF p = "empty" THEN 0 ELSE Units[u]

Ctl ==
    /\ pc = [p \in Warps |-> pc[p]]
    /\ unit = [p \in Warps |-> unit[p]]
    /\ chunk = [p \in Warps |-> chunk[p]]
    /\ \A p \in Warps : Place(p, unit[p], chunk[p], pc[p])

LEMMA UnitFacts ==
    /\ Len(Units) \in Nat /\ DOMAIN Units = 1 .. Len(Units)
    /\ \A u \in 1 .. Len(Units) : u \in Nat /\ Units[u] \in Nat
  BY UnitsAssumption

LEMMA WarpFacts ==
    /\ \A w \in CCs : w # "load" /\ w # "mma" /\ w # "store" /\ w # "empty"
    /\ Warps = CCs \cup {"load", "mma", "store", "empty"}
  BY CCsAssumption DEF Warps

LEMMA PlaceChunk ==
    ASSUME NEW p \in Warps, p # "empty", NEW u \in 1 .. Len(Units),
           NEW c \in Nat, c <= Units[u]
    PROVE  Place(p, u, c, ChunkLabel(p, u, c))
  <1>1. u # Len(Units) + 1 /\ u \in 1 .. Len(Units) + 1 /\ Units[u] \in Nat
    BY UnitFacts
  <1>2. CASE c < Units[u]
    <2>1. AtChunk(p, ChunkLabel(p, u, c))
      BY <1>2, WarpFacts DEF ChunkLabel, AtChunk, InChunk
    <2> QED BY <1>1, <1>2, <2>1 DEF Place
  <1>3. CASE c = Units[u]
    <2>1. AtEnd(p, ChunkLabel(p, u, c))
      BY <1>1, <1>3, WarpFacts DEF ChunkLabel, AtEnd
    <2> QED BY <1>1, <1>3, <2>1 DEF Place
  <1> QED BY <1>1, <1>2, <1>3

LEMMA PlaceUnit ==
    ASSUME NEW p \in Warps, NEW u \in 1 .. Len(Units) + 1
    PROVE  Place(p, u, 0, UnitLabel(p, u))
  <1>1. CASE u = Len(Units) + 1
    BY <1>1, UnitFacts DEF Place, UnitLabel
  <1>2. CASE u # Len(Units) + 1
    <2>1. u \in 1 .. Len(Units) /\ ~ (u > Len(Units)) /\ Units[u] \in Nat
      BY <1>2, UnitFacts
    <2>2. CASE p = "empty"
      BY <1>2, <2>1, <2>2, WarpFacts DEF Place, UnitLabel, AtEnd
    <2>3. CASE p \in CCs \/ (p = "load" /\ UseInitialState)
      <3>1. UnitLabel(p, u) = "h0"
        BY <2>1, <2>3, WarpFacts DEF UnitLabel
      <3>2. AtUnit(p, "h0")
        BY <2>3, WarpFacts DEF AtUnit
      <3> QED BY <1>2, <3>1, <3>2 DEF Place
    <2>4. CASE p # "empty" /\ p \notin CCs /\ ~(p = "load" /\ UseInitialState)
      <3>1. UnitLabel(p, u) = ChunkLabel(p, u, 0)
        BY <2>1, <2>4 DEF UnitLabel
      <3> QED BY <2>1, <2>4, <3>1, PlaceChunk
    <2> QED BY <2>2, <2>3, <2>4
  <1> QED BY <1>1, <1>2

\* A warp that stands at a label of a chunk.
LEMMA PlaceInChunk ==
    ASSUME NEW p \in Warps, NEW u, NEW c, NEW l, Place(p, u, c, l),
           AtChunk(p, l)
    PROVE  /\ u \in 1 .. Len(Units) /\ u # Len(Units) + 1
           /\ c \in Nat /\ c < Units[u] /\ c + 1 \in Nat /\ c + 1 <= Units[u]
           /\ p # "empty"
  <1>1. l # "exit" /\ l # "end" /\ l # "final" /\ l # "h0" /\ l # "h0_read"
    BY WarpFacts DEF AtChunk, InChunk, Warps
  <1>2. p # "empty"
    BY WarpFacts DEF AtChunk
  <1>3. u # Len(Units) + 1
    BY <1>1 DEF Place
  <1>4. u \in 1 .. Len(Units) /\ c \in Nat
    BY <1>3, UnitFacts DEF Place
  <1>5. c < Units[u]
    BY <1>1, <1>3 DEF Place, AtUnit, AtEnd
  <1> QED BY <1>2, <1>3, <1>4, <1>5, UnitFacts

LEMMA PlaceBefore ==
    ASSUME NEW p \in Warps, NEW u, NEW c, NEW l, Place(p, u, c, l),
           l \in {"h0", "h0_read"}
    PROVE  /\ u \in 1 .. Len(Units) /\ u # Len(Units) + 1 /\ c = 0
           /\ p \in CCs \/ (p = "load" /\ l = "h0" /\ UseInitialState)
           /\ l = "h0_read" => UseInitialState
  <1>1. l # "exit" /\ ~ AtChunk(p, l) /\ ~ AtEnd(p, l)
    BY WarpFacts DEF AtChunk, InChunk, AtEnd, Warps
  <1>2. u # Len(Units) + 1
    BY <1>1 DEF Place
  <1>3. AtUnit(p, l) /\ c = 0
    BY <1>1, <1>2 DEF Place
  <1> QED BY <1>2, <1>3, UnitFacts DEF Place, AtUnit

LEMMA PlaceAfter ==
    ASSUME NEW p \in Warps, NEW u, NEW c, NEW l, Place(p, u, c, l),
           l \in {"final", "end"}
    PROVE  /\ u \in 1 .. Len(Units) /\ u # Len(Units) + 1
           /\ c = IF p = "empty" THEN 0 ELSE Units[u]
           /\ AtEnd(p, l)
  <1>1. l # "exit" /\ ~ AtChunk(p, l) /\ ~ AtUnit(p, l)
    BY WarpFacts DEF AtChunk, InChunk, AtUnit, Warps
  <1>2. u # Len(Units) + 1
    BY <1>1 DEF Place
  <1> QED BY <1>1, <1>2, UnitFacts DEF Place

-----------------------------------------------------------------------------
(***************************************************************************)
(* Counts.  Past(x) are the labels behind pipeline x in a chunk (for h0,   *)
(* in a unit), Inside(x) those of a warp that reads a stage of x; so at a  *)
(* place a warp has left DoneAt turns of x and entered BegunAt.            *)
(***************************************************************************)
Used(x) ==
    /\ x = "h0" => UseInitialState
    /\ x = "gk" => UseGk
    /\ x = "vst" => SaveVNew

Past(x) ==
    CASE x = "h0"    -> InChunk \cup {"w", "kt", "final", "end"}
      [] x = "w"     -> {"kt", "u", "gk"}
      [] x = "kt"    -> {"u", "gk"}
      [] x = "state" -> InChunk \ {"state"}
      [] x = "hout"  -> (InChunk \ {"state", "hout"}) \cup {"vst_read"}
      [] x = "u"     -> InChunk \ {"state", "hout", "u", "u_read"}
      [] x = "wh"    -> {"vnew", "vst", "gk", "gk_exp", "gk_sync", "gk_read",
                         "kv", "kv_read"}
      [] x = "vnew"  -> {"vst", "gk", "gk_exp", "gk_sync", "gk_read",
                         "kv", "kv_read"}
      [] x = "vst"   -> {"gk", "gk_exp", "gk_sync", "gk_read", "kv", "kv_read"}
      [] x = "gk"    -> {"kv", "kv_read"}
      [] x = "kv"    -> {}

Inside(x) ==
    CASE x = "h0"   -> {"h0_read"}
      [] x = "u"    -> {"u_read"}
      [] x = "wh"   -> {"wh_read"}
      [] x = "kv"   -> {"kv_read"}
      [] x = "gk"   -> {"gk_exp", "gk_sync", "gk_read"}
      [] x = "hout" -> {"hout_read"}
      [] x = "vst"  -> {"vst_read"}
      [] OTHER      -> {}

DoneAt(x, u, c, l) == TurnOf(x, u, c) + IF l \in Past(x) THEN 1 ELSE 0
BegunAt(x, u, c, l) ==
    TurnOf(x, u, c) + IF l \in Past(x) \/ l \in Inside(x) THEN 1 ELSE 0

Done(x, p) == DoneAt(x, unit[p], chunk[p], pc[p])
Begun(x, p) == BegunAt(x, unit[p], chunk[p], pc[p])

\* The pipelines a warp uses.
Handles(p, x) ==
    /\ \/ p = "load" /\ x \in Tiles
       \/ p = "mma" /\ x \in {"wh", "kv"}
       \/ p = "store" /\ x \in {"hout", "vst"}
       \/ p \in CCs /\ x \in Pipes \ {"w", "kt"}
    /\ Used(x)

One(b) == IF b THEN 1 ELSE 0

\* From label l to label m a warp enters a turn of the pipelines of B and
\* leaves one of those of D.
Advance(p, l, m, B, D) ==
    \A x \in Pipes : Handles(p, x) =>
        /\ One(m \in Past(x)) = One(l \in Past(x)) + One(x \in D)
        /\ One(m \in Past(x) \/ m \in Inside(x)) =
               One(l \in Past(x) \/ l \in Inside(x)) + One(x \in B)

Steps(p, B, D) ==
    \A q \in Warps, x \in Pipes : Handles(q, x) =>
        /\ Done(x, q)' = Done(x, q) + One(q = p /\ x \in D)
        /\ Begun(x, q)' = Begun(x, q) + One(q = p /\ x \in B)

LEMMA AdvanceLoad ==
    /\ Advance("load", "w", "kt", {"w"}, {"w"})
    /\ Advance("load", "kt", "u", {"kt"}, {"kt"})
    /\ Advance("load", "u", "gk", {"u"}, {"u"})
  BY WarpFacts DEF Advance, Handles, Used, Past, Inside, InChunk, Pipes, Tiles, Parts, One

LEMMA AdvanceOther ==
    /\ Advance("mma", "wh", "kv", {"wh"}, {"wh"})
    /\ Advance("store", "hout", "hout_read", {"hout"}, {})
    /\ Advance("store", "hout_read", "vst", {}, {"hout"})
    /\ Advance("store", "vst", "vst_read", {"vst"}, {})
  BY WarpFacts DEF Advance, Handles, Used, Past, Inside, InChunk, Pipes, Tiles, Parts, One

LEMMA AdvanceCC ==
    ASSUME NEW w \in CCs
    PROVE  /\ Advance(w, "h0", "h0_read", {"h0"}, {})
           /\ Advance(w, "state", "hout", {"state"}, {"state"})
           /\ Advance(w, "hout", "u", {"hout"}, {"hout"})
           /\ Advance(w, "u", "u_read", {"u"}, {})
           /\ Advance(w, "u_read", "wh", {}, {"u"})
           /\ Advance(w, "wh", "wh_read", {"wh"}, {})
           /\ Advance(w, "wh_read", "vnew", {}, {"wh"})
           /\ SaveVNew => Advance(w, "vnew", "vst", {"vnew"}, {"vnew"})
           /\ ~SaveVNew => Advance(w, "vnew", AfterVNew, {"vnew"}, {"vnew"})
           /\ Advance(w, "vst", AfterVNew, {"vst"}, {"vst"})
           /\ Advance(w, "gk", "gk_exp", {"gk"}, {})
           /\ Advance(w, "gk_exp", "gk_sync", {}, {})
           /\ Advance(w, "gk_sync", "gk_read", {}, {})
           /\ Advance(w, "gk_read", "kv", {}, {"gk"})
           /\ Advance(w, "kv", "kv_read", {"kv"}, {})
           /\ Advance(w, "final", "end", {}, {})
  <1>1. w # "load" /\ w # "mma" /\ w # "store"
    BY WarpFacts
  <1> USE <1>1 DEF Advance, Handles, Used, Past, Inside, InChunk, Pipes, Tiles, Parts, One
  <1>2. Advance(w, "h0", "h0_read", {"h0"}, {})
    OBVIOUS
  <1>3. Advance(w, "state", "hout", {"state"}, {"state"})
    OBVIOUS
  <1>4. Advance(w, "hout", "u", {"hout"}, {"hout"})
    OBVIOUS
  <1>5. Advance(w, "u", "u_read", {"u"}, {})
    OBVIOUS
  <1>6. Advance(w, "u_read", "wh", {}, {"u"})
    OBVIOUS
  <1>7. Advance(w, "wh", "wh_read", {"wh"}, {})
    OBVIOUS
  <1>8. Advance(w, "wh_read", "vnew", {}, {"wh"})
    OBVIOUS
  <1>9. SaveVNew => Advance(w, "vnew", "vst", {"vnew"}, {"vnew"})
    OBVIOUS
  <1>10. ~SaveVNew => Advance(w, "vnew", AfterVNew, {"vnew"}, {"vnew"})
    BY DEF AfterVNew
  <1>11. Advance(w, "vst", AfterVNew, {"vst"}, {"vst"})
    BY DEF AfterVNew
  <1>12. Advance(w, "gk", "gk_exp", {"gk"}, {})
    OBVIOUS
  <1>13. Advance(w, "gk_exp", "gk_sync", {}, {})
    OBVIOUS
  <1>14. Advance(w, "gk_sync", "gk_read", {}, {})
    OBVIOUS
  <1>15. Advance(w, "gk_read", "kv", {}, {"gk"})
    OBVIOUS
  <1>16. Advance(w, "kv", "kv_read", {"kv"}, {})
    OBVIOUS
  <1>17. Advance(w, "final", "end", {}, {})
    OBVIOUS
  <1> HIDE DEF Advance
  <1> QED BY <1>2, <1>3, <1>4, <1>5, <1>6, <1>7, <1>8, <1>9, <1>10, <1>11,
             <1>12, <1>13, <1>14, <1>15, <1>16, <1>17

LEMMA TurnType ==
    ASSUME NEW x, NEW u \in 1 .. Len(Units) + 1, NEW c \in Nat
    PROVE  TurnOf(x, u, c) \in Nat
  BY BeforeType, UnitFacts DEF TurnOf

LEMMA CountType ==
    ASSUME NEW p \in Warps, NEW u, NEW c, NEW l, Place(p, u, c, l), NEW x
    PROVE  /\ DoneAt(x, u, c, l) \in Nat /\ BegunAt(x, u, c, l) \in Nat
           /\ BegunAt(x, u, c, l) \in {DoneAt(x, u, c, l), DoneAt(x, u, c, l) + 1}
           /\ TurnOf(x, u, c) \in Nat
  <1>1. TurnOf(x, u, c) \in Nat
    BY TurnType DEF Place
  <1> QED BY <1>1 DEF DoneAt, BegunAt

\* At the first label of a chunk, or after the last chunk.
LEMMA CountChunk ==
    ASSUME NEW p \in Warps, NEW x \in Pipes, Handles(p, x), NEW u, NEW c
    PROVE  /\ DoneAt(x, u, c, ChunkLabel(p, u, c)) = TurnOf(x, u, c) + One(x = "h0")
           /\ BegunAt(x, u, c, ChunkLabel(p, u, c)) = TurnOf(x, u, c) + One(x = "h0")
  <1> DEFINE l == ChunkLabel(p, u, c)
  <1>1. \/ p = "load" /\ l \in {"w", "end"}
        \/ p = "mma" /\ l \in {"wh", "end"}
        \/ p = "store" /\ l \in {"hout", "end"}
        \/ p \in CCs /\ l \in {"state", "final"}
    <2>1. CASE c < Units[u]
      BY <2>1, WarpFacts DEF ChunkLabel, Handles
    <2>2. CASE ~ (c < Units[u])
      BY <2>2, WarpFacts DEF ChunkLabel, Handles
    <2> QED BY <2>1, <2>2
  <1> HIDE DEF l
  <1>2. (l \in Past(x) <=> x = "h0") /\ l \notin Inside(x)
    <2> USE DEF Handles, Past, Inside, InChunk, Pipes, Tiles, Parts
    <2>1. CASE p = "load" /\ l \in {"w", "end"}
      BY <2>1, WarpFacts
    <2>2. CASE p = "mma" /\ l \in {"wh", "end"}
      BY <2>2, WarpFacts
    <2>3. CASE p = "store" /\ l \in {"hout", "end"}
      BY <2>3, WarpFacts
    <2>4. CASE p \in CCs /\ l \in {"state", "final"}
      BY <2>4, WarpFacts
    <2> QED BY <1>1, <2>1, <2>2, <2>3, <2>4
  <1> QED BY <1>2 DEF DoneAt, BegunAt, One, l

LEMMA CountUnit ==
    ASSUME NEW p \in Warps, NEW x \in Pipes, Handles(p, x),
           NEW u \in 1 .. Len(Units) + 1
    PROVE  /\ DoneAt(x, u, 0, UnitLabel(p, u)) = TurnOf(x, u, 0)
           /\ BegunAt(x, u, 0, UnitLabel(p, u)) = TurnOf(x, u, 0)
  <1>0. TurnOf(x, u, 0) \in Nat
    BY TurnType
  <1>1. CASE UnitLabel(p, u) \in {"exit", "h0"}
    <2>1. "exit" \notin Past(x) /\ "exit" \notin Inside(x)
      BY DEF Past, Inside, InChunk, Pipes, Tiles, Parts
    <2>2. "h0" \notin Past(x) /\ "h0" \notin Inside(x)
      BY DEF Past, Inside, InChunk, Pipes, Tiles, Parts
    <2> QED BY <1>0, <1>1, <2>1, <2>2 DEF DoneAt, BegunAt
  <1>2. CASE UnitLabel(p, u) \notin {"exit", "h0"}
    <2>1. UnitLabel(p, u) = ChunkLabel(p, u, 0) /\ x # "h0"
      BY <1>2, WarpFacts DEF UnitLabel, Handles, Used
    <2> QED BY <1>0, <2>1, CountChunk DEF One
  <1> QED BY <1>1, <1>2

-----------------------------------------------------------------------------
(***************************************************************************)
(* How a warp moves: its place stays one, and the counts it has.           *)
(***************************************************************************)
MovedTo(p, u, c, l) ==
    /\ unit' = [q \in Warps |-> IF q = p THEN u ELSE unit[q]]
    /\ chunk' = [q \in Warps |-> IF q = p THEN c ELSE chunk[q]]
    /\ pc' = [q \in Warps |-> IF q = p THEN l ELSE pc[q]]

LEMMA MoveCtl ==
    ASSUME Ctl, NEW p \in Warps, NEW u, NEW c, NEW l, Place(p, u, c, l),
           MovedTo(p, u, c, l)
    PROVE  Ctl'
  <1>1. ASSUME NEW q \in Warps PROVE Place(q, unit'[q], chunk'[q], pc'[q])
    <2>1. CASE q = p
      BY <2>1 DEF MovedTo
    <2>2. CASE q # p
      BY <2>2 DEF MovedTo, Ctl
    <2> QED BY <2>1, <2>2
  <1>2. pc' = [q \in Warps |-> pc'[q]]
    BY DEF MovedTo
  <1>3. unit' = [q \in Warps |-> unit'[q]]
    BY DEF MovedTo
  <1>4. chunk' = [q \in Warps |-> chunk'[q]]
    BY DEF MovedTo
  <1> QED BY <1>1, <1>2, <1>3, <1>4 DEF Ctl

LEMMA MoveSteps ==
    ASSUME Ctl, NEW p \in Warps, NEW u, NEW c, NEW l, Place(p, u, c, l),
           MovedTo(p, u, c, l), NEW B, NEW D,
           \A x \in Pipes : Handles(p, x) =>
               /\ DoneAt(x, u, c, l) = Done(x, p) + One(x \in D)
               /\ BegunAt(x, u, c, l) = Begun(x, p) + One(x \in B)
    PROVE  Steps(p, B, D)
  <1>1. ASSUME NEW q \in Warps, NEW x \in Pipes, Handles(q, x)
        PROVE  /\ Done(x, q)' = Done(x, q) + One(q = p /\ x \in D)
               /\ Begun(x, q)' = Begun(x, q) + One(q = p /\ x \in B)
    <2>1. CASE q = p
      <3>1. unit'[q] = u /\ chunk'[q] = c /\ pc'[q] = l
        BY <2>1 DEF MovedTo
      <3> QED BY <1>1, <2>1, <3>1 DEF Done, Begun, One
    <2>2. CASE q # p
      <3>1. unit'[q] = unit[q] /\ chunk'[q] = chunk[q] /\ pc'[q] = pc[q]
        BY <2>2 DEF MovedTo
      <3>2. Done(x, q) \in Nat /\ Begun(x, q) \in Nat
        BY CountType DEF Ctl, Done, Begun
      <3>3. Done(x, q)' = Done(x, q) /\ Begun(x, q)' = Begun(x, q)
        BY <3>1 DEF Done, Begun
      <3> QED BY <2>2, <3>2, <3>3 DEF One
    <2> QED BY <2>1, <2>2
  <1> QED BY <1>1 DEF Steps

LEMMA GotoMoved ==
    ASSUME Ctl, NEW p \in Warps, NEW m, Goto(p, m)
    PROVE  MovedTo(p, unit[p], chunk[p], m)
  <1>1. pc' = [q \in Warps |-> IF q = p THEN m ELSE pc[q]]
    BY DEF Ctl, Goto
  <1>2. unit' = [q \in Warps |-> IF q = p THEN unit[p] ELSE unit[q]]
    BY DEF Ctl, Goto
  <1>3. chunk' = [q \in Warps |-> IF q = p THEN chunk[p] ELSE chunk[q]]
    BY DEF Ctl, Goto
  <1> QED BY <1>1, <1>2, <1>3 DEF MovedTo

LEMMA GotoStep ==
    ASSUME Ctl, NEW p \in Warps, NEW m, Goto(p, m), NEW B, NEW D,
           Advance(p, pc[p], m, B, D),
           \/ AtChunk(p, pc[p]) /\ AtChunk(p, m)
           \/ AtUnit(p, pc[p]) /\ AtUnit(p, m)
           \/ AtEnd(p, pc[p]) /\ AtEnd(p, m)
    PROVE  Ctl' /\ Steps(p, B, D)
  <1>1. MovedTo(p, unit[p], chunk[p], m)
    BY GotoMoved
  <1>2. Place(p, unit[p], chunk[p], pc[p])
    BY DEF Ctl
  <1>3. Place(p, unit[p], chunk[p], m)
    <2>1. CASE AtChunk(p, pc[p]) /\ AtChunk(p, m)
      BY <1>2, <2>1, PlaceInChunk DEF Place
    <2>2. CASE AtUnit(p, pc[p]) /\ AtUnit(p, m)
      <3>1. pc[p] \in {"h0", "h0_read"}
        BY <2>2 DEF AtUnit
      <3> QED BY <1>2, <2>2, <3>1, PlaceBefore DEF Place
    <2>3. CASE AtEnd(p, pc[p]) /\ AtEnd(p, m)
      <3>1. pc[p] \in {"final", "end"}
        BY <2>3 DEF AtEnd
      <3> QED BY <1>2, <2>3, <3>1, PlaceAfter DEF Place
    <2> QED BY <2>1, <2>2, <2>3
  <1>4. ASSUME NEW x \in Pipes, Handles(p, x)
        PROVE  /\ DoneAt(x, unit[p], chunk[p], m) = Done(x, p) + One(x \in D)
               /\ BegunAt(x, unit[p], chunk[p], m) = Begun(x, p) + One(x \in B)
    <2>1. TurnOf(x, unit[p], chunk[p]) \in Nat
      BY <1>2, CountType
    <2>2. /\ One(m \in Past(x)) = One(pc[p] \in Past(x)) + One(x \in D)
          /\ One(m \in Past(x) \/ m \in Inside(x)) =
                 One(pc[p] \in Past(x) \/ pc[p] \in Inside(x)) + One(x \in B)
      BY <1>4 DEF Advance
    <2>3. \A b \in BOOLEAN : One(b) \in Nat
      BY DEF One
    <2>4. DoneAt(x, unit[p], chunk[p], m) = Done(x, p) + One(x \in D)
      BY <2>1, <2>2 DEF Done, DoneAt, One
    <2>5. BegunAt(x, unit[p], chunk[p], m) = Begun(x, p) + One(x \in B)
      BY <2>1, <2>2 DEF Begun, BegunAt, One
    <2> QED BY <2>4, <2>5
  <1> QED BY <1>1, <1>3, <1>4, MoveCtl, MoveSteps

\* The last label of a chunk: the pipelines still to be left (entered) are
\* those of D (of B).
Last(p, l, B, D) ==
    \A x \in Pipes : Handles(p, x) =>
        /\ l \in Past(x) <=> x \notin D
        /\ (l \in Past(x) \/ l \in Inside(x)) <=> x \notin B

LEMMA LastLabels ==
    /\ ~UseGk => Last("load", "u", {"u"}, {"u"})
    /\ Last("load", "gk", {"gk"}, {"gk"})
    /\ Last("mma", "kv", {"kv"}, {"kv"})
    /\ ~SaveVNew => Last("store", "hout_read", {}, {"hout"})
    /\ Last("store", "vst_read", {}, {"vst"})
    /\ \A w \in CCs : Last(w, "kv_read", {}, {"kv"})
  BY WarpFacts DEF Last, Handles, Used, Past, Inside, InChunk, Pipes, Tiles, Parts

LEMMA NextChunkStep ==
    ASSUME Ctl, NEW p \in Warps, AtChunk(p, pc[p]), NextChunk(p),
           NEW B, NEW D, Last(p, pc[p], B, D)
    PROVE  Ctl' /\ Steps(p, B, D)
  <1> DEFINE u == unit[p]
             c == chunk[p]
             l == pc[p]
             m == ChunkLabel(p, u, c + 1)
  <1>1. Place(p, u, c, l)
    BY DEF Ctl
  <1>2. /\ u \in 1 .. Len(Units) /\ c \in Nat /\ c + 1 \in Nat
        /\ c + 1 <= Units[u] /\ p # "empty"
    BY <1>1, PlaceInChunk
  <1>3. Place(p, u, c + 1, m)
    BY <1>2, PlaceChunk
  <1>4. MovedTo(p, u, c + 1, m)
    <2>1. pc' = [q \in Warps |-> IF q = p THEN m ELSE pc[q]]
      BY DEF Ctl, NextChunk
    <2>2. unit' = [q \in Warps |-> IF q = p THEN u ELSE unit[q]]
      BY DEF Ctl, NextChunk
    <2>3. chunk' = [q \in Warps |-> IF q = p THEN c + 1 ELSE chunk[q]]
      BY DEF Ctl, NextChunk
    <2> QED BY <2>1, <2>2, <2>3 DEF MovedTo
  <1>5. ASSUME NEW x \in Pipes, Handles(p, x)
        PROVE  /\ DoneAt(x, u, c + 1, m) = Done(x, p) + One(x \in D)
               /\ BegunAt(x, u, c + 1, m) = Begun(x, p) + One(x \in B)
    <2>1. /\ DoneAt(x, u, c + 1, m) = TurnOf(x, u, c + 1) + One(x = "h0")
          /\ BegunAt(x, u, c + 1, m) = TurnOf(x, u, c + 1) + One(x = "h0")
      BY <1>5, CountChunk
    <2>2. /\ TurnOf(x, u, c) \in Nat
          /\ TurnOf(x, u, c + 1) + One(x = "h0") = TurnOf(x, u, c) + 1
      <3>1. CASE x = "h0"
        BY <1>2, <3>1 DEF TurnOf, One
      <3>2. CASE x # "h0"
        <4>1. Before[u] \in Nat
          BY <1>2, BeforeType, UnitFacts
        <4> HIDE DEF u, c
        <4> QED BY <1>2, <3>2, <4>1 DEF TurnOf, One
      <3> QED BY <3>1, <3>2
    <2>3. /\ l \in Past(x) <=> x \notin D
          /\ (l \in Past(x) \/ l \in Inside(x)) <=> x \notin B
      BY <1>5 DEF Last
    <2> HIDE DEF m
    <2>4. DoneAt(x, u, c + 1, m) = Done(x, p) + One(x \in D)
      BY <2>1, <2>2, <2>3 DEF Done, DoneAt, One
    <2>5. BegunAt(x, u, c + 1, m) = Begun(x, p) + One(x \in B)
      BY <2>1, <2>2, <2>3 DEF Begun, BegunAt, One
    <2> QED BY <2>4, <2>5
  <1> HIDE DEF u, c, m
  <1>6. c + 1 = c + 1 /\ Steps(p, B, D)
    BY <1>3, <1>4, <1>5, MoveSteps
  <1> QED BY <1>3, <1>4, <1>6, MoveCtl

\* From h0, or from the place before the first chunk without it.
LEMMA FirstChunkStep ==
    ASSUME Ctl, NEW p \in Warps, pc[p] \in {"h0", "h0_read"},
           Goto(p, ChunkLabel(p, unit[p], 0)),
           NEW B \in SUBSET {"h0"}, NEW D \in SUBSET {"h0"},
           UseInitialState => "h0" \in D /\ ("h0" \in B <=> pc[p] = "h0")
    PROVE  Ctl' /\ Steps(p, B, D)
  <1> DEFINE u == unit[p]
             m == ChunkLabel(p, u, 0)
  <1>1. Place(p, u, chunk[p], pc[p])
    BY DEF Ctl
  <1>2. u \in 1 .. Len(Units) /\ chunk[p] = 0 /\ p # "empty"
    BY <1>1, PlaceBefore, WarpFacts
  <1>3. Place(p, u, 0, m)
    BY <1>2, PlaceChunk, UnitFacts
  <1>4. MovedTo(p, u, 0, m)
    BY <1>2, GotoMoved
  <1>5. ASSUME NEW x \in Pipes, Handles(p, x)
        PROVE  /\ DoneAt(x, u, 0, m) = Done(x, p) + One(x \in D)
               /\ BegunAt(x, u, 0, m) = Begun(x, p) + One(x \in B)
    <2>1. /\ DoneAt(x, u, 0, m) = TurnOf(x, u, 0) + One(x = "h0")
          /\ BegunAt(x, u, 0, m) = TurnOf(x, u, 0) + One(x = "h0")
      BY <1>5, CountChunk
    <2>2. TurnOf(x, u, 0) \in Nat
      BY <1>2, TurnType, UnitFacts
    <2>3. pc[p] \notin Past(x) /\ (pc[p] \in Inside(x) <=> x = "h0" /\ pc[p] = "h0_read")
      BY DEF Past, Inside, InChunk, Pipes, Tiles, Parts
    <2>4. x = "h0" => UseInitialState
      BY <1>5 DEF Handles, Used
    <2>5. (x \in D <=> x = "h0") /\ (x \in B <=> x = "h0" /\ pc[p] = "h0")
      BY <2>4
    <2>6. Done(x, p) = TurnOf(x, u, 0)
      BY <1>2, <2>2, <2>3 DEF Done, DoneAt
    <2>7. Begun(x, p) = TurnOf(x, u, 0) + One(x = "h0" /\ pc[p] = "h0_read")
      BY <1>2, <2>2, <2>3 DEF Begun, BegunAt, One
    <2> HIDE DEF m, u
    <2> QED BY <2>1, <2>2, <2>5, <2>6, <2>7 DEF One
  <1> HIDE DEF u, m
  <1>6. Steps(p, B, D)
    BY <1>3, <1>4, <1>5, MoveSteps
  <1> QED BY <1>3, <1>4, <1>6, MoveCtl

LEMMA NextUnitStep ==
    ASSUME Ctl, NEW p \in Warps, NextUnit(p)
    PROVE  Ctl' /\ Steps(p, {}, {})
  <1> DEFINE u == unit[p]
             m == UnitLabel(p, u + 1)
  <1>1. Place(p, u, chunk[p], "end")
    BY DEF Ctl, NextUnit
  <1>2. /\ u \in 1 .. Len(Units) /\ u + 1 \in 1 .. Len(Units) + 1
        /\ chunk[p] = IF p = "empty" THEN 0 ELSE Units[u]
    BY <1>1, PlaceAfter, UnitFacts
  <1>3. Place(p, u + 1, 0, m)
    BY <1>2, PlaceUnit
  <1>4. MovedTo(p, u + 1, 0, m)
    <2>1. pc' = [q \in Warps |-> IF q = p THEN m ELSE pc[q]]
      BY DEF Ctl, NextUnit
    <2>2. unit' = [q \in Warps |-> IF q = p THEN u + 1 ELSE unit[q]]
      BY DEF Ctl, NextUnit
    <2>3. chunk' = [q \in Warps |-> IF q = p THEN 0 ELSE chunk[q]]
      BY DEF Ctl, NextUnit
    <2> QED BY <2>1, <2>2, <2>3 DEF MovedTo
  <1>5. ASSUME NEW x \in Pipes, Handles(p, x)
        PROVE  /\ DoneAt(x, u + 1, 0, m) = Done(x, p) + One(x \in {})
               /\ BegunAt(x, u + 1, 0, m) = Begun(x, p) + One(x \in {})
    <2>1. /\ DoneAt(x, u + 1, 0, m) = TurnOf(x, u + 1, 0)
          /\ BegunAt(x, u + 1, 0, m) = TurnOf(x, u + 1, 0)
      BY <1>2, <1>5, CountUnit
    <2>2. p # "empty"
      BY <1>5, WarpFacts DEF Handles
    <2>3. TurnOf(x, u + 1, 0) = TurnOf(x, u, Units[u]) + One(x = "h0")
      <3>1. CASE x = "h0"
        BY <1>2, <3>1 DEF TurnOf, One
      <3>2. CASE x # "h0"
        <4>1. Before[u + 1] = Before[u] + Units[u] /\ Before[u + 1] \in Nat
          BY <1>2, BeforeNext, BeforeType
        <4> QED BY <3>2, <4>1 DEF TurnOf, One
      <3> QED BY <3>1, <3>2
    <2>4. TurnOf(x, u, Units[u]) \in Nat
      BY <1>2, TurnType, UnitFacts
    <2>5. ("end" \in Past(x) <=> x = "h0") /\ "end" \notin Inside(x)
      BY DEF Past, Inside, InChunk, Pipes, Tiles, Parts
    <2>6. pc[p] = "end"
      BY DEF NextUnit
    <2> HIDE DEF m
    <2>7. Done(x, p) = TurnOf(x, u + 1, 0)
      BY <1>2, <2>2, <2>3, <2>5, <2>6 DEF Done, DoneAt, One
    <2>8. Begun(x, p) = TurnOf(x, u + 1, 0)
      BY <1>2, <2>2, <2>3, <2>5, <2>6 DEF Begun, BegunAt, One
    <2>9. One(x \in {}) = 0
      BY DEF One
    <2>10. TurnOf(x, u + 1, 0) \in Nat
      BY <2>3, <2>4 DEF One
    <2> QED BY <2>1, <2>7, <2>8, <2>9, <2>10
  <1> HIDE DEF u, m
  <1>6. Steps(p, {}, {})
    BY <1>3, <1>4, <1>5, MoveSteps
  <1> QED BY <1>3, <1>4, <1>6, MoveCtl

LEMMA StillStep ==
    ASSUME Ctl, UNCHANGED ctl, NEW p \in Warps
    PROVE  Ctl' /\ Steps(p, {}, {})
  <1>1. Ctl'
    BY DEF Ctl, ctl
  <1>2. ASSUME NEW q \in Warps, NEW x \in Pipes, Handles(q, x)
        PROVE  /\ Done(x, q)' = Done(x, q) + One(q = p /\ x \in {})
               /\ Begun(x, q)' = Begun(x, q) + One(q = p /\ x \in {})
    <2>1. Done(x, q) \in Nat /\ Begun(x, q) \in Nat
      BY CountType DEF Ctl, Done, Begun
    <2>2. Done(x, q)' = Done(x, q) /\ Begun(x, q)' = Begun(x, q)
      BY DEF Done, Begun, ctl
    <2> QED BY <2>1, <2>2 DEF One
  <1> QED BY <1>1, <1>2 DEF Steps

LEMMA SyncStep ==
    ASSUME Ctl, SyncGk, NEW p \in Warps
    PROVE  Ctl' /\ Steps(p, {}, {})
  <1>1. \A q \in Warps : /\ unit'[q] = unit[q] /\ chunk'[q] = chunk[q]
                         /\ pc'[q] = IF q \in CCs THEN "gk_read" ELSE pc[q]
    BY DEF SyncGk
  <1>2. \A w \in CCs : pc[w] = "gk_sync"
    BY DEF SyncGk
  <1>3. ASSUME NEW q \in Warps PROVE Place(q, unit'[q], chunk'[q], pc'[q])
    <2>1. Place(q, unit[q], chunk[q], pc[q])
      BY DEF Ctl
    <2>2. CASE q \in CCs
      <3>1. AtChunk(q, "gk_sync") /\ AtChunk(q, "gk_read")
        <4>1. UseGk
          <5>1. AtChunk(q, pc[q])
            BY <1>2, <2>1, <2>2, WarpFacts DEF Place, AtUnit, AtEnd
          <5> QED BY <1>2, <2>2, <5>1 DEF AtChunk
        <4> QED BY <2>2, <4>1, WarpFacts DEF AtChunk, InChunk
      <3> QED BY <1>1, <1>2, <2>1, <2>2, <3>1, PlaceInChunk DEF Place
    <2>3. CASE q \notin CCs
      BY <1>1, <2>1, <2>3
    <2> QED BY <2>2, <2>3
  <1>4. Ctl'
    BY <1>3 DEF Ctl, SyncGk
  <1>5. ASSUME NEW q \in Warps, NEW x \in Pipes, Handles(q, x)
        PROVE  /\ Done(x, q)' = Done(x, q) + One(q = p /\ x \in {})
               /\ Begun(x, q)' = Begun(x, q) + One(q = p /\ x \in {})
    <2>1. Done(x, q) \in Nat /\ Begun(x, q) \in Nat
      BY CountType DEF Ctl, Done, Begun
    <2>2. /\ pc'[q] \in Past(x) <=> pc[q] \in Past(x)
          /\ pc'[q] \in Past(x) \/ pc'[q] \in Inside(x) <=>
                 pc[q] \in Past(x) \/ pc[q] \in Inside(x)
      BY <1>1, <1>2 DEF Past, Inside, InChunk, Pipes, Tiles, Parts
    <2>3. Done(x, q)' = Done(x, q) /\ Begun(x, q)' = Begun(x, q)
      BY <1>1, <2>2 DEF Done, Begun, DoneAt, BegunAt
    <2> QED BY <2>1, <2>3 DEF One
  <1> QED BY <1>4, <1>5 DEF Steps

-----------------------------------------------------------------------------
(***************************************************************************)
(* A ring: the stages of one pipeline.  E[p] is the number of turns that   *)
(* participant p entered, F[m][s] how often maker m filled stage s, L[q]   *)
(* the number of turns taker q left.                                       *)
(***************************************************************************)
Makers(x) == IF x \in {"state", "vnew", "hout", "vst"} THEN CCs
             ELSE IF x \in {"wh", "kv"} THEN {"mma"} ELSE {"load"}
Takers(x) == IF x \in {"h0", "u", "gk", "wh", "kv"} THEN CCs
             ELSE IF x \in {"hout", "vst"} THEN {"store"} ELSE {"mma"}

PipeType(x) == [full  : [StageIds(x) -> MbarType(Producers(x))],
                empty : [StageIds(x) -> MbarType(Readers(x))]]

RingType(x, pp, E, F, L) ==
    /\ pp \in PipeType(x)
    /\ \A p \in Makers(x) \cup Takers(x) : E[p] \in Nat
    /\ \A m \in Makers(x) : \A s \in StageIds(x) : F[m][s] \in Nat
    /\ \A q \in Takers(x) : L[q] \in Nat

RingOK(x, pp, E, F, L) ==
    \A s \in StageIds(x) :
        StageInv(pp.full[s], pp.empty[s], Makers(x), Takers(x),
                 [m \in Makers(x) |-> F[m][s]],
                 [m \in Makers(x) |-> Uses(E[m], Stages[x], s)],
                 [q \in Takers(x) |-> Uses(L[q], Stages[x], s)],
                 [q \in Takers(x) |-> Uses(E[q], Stages[x], s)])

LEMMA PartFacts ==
    ASSUME NEW x \in Pipes
    PROVE  /\ IsFiniteSet(Makers(x)) /\ Makers(x) # {}
           /\ IsFiniteSet(Takers(x)) /\ Takers(x) # {}
           /\ Producers(x) = Cardinality(Makers(x))
           /\ Readers(x) = Cardinality(Takers(x))
           /\ Makers(x) \cap Takers(x) = {}
           /\ Makers(x) \cup Takers(x) \subseteq Warps
           /\ Stages[x] \in Nat \ {0} /\ StageIds(x) = 0 .. Stages[x] - 1
           /\ Cardinality(Makers(x)) \in Nat \ {0}
           /\ Cardinality(Takers(x)) \in Nat \ {0}
  <1>1. \A a \in {"load", "mma", "store"} :
            IsFiniteSet({a}) /\ Cardinality({a}) = 1 /\ {a} # {}
    BY FS_Singleton
  <1>2. IsFiniteSet(CCs) /\ CCs # {}
    BY CCsAssumption
  <1>3. /\ IsFiniteSet(Makers(x)) /\ Makers(x) # {}
        /\ Producers(x) = Cardinality(Makers(x))
    BY <1>1, <1>2 DEF Makers, Producers, Pipes, Tiles, Parts
  <1>4. /\ IsFiniteSet(Takers(x)) /\ Takers(x) # {}
        /\ Readers(x) = Cardinality(Takers(x))
    BY <1>1, <1>2 DEF Takers, Readers, Pipes, Tiles, Parts
  <1>5. Makers(x) \cap Takers(x) = {} /\ Makers(x) \cup Takers(x) \subseteq Warps
    BY WarpFacts DEF Makers, Takers, Pipes, Tiles, Parts
  <1>6. Stages[x] \in Nat \ {0} /\ StageIds(x) = 0 .. Stages[x] - 1
    BY StagesAssumption DEF StageIds
  <1>7. /\ Cardinality(Makers(x)) \in Nat \ {0}
        /\ Cardinality(Takers(x)) \in Nat \ {0}
    BY <1>3, <1>4, FS_CardinalityType, FS_EmptySet
  <1> QED BY <1>3, <1>4, <1>5, <1>6, <1>7

\* The counts of one stage of a ring are as the lemmas on stages need them.
LEMMA RingParticipants ==
    ASSUME NEW x \in Pipes, NEW pp, NEW E, NEW F, NEW L, RingType(x, pp, E, F, L),
           NEW s \in StageIds(x)
    PROVE  Participants(Makers(x), Takers(x),
                 [m \in Makers(x) |-> F[m][s]],
                 [m \in Makers(x) |-> Uses(E[m], Stages[x], s)],
                 [q \in Takers(x) |-> Uses(L[q], Stages[x], s)],
                 [q \in Takers(x) |-> Uses(E[q], Stages[x], s)])
  <1>1. \A m \in Makers(x) : F[m][s] \in Nat
    BY DEF RingType
  <1>2. Stages[x] \in Nat \ {0} /\ s \in 0 .. Stages[x] - 1
    BY PartFacts
  <1>3. \A m \in Makers(x) : Uses(E[m], Stages[x], s) \in Nat
    BY <1>2, UsesType DEF RingType
  <1>4. \A q \in Takers(x) : Uses(E[q], Stages[x], s) \in Nat
    BY <1>2, UsesType DEF RingType
  <1>5. \A q \in Takers(x) : Uses(L[q], Stages[x], s) \in Nat
    BY <1>2, UsesType DEF RingType
  <1> QED BY <1>1, <1>3, <1>4, <1>5, PartFacts DEF Participants

\* A consumer entered no turn that a producer did not fill, ...
LEMMA RingFlow ==
    ASSUME NEW x \in Pipes, NEW pp, NEW E, NEW F, NEW L, RingType(x, pp, E, F, L),
           RingOK(x, pp, E, F, L), NEW s \in StageIds(x),
           NEW m \in Makers(x), NEW q \in Takers(x)
    PROVE  /\ Uses(E[q], Stages[x], s) <= F[m][s]
           /\ Uses(L[q], Stages[x], s) <= Uses(E[q], Stages[x], s)
  <1> DEFINE fi == [k \in Makers(x) |-> F[k][s]]
             be == [k \in Makers(x) |-> Uses(E[k], Stages[x], s)]
             ta == [k \in Takers(x) |-> Uses(L[k], Stages[x], s)]
             wa == [k \in Takers(x) |-> Uses(E[k], Stages[x], s)]
  <1>1. StageInv(pp.full[s], pp.empty[s], Makers(x), Takers(x), fi, be, ta, wa)
    BY DEF RingOK
  <1>2. Participants(Makers(x), Takers(x), fi, be, ta, wa)
    BY RingParticipants
  <1>3. fi[m] = F[m][s] /\ wa[q] = Uses(E[q], Stages[x], s)
        /\ ta[q] = Uses(L[q], Stages[x], s)
    OBVIOUS
  <1> HIDE DEF fi, be, ta, wa
  <1>4. fi[m] \in {pp.full[s].phase, pp.full[s].phase + 1}
        /\ pp.full[s].phase \in Nat
    BY <1>1, <1>2, StageFullOrEmpty
  <1>5. wa[q] <= pp.full[s].phase /\ wa[q] \in {ta[q], ta[q] + 1}
    BY <1>1 DEF StageInv
  <1>6. fi[m] \in Nat /\ wa[q] \in Nat /\ ta[q] \in Nat
    BY <1>2 DEF Participants
  <1> QED BY <1>3, <1>4, <1>5, <1>6

\* ... and a producer is at most a round ahead of what was given back.
LEMMA RingBack ==
    ASSUME NEW x \in Pipes, NEW pp, NEW E, NEW F, NEW L, RingType(x, pp, E, F, L),
           RingOK(x, pp, E, F, L), NEW s \in StageIds(x),
           NEW m \in Makers(x), NEW q \in Takers(x)
    PROVE  /\ Uses(E[m], Stages[x], s) <= Uses(L[q], Stages[x], s) + 1
           /\ F[m][s] <= Uses(E[m], Stages[x], s)
  <1> DEFINE fi == [k \in Makers(x) |-> F[k][s]]
             be == [k \in Makers(x) |-> Uses(E[k], Stages[x], s)]
             ta == [k \in Takers(x) |-> Uses(L[k], Stages[x], s)]
             wa == [k \in Takers(x) |-> Uses(E[k], Stages[x], s)]
  <1>1. StageInv(pp.full[s], pp.empty[s], Makers(x), Takers(x), fi, be, ta, wa)
    BY DEF RingOK
  <1>2. Participants(Makers(x), Takers(x), fi, be, ta, wa)
    BY RingParticipants
  <1>3. fi[m] = F[m][s] /\ ta[q] = Uses(L[q], Stages[x], s)
        /\ be[m] = Uses(E[m], Stages[x], s)
    OBVIOUS
  <1> HIDE DEF fi, be, ta, wa
  <1>4. ta[q] \in {pp.empty[s].phase, pp.empty[s].phase + 1}
        /\ pp.empty[s].phase \in Nat
    BY <1>1, <1>2, StageFullOrEmpty
  <1>5. be[m] <= pp.empty[s].phase + 1 /\ be[m] \in {fi[m], fi[m] + 1}
    BY <1>1 DEF StageInv
  <1>6. fi[m] \in Nat /\ be[m] \in Nat /\ ta[q] \in Nat
    BY <1>2 DEF Participants
  <1> QED BY <1>3, <1>4, <1>5, <1>6

LEMMA RingFullOrEmpty ==
    ASSUME NEW x \in Pipes, NEW pp, NEW E, NEW F, NEW L, RingType(x, pp, E, F, L),
           RingOK(x, pp, E, F, L), NEW s \in StageIds(x)
    PROVE  pp.full[s].phase - pp.empty[s].phase \in 0 .. 1
  <1>1. /\ pp.full[s].phase \in Nat /\ pp.empty[s].phase \in Nat
        /\ pp.full[s].phase \in {pp.empty[s].phase, pp.empty[s].phase + 1}
    <2> DEFINE fi == [k \in Makers(x) |-> F[k][s]]
               be == [k \in Makers(x) |-> Uses(E[k], Stages[x], s)]
               ta == [k \in Takers(x) |-> Uses(L[k], Stages[x], s)]
               wa == [k \in Takers(x) |-> Uses(E[k], Stages[x], s)]
    <2>1. StageInv(pp.full[s], pp.empty[s], Makers(x), Takers(x), fi, be, ta, wa)
      BY DEF RingOK
    <2>2. Participants(Makers(x), Takers(x), fi, be, ta, wa)
      BY RingParticipants
    <2> HIDE DEF fi, be, ta, wa
    <2> QED BY <2>1, <2>2, StageFullOrEmpty
  <1> QED BY <1>1

\* One turn more of one participant counts at the stage of that turn only.
LEMMA OneMore ==
    ASSUME NEW S \in Nat \ {0}, NEW A, NEW k \in A,
           NEW E, \A p \in A : E[p] \in Nat,
           NEW E2, \A p \in A : E2[p] = IF p = k THEN E[p] + 1 ELSE E[p],
           NEW s \in 0 .. S - 1, NEW p \in A
    PROVE  Uses(E2[p], S, s) =
               IF p = k /\ s = E[k] % S THEN Uses(E[p], S, s) + 1 ELSE Uses(E[p], S, s)
  <1>1. Uses(E[k] + 1, S, s) = Uses(E[k], S, s) + IF E[k] % S = s THEN 1 ELSE 0
    BY UsesNext
  <1>2. Uses(E[k], S, s) \in Nat
    BY UsesType
  <1>3. CASE p = k
    BY <1>1, <1>2, <1>3
  <1>4. CASE p # k
    BY <1>4
  <1> QED BY <1>3, <1>4

LEMMA RingAcquire ==
    ASSUME NEW x \in Pipes, NEW pp, NEW E, NEW F, NEW L, RingType(x, pp, E, F, L),
           RingOK(x, pp, E, F, L), NEW k \in Makers(x),
           CanAcquire(pp, E[k], Stages[x]),
           NEW E2, \A p \in Makers(x) \cup Takers(x) :
                      E2[p] = IF p = k THEN E[p] + 1 ELSE E[p]
    PROVE  RingOK(x, pp, E2, F, L)
  <1> DEFINE S == Stages[x]
             r == E[k] % S
  <1>1. S \in Nat \ {0} /\ StageIds(x) = 0 .. S - 1 /\ Makers(x) \cap Takers(x) = {}
    BY PartFacts
  <1>2. E[k] \in Nat
    BY DEF RingType
  <1>3. r \in StageIds(x) /\ Uses(E[k], S, r) = E[k] \div S
    BY <1>1, <1>2, UsesOwn
  <1>4. MbarWaitable(pp.empty[r], 1 - (Uses(E[k], S, r) % 2))
    <2> DEFINE n == (E[k] \div S) % 2
    <2>1. MbarWaitable(pp.empty[StageOf(E[k], S)], 1 - PhaseOf(E[k], S))
      BY DEF CanAcquire
    <2>2. PhaseOf(E[k], S) = n /\ StageOf(E[k], S) = r
      BY DEF StageOf, PhaseOf
    <2> HIDE DEF r, n
    <2>3. MbarWaitable(pp.empty[r], 1 - n)
      BY <2>1, <2>2
    <2>4. Uses(E[k], S, r) % 2 = n
      BY <1>3 DEF n
    <2> QED BY <2>3, <2>4
  <1> HIDE DEF r
  <1>5. \A p \in Makers(x) \cup Takers(x), s \in StageIds(x) :
           Uses(E2[p], S, s) =
               IF p = k /\ s = r THEN Uses(E[p], S, s) + 1 ELSE Uses(E[p], S, s)
    BY <1>1, OneMore DEF RingType, r
  <1>6. ASSUME NEW s \in StageIds(x)
        PROVE  StageInv(pp.full[s], pp.empty[s], Makers(x), Takers(x),
                 [m \in Makers(x) |-> F[m][s]],
                 [m \in Makers(x) |-> Uses(E2[m], S, s)],
                 [q \in Takers(x) |-> Uses(L[q], S, s)],
                 [q \in Takers(x) |-> Uses(E2[q], S, s)])
    <2> DEFINE fi == [m \in Makers(x) |-> F[m][s]]
               be == [m \in Makers(x) |-> Uses(E[m], S, s)]
               ta == [q \in Takers(x) |-> Uses(L[q], S, s)]
               wa == [q \in Takers(x) |-> Uses(E[q], S, s)]
               be2 == [m \in Makers(x) |-> Uses(E2[m], S, s)]
               wa2 == [q \in Takers(x) |-> Uses(E2[q], S, s)]
    <2>1. StageInv(pp.full[s], pp.empty[s], Makers(x), Takers(x), fi, be, ta, wa)
      BY DEF RingOK
    <2>2. Participants(Makers(x), Takers(x), fi, be, ta, wa)
      BY RingParticipants
    <2>3. wa2 = wa
      BY <1>1, <1>5
    <2>4. CASE s # r
      <3>1. be2 = be
        BY <1>5, <2>4
      <3> QED BY <2>1, <2>3, <3>1
    <2>5. CASE s = r
      <3>1. \A m \in Makers(x) : be2[m] = IF m = k THEN be[m] + 1 ELSE be[m]
        BY <1>5, <2>5
      <3>2. MbarWaitable(pp.empty[s], 1 - (be[k] % 2))
        BY <1>4, <2>5
      <3> HIDE DEF fi, be, ta, wa, be2, wa2
      <3>3. StageInv(pp.full[s], pp.empty[s], Makers(x), Takers(x), fi, be2, ta, wa)
        BY <2>1, <2>2, <3>1, <3>2, StageAcquire
      <3> QED BY <2>3, <3>3 DEF fi, ta, be2, wa2
    <2> QED BY <2>4, <2>5
  <1> QED BY <1>6 DEF RingOK

LEMMA RingWait ==
    ASSUME NEW x \in Pipes, NEW pp, NEW E, NEW F, NEW L, RingType(x, pp, E, F, L),
           RingOK(x, pp, E, F, L), NEW k \in Takers(x),
           CanConsume(pp, E[k], Stages[x]),
           NEW E2, \A p \in Makers(x) \cup Takers(x) :
                      E2[p] = IF p = k THEN E[p] + 1 ELSE E[p]
    PROVE  RingOK(x, pp, E2, F, L)
  <1> DEFINE S == Stages[x]
             r == E[k] % S
  <1>1. S \in Nat \ {0} /\ StageIds(x) = 0 .. S - 1 /\ Makers(x) \cap Takers(x) = {}
    BY PartFacts
  <1>2. E[k] \in Nat
    BY DEF RingType
  <1>3. r \in StageIds(x) /\ Uses(E[k], S, r) = E[k] \div S
    BY <1>1, <1>2, UsesOwn
  <1>4. MbarWaitable(pp.full[r], Uses(E[k], S, r) % 2)
    BY <1>3 DEF CanConsume, StageOf, PhaseOf
  <1> HIDE DEF r
  <1>5. \A p \in Makers(x) \cup Takers(x), s \in StageIds(x) :
           Uses(E2[p], S, s) =
               IF p = k /\ s = r THEN Uses(E[p], S, s) + 1 ELSE Uses(E[p], S, s)
    BY <1>1, OneMore DEF RingType, r
  <1>6. ASSUME NEW s \in StageIds(x)
        PROVE  StageInv(pp.full[s], pp.empty[s], Makers(x), Takers(x),
                 [m \in Makers(x) |-> F[m][s]],
                 [m \in Makers(x) |-> Uses(E2[m], S, s)],
                 [q \in Takers(x) |-> Uses(L[q], S, s)],
                 [q \in Takers(x) |-> Uses(E2[q], S, s)])
    <2> DEFINE fi == [m \in Makers(x) |-> F[m][s]]
               be == [m \in Makers(x) |-> Uses(E[m], S, s)]
               ta == [q \in Takers(x) |-> Uses(L[q], S, s)]
               wa == [q \in Takers(x) |-> Uses(E[q], S, s)]
               be2 == [m \in Makers(x) |-> Uses(E2[m], S, s)]
               wa2 == [q \in Takers(x) |-> Uses(E2[q], S, s)]
    <2>1. StageInv(pp.full[s], pp.empty[s], Makers(x), Takers(x), fi, be, ta, wa)
      BY DEF RingOK
    <2>2. Participants(Makers(x), Takers(x), fi, be, ta, wa)
      BY RingParticipants
    <2>3. be2 = be
      BY <1>1, <1>5
    <2>4. CASE s # r
      <3>1. wa2 = wa
        BY <1>5, <2>4
      <3> QED BY <2>1, <2>3, <3>1
    <2>5. CASE s = r
      <3>1. \A q \in Takers(x) : wa2[q] = IF q = k THEN wa[q] + 1 ELSE wa[q]
        BY <1>5, <2>5
      <3>2. MbarWaitable(pp.full[s], wa[k] % 2)
        BY <1>4, <2>5
      <3> HIDE DEF fi, be, ta, wa, be2, wa2
      <3>3. StageInv(pp.full[s], pp.empty[s], Makers(x), Takers(x), fi, be, ta, wa2)
        BY <2>1, <2>2, <3>1, <3>2, StageWait
      <3> QED BY <2>3, <3>3 DEF fi, ta, be2, wa2
    <2> QED BY <2>4, <2>5
  <1> QED BY <1>6 DEF RingOK

LEMMA RingFill ==
    ASSUME NEW x \in Pipes, NEW pp, NEW E, NEW F, NEW L, RingType(x, pp, E, F, L),
           RingOK(x, pp, E, F, L), NEW k \in Makers(x), NEW r \in StageIds(x),
           Uses(E[k], Stages[x], r) = F[k][r] + 1,
           NEW F2, \A m \in Makers(x), s \in StageIds(x) :
              F2[m][s] = IF m = k /\ s = r THEN F[m][s] + 1 ELSE F[m][s]
    PROVE  RingOK(x, Commit(pp, r, Producers(x)), E, F2, L)
  <1> DEFINE S == Stages[x]
             qq == Commit(pp, r, Producers(x))
  <1>1. /\ qq.empty = pp.empty
        /\ \A s \in StageIds(x) : qq.full[s] =
              IF s = r THEN MbarArrive(pp.full[s], Cardinality(Makers(x)))
                       ELSE pp.full[s]
    BY PartFacts DEF Commit, RingType, PipeType
  <1> HIDE DEF qq
  <1>2. ASSUME NEW s \in StageIds(x)
        PROVE  StageInv(qq.full[s], qq.empty[s], Makers(x), Takers(x),
                 [m \in Makers(x) |-> F2[m][s]],
                 [m \in Makers(x) |-> Uses(E[m], S, s)],
                 [q \in Takers(x) |-> Uses(L[q], S, s)],
                 [q \in Takers(x) |-> Uses(E[q], S, s)])
    <2> DEFINE fi == [m \in Makers(x) |-> F[m][s]]
               fi2 == [m \in Makers(x) |-> F2[m][s]]
               be == [m \in Makers(x) |-> Uses(E[m], S, s)]
               ta == [q \in Takers(x) |-> Uses(L[q], S, s)]
               wa == [q \in Takers(x) |-> Uses(E[q], S, s)]
    <2>1. StageInv(pp.full[s], pp.empty[s], Makers(x), Takers(x), fi, be, ta, wa)
      BY DEF RingOK
    <2>2. Participants(Makers(x), Takers(x), fi, be, ta, wa)
      BY RingParticipants
    <2>3. CASE s # r
      <3>1. fi2 = fi
        BY <2>3
      <3> QED BY <1>1, <2>1, <2>3, <3>1
    <2>4. CASE s = r
      <3>1. \A m \in Makers(x) : fi2[m] = IF m = k THEN fi[m] + 1 ELSE fi[m]
        BY <2>4
      <3>2. be[k] = fi[k] + 1
        BY <2>4
      <3> HIDE DEF fi, be, ta, wa, fi2
      <3>3. StageInv(MbarArrive(pp.full[s], Cardinality(Makers(x))), pp.empty[s],
                     Makers(x), Takers(x), fi2, be, ta, wa)
        BY <2>1, <2>2, <3>1, <3>2, StageFill
      <3> QED BY <1>1, <2>4, <3>3 DEF fi2, be, ta, wa
    <2> QED BY <2>3, <2>4
  <1> QED BY <1>2 DEF RingOK, qq

LEMMA RingTake ==
    ASSUME NEW x \in Pipes, NEW pp, NEW E, NEW F, NEW L, RingType(x, pp, E, F, L),
           RingOK(x, pp, E, F, L), NEW k \in Takers(x), E[k] = L[k] + 1,
           NEW L2, \A q \in Takers(x) : L2[q] = IF q = k THEN L[q] + 1 ELSE L[q]
    PROVE  RingOK(x, Release(pp, L[k] % Stages[x], Readers(x)), E, F, L2)
  <1> DEFINE S == Stages[x]
             r == L[k] % S
             qq == Release(pp, r, Readers(x))
  <1>1. S \in Nat \ {0} /\ StageIds(x) = 0 .. S - 1
    BY PartFacts
  <1>2. L[k] \in Nat
    BY DEF RingType
  <1>3. r \in StageIds(x) /\ Uses(E[k], S, r) = Uses(L[k], S, r) + 1
    BY <1>1, <1>2, UsesOwn, UsesNext
  <1>4. /\ qq.full = pp.full
        /\ \A s \in StageIds(x) : qq.empty[s] =
              IF s = r THEN MbarArrive(pp.empty[s], Cardinality(Takers(x)))
                       ELSE pp.empty[s]
    BY <1>3, PartFacts DEF Release, RingType, PipeType
  <1>5. \A q \in Takers(x), s \in StageIds(x) :
           Uses(L2[q], S, s) =
               IF q = k /\ s = r THEN Uses(L[q], S, s) + 1 ELSE Uses(L[q], S, s)
    BY <1>1, OneMore DEF RingType
  <1> HIDE DEF qq, r
  <1>6. ASSUME NEW s \in StageIds(x)
        PROVE  StageInv(qq.full[s], qq.empty[s], Makers(x), Takers(x),
                 [m \in Makers(x) |-> F[m][s]],
                 [m \in Makers(x) |-> Uses(E[m], S, s)],
                 [q \in Takers(x) |-> Uses(L2[q], S, s)],
                 [q \in Takers(x) |-> Uses(E[q], S, s)])
    <2> DEFINE fi == [m \in Makers(x) |-> F[m][s]]
               be == [m \in Makers(x) |-> Uses(E[m], S, s)]
               ta == [q \in Takers(x) |-> Uses(L[q], S, s)]
               wa == [q \in Takers(x) |-> Uses(E[q], S, s)]
               ta2 == [q \in Takers(x) |-> Uses(L2[q], S, s)]
    <2>1. StageInv(pp.full[s], pp.empty[s], Makers(x), Takers(x), fi, be, ta, wa)
      BY DEF RingOK
    <2>2. Participants(Makers(x), Takers(x), fi, be, ta, wa)
      BY RingParticipants
    <2>3. CASE s # r
      <3>1. ta2 = ta
        BY <1>5, <2>3
      <3> QED BY <1>4, <2>1, <2>3, <3>1
    <2>4. CASE s = r
      <3>1. \A q \in Takers(x) : ta2[q] = IF q = k THEN ta[q] + 1 ELSE ta[q]
        BY <1>5, <2>4
      <3>2. wa[k] = ta[k] + 1
        BY <1>3, <2>4
      <3> HIDE DEF fi, be, ta, wa, ta2
      <3>3. StageInv(pp.full[s], MbarArrive(pp.empty[s], Cardinality(Takers(x))),
                     Makers(x), Takers(x), fi, be, ta2, wa)
        BY <2>1, <2>2, <3>1, <3>2, StageTake
      <3> QED BY <1>4, <2>4, <3>3 DEF fi, be, ta2, wa
    <2> QED BY <2>3, <2>4
  <1> QED BY <1>6 DEF RingOK, qq, r

-----------------------------------------------------------------------------
(***************************************************************************)
(* The rings of the block.  The MMA warp enters a turn of state and w when *)
(* it issues WH, of vnew and kt when it issues KV, and leaves it when the  *)
(* tensor cores are done; the Load warp fills a stage when a copy arrives. *)
(***************************************************************************)
Via(x) == IF x \in {"state", "w"} THEN "wh"
          ELSE IF x \in {"vnew", "kt"} THEN "kv" ELSE x

Computed(x) == Begun(x, "mma") - One(tcq # <<>> /\ Head(tcq).acc = x)

Flying(x, s) == One(\E r \in inflight : r.pipe = x /\ r.stage = s)

Entered(x) ==
    [p \in Makers(x) \cup Takers(x) |->
        IF p = "mma" THEN Begun(Via(x), "mma") ELSE Begun(x, p)]

Filled(x) ==
    [m \in Makers(x) |-> [s \in StageIds(x) |->
        IF m = "load" THEN Uses(Begun(x, m), Stages[x], s) - Flying(x, s)
        ELSE IF m = "mma" THEN Uses(Computed(Via(x)), Stages[x], s)
        ELSE Uses(Done(x, m), Stages[x], s)]]

Left(x) ==
    [q \in Takers(x) |-> IF q = "mma" THEN Computed(Via(x)) ELSE Done(x, q)]

Ring(x) ==
    IF Used(x) THEN RingOK(x, pipe[x], Entered(x), Filled(x), Left(x))
    ELSE pipe[x] = PipeInit(Stages[x], Producers(x), Readers(x))

PipeShape ==
    /\ pipe = [x \in Pipes |-> pipe[x]]
    /\ \A x \in Pipes : pipe[x] \in PipeType(x)

\* A copy under way: the turn it is for is within a round of the Load warp's.
Copy(r) ==
    \E x \in Tiles, t \in Nat :
        /\ r = [pipe |-> x, stage |-> t % Stages[x], tag |-> r.tag]
        /\ Used(x) /\ Named(x, r.tag, t)
        /\ t < Begun(x, "load") /\ Begun(x, "load") <= t + Stages[x]

Inflight ==
    /\ \A r \in inflight : Copy(r)
    /\ \A r, o \in inflight : r.pipe = o.pipe /\ r.stage = o.stage => r = o

\* At most one product is under way, the one the MMA warp issued last.
Operands(g) ==
    \/ pc["mma"] = "kv" /\ g.acc = "wh" /\ g.a = "state" /\ g.b = "w"
    \/ pc["mma"] # "kv" /\ g.acc = "kv" /\ g.a = "vnew" /\ g.b = "kt"

Queue ==
    \/ tcq = <<>>
    \/ \E t \in Nat, g \in {Head(tcq)} :
           /\ tcq = <<g>>
           /\ Operands(g)
           /\ Begun(g.acc, "mma") = t + 1
           /\ Named(g.acc, g.tag, t)
           /\ \A x \in {g.acc, g.a, g.b} : g.at[x] = t % Stages[x]

Core == Ctl /\ PipeShape /\ Inflight /\ Queue /\ \A x \in Pipes : Ring(x)

LEMMA HandlesFacts ==
    ASSUME NEW x \in Pipes, Used(x), NEW p \in Makers(x) \cup Takers(x)
    PROVE  /\ p # "mma" => Handles(p, x)
           /\ p = "mma" => Handles("mma", Via(x)) /\ Via(x) \in {"wh", "kv"}
           /\ Via(x) \in Pipes /\ p \in Warps
  <1>1. p \in Warps
    BY PartFacts
  <1>2. Via(x) \in Pipes
    BY DEF Via, Pipes, Tiles, Parts
  <1>3. ASSUME p # "mma" PROVE Handles(p, x)
    BY <1>3, WarpFacts DEF Handles, Makers, Takers, Pipes, Tiles, Parts
  <1>4. ASSUME p = "mma" PROVE Via(x) \in {"wh", "kv"}
    BY <1>4, WarpFacts DEF Makers, Takers, Via, Pipes, Tiles, Parts
  <1>5. Via(x) \in {"wh", "kv"} => Handles("mma", Via(x))
    BY DEF Handles, Used
  <1> QED BY <1>1, <1>2, <1>3, <1>4, <1>5

LEMMA CountsNat ==
    ASSUME Ctl, NEW x, NEW p \in Warps
    PROVE  /\ Done(x, p) \in Nat /\ Begun(x, p) \in Nat
           /\ Begun(x, p) \in {Done(x, p), Done(x, p) + 1}
           /\ TurnOf(x, unit[p], chunk[p]) \in Nat
  BY CountType DEF Ctl, Done, Begun

LEMMA ComputedNat ==
    ASSUME Ctl, Queue, NEW x
    PROVE  /\ Computed(x) \in Nat
           /\ Begun(x, "mma") \in {Computed(x), Computed(x) + 1}
  <1>1. Begun(x, "mma") \in Nat
    BY CountsNat, WarpFacts
  <1>2. CASE tcq = <<>>
    BY <1>1, <1>2 DEF Computed, One
  <1>3. CASE tcq # <<>>
    <2>1. PICK t \in Nat, g \in {Head(tcq)} : tcq = <<g>> /\ Begun(g.acc, "mma") = t + 1
      BY <1>3 DEF Queue
    <2>2. Head(tcq) = g
      BY <2>1
    <2>3. CASE g.acc = x
      BY <1>1, <1>3, <2>1, <2>2, <2>3 DEF Computed, One
    <2>4. CASE g.acc # x
      BY <1>1, <1>3, <2>1, <2>2, <2>4 DEF Computed, One
    <2> QED BY <2>3, <2>4
  <1> QED BY <1>2, <1>3

\* A copy under way is for a stage the Load warp has used.
LEMMA FlyingUsed ==
    ASSUME Ctl, Inflight, NEW x \in Tiles, NEW s \in StageIds(x)
    PROVE  /\ Uses(Begun(x, "load"), Stages[x], s) - Flying(x, s) \in Nat
           /\ Flying(x, s) \in {0, 1}
           /\ Uses(Begun(x, "load"), Stages[x], s) \in Nat
  <1>1. x \in Pipes /\ Stages[x] \in Nat \ {0} /\ s \in 0 .. Stages[x] - 1
    BY PartFacts DEF Pipes
  <1>2. Begun(x, "load") \in Nat
    BY CountsNat, WarpFacts
  <1>3. Uses(Begun(x, "load"), Stages[x], s) \in Nat
    BY <1>1, <1>2, UsesType
  <1>4. CASE ~ \E r \in inflight : r.pipe = x /\ r.stage = s
    BY <1>3, <1>4 DEF Flying, One
  <1>5. CASE \E r \in inflight : r.pipe = x /\ r.stage = s
    <2>1. PICK r \in inflight : r.pipe = x /\ r.stage = s
      BY <1>5
    <2>2. PICK t \in Nat : s = t % Stages[x] /\ t < Begun(x, "load")
      BY <2>1 DEF Inflight, Copy
    <2>3. Uses(t + 1, Stages[x], s) = Uses(t, Stages[x], s) + 1
      BY <1>1, <2>2, UsesNext
    <2>4. Uses(t + 1, Stages[x], s) <= Uses(Begun(x, "load"), Stages[x], s)
      BY <1>1, <1>2, <2>2, UsesMono
    <2>5. Uses(t, Stages[x], s) \in Nat
      BY <1>1, UsesType
    <2>6. Flying(x, s) = 1
      BY <1>5 DEF Flying, One
    <2> QED BY <1>3, <2>3, <2>4, <2>5, <2>6
  <1> QED BY <1>4, <1>5

LEMMA RingHolds ==
    ASSUME Core, NEW x \in Pipes, Used(x)
    PROVE  /\ RingType(x, pipe[x], Entered(x), Filled(x), Left(x))
           /\ RingOK(x, pipe[x], Entered(x), Filled(x), Left(x))
  <1>1. RingOK(x, pipe[x], Entered(x), Filled(x), Left(x))
    BY DEF Core, Ring
  <1>2. pipe[x] \in PipeType(x)
    BY DEF Core, PipeShape
  <1>3. ASSUME NEW p \in Makers(x) \cup Takers(x) PROVE Entered(x)[p] \in Nat
    <2>1. p \in Warps /\ "mma" \in Warps
      BY PartFacts, WarpFacts
    <2> QED BY <2>1, CountsNat DEF Entered, Core
  <1>4. ASSUME NEW m \in Makers(x), NEW s \in StageIds(x)
        PROVE  Filled(x)[m][s] \in Nat
    <2>1. Stages[x] \in Nat \ {0} /\ s \in 0 .. Stages[x] - 1 /\ m \in Warps
      BY PartFacts
    <2>2. CASE m = "load"
      <3>1. x \in Tiles
        BY <2>2, WarpFacts DEF Makers, Pipes, Tiles, Parts
      <3>2. Uses(Begun(x, m), Stages[x], s) - Flying(x, s) \in Nat
        BY <2>2, <3>1, FlyingUsed DEF Core
      <3> QED BY <2>2, <3>2 DEF Filled
    <2>3. CASE m = "mma"
      <3>1. Uses(Computed(Via(x)), Stages[x], s) \in Nat
        BY <2>1, ComputedNat, UsesType DEF Core
      <3> QED BY <2>3, <3>1 DEF Filled
    <2>4. CASE m # "load" /\ m # "mma"
      <3>1. Uses(Done(x, m), Stages[x], s) \in Nat
        BY <2>1, CountsNat, UsesType DEF Core
      <3> QED BY <2>4, <3>1 DEF Filled
    <2> QED BY <2>2, <2>3, <2>4
  <1>5. ASSUME NEW q \in Takers(x) PROVE Left(x)[q] \in Nat
    <2>1. q \in Warps
      BY PartFacts
    <2> QED BY <2>1, CountsNat, ComputedNat DEF Left, Core
  <1> QED BY <1>1, <1>2, <1>3, <1>4, <1>5 DEF RingType

-----------------------------------------------------------------------------
(***************************************************************************)
(* What a step of a warp leaves alone.                                     *)
(***************************************************************************)
LEMMA CountsSame ==
    ASSUME Ctl, NEW p \in Warps, NEW B, NEW D, Steps(p, B, D),
           NEW x \in Pipes, NEW q \in Warps, Handles(q, x),
           q # p \/ (x \notin B /\ x \notin D)
    PROVE  Done(x, q)' = Done(x, q) /\ Begun(x, q)' = Begun(x, q)
  <1>1. Done(x, q) \in Nat /\ Begun(x, q) \in Nat
    BY CountsNat
  <1> QED BY <1>1 DEF Steps, One

LEMMA RingSame ==
    ASSUME Ctl, NEW p \in Warps, p # "mma", NEW B, NEW D, Steps(p, B, D),
           tcq' = tcq,
           NEW x \in Pipes, Used(x), (x \notin B /\ x \notin D) \/ p \notin Makers(x) \cup Takers(x),
           \A s \in StageIds(x) : Flying(x, s)' = Flying(x, s)
    PROVE  Entered(x)' = Entered(x) /\ Filled(x)' = Filled(x) /\ Left(x)' = Left(x)
  <1>1. ASSUME NEW q \in Makers(x) \cup Takers(x), q # "mma"
        PROVE  Done(x, q)' = Done(x, q) /\ Begun(x, q)' = Begun(x, q)
    BY <1>1, HandlesFacts, CountsSame
  <1>2. ASSUME "mma" \in Makers(x) \cup Takers(x)
        PROVE  /\ Begun(Via(x), "mma")' = Begun(Via(x), "mma")
               /\ Computed(Via(x))' = Computed(Via(x))
    <2>1. Handles("mma", Via(x)) /\ Via(x) \in Pipes /\ "mma" \in Warps
      BY <1>2, HandlesFacts, WarpFacts
    <2>2. Begun(Via(x), "mma")' = Begun(Via(x), "mma")
      BY <2>1, CountsSame
    <2> QED BY <2>2 DEF Computed
  <1>3. Entered(x)' = Entered(x)
    BY <1>1, <1>2 DEF Entered
  <1>4. Filled(x)' = Filled(x)
    <2>1. ASSUME NEW m \in Makers(x), NEW s \in StageIds(x)
          PROVE  (IF m = "load" THEN Uses(Begun(x, m), Stages[x], s) - Flying(x, s)
                  ELSE IF m = "mma" THEN Uses(Computed(Via(x)), Stages[x], s)
                  ELSE Uses(Done(x, m), Stages[x], s))' =
                 (IF m = "load" THEN Uses(Begun(x, m), Stages[x], s) - Flying(x, s)
                  ELSE IF m = "mma" THEN Uses(Computed(Via(x)), Stages[x], s)
                  ELSE Uses(Done(x, m), Stages[x], s))
      BY <1>1, <1>2
    <2> QED BY <2>1 DEF Filled
  <1>5. Left(x)' = Left(x)
    BY <1>1, <1>2 DEF Left
  <1> QED BY <1>3, <1>4, <1>5

LEMMA RingKept ==
    ASSUME NEW x \in Pipes, Ring(x), pipe'[x] = pipe[x],
           Used(x) => /\ Entered(x)' = Entered(x) /\ Filled(x)' = Filled(x)
                      /\ Left(x)' = Left(x)
    PROVE  Ring(x)'
  BY DEF Ring

LEMMA StepsNone ==
    ASSUME NEW p, NEW q, Steps(p, {}, {})
    PROVE  Steps(q, {}, {})
  BY DEF Steps, One

LEMMA InflightKept ==
    ASSUME Inflight, inflight' = inflight,
           \A x \in Tiles : Used(x) => Begun(x, "load")' = Begun(x, "load")
    PROVE  Inflight'
  <1>1. ASSUME NEW r \in inflight PROVE Copy(r)'
    <2>1. Copy(r)
      BY DEF Inflight
    <2> QED BY <2>1 DEF Copy
  <1> QED BY <1>1 DEF Inflight

LEMMA QueueKept ==
    ASSUME Queue, tcq' = tcq, pc'["mma"] = "kv" <=> pc["mma"] = "kv",
           \A x \in {"wh", "kv"} : Begun(x, "mma")' = Begun(x, "mma")
    PROVE  Queue'
  <1>1. CASE tcq = <<>>
    BY <1>1 DEF Queue
  <1>2. CASE tcq # <<>>
    <2>1. PICK t \in Nat, g \in {Head(tcq)} :
             /\ tcq = <<g>> /\ Operands(g)
             /\ Begun(g.acc, "mma") = t + 1 /\ Named(g.acc, g.tag, t)
             /\ \A x \in {g.acc, g.a, g.b} : g.at[x] = t % Stages[x]
      BY <1>2 DEF Queue
    <2>2. Operands(g)' /\ g.acc \in {"wh", "kv"}
      BY <2>1 DEF Operands
    <2>3. Begun(g.acc, "mma")' = t + 1
      BY <2>1, <2>2
    <2> QED BY <2>1, <2>2, <2>3 DEF Queue
  <1> QED BY <1>1, <1>2

\* What holds of the rest of the block after a step of a warp that issues
\* nothing.
LEMMA CoreRest ==
    ASSUME Core, Ctl', NEW p \in Warps, p # "mma", NEW B, NEW D, Steps(p, B, D),
           p = "load" => B = {}, inflight' = inflight, tcq' = tcq,
           pc'["mma"] = "kv" <=> pc["mma"] = "kv"
    PROVE  /\ Inflight' /\ Queue'
           /\ \A x \in Pipes : /\ pipe'[x] = pipe[x]
                               /\ (x \notin B /\ x \notin D)
                               => Ring(x)'
  <1>1. "mma" \in Warps /\ "load" \in Warps
    BY WarpFacts
  <1>2. ASSUME NEW x \in {"wh", "kv"}
        PROVE  Begun(x, "mma")' = Begun(x, "mma")
    <2>1. x \in Pipes /\ Handles("mma", x)
      BY DEF Handles, Used, Pipes, Parts
    <2> QED BY <1>1, <2>1, CountsSame DEF Core
  <1>3. ASSUME NEW x \in Tiles, Used(x)
        PROVE  Begun(x, "load")' = Begun(x, "load")
    <2>1. x \in Pipes /\ Handles("load", x)
      BY <1>3 DEF Handles, Pipes
    <2>2. Begun(x, "load") \in Nat
      BY <1>1, CountsNat DEF Core
    <2> QED BY <1>1, <2>1, <2>2 DEF Steps, One
  <1>4. ASSUME NEW x \in Pipes, pipe'[x] = pipe[x], x \notin B /\ x \notin D
        PROVE  Ring(x)'
    <2>1. \A s \in StageIds(x) : Flying(x, s)' = Flying(x, s)
      BY DEF Flying
    <2>2. Used(x) => /\ Entered(x)' = Entered(x) /\ Filled(x)' = Filled(x)
                     /\ Left(x)' = Left(x)
      BY <1>4, <2>1, RingSame DEF Core
    <2> QED BY <1>4, <2>2, RingKept DEF Core
  <1> QED BY <1>2, <1>3, <1>4, InflightKept, QueueKept DEF Core

LEMMA PipeCommit ==
    ASSUME PipeShape, NEW x \in Pipes, NEW s \in StageIds(x),
           pipe' = [pipe EXCEPT ![x] = Commit(@, s, Producers(x))]
    PROVE  /\ PipeShape'
           /\ pipe'[x] = Commit(pipe[x], s, Producers(x))
           /\ \A y \in Pipes : y # x => pipe'[y] = pipe[y]
  <1>1. \A y \in Pipes : pipe'[y] = IF y = x THEN Commit(pipe[x], s, Producers(x))
                                             ELSE pipe[y]
    BY DEF PipeShape
  <1>2. Producers(x) \in Nat \ {0}
    BY PartFacts
  <1>3. \A b \in MbarType(Producers(x)) :
            MbarArrive(b, Producers(x)) \in MbarType(Producers(x))
    BY <1>2 DEF MbarArrive, MbarType
  <1>4. Commit(pipe[x], s, Producers(x)) \in PipeType(x)
    BY <1>3 DEF Commit, PipeType, PipeShape
  <1>5. pipe' = [y \in Pipes |-> pipe'[y]]
    BY DEF PipeShape
  <1> QED BY <1>1, <1>4, <1>5 DEF PipeShape

LEMMA PipeRelease ==
    ASSUME PipeShape, NEW x \in Pipes, NEW s \in StageIds(x),
           pipe' = [pipe EXCEPT ![x] = Release(@, s, Readers(x))]
    PROVE  /\ PipeShape'
           /\ pipe'[x] = Release(pipe[x], s, Readers(x))
           /\ \A y \in Pipes : y # x => pipe'[y] = pipe[y]
  <1>1. \A y \in Pipes : pipe'[y] = IF y = x THEN Release(pipe[x], s, Readers(x))
                                             ELSE pipe[y]
    BY DEF PipeShape
  <1>2. Readers(x) \in Nat \ {0}
    BY PartFacts
  <1>3. \A b \in MbarType(Readers(x)) :
            MbarArrive(b, Readers(x)) \in MbarType(Readers(x))
    BY <1>2 DEF MbarArrive, MbarType
  <1>4. Release(pipe[x], s, Readers(x)) \in PipeType(x)
    BY <1>3 DEF Release, PipeType, PipeShape
  <1>5. pipe' = [y \in Pipes |-> pipe'[y]]
    BY DEF PipeShape
  <1> QED BY <1>1, <1>4, <1>5 DEF PipeShape

-----------------------------------------------------------------------------
(***************************************************************************)
(* The kinds of steps.                                                     *)
(***************************************************************************)
\* A step between two pipelines.
LEMMA CoreStill ==
    ASSUME Core, Ctl', NEW p, Steps(p, {}, {}),
           pipe' = pipe, inflight' = inflight, tcq' = tcq,
           pc'["mma"] = "kv" <=> pc["mma"] = "kv"
    PROVE  Core'
  <1>1. "empty" \in Warps /\ "empty" # "mma" /\ "empty" # "load"
    BY WarpFacts
  <1>2. Steps("empty", {}, {})
    BY StepsNone
  <1>3. /\ Inflight' /\ Queue'
        /\ \A x \in Pipes : Ring(x)'
    BY <1>1, <1>2, CoreRest
  <1>4. PipeShape'
    BY DEF PipeShape, Core
  <1> QED BY <1>3, <1>4 DEF Core

\* wait
LEMMA CoreWait ==
    ASSUME Core, Ctl', NEW x \in Pipes, Used(x), NEW q \in Takers(x), q # "mma",
           Steps(q, {x}, {}), CanConsume(pipe[x], Begun(x, q), Stages[x]),
           pipe' = pipe, inflight' = inflight, tcq' = tcq,
           pc'["mma"] = pc["mma"]
    PROVE  Core'
  <1>1. q \in Warps /\ Handles(q, x) /\ q # "load"
    BY HandlesFacts, WarpFacts DEF Takers
  <1>2. /\ Inflight' /\ Queue'
        /\ \A y \in Pipes : y # x => Ring(y)'
    BY <1>1, CoreRest
  <1>3. PipeShape'
    BY DEF PipeShape, Core
  <1>4. /\ RingType(x, pipe[x], Entered(x), Filled(x), Left(x))
        /\ RingOK(x, pipe[x], Entered(x), Filled(x), Left(x))
    BY RingHolds
  <1>5. ASSUME NEW r \in Makers(x) \cup Takers(x), r # "mma"
        PROVE  /\ Done(x, r)' = Done(x, r)
               /\ Begun(x, r)' = IF r = q THEN Begun(x, r) + 1 ELSE Begun(x, r)
    <2>1. r \in Warps /\ Handles(r, x)
      BY <1>5, HandlesFacts
    <2>2. Done(x, r) \in Nat /\ Begun(x, r) \in Nat
      BY <2>1, CountsNat DEF Core
    <2> QED BY <2>1, <2>2 DEF Steps, One
  <1>6. "mma" \in Makers(x) \cup Takers(x) =>
            /\ Begun(Via(x), "mma")' = Begun(Via(x), "mma")
            /\ Computed(Via(x))' = Computed(Via(x))
    <2>1. SUFFICES ASSUME "mma" \in Makers(x) \cup Takers(x)
          PROVE  /\ Begun(Via(x), "mma")' = Begun(Via(x), "mma")
                 /\ Computed(Via(x))' = Computed(Via(x))
      OBVIOUS
    <2>2. Handles("mma", Via(x)) /\ Via(x) \in Pipes /\ "mma" \in Warps
      BY <2>1, HandlesFacts, WarpFacts
    <2>3. Begun(Via(x), "mma")' = Begun(Via(x), "mma")
      BY <1>1, <2>2, CountsSame DEF Core
    <2> QED BY <2>3 DEF Computed
  <1>7. Makers(x) \cap Takers(x) = {}
    BY PartFacts
  <1>8. \A r \in Makers(x) \cup Takers(x) :
            Entered(x)'[r] = IF r = q THEN Entered(x)[r] + 1 ELSE Entered(x)[r]
    BY <1>5, <1>6 DEF Entered
  <1>9. Filled(x)' = Filled(x)
    <2>1. \A m \in Makers(x) : m # q
      BY <1>7
    <2>2. \A s : Flying(x, s)' = Flying(x, s)
      BY DEF Flying
    <2> QED BY <1>5, <1>6, <2>1, <2>2 DEF Filled
  <1>10. Left(x)' = Left(x)
    BY <1>5, <1>6 DEF Left
  <1>11. Entered(x)[q] = Begun(x, q)
    BY DEF Entered
  <1>12. RingOK(x, pipe[x], Entered(x)', Filled(x), Left(x))
    BY <1>4, <1>8, <1>11, RingWait
  <1>13. Ring(x)'
    BY <1>9, <1>10, <1>12 DEF Ring
  <1> QED BY <1>2, <1>3, <1>13 DEF Core

\* release
LEMMA CoreRead ==
    ASSUME Core, Ctl', NEW x \in Pipes, Used(x), NEW q \in Takers(x), q # "mma",
           Steps(q, {}, {x}), Begun(x, q) = Done(x, q) + 1,
           pipe' = [pipe EXCEPT ![x] =
                       Release(@, Done(x, q) % Stages[x], Readers(x))],
           inflight' = inflight, tcq' = tcq, pc'["mma"] = pc["mma"]
    PROVE  Core'
  <1>1. q \in Warps /\ Handles(q, x) /\ q # "load"
    BY HandlesFacts, WarpFacts DEF Takers
  <1> DEFINE s0 == Done(x, q) % Stages[x]
  <1>2. s0 \in StageIds(x)
    BY <1>1, CountsNat, PartFacts, UsesOwn DEF Core
  <1>3. /\ PipeShape'
        /\ pipe'[x] = Release(pipe[x], s0, Readers(x))
        /\ \A y \in Pipes : y # x => pipe'[y] = pipe[y]
    BY <1>2, PipeRelease DEF Core
  <1>4. /\ Inflight' /\ Queue'
        /\ \A y \in Pipes : y # x => Ring(y)'
    BY <1>1, <1>3, CoreRest
  <1>5. /\ RingType(x, pipe[x], Entered(x), Filled(x), Left(x))
        /\ RingOK(x, pipe[x], Entered(x), Filled(x), Left(x))
    BY RingHolds
  <1>6. ASSUME NEW r \in Makers(x) \cup Takers(x), r # "mma"
        PROVE  /\ Begun(x, r)' = Begun(x, r)
               /\ Done(x, r)' = IF r = q THEN Done(x, r) + 1 ELSE Done(x, r)
    <2>1. r \in Warps /\ Handles(r, x)
      BY <1>6, HandlesFacts
    <2>2. Done(x, r) \in Nat /\ Begun(x, r) \in Nat
      BY <2>1, CountsNat DEF Core
    <2> QED BY <2>1, <2>2 DEF Steps, One
  <1>7. "mma" \in Makers(x) \cup Takers(x) =>
            /\ Begun(Via(x), "mma")' = Begun(Via(x), "mma")
            /\ Computed(Via(x))' = Computed(Via(x))
    <2>1. SUFFICES ASSUME "mma" \in Makers(x) \cup Takers(x)
          PROVE  /\ Begun(Via(x), "mma")' = Begun(Via(x), "mma")
                 /\ Computed(Via(x))' = Computed(Via(x))
      OBVIOUS
    <2>2. Handles("mma", Via(x)) /\ Via(x) \in Pipes /\ "mma" \in Warps
      BY <2>1, HandlesFacts, WarpFacts
    <2>3. Begun(Via(x), "mma")' = Begun(Via(x), "mma")
      BY <1>1, <2>2, CountsSame DEF Core
    <2> QED BY <2>3 DEF Computed
  <1>8. Makers(x) \cap Takers(x) = {}
    BY PartFacts
  <1>9. Entered(x)' = Entered(x)
    BY <1>6, <1>7 DEF Entered
  <1>10. Filled(x)' = Filled(x)
    <2>1. \A m \in Makers(x) : m # q
      BY <1>8
    <2>2. \A s : Flying(x, s)' = Flying(x, s)
      BY DEF Flying
    <2> QED BY <1>6, <1>7, <2>1, <2>2 DEF Filled
  <1>11. \A r \in Takers(x) :
            Left(x)'[r] = IF r = q THEN Left(x)[r] + 1 ELSE Left(x)[r]
    BY <1>6, <1>7 DEF Left
  <1>12. Entered(x)[q] = Left(x)[q] + 1 /\ Left(x)[q] = Done(x, q)
    BY DEF Entered, Left
  <1>13. RingOK(x, Release(pipe[x], Left(x)[q] % Stages[x], Readers(x)),
                Entered(x), Filled(x), Left(x)')
    BY <1>5, <1>11, <1>12, RingTake
  <1>14. Ring(x)'
    BY <1>3, <1>9, <1>10, <1>12, <1>13 DEF Ring
  <1> QED BY <1>3, <1>4, <1>14 DEF Core

\* acquire, copy, commit: a CUDA-core warp
LEMMA CorePublish ==
    ASSUME Core, Ctl', NEW x \in {"state", "vnew", "hout", "vst"}, Used(x),
           NEW w \in CCs, Steps(w, {x}, {x}), Begun(x, w) = Done(x, w),
           CanAcquire(pipe[x], Begun(x, w), Stages[x]),
           pipe' = [pipe EXCEPT ![x] =
                       Commit(@, Done(x, w) % Stages[x], Producers(x))],
           inflight' = inflight, tcq' = tcq, pc'["mma"] = pc["mma"]
    PROVE  Core'
  <1>1. /\ w \in Warps /\ w # "load" /\ w # "mma" /\ x \in Pipes
        /\ Makers(x) = CCs /\ w \in Makers(x)
    BY WarpFacts DEF Makers, Pipes, Parts
  <1> DEFINE s0 == Done(x, w) % Stages[x]
  <1>2. s0 \in StageIds(x) /\ Uses(Done(x, w) + 1, Stages[x], s0) =
                                 Uses(Done(x, w), Stages[x], s0) + 1
    BY <1>1, CountsNat, PartFacts, UsesOwn, UsesNext DEF Core
  <1>3. /\ PipeShape'
        /\ pipe'[x] = Commit(pipe[x], s0, Producers(x))
        /\ \A y \in Pipes : y # x => pipe'[y] = pipe[y]
    BY <1>1, <1>2, PipeCommit DEF Core
  <1>4. /\ Inflight' /\ Queue'
        /\ \A y \in Pipes : y # x => Ring(y)'
    BY <1>1, <1>3, CoreRest
  <1>5. /\ RingType(x, pipe[x], Entered(x), Filled(x), Left(x))
        /\ RingOK(x, pipe[x], Entered(x), Filled(x), Left(x))
    BY <1>1, RingHolds
  <1>6. ASSUME NEW r \in Makers(x) \cup Takers(x), r # "mma"
        PROVE  /\ Begun(x, r)' = IF r = w THEN Begun(x, r) + 1 ELSE Begun(x, r)
               /\ Done(x, r)' = IF r = w THEN Done(x, r) + 1 ELSE Done(x, r)
               /\ Done(x, r) \in Nat /\ Begun(x, r) \in Nat
    <2>1. r \in Warps /\ Handles(r, x)
      BY <1>1, <1>6, HandlesFacts
    <2>2. Done(x, r) \in Nat /\ Begun(x, r) \in Nat
      BY <2>1, CountsNat DEF Core
    <2> QED BY <1>1, <2>1, <2>2 DEF Steps, One
  <1>7. "mma" \in Makers(x) \cup Takers(x) =>
            /\ Begun(Via(x), "mma")' = Begun(Via(x), "mma")
            /\ Computed(Via(x))' = Computed(Via(x))
    <2>1. SUFFICES ASSUME "mma" \in Makers(x) \cup Takers(x)
          PROVE  /\ Begun(Via(x), "mma")' = Begun(Via(x), "mma")
                 /\ Computed(Via(x))' = Computed(Via(x))
      OBVIOUS
    <2>2. Handles("mma", Via(x)) /\ Via(x) \in Pipes /\ "mma" \in Warps
      BY <1>1, <2>1, HandlesFacts, WarpFacts
    <2>3. Begun(Via(x), "mma")' = Begun(Via(x), "mma")
      BY <1>1, <2>2, CountsSame DEF Core
    <2> QED BY <2>3 DEF Computed
  <1>8. Makers(x) \cap Takers(x) = {}
    BY <1>1, PartFacts
  <1>9. \A r \in Makers(x) \cup Takers(x) :
            Entered(x)'[r] = IF r = w THEN Entered(x)[r] + 1 ELSE Entered(x)[r]
    BY <1>1, <1>6, <1>7 DEF Entered
  <1>10. Left(x)' = Left(x)
    <2>1. \A q \in Takers(x) : q # w
      BY <1>1, <1>8
    <2> QED BY <1>6, <1>7, <2>1 DEF Left
  <1>11. \A m \in Makers(x), s \in StageIds(x) :
            /\ Filled(x)[m][s] = Uses(Done(x, m), Stages[x], s)
            /\ Filled(x)'[m][s] = Uses(Done(x, m)', Stages[x], s)
    BY <1>1, WarpFacts DEF Filled
  <1>12. \A m \in Makers(x), s \in StageIds(x) :
            Filled(x)'[m][s] = IF m = w /\ s = s0 THEN Filled(x)[m][s] + 1
                                                   ELSE Filled(x)[m][s]
    <2>1. ASSUME NEW m \in Makers(x), NEW s \in StageIds(x)
          PROVE  Filled(x)'[m][s] = IF m = w /\ s = s0 THEN Filled(x)[m][s] + 1
                                                       ELSE Filled(x)[m][s]
      <3>1. m # "mma" /\ Stages[x] \in Nat \ {0} /\ s \in 0 .. Stages[x] - 1
        BY <1>1, PartFacts, WarpFacts
      <3>2. CASE m # w
        BY <1>6, <1>11, <3>1, <3>2
      <3>3. CASE m = w
        <4>1. Done(x, m)' = Done(x, m) + 1 /\ Done(x, m) \in Nat
          BY <1>6, <3>1, <3>3
        <4>2. Uses(Done(x, m) + 1, Stages[x], s) = Uses(Done(x, m), Stages[x], s)
                  + IF Done(x, m) % Stages[x] = s THEN 1 ELSE 0
          BY <3>1, <4>1, UsesNext
        <4>3. Uses(Done(x, m), Stages[x], s) \in Nat
          BY <3>1, <4>1, UsesType
        <4> QED BY <1>11, <3>3, <4>1, <4>2, <4>3
      <3> QED BY <3>2, <3>3
    <2> QED BY <2>1
  <1>13. Entered(x)[w] = Begun(x, w)
    BY <1>1 DEF Entered
  <1>14. RingOK(x, pipe[x], Entered(x)', Filled(x), Left(x))
    BY <1>1, <1>5, <1>9, <1>13, RingAcquire
  <1>15. RingType(x, pipe[x], Entered(x)', Filled(x), Left(x))
    BY <1>5, <1>9 DEF RingType
  <1>16. Entered(x)'[w] = Done(x, w) + 1
    BY <1>1, <1>9, <1>13
  <1>17. Uses(Entered(x)'[w], Stages[x], s0) = Filled(x)[w][s0] + 1
    BY <1>1, <1>2, <1>11, <1>16
  <1> HIDE DEF s0
  <1>18. RingOK(x, Commit(pipe[x], s0, Producers(x)), Entered(x)', Filled(x)', Left(x))
    BY <1>1, <1>2, <1>12, <1>14, <1>15, <1>17, RingFill
  <1>19. Ring(x)'
    BY <1>3, <1>10, <1>18 DEF Ring
  <1> QED BY <1>3, <1>4, <1>19 DEF Core

\* A producer acquires a stage again only after it filled it.
LEMMA RingAhead ==
    ASSUME NEW x \in Pipes, NEW pp, NEW E, NEW F, NEW L,
           RingOK(x, pp, E, F, L), NEW s \in StageIds(x), NEW m \in Makers(x)
    PROVE  Uses(E[m], Stages[x], s) \in {F[m][s], F[m][s] + 1}
  <1> DEFINE fi == [k \in Makers(x) |-> F[k][s]]
             be == [k \in Makers(x) |-> Uses(E[k], Stages[x], s)]
             ta == [k \in Takers(x) |-> Uses(L[k], Stages[x], s)]
             wa == [k \in Takers(x) |-> Uses(E[k], Stages[x], s)]
  <1>1. StageInv(pp.full[s], pp.empty[s], Makers(x), Takers(x), fi, be, ta, wa)
    BY DEF RingOK
  <1>2. fi[m] = F[m][s] /\ be[m] = Uses(E[m], Stages[x], s)
    OBVIOUS
  <1> HIDE DEF fi, be, ta, wa
  <1> QED BY <1>1, <1>2 DEF StageInv

\* No copy is under way to the stage the Load warp acquires.
LEMMA LoadFree ==
    ASSUME Core, NEW x \in Tiles, Used(x),
           CanAcquire(pipe[x], Begun(x, "load"), Stages[x])
    PROVE  Flying(x, Begun(x, "load") % Stages[x]) = 0
  <1> DEFINE n == Begun(x, "load")
             S == Stages[x]
             E2 == [p \in Makers(x) \cup Takers(x) |->
                       IF p = "load" THEN Entered(x)[p] + 1 ELSE Entered(x)[p]]
  <1>1. x \in Pipes /\ Makers(x) = {"load"} /\ "load" \in Warps /\ "load" # "mma"
    BY WarpFacts DEF Makers, Pipes, Tiles, Parts
  <1>2. n \in Nat /\ S \in Nat \ {0} /\ StageIds(x) = 0 .. S - 1 /\ n % S \in StageIds(x)
    BY <1>1, CountsNat, PartFacts, UsesOwn DEF Core
  <1>3. /\ RingType(x, pipe[x], Entered(x), Filled(x), Left(x))
        /\ RingOK(x, pipe[x], Entered(x), Filled(x), Left(x))
    BY <1>1, RingHolds
  <1>4. Entered(x)["load"] = n
    BY <1>1 DEF Entered
  <1>5. E2["load"] = n + 1
    BY <1>1, <1>4
  <1>6. \A p \in Makers(x) \cup Takers(x) :
            E2[p] = IF p = "load" THEN Entered(x)[p] + 1 ELSE Entered(x)[p]
    OBVIOUS
  <1> HIDE DEF E2
  <1>7. RingOK(x, pipe[x], E2, Filled(x), Left(x))
    BY <1>1, <1>3, <1>4, <1>6, RingAcquire
  <1>8. Uses(n + 1, S, n % S) \in {Filled(x)["load"][n % S], Filled(x)["load"][n % S] + 1}
    <2>1. "load" \in Makers(x)
      BY <1>1
    <2>2. \A s \in StageIds(x) :
              Uses(E2["load"], S, s) \in {Filled(x)["load"][s], Filled(x)["load"][s] + 1}
      BY <1>1, <1>7, <2>1, RingAhead
    <2> QED BY <1>2, <1>5, <2>2
  <1>9. Filled(x)["load"][n % S] = Uses(n, S, n % S) - Flying(x, n % S)
    BY <1>1, <1>2 DEF Filled
  <1>10. Uses(n + 1, S, n % S) = Uses(n, S, n % S) + 1
    BY <1>2, UsesNext
  <1>11. Uses(n, S, n % S) \in Nat /\ Flying(x, n % S) \in {0, 1}
    BY <1>1, <1>2, FlyingUsed DEF Core
  <1> HIDE DEF n, S
  <1>12. Flying(x, n % S) = 0
    BY <1>8, <1>9, <1>10, <1>11
  <1> QED BY <1>12 DEF n, S

\* acquire and issue a copy: the Load warp
LEMMA CoreLoad ==
    ASSUME Core, Ctl', NEW x \in Tiles, Used(x), Steps("load", {x}, {x}),
           CanAcquire(pipe[x], Begun(x, "load"), Stages[x]),
           NEW tag, Named(x, tag, Begun(x, "load")),
           inflight' = inflight \cup
               {[pipe |-> x, stage |-> Begun(x, "load") % Stages[x], tag |-> tag]},
           pipe' = pipe, tcq' = tcq, pc'["mma"] = pc["mma"]
    PROVE  Core'
  <1> DEFINE n == Begun(x, "load")
             S == Stages[x]
             new == [pipe |-> x, stage |-> n % S, tag |-> tag]
  <1>1. /\ x \in Pipes /\ Makers(x) = {"load"} /\ "load" \in Warps /\ "load" # "mma"
        /\ "mma" \in Warps /\ Handles("load", x)
    BY WarpFacts DEF Makers, Pipes, Tiles, Parts, Handles
  <1>2. n \in Nat /\ S \in Nat \ {0} /\ StageIds(x) = 0 .. S - 1 /\ n % S \in StageIds(x)
    BY <1>1, CountsNat, PartFacts, UsesOwn DEF Core
  <1>3. \A r \in inflight : ~(r.pipe = x /\ r.stage = n % S)
    BY LoadFree DEF Flying, One
  <1>4. new.pipe = x /\ new.stage = n % S /\ inflight' = inflight \cup {new}
    OBVIOUS
  <1>5. Begun(x, "load")' = n + 1
    BY <1>1, <1>2 DEF Steps, One
  <1>6. ASSUME NEW y \in Tiles, Used(y), y # x
        PROVE  Begun(y, "load")' = Begun(y, "load")
    <2>1. y \in Pipes /\ Handles("load", y)
      BY <1>6 DEF Handles, Pipes
    <2> QED BY <1>1, <1>6, <2>1, CountsSame DEF Core
  <1>7. \A y \in Pipes : \A s \in StageIds(y) :
            Flying(y, s)' = IF y = x /\ s = n % S THEN 1 ELSE Flying(y, s)
    <2> HIDE DEF new
    <2> QED BY <1>4 DEF Flying, One
  <1>8. Inflight'
    <2>1. ASSUME NEW r \in inflight' PROVE Copy(r)'
      <3>1. CASE r = new
        <4>1. n < n + 1 /\ n + 1 <= n + S
          BY <1>2
        <4>2. PICK t \in Nat : t = n
          BY <1>2
        <4>3. Named(x, tag, t) /\ t < t + 1 /\ t + 1 <= t + Stages[x]
          BY <4>1, <4>2
        <4>4. Begun(x, "load")' = t + 1
          BY <1>5, <4>2
        <4>5. r = [pipe |-> x, stage |-> t % Stages[x], tag |-> tag]
          BY <3>1, <4>2
        <4>6. t < Begun(x, "load")' /\ Begun(x, "load")' <= t + Stages[x]
          BY <4>3, <4>4
        <4> HIDE DEF n, S, new
        <4> QED BY <4>3, <4>5, <4>6 DEF Copy
      <3>2. CASE r \in inflight
        <4>1. PICK y \in Tiles, t \in Nat :
                /\ r = [pipe |-> y, stage |-> t % Stages[y], tag |-> r.tag]
                /\ Used(y) /\ Named(y, r.tag, t)
                /\ t < Begun(y, "load") /\ Begun(y, "load") <= t + Stages[y]
          BY <3>2 DEF Core, Inflight, Copy
        <4>2. CASE y # x
          <5>1. Begun(y, "load")' = Begun(y, "load")
            BY <1>6, <4>1, <4>2
          <5> QED BY <4>1, <5>1 DEF Copy
        <4>3. CASE y = x
          <5>1. r.pipe = x /\ r.stage = t % S
            BY <4>1, <4>3
          <5>2. t % S # n % S
            BY <1>3, <3>2, <5>1
          <5>3. (t + S) % S = t % S
            BY <1>2, UsesRound
          <5>4. n # t + S
            BY <5>2, <5>3
          <5>5. t < n /\ n <= t + S
            BY <4>1, <4>3
          <5> HIDE DEF n, S
          <5>6. t < n + 1 /\ n + 1 <= t + S
            BY <1>2, <5>4, <5>5
          <5> QED BY <1>5, <4>1, <4>3, <5>6 DEF Copy, S
        <4> QED BY <4>2, <4>3
      <3> QED BY <1>4, <3>1, <3>2
    <2>2. ASSUME NEW r \in inflight', NEW o \in inflight',
                 r.pipe = o.pipe, r.stage = o.stage
          PROVE  r = o
      <3> HIDE DEF new
      <3> QED BY <1>3, <1>4, <2>2 DEF Core, Inflight
    <2> QED BY <2>1, <2>2 DEF Inflight
  <1>9. Queue'
    <2>1. ASSUME NEW y \in {"wh", "kv"} PROVE Begun(y, "mma")' = Begun(y, "mma")
      <3>1. y \in Pipes /\ Handles("mma", y)
        BY DEF Handles, Used, Pipes, Parts
      <3> QED BY <1>1, <3>1, CountsSame DEF Core
    <2> QED BY <2>1, QueueKept DEF Core
  <1>10. ASSUME NEW y \in Pipes, y # x PROVE Ring(y)'
    <2>1. \A s \in StageIds(y) : Flying(y, s)' = Flying(y, s)
      BY <1>7, <1>10
    <2>2. Used(y) => /\ Entered(y)' = Entered(y) /\ Filled(y)' = Filled(y)
                     /\ Left(y)' = Left(y)
      BY <1>1, <1>10, <2>1, RingSame DEF Core
    <2> QED BY <2>2, RingKept DEF Core
  <1>11. Ring(x)'
    <2>1. /\ RingType(x, pipe[x], Entered(x), Filled(x), Left(x))
          /\ RingOK(x, pipe[x], Entered(x), Filled(x), Left(x))
      BY <1>1, RingHolds
    <2>2. "load" \notin Takers(x)
      BY <1>1, PartFacts
    <2>3. ASSUME NEW q \in Takers(x), q # "mma"
          PROVE  Done(x, q)' = Done(x, q) /\ Begun(x, q)' = Begun(x, q)
      BY <1>1, <2>2, <2>3, HandlesFacts, CountsSame DEF Core
    <2>4. "mma" \in Takers(x) =>
            /\ Begun(Via(x), "mma")' = Begun(Via(x), "mma")
            /\ Computed(Via(x))' = Computed(Via(x))
      <3>1. SUFFICES ASSUME "mma" \in Takers(x)
            PROVE  /\ Begun(Via(x), "mma")' = Begun(Via(x), "mma")
                   /\ Computed(Via(x))' = Computed(Via(x))
        OBVIOUS
      <3>2. Handles("mma", Via(x)) /\ Via(x) \in Pipes
        BY <1>1, <3>1, HandlesFacts
      <3>3. Begun(Via(x), "mma")' = Begun(Via(x), "mma")
        BY <1>1, <3>2, CountsSame DEF Core
      <3> QED BY <3>3 DEF Computed
    <2>5. \A p \in Makers(x) \cup Takers(x) :
            Entered(x)'[p] = IF p = "load" THEN Entered(x)[p] + 1 ELSE Entered(x)[p]
      BY <1>1, <1>5, <2>2, <2>3, <2>4 DEF Entered
    <2>6. Left(x)' = Left(x)
      BY <2>3, <2>4 DEF Left
    <2>7. ASSUME NEW s \in StageIds(x)
          PROVE  Uses(n + 1, S, s) - Flying(x, s)' = Uses(n, S, s) - Flying(x, s)
      <3>1. Uses(n + 1, S, s) = Uses(n, S, s) + IF n % S = s THEN 1 ELSE 0
        BY <1>2, UsesNext
      <3>2. Uses(n, S, s) \in Nat /\ Flying(x, s) \in {0, 1}
        BY <1>1, <1>2, FlyingUsed DEF Core
      <3>3. Flying(x, n % S) = 0
        BY LoadFree
      <3>4. Flying(x, s)' = IF s = n % S THEN 1 ELSE Flying(x, s)
        BY <1>1, <1>7
      <3> HIDE DEF n, S
      <3> QED BY <3>1, <3>2, <3>3, <3>4
    <2>8. Filled(x)' = Filled(x)
      <3>1. \A s \in StageIds(x) :
              Uses(Begun(x, "load"), S, s)' - Flying(x, s)' =
              Uses(Begun(x, "load"), S, s) - Flying(x, s)
        BY <1>5, <2>7
      <3> QED BY <1>1, <3>1 DEF Filled
    <2>9. Entered(x)["load"] = n
      BY <1>1 DEF Entered
    <2>10. RingOK(x, pipe[x], Entered(x)', Filled(x), Left(x))
      BY <1>1, <2>1, <2>5, <2>9, RingAcquire
    <2> QED BY <2>6, <2>8, <2>10 DEF Ring
  <1>12. PipeShape'
    BY DEF PipeShape, Core
  <1> QED BY <1>8, <1>9, <1>10, <1>11, <1>12 DEF Core

\* A copy arrives: the TMA unit
LEMMA CoreTma ==
    ASSUME Core, Ctl', Steps("empty", {}, {}), NEW r \in inflight,
           inflight' = inflight \ {r},
           pipe' = [pipe EXCEPT ![r.pipe] = Commit(@, r.stage, 1)],
           tcq' = tcq, pc'["mma"] = pc["mma"]
    PROVE  Core'
  <1>1. PICK x \in Tiles, t \in Nat :
           /\ r = [pipe |-> x, stage |-> t % Stages[x], tag |-> r.tag]
           /\ Used(x) /\ t < Begun(x, "load")
    BY DEF Core, Inflight, Copy
  <1> DEFINE s0 == t % Stages[x]
  <1>2. r.pipe = x /\ r.stage = s0
    BY <1>1
  <1>3. /\ x \in Pipes /\ Makers(x) = {"load"} /\ "load" \in Warps /\ "load" # "mma"
        /\ "mma" \in Warps /\ "empty" \in Warps /\ "empty" # "mma" /\ "empty" # "load"
        /\ Producers(x) = 1
    BY WarpFacts DEF Makers, Pipes, Tiles, Parts, Producers
  <1>4. s0 \in StageIds(x) /\ Stages[x] \in Nat \ {0} /\ StageIds(x) = 0 .. Stages[x] - 1
    BY <1>3, PartFacts, UsesOwn
  <1>5. \A y \in Pipes : \A s \in StageIds(y) :
            Flying(y, s)' = IF y = x /\ s = s0 THEN 0 ELSE Flying(y, s)
    <2>1. ASSUME NEW y \in Pipes, NEW s \in StageIds(y)
          PROVE  Flying(y, s)' = IF y = x /\ s = s0 THEN 0 ELSE Flying(y, s)
      <3>1. CASE y = x /\ s = s0
        <4>1. \A o \in inflight : o.pipe = y /\ o.stage = s => o = r
          BY <1>2, <3>1 DEF Core, Inflight
        <4>2. ~ \E o \in inflight' : o.pipe = y /\ o.stage = s
          BY <4>1
        <4> QED BY <3>1, <4>2 DEF Flying, One
      <3>2. CASE ~(y = x /\ s = s0)
        <4>1. (\E o \in inflight' : o.pipe = y /\ o.stage = s) <=>
              (\E o \in inflight : o.pipe = y /\ o.stage = s)
          BY <1>2, <3>2
        <4> QED BY <3>2, <4>1 DEF Flying, One
      <3> QED BY <3>1, <3>2
    <2> QED BY <2>1
  <1>6. Flying(x, s0) = 1
    BY <1>2 DEF Flying, One
  <1>7. /\ PipeShape' /\ pipe'[x] = Commit(pipe[x], s0, Producers(x))
        /\ \A y \in Pipes : y # x => pipe'[y] = pipe[y]
    <2>1. pipe' = [pipe EXCEPT ![x] = Commit(@, s0, Producers(x))]
      BY <1>2, <1>3
    <2> QED BY <1>3, <1>4, <2>1, PipeCommit DEF Core
  <1>8. Inflight'
    <2>1. ASSUME NEW y \in Tiles, Used(y)
          PROVE  Begun(y, "load")' = Begun(y, "load")
      <3>1. y \in Pipes /\ Handles("load", y)
        BY <2>1 DEF Handles, Pipes
      <3> QED BY <1>3, <3>1, CountsSame DEF Core
    <2>2. ASSUME NEW o \in inflight' PROVE Copy(o)'
      <3>1. Copy(o)
        BY DEF Core, Inflight
      <3> QED BY <2>1, <3>1 DEF Copy
    <2> QED BY <2>2 DEF Core, Inflight
  <1>9. Queue'
    <2>1. ASSUME NEW y \in {"wh", "kv"} PROVE Begun(y, "mma")' = Begun(y, "mma")
      <3>1. y \in Pipes /\ Handles("mma", y)
        BY DEF Handles, Used, Pipes, Parts
      <3> QED BY <1>3, <3>1, CountsSame DEF Core
    <2> QED BY <2>1, QueueKept DEF Core
  <1>10. ASSUME NEW y \in Pipes, y # x PROVE Ring(y)'
    <2>1. \A s \in StageIds(y) : Flying(y, s)' = Flying(y, s)
      BY <1>5, <1>10
    <2>2. Used(y) => /\ Entered(y)' = Entered(y) /\ Filled(y)' = Filled(y)
                     /\ Left(y)' = Left(y)
      BY <1>3, <1>10, <2>1, RingSame DEF Core
    <2> QED BY <1>7, <1>10, <2>2, RingKept DEF Core
  <1>11. Ring(x)'
    <2>1. /\ RingType(x, pipe[x], Entered(x), Filled(x), Left(x))
          /\ RingOK(x, pipe[x], Entered(x), Filled(x), Left(x))
      BY <1>1, <1>3, RingHolds
    <2>2. ASSUME NEW q \in Makers(x) \cup Takers(x), q # "mma"
          PROVE  Done(x, q)' = Done(x, q) /\ Begun(x, q)' = Begun(x, q)
      BY <1>1, <1>3, <2>2, HandlesFacts, CountsSame DEF Core
    <2>3. "mma" \in Takers(x) =>
            /\ Begun(Via(x), "mma")' = Begun(Via(x), "mma")
            /\ Computed(Via(x))' = Computed(Via(x))
      <3>1. SUFFICES ASSUME "mma" \in Takers(x)
            PROVE  /\ Begun(Via(x), "mma")' = Begun(Via(x), "mma")
                   /\ Computed(Via(x))' = Computed(Via(x))
        OBVIOUS
      <3>2. Handles("mma", Via(x)) /\ Via(x) \in Pipes
        BY <1>1, <1>3, <3>1, HandlesFacts
      <3>3. Begun(Via(x), "mma")' = Begun(Via(x), "mma")
        BY <1>3, <3>2, CountsSame DEF Core
      <3> QED BY <3>3 DEF Computed
    <2>4. Entered(x)' = Entered(x) /\ Left(x)' = Left(x)
      BY <1>3, <2>2, <2>3 DEF Entered, Left
    <2>5. \A s \in StageIds(x) :
              /\ Filled(x)["load"][s] = Uses(Begun(x, "load"), Stages[x], s) - Flying(x, s)
              /\ Filled(x)'["load"][s] = Uses(Begun(x, "load"), Stages[x], s) - Flying(x, s)'
      BY <1>3, <2>2 DEF Filled
    <2>6. \A s \in StageIds(x) : /\ Uses(Begun(x, "load"), Stages[x], s) \in Nat
                                 /\ Flying(x, s) \in {0, 1}
      BY FlyingUsed DEF Core
    <2>7. \A m \in Makers(x), s \in StageIds(x) :
              Filled(x)'[m][s] = IF m = "load" /\ s = s0 THEN Filled(x)[m][s] + 1
                                                         ELSE Filled(x)[m][s]
      <3> HIDE DEF s0
      <3> QED BY <1>3, <1>5, <1>6, <2>5, <2>6
    <2>8. Uses(Entered(x)["load"], Stages[x], s0) = Filled(x)["load"][s0] + 1
      <3>1. Entered(x)["load"] = Begun(x, "load")
        BY <1>3 DEF Entered
      <3> HIDE DEF s0
      <3> QED BY <1>4, <1>6, <2>5, <2>6, <3>1
    <2> HIDE DEF s0
    <2>9. "load" \in Makers(x)
      BY <1>3
    <2>10. RingOK(x, Commit(pipe[x], s0, Producers(x)), Entered(x), Filled(x)', Left(x))
      BY <1>3, <1>4, <2>1, <2>7, <2>8, <2>9, RingFill
    <2> QED BY <1>1, <1>7, <2>4, <2>10 DEF Ring
  <1> QED BY <1>7, <1>8, <1>9, <1>10, <1>11 DEF Core

-----------------------------------------------------------------------------
(***************************************************************************)
(* Who is past a turn: a consumer that entered turn n, or that finds it    *)
(* ready, is behind every producer of it.                                  *)
(***************************************************************************)
LEMMA Flow ==
    ASSUME Core, NEW x \in Pipes, Used(x), NEW m \in Makers(x),
           NEW q \in Takers(x), NEW n \in Nat,
           \/ n < Entered(x)[q]
           \/ n = Entered(x)[q] /\ CanConsume(pipe[x], n, Stages[x])
    PROVE  Uses(n + 1, Stages[x], n % Stages[x]) <= Filled(x)[m][n % Stages[x]]
  <1> DEFINE S == Stages[x]
             s == n % S
  <1>1. S \in Nat \ {0} /\ StageIds(x) = 0 .. S - 1 /\ s \in StageIds(x)
    BY PartFacts, UsesOwn
  <1>2. /\ RingType(x, pipe[x], Entered(x), Filled(x), Left(x))
        /\ RingOK(x, pipe[x], Entered(x), Filled(x), Left(x))
    BY RingHolds
  <1>3. Entered(x)[q] \in Nat /\ Filled(x)[m][s] \in Nat
    BY <1>1, <1>2 DEF RingType
  <1>4. Uses(n + 1, S, s) \in Nat
    BY <1>1, UsesType, n + 1 \in Nat
  <1>5. CASE n < Entered(x)[q]
    <2>1. Uses(Entered(x)[q], S, s) <= Filled(x)[m][s]
      BY <1>1, <1>2, RingFlow
    <2>2. Uses(n + 1, S, s) <= Uses(Entered(x)[q], S, s)
      BY <1>1, <1>3, <1>5, UsesMono
    <2>3. Uses(Entered(x)[q], S, s) \in Nat
      BY <1>1, <1>3, UsesType
    <2> HIDE DEF S, s
    <2>4. Uses(n + 1, S, s) <= Filled(x)[m][s]
      BY <1>3, <1>4, <2>1, <2>2, <2>3
    <2> QED BY <2>4 DEF S, s
  <1>6. CASE n = Entered(x)[q] /\ CanConsume(pipe[x], n, S)
    <2> DEFINE E2 == [p \in Makers(x) \cup Takers(x) |->
                         IF p = q THEN Entered(x)[p] + 1 ELSE Entered(x)[p]]
    <2>1. \A p \in Makers(x) \cup Takers(x) :
              E2[p] = IF p = q THEN Entered(x)[p] + 1 ELSE Entered(x)[p]
      OBVIOUS
    <2>2. E2[q] = n + 1
      BY <1>6
    <2> HIDE DEF E2
    <2>3. RingOK(x, pipe[x], E2, Filled(x), Left(x))
      BY <1>2, <1>6, <2>1, RingWait
    <2>4. RingType(x, pipe[x], E2, Filled(x), Left(x))
      BY <1>2, <2>1 DEF RingType
    <2>5. Uses(E2[q], S, s) <= Filled(x)[m][s]
      BY <1>1, <2>3, <2>4, RingFlow
    <2> QED BY <2>2, <2>5
  <1> QED BY <1>5, <1>6

LEMMA MadePast ==
    ASSUME Core, NEW x \in Pipes, Used(x), NEW m \in Makers(x), NEW n \in Nat,
           Uses(n + 1, Stages[x], n % Stages[x]) <= Filled(x)[m][n % Stages[x]]
    PROVE  /\ m = "mma" => n < Computed(Via(x))
           /\ m \in CCs => n < Done(x, m)
           /\ m = "load" => n < Begun(x, "load")
  <1> DEFINE S == Stages[x]
             s == n % S
  <1>1. S \in Nat \ {0} /\ StageIds(x) = 0 .. S - 1 /\ s \in StageIds(x)
    BY PartFacts, UsesOwn
  <1>2. Uses(n + 1, S, s) = Uses(n, S, s) + 1 /\ Uses(n, S, s) \in Nat
    BY <1>1, UsesNext, UsesType
  <1>3. ASSUME NEW k \in Nat, NEW j \in Nat, Uses(k, S, s) - j = Filled(x)[m][s] PROVE n < k
    <2>1. Uses(k, S, s) \in Nat
      BY <1>1, UsesType
    <2>2. Uses(n, S, s) < Uses(k, S, s)
      <3> HIDE DEF S, s
      <3>1. Uses(n + 1, S, s) <= Filled(x)[m][s]
        BY DEF S, s
      <3> QED BY <1>2, <1>3, <2>1, <3>1
    <2> QED BY <1>1, <2>2, UsesPast
  <1>4. CASE m = "mma"
    <2>1. Computed(Via(x)) \in Nat /\ Filled(x)[m][s] = Uses(Computed(Via(x)), S, s)
      BY <1>1, <1>4, ComputedNat DEF Filled, Core
    <2>2. Uses(Computed(Via(x)), S, s) - 0 = Filled(x)[m][s]
      BY <1>1, <2>1, UsesType
    <2> QED BY <1>3, <1>4, <2>1, <2>2, WarpFacts
  <1>5. CASE m \in CCs
    <2>1. Done(x, m) \in Nat /\ Filled(x)[m][s] = Uses(Done(x, m), S, s)
      BY <1>1, <1>5, CountsNat, WarpFacts DEF Filled, Core
    <2>2. Uses(Done(x, m), S, s) - 0 = Filled(x)[m][s]
      <3>1. Uses(Done(x, m), S, s) \in Nat
        BY <1>1, <2>1, UsesType
      <3> QED BY <2>1, <3>1
    <2> QED BY <1>3, <1>5, <2>1, <2>2, WarpFacts
  <1>6. CASE m = "load"
    <2>1. Begun(x, m) \in Nat /\ Filled(x)[m][s] = Uses(Begun(x, m), S, s) - Flying(x, s)
      BY <1>1, <1>6, CountsNat, WarpFacts DEF Filled, Core
    <2>2. Flying(x, s) \in Nat
      BY DEF Flying, One
    <2> QED BY <1>3, <1>6, <2>1, <2>2, WarpFacts
  <1> QED BY <1>4, <1>5, <1>6

\* Within a chunk a CUDA-core warp uses its pipelines in this order.
LEMMA ChunkOrder ==
    ASSUME Ctl, NEW w \in CCs
    PROVE  /\ Done("state", w) <= Done("kv", w) + 1
           /\ Done("vnew", w) <= Done("wh", w)
           /\ Begun("kv", w) <= Done("vnew", w)
           /\ Begun("gk", w) <= Done("wh", w)
  <1>1. w \in Warps
    BY WarpFacts
  <1>2. TurnOf("state", unit[w], chunk[w]) \in Nat
    BY <1>1, CountsNat
  <1>3. /\ TurnOf("kv", unit[w], chunk[w]) = TurnOf("state", unit[w], chunk[w])
        /\ TurnOf("wh", unit[w], chunk[w]) = TurnOf("state", unit[w], chunk[w])
        /\ TurnOf("gk", unit[w], chunk[w]) = TurnOf("state", unit[w], chunk[w])
        /\ TurnOf("vnew", unit[w], chunk[w]) = TurnOf("state", unit[w], chunk[w])
    BY DEF TurnOf
  <1> QED BY <1>2, <1>3 DEF Done, Begun, DoneAt, BegunAt, Past, Inside, InChunk

\* The tensor cores are done with one product when the next is ready.
LEMMA QueueEmpty ==
    ASSUME Core, NEW acc, NEW a,
           \/ acc = "wh" /\ a = "state"
           \/ acc = "kv" /\ a = "vnew",
           pc["mma"] = acc, CanConsume(pipe[a], Begun(acc, "mma"), Stages[a])
    PROVE  tcq = <<>>
  <1> DEFINE n == Begun(acc, "mma")
  <1>0. PICK w \in CCs : TRUE
    BY CCsAssumption
  <1>1. /\ "mma" \in Warps /\ w \in Warps
        /\ {"state", "vnew", "wh", "kv"} \subseteq Pipes
        /\ \A x \in {"state", "vnew", "wh", "kv"} : Used(x)
        /\ Takers(a) = {"mma"} /\ Makers(a) = CCs /\ Via(a) = acc
        /\ \A x \in {"wh", "kv"} : Makers(x) = {"mma"} /\ Takers(x) = CCs /\ Via(x) = x
    BY WarpFacts DEF Pipes, Parts, Used, Takers, Makers, Via
  <1>2. n \in Nat /\ Ctl
    BY <1>1, CountsNat DEF Core
  <1>3. Entered(a)["mma"] = n
    BY <1>1 DEF Entered
  <1>4. n < Done(a, w)
    <2>1. Uses(n + 1, Stages[a], n % Stages[a]) <= Filled(a)[w][n % Stages[a]]
      BY <1>1, <1>2, <1>3, Flow
    <2> QED BY <1>1, <1>2, <2>1, MadePast
  <1>5. ASSUME NEW x \in {"wh", "kv"}, NEW k \in Nat, k < Done(x, w)
        PROVE  k < Computed(x)
    <2>1. w \in Takers(x) /\ "mma" \in Makers(x) /\ x \in Pipes /\ Used(x) /\ Via(x) = x
      BY <1>1
    <2>2. Entered(x)[w] = Begun(x, w)
      BY <2>1, WarpFacts DEF Entered
    <2>3. k < Entered(x)[w]
      BY <1>1, <1>5, <2>2, CountsNat DEF Core
    <2>4. Uses(k + 1, Stages[x], k % Stages[x]) <= Filled(x)["mma"][k % Stages[x]]
      BY <2>1, <2>3, Flow
    <2> QED BY <2>1, <2>4, MadePast
  <1>6. SUFFICES ASSUME tcq # <<>> PROVE FALSE
    OBVIOUS
  <1>7. PICK t \in Nat, g \in {Head(tcq)} :
           Operands(g) /\ Begun(g.acc, "mma") = t + 1
    BY <1>6 DEF Core, Queue
  <1>8. Computed(g.acc) = t
    BY <1>6, <1>7 DEF Computed, One
  <1>9. /\ Done("state", w) \in Nat /\ Done("kv", w) \in Nat /\ Done("vnew", w) \in Nat
        /\ Done("wh", w) \in Nat
        /\ Done("state", w) <= Done("kv", w) + 1 /\ Done("vnew", w) <= Done("wh", w)
    BY <1>1, <1>2, CountsNat, ChunkOrder
  <1>10. TurnOf("wh", unit["mma"], chunk["mma"]) \in Nat
         /\ TurnOf("kv", unit["mma"], chunk["mma"]) = TurnOf("wh", unit["mma"], chunk["mma"])
    BY <1>1, <1>2, CountsNat DEF TurnOf
  <1>11. CASE acc = "wh"
    <2>1. g.acc = "kv"
      BY <1>7, <1>11 DEF Operands
    <2>2. Begun("kv", "mma") = n
      BY <1>10, <1>11 DEF Begun, BegunAt, Past, Inside
    <2>3. a = "state" /\ t + 1 = n
      BY <1>7, <1>11, <2>1, <2>2
    <2>4. t < Done("kv", w)
      BY <1>2, <1>4, <1>9, <2>3
    <2>5. t < Computed("kv")
      BY <1>5, <2>4
    <2> QED BY <1>8, <2>1, <2>5
  <1>12. CASE acc = "kv"
    <2>1. g.acc = "wh"
      BY <1>7, <1>12 DEF Operands
    <2>2. Begun("wh", "mma") = n + 1
      BY <1>10, <1>12 DEF Begun, BegunAt, Past, Inside
    <2>3. a = "vnew" /\ t = n
      BY <1>2, <1>7, <1>12, <2>1, <2>2
    <2>4. t < Done("wh", w)
      BY <1>2, <1>4, <1>9, <2>3
    <2>5. t < Computed("wh")
      BY <1>5, <2>4
    <2> QED BY <1>8, <2>1, <2>5
  <1> QED BY <1>11, <1>12

LEMMA RingAlike ==
    ASSUME NEW x \in Pipes,
           \A q \in Makers(x) \cup Takers(x) : q # "mma" =>
               Done(x, q)' = Done(x, q) /\ Begun(x, q)' = Begun(x, q),
           "mma" \in Makers(x) \cup Takers(x) =>
               /\ Begun(Via(x), "mma")' = Begun(Via(x), "mma")
               /\ Computed(Via(x))' = Computed(Via(x)),
           \A s \in StageIds(x) : Flying(x, s)' = Flying(x, s)
    PROVE  Entered(x)' = Entered(x) /\ Filled(x)' = Filled(x) /\ Left(x)' = Left(x)
  <1>1. Entered(x)' = Entered(x)
    BY DEF Entered
  <1>2. Filled(x)' = Filled(x)
    <2>1. ASSUME NEW m \in Makers(x), NEW s \in StageIds(x)
          PROVE  (IF m = "load" THEN Uses(Begun(x, m), Stages[x], s) - Flying(x, s)
                  ELSE IF m = "mma" THEN Uses(Computed(Via(x)), Stages[x], s)
                  ELSE Uses(Done(x, m), Stages[x], s))' =
                 (IF m = "load" THEN Uses(Begun(x, m), Stages[x], s) - Flying(x, s)
                  ELSE IF m = "mma" THEN Uses(Computed(Via(x)), Stages[x], s)
                  ELSE Uses(Done(x, m), Stages[x], s))
      BY WarpFacts
    <2> QED BY <2>1 DEF Filled
  <1>3. Left(x)' = Left(x)
    BY DEF Left
  <1> QED BY <1>1, <1>2, <1>3

\* A product is issued: the MMA warp
LEMMA CoreIssue ==
    ASSUME Core, Ctl', NEW acc, NEW a, NEW b,
           \/ acc = "wh" /\ a = "state" /\ b = "w"
           \/ acc = "kv" /\ a = "vnew" /\ b = "kt",
           pc["mma"] = acc, pc'["mma"] = "kv" <=> acc = "wh",
           Steps("mma", {acc}, {acc}),
           CanConsume(pipe[a], Begun(acc, "mma"), Stages[a]),
           CanConsume(pipe[b], Begun(acc, "mma"), Stages[b]),
           CanAcquire(pipe[acc], Begun(acc, "mma"), Stages[acc]),
           NEW g, g.acc = acc, g.a = a, g.b = b,
           Named(acc, g.tag, Begun(acc, "mma")),
           \A x \in {acc, a, b} : g.at[x] = Begun(acc, "mma") % Stages[x],
           tcq' = Append(tcq, g), pipe' = pipe, inflight' = inflight
    PROVE  Core'
  <1> DEFINE n == Begun(acc, "mma")
  <1>1. /\ "mma" \in Warps /\ "load" \in Warps /\ "load" # "mma"
        /\ {"state", "vnew", "wh", "kv", "w", "kt"} \subseteq Pipes
        /\ \A x \in {"state", "vnew", "wh", "kv", "w", "kt"} : Used(x)
        /\ \A x \in {"wh", "kv"} : Handles("mma", x) /\ Via(x) = x
                                   /\ Makers(x) = {"mma"} /\ Takers(x) = CCs
        /\ Makers(a) = CCs /\ Makers(b) = {"load"}
        /\ Takers(a) = {"mma"} /\ Takers(b) = {"mma"} /\ Via(a) = acc /\ Via(b) = acc
        /\ \A w \in CCs : w # "mma" /\ w # "load"
    BY WarpFacts DEF Pipes, Tiles, Parts, Used, Handles, Makers, Takers, Via
  <1>2. tcq = <<>>
    BY QueueEmpty
  <1>3. tcq' = <<g>> /\ tcq' # <<>> /\ Head(tcq') = g
    BY <1>2
  <1>4. n \in Nat
    BY <1>1, CountsNat DEF Core
  <1>5. Computed(acc) = n
    BY <1>2, <1>4 DEF Computed, One
  <1>6. \A x \in {"wh", "kv"} :
            Begun(x, "mma")' = IF x = acc THEN n + 1 ELSE Begun(x, "mma")
    <2>1. ASSUME NEW x \in {"wh", "kv"}
          PROVE  Begun(x, "mma")' = IF x = acc THEN n + 1 ELSE Begun(x, "mma")
      <3>1. x \in Pipes /\ Begun(x, "mma") \in Nat
        BY <1>1, CountsNat DEF Core
      <3> QED BY <1>1, <3>1 DEF Steps, One
    <2> QED BY <2>1
  <1>7. \A x \in {"wh", "kv"} : Computed(x)' = Computed(x)
    <2>1. ASSUME NEW x \in {"wh", "kv"} PROVE Computed(x)' = Computed(x)
      <3>1. CASE x = acc
        <4>1. Begun(x, "mma")' = n + 1
          BY <1>6, <3>1
        <4> HIDE DEF n
        <4>2. Computed(x)' = n + 1 - 1
          <5>1. Computed(x)' = Begun(x, "mma")' - 1
            BY <1>3, <3>1 DEF Computed, One
          <5> QED BY <1>4, <4>1, <5>1
        <4> QED BY <1>4, <1>5, <3>1, <4>2
      <3>2. CASE x # acc
        <4>1. Begun(x, "mma")' = Begun(x, "mma")
          BY <1>6, <3>2
        <4> QED BY <1>2, <1>3, <3>2, <4>1 DEF Computed, One
      <3> QED BY <3>1, <3>2
    <2> QED BY <2>1
  <1>8. ASSUME NEW x \in Pipes, Used(x), NEW q \in Makers(x) \cup Takers(x), q # "mma"
        PROVE  Done(x, q)' = Done(x, q) /\ Begun(x, q)' = Begun(x, q)
    BY <1>1, <1>8, HandlesFacts, CountsSame DEF Core
  <1>9. \A x \in Pipes : \A s \in StageIds(x) : Flying(x, s)' = Flying(x, s)
    BY DEF Flying
  <1>10. ASSUME NEW x \in Pipes, x # acc, x # a, x # b PROVE Ring(x)'
    <2>1. "mma" \in Makers(x) \cup Takers(x) => Via(x) \in {"wh", "kv"} /\ Via(x) # acc
      BY <1>10, WarpFacts DEF Makers, Takers, Via, Pipes, Tiles, Parts
    <2>2. Used(x) => /\ Entered(x)' = Entered(x) /\ Filled(x)' = Filled(x)
                     /\ Left(x)' = Left(x)
      <3>1. SUFFICES ASSUME Used(x)
            PROVE  Entered(x)' = Entered(x) /\ Filled(x)' = Filled(x) /\ Left(x)' = Left(x)
        OBVIOUS
      <3>2. "mma" \in Makers(x) \cup Takers(x) =>
               /\ Begun(Via(x), "mma")' = Begun(Via(x), "mma")
               /\ Computed(Via(x))' = Computed(Via(x))
        BY <1>6, <1>7, <2>1
      <3> QED BY <1>8, <1>9, <3>1, <3>2, RingAlike
    <2> QED BY <2>2, RingKept DEF Core
  <1>11. ASSUME NEW x \in {acc, a, b}
         PROVE  /\ \A p \in Makers(x) \cup Takers(x) : Entered(x)'[p] =
                      IF p = "mma" THEN Entered(x)[p] + 1 ELSE Entered(x)[p]
                /\ Filled(x)' = Filled(x) /\ Left(x)' = Left(x)
                /\ Entered(x)["mma"] = n /\ x \in Pipes /\ Used(x)
                /\ RingType(x, pipe[x], Entered(x), Filled(x), Left(x))
                /\ RingOK(x, pipe[x], Entered(x), Filled(x), Left(x))
    <2>1. x \in Pipes /\ Used(x) /\ Via(x) = acc /\ "mma" \in Makers(x) \cup Takers(x)
      BY <1>1
    <2>2. Begun(Via(x), "mma")' = n + 1 /\ Computed(Via(x))' = Computed(Via(x))
      BY <1>6, <1>7, <2>1
    <2>3. \A p \in Makers(x) \cup Takers(x) : Entered(x)'[p] =
              IF p = "mma" THEN Entered(x)[p] + 1 ELSE Entered(x)[p]
      BY <1>8, <2>1, <2>2 DEF Entered
    <2>4. Filled(x)' = Filled(x)
      <3>1. ASSUME NEW m \in Makers(x), NEW s \in StageIds(x)
            PROVE  (IF m = "load" THEN Uses(Begun(x, m), Stages[x], s) - Flying(x, s)
                    ELSE IF m = "mma" THEN Uses(Computed(Via(x)), Stages[x], s)
                    ELSE Uses(Done(x, m), Stages[x], s))' =
                   (IF m = "load" THEN Uses(Begun(x, m), Stages[x], s) - Flying(x, s)
                    ELSE IF m = "mma" THEN Uses(Computed(Via(x)), Stages[x], s)
                    ELSE Uses(Done(x, m), Stages[x], s))
        BY <1>8, <1>9, <2>1, <2>2, WarpFacts
      <3> QED BY <3>1 DEF Filled
    <2>5. Left(x)' = Left(x)
      BY <1>8, <2>1, <2>2 DEF Left
    <2>6. Entered(x)["mma"] = n
      BY <2>1 DEF Entered
    <2> QED BY <2>1, <2>3, <2>4, <2>5, <2>6, RingHolds
  <1> HIDE DEF n
  <1>12. Ring(acc)'
    <2>1. RingOK(acc, pipe[acc], Entered(acc)', Filled(acc), Left(acc))
      <3>1. CanAcquire(pipe[acc], n, Stages[acc])
        BY DEF n
      <3> QED BY <1>1, <1>11, <3>1, RingAcquire
    <2> QED BY <1>11, <2>1 DEF Ring
  <1>13. ASSUME NEW x \in {a, b} PROVE Ring(x)'
    <2>1. RingOK(x, pipe[x], Entered(x)', Filled(x), Left(x))
      <3>1. CanConsume(pipe[x], n, Stages[x]) /\ "mma" \in Takers(x)
        BY <1>1 DEF n
      <3> QED BY <1>11, <3>1, RingWait
    <2> QED BY <1>11, <2>1 DEF Ring
  <1>14. Inflight'
    <2>1. \A x \in Tiles : Used(x) => Begun(x, "load")' = Begun(x, "load")
      <3>1. ASSUME NEW x \in Tiles, Used(x) PROVE Begun(x, "load")' = Begun(x, "load")
        <4>1. x \in Pipes /\ Handles("load", x)
          BY <3>1 DEF Handles, Pipes
        <4> QED BY <1>1, <4>1, CountsSame DEF Core
      <3> QED BY <3>1
    <2> QED BY <2>1, InflightKept DEF Core
  <1>15. Queue'
    <2>1. Operands(g)'
      BY DEF Operands
    <2>2. Begun(g.acc, "mma")' = n + 1
      BY <1>6
    <2>3. Named(g.acc, g.tag, n) /\ \A x \in {g.acc, g.a, g.b} : g.at[x] = n % Stages[x]
      BY DEF n
    <2>4. PICK t \in Nat : t = n
      BY <1>4
    <2> QED BY <1>3, <2>1, <2>2, <2>3, <2>4 DEF Queue
  <1>16. PipeShape'
    BY DEF PipeShape, Core
  <1>17. \A x \in Pipes : Ring(x)'
    BY <1>10, <1>12, <1>13
  <1> QED BY <1>14, <1>15, <1>16, <1>17 DEF Core

\* A product is done: the tensor cores
LEMMA CoreDone ==
    ASSUME Core, Ctl', Steps("empty", {}, {}), tcq # <<>>, NEW g, g = Head(tcq),
           pipe' = [pipe EXCEPT ![g.acc] = Commit(@, g.at[g.acc], 1),
                                ![g.a] = Release(@, g.at[g.a], 1),
                                ![g.b] = Release(@, g.at[g.b], 1)],
           tcq' = Tail(tcq), inflight' = inflight, pc'["mma"] = pc["mma"]
    PROVE  Core'
  <1>1. PICK t \in Nat :
           /\ tcq = <<g>> /\ Operands(g) /\ Begun(g.acc, "mma") = t + 1
           /\ \A x \in {g.acc, g.a, g.b} : g.at[x] = t % Stages[x]
    BY DEF Core, Queue
  <1> DEFINE acc == g.acc
             a == g.a
             b == g.b
  <1>2. \/ acc = "wh" /\ a = "state" /\ b = "w"
        \/ acc = "kv" /\ a = "vnew" /\ b = "kt"
    BY <1>1 DEF Operands
  <1>3. \A x \in {acc, a, b} : g.at[x] = t % Stages[x]
    BY <1>1
  <1>4. pipe' = [pipe EXCEPT ![acc] = Commit(@, g.at[acc], 1),
                             ![a] = Release(@, g.at[a], 1),
                             ![b] = Release(@, g.at[b], 1)]
    OBVIOUS
  <1>5. tcq' = <<>> /\ Begun(acc, "mma") = t + 1
    BY <1>1
  <1>6. Head(tcq).acc = acc
    OBVIOUS
  <1> HIDE DEF acc, a, b
  <1>7. /\ "mma" \in Warps /\ "load" \in Warps /\ "load" # "mma" /\ "empty" \in Warps
        /\ "empty" # "mma" /\ "empty" # "load"
        /\ acc \in Pipes /\ a \in Pipes /\ b \in Pipes
        /\ \A x \in {acc, a, b} : Used(x) /\ Via(x) = acc
        /\ Makers(acc) = {"mma"} /\ Takers(acc) = CCs
        /\ Makers(a) = CCs /\ Makers(b) = {"load"}
        /\ Takers(a) = {"mma"} /\ Takers(b) = {"mma"}
        /\ \A w \in CCs : w # "mma" /\ w # "load"
        /\ acc # a /\ acc # b /\ a # b
    BY <1>2, WarpFacts DEF Pipes, Tiles, Parts, Used, Makers, Takers, Via
  <1>8. Producers(acc) = 1 /\ Readers(a) = 1 /\ Readers(b) = 1
    BY <1>2 DEF Producers, Readers
  <1>9. \A x \in Pipes : Stages[x] \in Nat \ {0} /\ t % Stages[x] \in StageIds(x)
    BY PartFacts, UsesOwn
  <1>10. /\ pipe'[acc] = Commit(pipe[acc], t % Stages[acc], Producers(acc))
         /\ \A x \in {a, b} : pipe'[x] = Release(pipe[x], t % Stages[x], Readers(x))
         /\ \A x \in Pipes : x \notin {acc, a, b} => pipe'[x] = pipe[x]
    BY <1>3, <1>4, <1>7, <1>8 DEF Core, PipeShape
  <1>11. PipeShape'
    <2>1. pipe' = [x \in Pipes |-> pipe'[x]]
      BY <1>4 DEF Core, PipeShape
    <2>2. ASSUME NEW x \in Pipes PROVE pipe'[x] \in PipeType(x)
      <3>1. pipe[x] \in PipeType(x) /\ Producers(x) \in Nat \ {0} /\ Readers(x) \in Nat \ {0}
        BY PartFacts DEF Core, PipeShape
      <3>2. /\ \A k \in MbarType(Producers(x)) :
                   MbarArrive(k, Producers(x)) \in MbarType(Producers(x))
            /\ \A k \in MbarType(Readers(x)) :
                   MbarArrive(k, Readers(x)) \in MbarType(Readers(x))
        BY <3>1 DEF MbarArrive, MbarType
      <3>3. /\ Commit(pipe[x], t % Stages[x], Producers(x)) \in PipeType(x)
            /\ Release(pipe[x], t % Stages[x], Readers(x)) \in PipeType(x)
        BY <1>9, <3>1, <3>2 DEF Commit, Release, PipeType
      <3> QED BY <1>10, <3>1, <3>3
    <2> QED BY <2>1, <2>2 DEF PipeShape
  <1>12. ASSUME NEW x \in Pipes, Used(x), NEW q \in Makers(x) \cup Takers(x), q # "mma"
         PROVE  Done(x, q)' = Done(x, q) /\ Begun(x, q)' = Begun(x, q)
    BY <1>7, <1>12, HandlesFacts, CountsSame DEF Core
  <1>13. \A x \in {"wh", "kv"} :
            /\ Begun(x, "mma")' = Begun(x, "mma")
            /\ Computed(x)' = IF x = acc THEN Computed(x) + 1 ELSE Computed(x)
            /\ x = acc => Computed(x) = t
    <2>1. ASSUME NEW x \in {"wh", "kv"}
          PROVE  /\ Begun(x, "mma")' = Begun(x, "mma")
                 /\ Computed(x)' = IF x = acc THEN Computed(x) + 1 ELSE Computed(x)
                 /\ x = acc => Computed(x) = t
      <3>1. x \in Pipes /\ Handles("mma", x)
        BY DEF Pipes, Parts, Handles, Used
      <3>2. Begun(x, "mma")' = Begun(x, "mma") /\ Begun(x, "mma") \in Nat
        BY <1>7, <3>1, CountsSame, CountsNat DEF Core
      <3>3. Computed(x)' = Begun(x, "mma")
        BY <1>5, <3>2 DEF Computed, One
      <3>4. Computed(x) = IF x = acc THEN Begun(x, "mma") - 1 ELSE Begun(x, "mma")
        BY <1>6, <3>2 DEF Computed, One
      <3> QED BY <1>5, <3>2, <3>3, <3>4
    <2> QED BY <2>1
  <1>14. \A x \in Pipes : \A s \in StageIds(x) : Flying(x, s)' = Flying(x, s)
    BY DEF Flying
  <1>15. ASSUME NEW x \in Pipes, x \notin {acc, a, b} PROVE Ring(x)'
    <2>1. "mma" \in Makers(x) \cup Takers(x) => Via(x) \in {"wh", "kv"} /\ Via(x) # acc
      BY <1>2, <1>15, WarpFacts DEF Makers, Takers, Via, Pipes, Tiles, Parts
    <2>2. Used(x) => /\ Entered(x)' = Entered(x) /\ Filled(x)' = Filled(x)
                     /\ Left(x)' = Left(x)
      <3>1. SUFFICES ASSUME Used(x)
            PROVE  Entered(x)' = Entered(x) /\ Filled(x)' = Filled(x) /\ Left(x)' = Left(x)
        OBVIOUS
      <3>2. "mma" \in Makers(x) \cup Takers(x) =>
               /\ Begun(Via(x), "mma")' = Begun(Via(x), "mma")
               /\ Computed(Via(x))' = Computed(Via(x))
        BY <1>13, <2>1
      <3> QED BY <1>12, <1>14, <3>1, <3>2, RingAlike
    <2> QED BY <1>10, <1>15, <2>2, RingKept DEF Core
  <1>16. ASSUME NEW x \in {acc, a, b}
         PROVE  /\ x \in Pipes /\ Used(x) /\ Via(x) = acc
                /\ Entered(x)' = Entered(x) /\ Entered(x)["mma"] = t + 1
                /\ Computed(acc)' = t + 1 /\ Computed(acc) = t
                /\ RingType(x, pipe[x], Entered(x), Filled(x), Left(x))
                /\ RingOK(x, pipe[x], Entered(x), Filled(x), Left(x))
    <2>1. x \in Pipes /\ Used(x) /\ Via(x) = acc /\ "mma" \in Makers(x) \cup Takers(x)
      BY <1>7
    <2>2. acc \in {"wh", "kv"}
      BY <1>2
    <2>3. Begun(Via(x), "mma")' = Begun(Via(x), "mma")
      BY <1>13, <2>1, <2>2
    <2>4. Computed(acc)' = t + 1 /\ Computed(acc) = t
      BY <1>13, <2>2
    <2>5. Entered(x)' = Entered(x)
      BY <1>12, <2>1, <2>3 DEF Entered
    <2>6. Entered(x)["mma"] = t + 1
      BY <1>5, <2>1 DEF Entered
    <2> QED BY <2>1, <2>4, <2>5, <2>6, RingHolds
  <1>17. Ring(acc)'
    <2>1. Left(acc)' = Left(acc)
      BY <1>7, <1>12, <1>16 DEF Left
    <2>2. \A s \in StageIds(acc) : /\ Filled(acc)["mma"][s] = Uses(t, Stages[acc], s)
                                   /\ Filled(acc)'["mma"][s] = Uses(t + 1, Stages[acc], s)
      BY <1>7, <1>16 DEF Filled
    <2>3. \A s \in StageIds(acc) :
              /\ Uses(t + 1, Stages[acc], s) =
                     Uses(t, Stages[acc], s) + IF t % Stages[acc] = s THEN 1 ELSE 0
              /\ Uses(t, Stages[acc], s) \in Nat
      BY <1>7, <1>9, UsesNext, UsesType DEF StageIds
    <2>4. \A m \in Makers(acc), s \in StageIds(acc) : Filled(acc)'[m][s] =
              IF m = "mma" /\ s = t % Stages[acc] THEN Filled(acc)[m][s] + 1
                                                  ELSE Filled(acc)[m][s]
      BY <1>7, <2>2, <2>3
    <2>5. Uses(Entered(acc)["mma"], Stages[acc], t % Stages[acc]) =
              Filled(acc)["mma"][t % Stages[acc]] + 1
      BY <1>7, <1>9, <1>16, <2>2, <2>3
    <2>6. "mma" \in Makers(acc) /\ t % Stages[acc] \in StageIds(acc)
      BY <1>7, <1>9
    <2>7. RingOK(acc, Commit(pipe[acc], t % Stages[acc], Producers(acc)),
                 Entered(acc), Filled(acc)', Left(acc))
      BY <1>16, <2>4, <2>5, <2>6, RingFill
    <2> QED BY <1>10, <1>16, <2>1, <2>7 DEF Ring
  <1>18. ASSUME NEW x \in {a, b} PROVE Ring(x)'
    <2>1. Takers(x) = {"mma"} /\ "mma" \notin Makers(x)
      BY <1>7
    <2>2. Left(x) = [q \in {"mma"} |-> t] /\ Left(x)' = [q \in {"mma"} |-> t + 1]
      BY <1>16, <2>1 DEF Left
    <2>3. \A q \in Takers(x) :
              Left(x)'[q] = IF q = "mma" THEN Left(x)[q] + 1 ELSE Left(x)[q]
      BY <2>1, <2>2
    <2>4. Left(x)["mma"] = t
      BY <2>2
    <2>5. Filled(x)' = Filled(x)
      <3>1. ASSUME NEW m \in Makers(x), NEW s \in StageIds(x)
            PROVE  (IF m = "load" THEN Uses(Begun(x, m), Stages[x], s) - Flying(x, s)
                    ELSE IF m = "mma" THEN Uses(Computed(Via(x)), Stages[x], s)
                    ELSE Uses(Done(x, m), Stages[x], s))' =
                   (IF m = "load" THEN Uses(Begun(x, m), Stages[x], s) - Flying(x, s)
                    ELSE IF m = "mma" THEN Uses(Computed(Via(x)), Stages[x], s)
                    ELSE Uses(Done(x, m), Stages[x], s))
        BY <1>12, <1>14, <1>16, <2>1, WarpFacts
      <3> QED BY <3>1 DEF Filled
    <2>6. "mma" \in Takers(x) /\ Entered(x)["mma"] = Left(x)["mma"] + 1
      BY <1>16, <2>1, <2>4
    <2>7. RingOK(x, Release(pipe[x], Left(x)["mma"] % Stages[x], Readers(x)),
                 Entered(x), Filled(x), Left(x)')
      BY <1>16, <2>3, <2>6, RingTake
    <2> QED BY <1>10, <1>16, <2>4, <2>5, <2>7 DEF Ring
  <1>19. Inflight'
    <2>1. \A x \in Tiles : Used(x) => Begun(x, "load")' = Begun(x, "load")
      <3>1. ASSUME NEW x \in Tiles, Used(x) PROVE Begun(x, "load")' = Begun(x, "load")
        <4>1. x \in Pipes /\ Handles("load", x)
          BY <3>1 DEF Handles, Pipes
        <4> QED BY <1>7, <4>1, CountsSame DEF Core
      <3> QED BY <3>1
    <2> QED BY <2>1, InflightKept DEF Core
  <1>20. Queue'
    BY <1>5 DEF Queue
  <1>21. \A x \in Pipes : Ring(x)'
    BY <1>15, <1>17, <1>18
  <1> QED BY <1>11, <1>19, <1>20, <1>21 DEF Core

-----------------------------------------------------------------------------
(***************************************************************************)
(* Where a warp stands, and the turn it is at.                             *)
(***************************************************************************)
LEMMA Standing ==
    ASSUME Ctl, NEW p \in Warps
    PROVE  /\ pc[p] \in {"h0", "h0_read"} =>
                 /\ AtUnit(p, pc[p]) /\ chunk[p] = 0
                 /\ unit[p] \in 1 .. Len(Units)
           /\ pc[p] \in {"final", "end"} => AtEnd(p, pc[p])
           /\ pc[p] \in InChunk \cup {"w", "kt", "hout_read", "vst_read"} =>
                 /\ AtChunk(p, pc[p]) /\ unit[p] \in 1 .. Len(Units)
                 /\ chunk[p] < Units[unit[p]]
           /\ unit[p] \in 1 .. Len(Units) + 1 /\ chunk[p] \in Nat
  <1>1. Place(p, unit[p], chunk[p], pc[p])
    BY DEF Ctl
  <1>2. CASE pc[p] \in {"h0", "h0_read"}
    <2>1. pc[p] # "exit" /\ ~ AtChunk(p, pc[p]) /\ ~ AtEnd(p, pc[p])
      BY <1>2, WarpFacts DEF AtChunk, InChunk, AtEnd, Warps
    <2>2. unit[p] # Len(Units) + 1 /\ AtUnit(p, pc[p]) /\ chunk[p] = 0
      BY <1>1, <2>1 DEF Place
    <2> QED BY <1>1, <1>2, <2>2, UnitFacts DEF Place, InChunk
  <1>3. CASE pc[p] \in {"final", "end"}
    BY <1>1, <1>3, PlaceAfter DEF Place, InChunk
  <1>4. CASE pc[p] \in InChunk \cup {"w", "kt", "hout_read", "vst_read"}
    <2>1. pc[p] # "exit" /\ ~ AtUnit(p, pc[p]) /\ ~ AtEnd(p, pc[p])
      BY <1>4 DEF AtUnit, InChunk, AtEnd
    <2>2. unit[p] # Len(Units) + 1 /\ AtChunk(p, pc[p]) /\ chunk[p] < Units[unit[p]]
      BY <1>1, <2>1 DEF Place
    <2> QED BY <1>1, <1>4, <2>2, UnitFacts DEF Place, InChunk
  <1> QED BY <1>1, <1>2, <1>3, <1>4 DEF Place, InChunk

\* A warp that stands at pipeline x has left every turn before its own, ...
LEMMA AtTurn ==
    ASSUME Ctl, NEW p \in Warps, NEW x \in Pipes, pc[p] = x
    PROVE  Turn(x, p) \in Nat /\ Done(x, p) = Turn(x, p) /\ Begun(x, p) = Turn(x, p)
  <1>1. TurnOf(x, unit[p], chunk[p]) \in Nat
    BY CountsNat
  <1>2. Turn(x, p) = TurnOf(x, unit[p], chunk[p])
    BY DEF Turn, TurnOf
  <1>3. x \notin Past(x) /\ x \notin Inside(x)
    BY DEF Past, Inside, InChunk, Pipes, Tiles, Parts
  <1> QED BY <1>1, <1>2, <1>3 DEF Done, Begun, DoneAt, BegunAt

\* ... and one that reads a stage of x has entered its own.
LEMMA InTurn ==
    ASSUME Ctl, NEW p \in Warps, NEW x \in Pipes, pc[p] \in Inside(x)
    PROVE  Turn(x, p) \in Nat /\ Done(x, p) = Turn(x, p) /\ Begun(x, p) = Turn(x, p) + 1
  <1>1. TurnOf(x, unit[p], chunk[p]) \in Nat
    BY CountsNat
  <1>2. Turn(x, p) = TurnOf(x, unit[p], chunk[p])
    BY DEF Turn, TurnOf
  <1>3. pc[p] \notin Past(x)
    BY DEF Past, Inside, InChunk, Pipes, Tiles, Parts
  <1> QED BY <1>1, <1>2, <1>3 DEF Done, Begun, DoneAt, BegunAt

\* The data of a warp's turn is named by its unit and chunk.
LEMMA OwnName ==
    ASSUME Ctl, NEW p \in Warps, NEW x,
           \/ x # "h0" /\ AtChunk(p, pc[p])
           \/ x = "h0" /\ AtUnit(p, pc[p])
    PROVE  Named(x, Tag(p), Turn(x, p)) /\ Tag(p) = <<unit[p], chunk[p]>>
  <1>1. Place(p, unit[p], chunk[p], pc[p])
    BY DEF Ctl
  <1>2. Turn(x, p) = TurnOf(x, unit[p], chunk[p])
    BY DEF Turn, TurnOf
  <1>3. CASE x # "h0" /\ AtChunk(p, pc[p])
    <2>1. unit[p] \in 1 .. Len(Units) /\ chunk[p] \in Nat /\ chunk[p] < Units[unit[p]]
      BY <1>1, <1>3, PlaceInChunk
    <2> QED BY <1>2, <1>3, <2>1 DEF Named, Tag
  <1>4. CASE x = "h0" /\ AtUnit(p, pc[p])
    <2>1. pc[p] \in {"h0", "h0_read"}
      BY <1>4 DEF AtUnit
    <2>2. unit[p] \in 1 .. Len(Units) /\ chunk[p] = 0
      BY <2>1, Standing
    <2> QED BY <1>2, <1>4, <2>2 DEF Named, Tag
  <1> QED BY <1>3, <1>4

-----------------------------------------------------------------------------
(***************************************************************************)
(* The actions.  Each is one of the kinds of steps.                        *)
(***************************************************************************)
LEMMA LoadMoves ==
    ASSUME Core, LoadTile, NEW x, x = pc["load"]
    PROVE  /\ Core' /\ Steps("load", {x}, {x})
           /\ x \in Tiles /\ Used(x) /\ Begun(x, "load") = Turn(x, "load")
           /\ Done(x, "load") = Turn(x, "load")
           /\ Turn(x, "load") \in Nat /\ Named(x, Tag("load"), Turn(x, "load"))
           /\ CanAcquire(pipe[x], Begun(x, "load"), Stages[x])
  <1>1. Ctl /\ "load" \in Warps /\ x \in Tiles /\ x \in Pipes /\ "load" # "mma"
        /\ "mma" \in Warps
    BY WarpFacts DEF Core, LoadTile, Pipes
  <1>2. /\ Turn(x, "load") \in Nat /\ Done(x, "load") = Turn(x, "load")
        /\ Begun(x, "load") = Turn(x, "load")
    BY <1>1, AtTurn
  <1>3. /\ x = "h0" => AtUnit("load", "h0") /\ UseInitialState
        /\ x # "h0" => AtChunk("load", x)
        /\ x = "gk" => UseGk
    <2>1. x = "h0" => AtUnit("load", "h0")
      BY <1>1, Standing
    <2>2. x # "h0" => AtChunk("load", x)
      BY <1>1, Standing DEF Tiles, InChunk
    <2> QED BY <2>1, <2>2, WarpFacts DEF AtUnit, AtChunk
  <1>4. Used(x)
    BY <1>1, <1>3 DEF Used, Tiles
  <1>5. Named(x, Tag("load"), Turn(x, "load"))
    BY <1>1, <1>3, OwnName
  <1>6. Ctl' /\ Steps("load", {x}, {x}) /\ pc'["mma"] = pc["mma"]
    <2>1. CASE x = "h0"
      <3>1. Goto("load", ChunkLabel("load", unit["load"], 0))
        BY <2>1 DEF LoadTile
      <3>2. Ctl' /\ Steps("load", {"h0"}, {"h0"})
        BY <1>1, <2>1, <3>1, FirstChunkStep
      <3> QED BY <1>1, <2>1, <3>1, <3>2 DEF Goto, Ctl
    <2>2. CASE x = "w"
      <3>1. Goto("load", "kt")
        BY <2>2 DEF LoadTile
      <3>2. AtChunk("load", "kt")
        BY DEF AtChunk
      <3>3. Ctl' /\ Steps("load", {"w"}, {"w"})
        BY <1>1, <1>3, <2>2, <3>1, <3>2, AdvanceLoad, GotoStep
      <3> QED BY <1>1, <2>2, <3>1, <3>3 DEF Goto, Ctl
    <2>3. CASE x = "kt"
      <3>1. Goto("load", "u")
        BY <2>3 DEF LoadTile
      <3>2. AtChunk("load", "u")
        BY DEF AtChunk
      <3>3. Ctl' /\ Steps("load", {"kt"}, {"kt"})
        BY <1>1, <1>3, <2>3, <3>1, <3>2, AdvanceLoad, GotoStep
      <3> QED BY <1>1, <2>3, <3>1, <3>3 DEF Goto, Ctl
    <2>4. CASE x = "u" /\ UseGk
      <3>1. Goto("load", "gk")
        BY <2>4 DEF LoadTile
      <3>2. AtChunk("load", "gk")
        BY <2>4 DEF AtChunk
      <3>3. Ctl' /\ Steps("load", {"u"}, {"u"})
        BY <1>1, <1>3, <2>4, <3>1, <3>2, AdvanceLoad, GotoStep
      <3> QED BY <1>1, <2>4, <3>1, <3>3 DEF Goto, Ctl
    <2>5. CASE x = "gk" \/ (x = "u" /\ ~UseGk)
      <3>1. NextChunk("load")
        BY <2>5 DEF LoadTile
      <3>2. AtChunk("load", pc["load"]) /\ Last("load", pc["load"], {x}, {x})
        BY <1>3, <2>5, LastLabels
      <3>3. Ctl' /\ Steps("load", {x}, {x})
        BY <1>1, <3>1, <3>2, NextChunkStep
      <3> QED BY <1>1, <3>1, <3>3 DEF NextChunk, Ctl
    <2> QED BY <1>1, <2>1, <2>2, <2>3, <2>4, <2>5 DEF Tiles
  <1>7. CanAcquire(pipe[x], Begun(x, "load"), Stages[x])
    BY <1>2 DEF LoadTile, Free
  <1>8. /\ inflight' = inflight \cup {[pipe |-> x, stage |-> Begun(x, "load") % Stages[x],
                                       tag |-> Tag("load")]}
        /\ pipe' = pipe /\ tcq' = tcq
    BY <1>2 DEF LoadTile, Stage, StageOf
  <1>9. Core'
    <2>1. Named(x, Tag("load"), Begun(x, "load"))
      BY <1>2, <1>5
    <2>2. PICK tag : tag = Tag("load")
      OBVIOUS
    <2> QED BY <1>1, <1>4, <1>6, <1>7, <1>8, <2>1, <2>2, CoreLoad
  <1> QED BY <1>1, <1>2, <1>4, <1>5, <1>6, <1>7, <1>9

LEMMA TmaMoves ==
    ASSUME Core, NEW r \in inflight, TmaArrive(r)
    PROVE  Core' /\ Steps("empty", {}, {})
  <1>1. Ctl /\ "empty" \in Warps
    BY WarpFacts DEF Core
  <1>2. UNCHANGED ctl
    BY DEF TmaArrive
  <1>3. Ctl' /\ Steps("empty", {}, {})
    BY <1>1, <1>2, StillStep
  <1>4. /\ inflight' = inflight \ {r} /\ tcq' = tcq
        /\ pipe' = [pipe EXCEPT ![r.pipe] = Commit(@, r.stage, 1)]
        /\ pc'["mma"] = pc["mma"]
    BY DEF TmaArrive, ctl
  <1> QED BY <1>3, <1>4, CoreTma

\* IssueWH and IssueKV.
IssueMove(acc, a, b) ==
    \/ acc = "wh" /\ a = "state" /\ b = "w" /\ IssueWH
    \/ acc = "kv" /\ a = "vnew" /\ b = "kt" /\ IssueKV

LEMMA IssueMoves ==
    ASSUME Core, NEW acc, NEW a, NEW b, IssueMove(acc, a, b)
    PROVE  /\ Core' /\ Steps("mma", {acc}, {acc})
           /\ tcq = <<>> /\ tcq' = <<Product(acc, a, b)>>
           /\ Turn(acc, "mma") \in Nat /\ Begun(acc, "mma") = Turn(acc, "mma")
           /\ Turn(a, "mma") = Turn(acc, "mma") /\ Turn(b, "mma") = Turn(acc, "mma")
           /\ Named(acc, Tag("mma"), Turn(acc, "mma"))
           /\ CanConsume(pipe[a], Turn(acc, "mma"), Stages[a])
           /\ CanConsume(pipe[b], Turn(acc, "mma"), Stages[b])
           /\ CanAcquire(pipe[acc], Turn(acc, "mma"), Stages[acc])
  <1> DEFINE n == Turn(acc, "mma")
             g == Product(acc, a, b)
  <1>1. /\ Ctl /\ "mma" \in Warps /\ acc \in Pipes
        /\ \/ acc = "wh" /\ a = "state" /\ b = "w"
           \/ acc = "kv" /\ a = "vnew" /\ b = "kt"
    BY WarpFacts DEF Core, IssueMove, Pipes, Parts
  <1>2. IssueProduct(acc, a, b)
    BY DEF IssueMove, IssueWH, IssueKV
  <1>3. pc["mma"] = acc
    BY <1>2 DEF IssueProduct
  <1>4. n \in Nat /\ Begun(acc, "mma") = n
    BY <1>1, <1>3, AtTurn
  <1>5. Turn(a, "mma") = n /\ Turn(b, "mma") = n
    BY <1>1 DEF Turn
  <1>6. AtChunk("mma", acc)
    BY <1>1 DEF AtChunk
  <1>7. Named(acc, Tag("mma"), n)
    BY <1>1, <1>3, <1>6, OwnName
  <1>8. /\ CanConsume(pipe[a], n, Stages[a]) /\ CanConsume(pipe[b], n, Stages[b])
        /\ CanAcquire(pipe[acc], n, Stages[acc])
    BY <1>2, <1>5 DEF IssueProduct, Ready, Free
  <1>9. Ctl' /\ Steps("mma", {acc}, {acc}) /\ (pc'["mma"] = "kv" <=> acc = "wh")
    <2>1. CASE acc = "wh" /\ IssueWH
      <3>1. Goto("mma", "kv") /\ AtChunk("mma", "kv")
        BY <2>1 DEF IssueWH, AtChunk
      <3>2. Ctl' /\ Steps("mma", {"wh"}, {"wh"})
        BY <1>1, <1>3, <1>6, <2>1, <3>1, AdvanceOther, GotoStep
      <3> QED BY <1>1, <2>1, <3>1, <3>2 DEF Goto, Ctl
    <2>2. CASE acc = "kv" /\ IssueKV
      <3>1. NextChunk("mma") /\ AtChunk("mma", pc["mma"]) /\ Last("mma", pc["mma"], {acc}, {acc})
        BY <1>3, <1>6, <2>2, LastLabels DEF IssueKV
      <3>2. Ctl' /\ Steps("mma", {acc}, {acc})
        BY <1>1, <3>1, NextChunkStep
      <3>3. pc'["mma"] = ChunkLabel("mma", unit["mma"], chunk["mma"] + 1)
        BY <1>1, <3>1 DEF NextChunk, Ctl
      <3>4. pc'["mma"] # "kv"
        BY <3>3, WarpFacts DEF ChunkLabel
      <3> QED BY <2>2, <3>2, <3>4
    <2> QED BY <1>1, <2>1, <2>2 DEF IssueMove
  <1>10. tcq = <<>>
    BY <1>1, <1>3, <1>4, <1>8, QueueEmpty
  <1>11. tcq' = Append(tcq, g) /\ pipe' = pipe /\ inflight' = inflight
    BY <1>2 DEF IssueProduct
  <1>12. /\ g.acc = acc /\ g.a = a /\ g.b = b /\ g.tag = Tag("mma")
         /\ \A x \in {acc, a, b} : g.at[x] = n % Stages[x]
    BY <1>5 DEF Product, Stage, StageOf
  <1>13. Core'
    <2>1. PICK o : o = g
      OBVIOUS
    <2> HIDE DEF g, n
    <2>2. /\ Named(acc, o.tag, Begun(acc, "mma")) /\ tcq' = Append(tcq, o)
          /\ o.acc = acc /\ o.a = a /\ o.b = b
          /\ \A x \in {acc, a, b} : o.at[x] = Begun(acc, "mma") % Stages[x]
      BY <1>4, <1>7, <1>11, <1>12, <2>1
    <2> QED BY <1>1, <1>3, <1>4, <1>8, <1>9, <1>11, <2>2, CoreIssue
  <1>14. tcq' = <<g>>
    BY <1>10, <1>11
  <1> QED BY <1>4, <1>5, <1>7, <1>8, <1>9, <1>10, <1>13, <1>14

LEMMA DoneMoves ==
    ASSUME Core, TensorCoreDone
    PROVE  Core' /\ Steps("empty", {}, {})
  <1>1. Ctl /\ "empty" \in Warps
    BY WarpFacts DEF Core
  <1>2. UNCHANGED ctl
    BY DEF TensorCoreDone
  <1>3. Ctl' /\ Steps("empty", {}, {})
    BY <1>1, <1>2, StillStep
  <1>4. PICK g : g = Head(tcq)
    OBVIOUS
  <1>5. /\ tcq # <<>> /\ tcq' = Tail(tcq) /\ inflight' = inflight
        /\ pipe' = [pipe EXCEPT ![g.acc] = Commit(@, g.at[g.acc], 1),
                                ![g.a] = Release(@, g.at[g.a], 1),
                                ![g.b] = Release(@, g.at[g.b], 1)]
        /\ pc'["mma"] = pc["mma"]
    BY <1>4 DEF TensorCoreDone, ctl
  <1> QED BY <1>3, <1>4, <1>5, CoreDone

\* wait_and_advance, of a CUDA-core warp and of the Store warp.
WaitMove(x, q) ==
    \/ /\ q \in CCs
       /\ \/ x = "h0" /\ UseInitialState /\ BeginRead("h0", q) /\ Goto(q, "h0_read")
          \/ x = "u" /\ WaitU(q)
          \/ x = "wh" /\ WaitWH(q)
          \/ x = "gk" /\ WaitGk(q)
          \/ x = "kv" /\ WaitKV(q)
    \/ /\ q = "store"
       /\ \/ x = "hout" /\ BeginStore("hout", "hout_read")
          \/ x = "vst" /\ BeginStore("vst", "vst_read")

LEMMA WaitMoves ==
    ASSUME Core, NEW x, NEW q, WaitMove(x, q)
    PROVE  /\ Core' /\ Steps(q, {x}, {}) /\ q \in Takers(x) /\ x \in Pipes /\ Used(x)
           /\ Turn(x, q) \in Nat /\ Begun(x, q) = Turn(x, q) /\ Done(x, q) = Turn(x, q)
           /\ CanConsume(pipe[x], Turn(x, q), Stages[x])
  <1>1. /\ Ctl /\ q \in Warps /\ q # "mma" /\ x \in Pipes /\ q \in Takers(x)
        /\ "mma" \in Warps
        /\ \/ q \in CCs /\ x \in {"h0", "u", "wh", "gk", "kv"}
           \/ q = "store" /\ x \in {"hout", "vst"}
    BY WarpFacts DEF Core, WaitMove, Pipes, Tiles, Parts, Takers
  <1>2. BeginRead(x, q)
    BY DEF WaitMove, WaitU, WaitWH, WaitGk, WaitKV, BeginStore
  <1>3. pc[q] = x /\ CanConsume(pipe[x], Turn(x, q), Stages[x])
        /\ pipe' = pipe /\ inflight' = inflight /\ tcq' = tcq
    BY <1>2 DEF BeginRead, Ready
  <1>4. Turn(x, q) \in Nat /\ Begun(x, q) = Turn(x, q) /\ Done(x, q) = Turn(x, q)
    BY <1>1, <1>3, AtTurn
  <1>5. /\ x = "h0" => AtUnit(q, "h0") /\ UseInitialState
        /\ x # "h0" => AtChunk(q, x)
    <2>1. x # "h0" => x \in InChunk
      BY <1>1 DEF InChunk
    <2>2. x = "h0" => UseInitialState
      BY <1>1, WarpFacts DEF WaitMove
    <2> QED BY <1>1, <1>3, <2>1, <2>2, Standing
  <1>6. Used(x)
    BY <1>5 DEF Used, AtChunk
  <1> DEFINE l == CASE x = "h0" -> "h0_read" [] x = "u" -> "u_read"
                    [] x = "wh" -> "wh_read" [] x = "gk" -> "gk_exp"
                    [] x = "kv" -> "kv_read" [] x = "hout" -> "hout_read"
                    [] x = "vst" -> "vst_read"
  <1>7. Goto(q, l)
    BY WarpFacts DEF WaitMove, WaitU, WaitWH, WaitGk, WaitKV, BeginStore
  <1>8. Advance(q, x, l, {x}, {})
    BY <1>1, AdvanceCC, AdvanceOther
  <1>9. \/ AtChunk(q, x) /\ AtChunk(q, l)
        \/ AtUnit(q, x) /\ AtUnit(q, l)
    <2>1. CASE x = "h0"
      BY <1>1, <1>5, <2>1, WarpFacts DEF AtUnit
    <2>2. CASE x # "h0"
      BY <1>1, <1>5, <2>2, WarpFacts DEF AtChunk, InChunk
    <2> QED BY <2>1, <2>2
  <1> HIDE DEF l
  <1>10. Ctl' /\ Steps(q, {x}, {}) /\ pc'["mma"] = pc["mma"]
    <2>1. Ctl' /\ Steps(q, {x}, {})
      BY <1>1, <1>3, <1>7, <1>8, <1>9, GotoStep
    <2> QED BY <1>1, <1>7, <2>1 DEF Goto, Ctl
  <1>11. Core'
    <2>1. CanConsume(pipe[x], Begun(x, q), Stages[x])
      BY <1>3, <1>4
    <2> QED BY <1>1, <1>3, <1>6, <1>10, <2>1, CoreWait
  <1> QED BY <1>1, <1>3, <1>4, <1>6, <1>10, <1>11

\* release, of a CUDA-core warp and of the Store warp.
ReadMove(x, q) ==
    \/ /\ q \in CCs
       /\ \/ x = "h0" /\ ReadH0(q)
          \/ x = "u" /\ ReadU(q)
          \/ x = "wh" /\ ReadWH(q)
          \/ x = "gk" /\ DecayH(q)
          \/ x = "kv" /\ ReadKV(q)
    \/ /\ q = "store"
       /\ \/ x = "hout" /\ StoreHOut
          \/ x = "vst" /\ StoreVNew

LastRead(x) ==
    CASE x = "h0" -> "h0_read" [] x = "u" -> "u_read" [] x = "wh" -> "wh_read"
      [] x = "gk" -> "gk_read" [] x = "kv" -> "kv_read"
      [] x = "hout" -> "hout_read" [] x = "vst" -> "vst_read"

LEMMA ReadControl ==
    ASSUME Ctl, NEW x, NEW q, ReadMove(x, q)
    PROVE  Ctl' /\ Steps(q, {}, {x}) /\ pc'["mma"] = pc["mma"]
  <1>1. q \in Warps /\ q # "mma" /\ "mma" \in Warps
    BY WarpFacts DEF ReadMove
  <1>2. CASE q \in CCs /\ x = "h0"
    <2>1. pc[q] = "h0_read" /\ Goto(q, ChunkLabel(q, unit[q], 0))
      BY <1>2, WarpFacts DEF ReadMove, ReadH0, EndRead
    <2>2. Ctl' /\ Steps(q, {}, {"h0"})
      BY <1>1, <2>1, FirstChunkStep
    <2> QED BY <1>1, <1>2, <2>1, <2>2 DEF Goto, Ctl
  <1>3. CASE q \in CCs /\ x = "u"
    <2>1. pc[q] = "u_read" /\ Goto(q, "wh")
      BY <1>3, WarpFacts DEF ReadMove, ReadU, EndRead
    <2>2. AtChunk(q, "u_read") /\ AtChunk(q, "wh")
      BY <1>3 DEF AtChunk, InChunk
    <2>3. Ctl' /\ Steps(q, {}, {"u"})
      BY <1>1, <1>3, <2>1, <2>2, AdvanceCC, GotoStep
    <2> QED BY <1>1, <1>3, <2>1, <2>3 DEF Goto, Ctl
  <1>4. CASE q \in CCs /\ x = "wh"
    <2>1. pc[q] = "wh_read" /\ Goto(q, "vnew")
      BY <1>4, WarpFacts DEF ReadMove, ReadWH, EndRead
    <2>2. AtChunk(q, "wh_read") /\ AtChunk(q, "vnew")
      BY <1>4 DEF AtChunk, InChunk
    <2>3. Ctl' /\ Steps(q, {}, {"wh"})
      BY <1>1, <1>4, <2>1, <2>2, AdvanceCC, GotoStep
    <2> QED BY <1>1, <1>4, <2>1, <2>3 DEF Goto, Ctl
  <1>5. CASE q \in CCs /\ x = "gk"
    <2>1. pc[q] = "gk_read" /\ Goto(q, "kv")
      BY <1>5, WarpFacts DEF ReadMove, DecayH, EndRead
    <2>2. AtChunk(q, "gk_read") /\ AtChunk(q, "kv")
      <3>1. AtChunk(q, "gk_read")
        BY <1>1, <2>1, Standing DEF InChunk
      <3> QED BY <1>5, <3>1 DEF AtChunk, InChunk
    <2>3. Ctl' /\ Steps(q, {}, {"gk"})
      BY <1>1, <1>5, <2>1, <2>2, AdvanceCC, GotoStep
    <2> QED BY <1>1, <1>5, <2>1, <2>3 DEF Goto, Ctl
  <1>6. CASE q \in CCs /\ x = "kv"
    <2>1. pc[q] = "kv_read" /\ NextChunk(q)
      BY <1>6, WarpFacts DEF ReadMove, ReadKV, EndRead
    <2>2. AtChunk(q, pc[q]) /\ Last(q, pc[q], {}, {"kv"})
      BY <1>1, <1>6, <2>1, Standing, LastLabels DEF InChunk
    <2>3. Ctl' /\ Steps(q, {}, {"kv"})
      BY <1>1, <2>1, <2>2, NextChunkStep
    <2> QED BY <1>1, <1>6, <2>1, <2>3 DEF NextChunk, Ctl
  <1>7. CASE q = "store" /\ x = "hout"
    <2>1. pc[q] = "hout_read" /\ IF SaveVNew THEN Goto(q, "vst") ELSE NextChunk(q)
      BY <1>7, WarpFacts DEF ReadMove, StoreHOut
    <2>2. AtChunk(q, "hout_read")
      BY <1>1, <2>1, Standing
    <2>3. CASE SaveVNew
      <3>1. AtChunk(q, "vst") /\ Goto(q, "vst")
        BY <1>7, <2>1, <2>3 DEF AtChunk
      <3>2. Ctl' /\ Steps(q, {}, {"hout"})
        BY <1>1, <1>7, <2>1, <2>2, <3>1, AdvanceOther, GotoStep
      <3> QED BY <1>1, <1>7, <3>1, <3>2 DEF Goto, Ctl
    <2>4. CASE ~SaveVNew
      <3>1. NextChunk(q) /\ Last(q, pc[q], {}, {"hout"})
        BY <1>7, <2>1, <2>4, LastLabels
      <3>2. Ctl' /\ Steps(q, {}, {"hout"})
        BY <1>1, <2>1, <2>2, <3>1, NextChunkStep
      <3> QED BY <1>1, <1>7, <3>1, <3>2 DEF NextChunk, Ctl
    <2> QED BY <2>3, <2>4
  <1>8. CASE q = "store" /\ x = "vst"
    <2>1. pc[q] = "vst_read" /\ NextChunk(q)
      BY <1>8, WarpFacts DEF ReadMove, StoreVNew
    <2>2. AtChunk(q, pc[q]) /\ Last(q, pc[q], {}, {"vst"})
      BY <1>1, <1>8, <2>1, Standing, LastLabels
    <2>3. Ctl' /\ Steps(q, {}, {"vst"})
      BY <1>1, <2>1, <2>2, NextChunkStep
    <2> QED BY <1>1, <1>8, <2>1, <2>3 DEF NextChunk, Ctl
  <1> QED BY <1>2, <1>3, <1>4, <1>5, <1>6, <1>7, <1>8 DEF ReadMove

LEMMA ReadMoves ==
    ASSUME Core, NEW x, NEW q, ReadMove(x, q)
    PROVE  /\ Core' /\ Steps(q, {}, {x}) /\ q \in Takers(x) /\ x \in Pipes /\ Used(x)
           /\ Turn(x, q) \in Nat /\ Begun(x, q) = Turn(x, q) + 1
           /\ Done(x, q) = Turn(x, q) /\ pc[q] = LastRead(x)
  <1>1. /\ Ctl /\ q \in Warps /\ q # "mma" /\ x \in Pipes /\ q \in Takers(x)
        /\ "mma" \in Warps
        /\ \/ q \in CCs /\ x \in {"h0", "u", "wh", "gk", "kv"}
           \/ q = "store" /\ x \in {"hout", "vst"}
    BY WarpFacts DEF Core, ReadMove, Pipes, Tiles, Parts, Takers
  <1>2. /\ pc[q] = LastRead(x)
        /\ pipe' = [pipe EXCEPT ![x] = Release(@, Stage(x, q), Readers(x))]
        /\ inflight' = inflight /\ tcq' = tcq
    <2> USE DEF LastRead, ReleaseBy
    <2>1. CASE q \in CCs
      BY <2>1, WarpFacts DEF ReadMove, ReadH0, ReadU, ReadWH, DecayH, ReadKV, EndRead
    <2>2. CASE q = "store"
      BY <2>2, WarpFacts DEF ReadMove, StoreHOut, StoreVNew
    <2> QED BY <1>1, <2>1, <2>2
  <1>3. pc[q] \in Inside(x)
    BY <1>1, <1>2 DEF LastRead, Inside
  <1>4. /\ Turn(x, q) \in Nat /\ Begun(x, q) = Turn(x, q) + 1
        /\ Done(x, q) = Turn(x, q)
    BY <1>1, <1>3, InTurn
  <1>5. Ctl' /\ Steps(q, {}, {x}) /\ pc'["mma"] = pc["mma"]
    BY <1>1, ReadControl
  <1>6. Used(x)
    <2>1. CASE x = "h0"
      <3>1. AtUnit(q, "h0_read")
        BY <1>1, <1>2, <2>1, Standing DEF LastRead
      <3> QED BY <2>1, <3>1, WarpFacts DEF Used, AtUnit
    <2>2. CASE x # "h0"
      <3>1. AtChunk(q, LastRead(x))
        BY <1>1, <1>2, <2>2, Standing DEF LastRead, InChunk
      <3> QED BY <1>1, <2>2, <3>1 DEF Used, AtChunk, LastRead
    <2> QED BY <2>1, <2>2
  <1>7. Core'
    <2>1. /\ Begun(x, q) = Done(x, q) + 1
          /\ pipe' = [pipe EXCEPT ![x] =
                         Release(@, Done(x, q) % Stages[x], Readers(x))]
      BY <1>2, <1>4 DEF Stage, StageOf
    <2> QED BY <1>1, <1>2, <1>5, <1>6, <2>1, CoreRead
  <1> QED BY <1>1, <1>2, <1>4, <1>5, <1>6, <1>7

\* acquire, copy, commit, of a CUDA-core warp.
PublishMove(x, w) ==
    \/ x = "state" /\ PublishState(w)
    \/ x = "hout" /\ PublishHOut(w)
    \/ x = "vnew" /\ PublishVNew(w)
    \/ x = "vst" /\ PublishVStore(w)

LEMMA PublishMoves ==
    ASSUME Core, NEW x, NEW w \in CCs, PublishMove(x, w)
    PROVE  /\ Core' /\ Steps(w, {x}, {x}) /\ x \in {"state", "hout", "vnew", "vst"}
           /\ Used(x) /\ pc[w] = x /\ AtChunk(w, x)
           /\ Turn(x, w) \in Nat /\ Begun(x, w) = Turn(x, w)
           /\ Done(x, w) = Turn(x, w)
           /\ CanAcquire(pipe[x], Turn(x, w), Stages[x])
  <1>1. /\ Ctl /\ w \in Warps /\ w # "mma" /\ x \in Pipes /\ "mma" \in Warps
        /\ x \in {"state", "hout", "vnew", "vst"}
    BY WarpFacts DEF Core, PublishMove, Pipes, Parts
  <1>2. /\ pc[w] = x /\ CanAcquire(pipe[x], Turn(x, w), Stages[x])
        /\ pipe' = [pipe EXCEPT ![x] = Commit(@, Stage(x, w), Producers(x))]
        /\ inflight' = inflight /\ tcq' = tcq
    BY DEF PublishMove, PublishState, PublishHOut, PublishVNew, PublishVStore,
           Publish, Free, CommitBy
  <1>3. Turn(x, w) \in Nat /\ Begun(x, w) = Turn(x, w) /\ Done(x, w) = Turn(x, w)
    BY <1>1, <1>2, AtTurn
  <1>4. AtChunk(w, x)
    BY <1>1, <1>2, Standing DEF InChunk
  <1>5. Used(x)
    BY <1>1, <1>4 DEF Used, AtChunk
  <1>6. PICK l : /\ Goto(w, l) /\ Advance(w, x, l, {x}, {x}) /\ AtChunk(w, l)
    <2>1. CASE x = "state"
      <3>1. Goto(w, "hout") /\ AtChunk(w, "hout")
        BY <2>1 DEF PublishMove, PublishState, AtChunk, InChunk
      <3> QED BY <2>1, <3>1, AdvanceCC
    <2>2. CASE x = "hout"
      <3>1. Goto(w, "u") /\ AtChunk(w, "u")
        BY <2>2 DEF PublishMove, PublishHOut, AtChunk, InChunk
      <3> QED BY <2>2, <3>1, AdvanceCC
    <2>3. AtChunk(w, AfterVNew)
      BY DEF AtChunk, InChunk, AfterVNew
    <2>4. CASE x = "vnew" /\ SaveVNew
      <3>1. Goto(w, "vst") /\ AtChunk(w, "vst")
        BY <2>4 DEF PublishMove, PublishVNew, AtChunk, InChunk
      <3> QED BY <2>4, <3>1, AdvanceCC
    <2>5. CASE x = "vnew" /\ ~SaveVNew
      <3>1. Goto(w, AfterVNew)
        BY <2>5 DEF PublishMove, PublishVNew
      <3> QED BY <2>3, <2>5, <3>1, AdvanceCC
    <2>6. CASE x = "vst"
      <3>1. Goto(w, AfterVNew)
        BY <2>6 DEF PublishMove, PublishVStore
      <3> QED BY <2>3, <2>6, <3>1, AdvanceCC
    <2> QED BY <1>1, <2>1, <2>2, <2>4, <2>5, <2>6
  <1>7. Ctl' /\ Steps(w, {x}, {x})
    BY <1>1, <1>2, <1>4, <1>6, GotoStep
  <1>8. pc'["mma"] = pc["mma"]
    BY <1>1, <1>6 DEF Goto, Ctl
  <1>9. Core'
    <2>1. /\ Begun(x, w) = Done(x, w) /\ CanAcquire(pipe[x], Begun(x, w), Stages[x])
          /\ pipe' = [pipe EXCEPT ![x] =
                         Commit(@, Done(x, w) % Stages[x], Producers(x))]
      BY <1>2, <1>3 DEF Stage, StageOf
    <2> QED BY <1>1, <1>2, <1>5, <1>7, <1>8, <2>1, CorePublish
  <1> QED BY <1>1, <1>2, <1>3, <1>4, <1>5, <1>7, <1>9

\* The other steps: of the scheduler, and between two pipelines.
StillMove(p) ==
    \/ p \in Warps /\ NextUnit(p)
    \/ p \in CCs /\ ScaleGk(p)
    \/ p \in CCs /\ SyncGk
    \/ p \in CCs /\ StoreFinal(p)
    \/ p \in CCs /\ ~UseInitialState /\ InitState(p)

LEMMA StillMoves ==
    ASSUME Core, NEW p, StillMove(p)
    PROVE  /\ Core' /\ Steps(p, {}, {}) /\ p \in Warps
           /\ pipe' = pipe /\ inflight' = inflight /\ tcq' = tcq
  <1>1. Ctl /\ p \in Warps /\ "mma" \in Warps /\ (p \in CCs => p # "mma")
    BY WarpFacts DEF Core, StillMove
  <1>2. pipe' = pipe /\ inflight' = inflight /\ tcq' = tcq
    BY DEF StillMove, NextUnit, ScaleGk, SyncGk, StoreFinal, InitState
  <1>3. Ctl' /\ Steps(p, {}, {}) /\ (pc'["mma"] = "kv" <=> pc["mma"] = "kv")
    <2>1. CASE p \in Warps /\ NextUnit(p)
      <3>1. Ctl' /\ Steps(p, {}, {})
        BY <1>1, <2>1, NextUnitStep
      <3>2. /\ pc[p] = "end" /\ pc'[p] = UnitLabel(p, unit[p] + 1)
            /\ \A q \in Warps : q # p => pc'[q] = pc[q]
        BY <1>1, <2>1 DEF NextUnit, Ctl
      <3>3. p = "mma" => UnitLabel(p, unit[p] + 1) # "kv"
        BY WarpFacts DEF UnitLabel, ChunkLabel
      <3> QED BY <1>1, <3>1, <3>2, <3>3
    <2>2. CASE p \in CCs /\ ScaleGk(p)
      <3>1. pc[p] = "gk_exp" /\ Goto(p, "gk_sync")
        BY <2>2 DEF ScaleGk
      <3>2. AtChunk(p, "gk_exp")
        BY <1>1, <3>1, Standing DEF InChunk
      <3>3. AtChunk(p, "gk_sync")
        BY <2>2, <3>2 DEF AtChunk, InChunk
      <3>4. Ctl' /\ Steps(p, {}, {})
        BY <1>1, <2>2, <3>1, <3>2, <3>3, AdvanceCC, GotoStep
      <3> QED BY <1>1, <2>2, <3>1, <3>4 DEF Goto, Ctl
    <2>3. CASE p \in CCs /\ SyncGk
      <3>1. Ctl' /\ Steps(p, {}, {})
        BY <1>1, <2>3, SyncStep
      <3>2. pc'["mma"] = pc["mma"]
        BY <1>1, <2>3, WarpFacts DEF SyncGk
      <3> QED BY <3>1, <3>2
    <2>4. CASE p \in CCs /\ StoreFinal(p)
      <3>1. pc[p] = "final" /\ Goto(p, "end") /\ AtEnd(p, "final") /\ AtEnd(p, "end")
        BY <2>4 DEF StoreFinal, AtEnd
      <3>2. Ctl' /\ Steps(p, {}, {})
        BY <1>1, <2>4, <3>1, AdvanceCC, GotoStep
      <3> QED BY <1>1, <2>4, <3>1, <3>2 DEF Goto, Ctl
    <2>5. CASE p \in CCs /\ ~UseInitialState /\ InitState(p)
      <3>1. pc[p] = "h0" /\ Goto(p, ChunkLabel(p, unit[p], 0))
        BY <2>5 DEF InitState
      <3>2. Ctl' /\ Steps(p, {}, {})
        BY <1>1, <2>5, <3>1, FirstChunkStep
      <3> QED BY <1>1, <2>5, <3>1, <3>2 DEF Goto, Ctl
    <2> QED BY <2>1, <2>2, <2>3, <2>4, <2>5 DEF StillMove
  <1> QED BY <1>1, <1>2, <1>3, CoreStill

\* Every step is of one of the kinds.
LEMMA NextMoves ==
    ASSUME Next
    PROVE  \/ LoadTile
           \/ \E r \in inflight : TmaArrive(r)
           \/ \E acc, a, b : IssueMove(acc, a, b)
           \/ TensorCoreDone
           \/ \E x, q : WaitMove(x, q)
           \/ \E x, q : ReadMove(x, q)
           \/ \E x : \E w \in CCs : PublishMove(x, w)
           \/ \E p : StillMove(p)
           \/ UNCHANGED vars
  <1>1. "load" \in Warps /\ "mma" \in Warps /\ "store" \in Warps /\ "empty" \in Warps
        /\ \A w \in CCs : w \in Warps
    BY DEF Warps
  <1>2. ASSUME LoadStep PROVE LoadTile \/ StillMove("load")
    BY <1>1, <1>2 DEF LoadStep, StillMove
  <1>3. ASSUME MmaStep
        PROVE  \/ IssueMove("wh", "state", "w") \/ IssueMove("kv", "vnew", "kt")
               \/ StillMove("mma")
    BY <1>1, <1>3 DEF MmaStep, IssueMove, StillMove
  <1>4. ASSUME StoreStep
        PROVE  \/ WaitMove("hout", "store") \/ WaitMove("vst", "store")
               \/ ReadMove("hout", "store") \/ ReadMove("vst", "store")
               \/ StillMove("store")
    BY <1>1, <1>4 DEF StoreStep, WaitMove, ReadMove, StillMove
  <1>5. ASSUME NextUnit("empty") PROVE StillMove("empty")
    BY <1>1, <1>5 DEF StillMove
  <1>6. ASSUME NEW w \in CCs, CCStep(w)
        PROVE  \/ \E x : WaitMove(x, w) \/ ReadMove(x, w) \/ PublishMove(x, w)
               \/ StillMove(w)
    <2>1. ASSUME InitState(w) PROVE WaitMove("h0", w) \/ StillMove(w)
      <3>1. CASE UseInitialState
        BY <2>1, <3>1 DEF InitState, WaitMove
      <3>2. CASE ~UseInitialState
        BY <2>1, <3>2 DEF StillMove
      <3> QED BY <3>1, <3>2
    <2>2. ASSUME ReadH0(w) \/ ReadU(w) \/ ReadWH(w) \/ DecayH(w) \/ ReadKV(w)
          PROVE  \/ ReadMove("h0", w) \/ ReadMove("u", w) \/ ReadMove("wh", w)
                 \/ ReadMove("gk", w) \/ ReadMove("kv", w)
      BY <2>2 DEF ReadMove
    <2>3. ASSUME PublishState(w) \/ PublishHOut(w) \/ PublishVNew(w) \/ PublishVStore(w)
          PROVE  \/ PublishMove("state", w) \/ PublishMove("hout", w)
                 \/ PublishMove("vnew", w) \/ PublishMove("vst", w)
      BY <2>3 DEF PublishMove
    <2>4. ASSUME WaitU(w) \/ WaitWH(w) \/ WaitGk(w) \/ WaitKV(w)
          PROVE  \/ WaitMove("u", w) \/ WaitMove("wh", w) \/ WaitMove("gk", w)
                 \/ WaitMove("kv", w)
      BY <2>4 DEF WaitMove
    <2>5. ASSUME ScaleGk(w) \/ SyncGk \/ StoreFinal(w) \/ NextUnit(w) PROVE StillMove(w)
      BY <1>1, <2>5 DEF StillMove
    <2> QED BY <1>6, <2>1, <2>2, <2>3, <2>4, <2>5 DEF CCStep
  <1>7. ASSUME KernelEnd PROVE UNCHANGED vars
    BY <1>7 DEF KernelEnd
  <1> QED BY <1>2, <1>3, <1>4, <1>5, <1>6, <1>7 DEF Next

LEMMA CoreNext ==
    ASSUME Core, [Next]_vars
    PROVE  Core'
  <1>1. CASE LoadTile
    <2>1. PICK x : x = pc["load"]
      OBVIOUS
    <2> QED BY <1>1, <2>1, LoadMoves
  <1>2. ASSUME NEW r \in inflight, TmaArrive(r) PROVE Core'
    BY <1>2, TmaMoves
  <1>3. ASSUME NEW acc, NEW a, NEW b, IssueMove(acc, a, b) PROVE Core'
    BY <1>3, IssueMoves
  <1>4. CASE TensorCoreDone
    BY <1>4, DoneMoves
  <1>5. ASSUME NEW x, NEW q, WaitMove(x, q) PROVE Core'
    BY <1>5, WaitMoves
  <1>6. ASSUME NEW x, NEW q, ReadMove(x, q) PROVE Core'
    BY <1>6, ReadMoves
  <1>7. ASSUME NEW x, NEW w \in CCs, PublishMove(x, w) PROVE Core'
    BY <1>7, PublishMoves
  <1>8. ASSUME NEW p, StillMove(p) PROVE Core'
    BY <1>8, StillMoves
  <1>9. CASE UNCHANGED vars
    <2>1. UNCHANGED ctl /\ Ctl /\ "empty" \in Warps
      BY <1>9, WarpFacts DEF vars, Core
    <2>2. Ctl' /\ Steps("empty", {}, {})
      BY <2>1, StillStep
    <2>3. pipe' = pipe /\ inflight' = inflight /\ tcq' = tcq /\ pc'["mma"] = pc["mma"]
      BY <1>9 DEF vars, ctl
    <2> QED BY <2>2, <2>3, CoreStill
  <1>10. CASE Next
    BY <1>1, <1>2, <1>3, <1>4, <1>5, <1>6, <1>7, <1>8, <1>9, <1>10, NextMoves
  <1> QED BY <1>9, <1>10

LEMMA CoreInit ==
    ASSUME Init
    PROVE  Core
  <1>1. Ctl
    <2>1. ASSUME NEW p \in Warps PROVE Place(p, unit[p], chunk[p], pc[p])
      <3>1. 1 \in 1 .. Len(Units) + 1
        BY UnitFacts
      <3> QED BY <3>1, PlaceUnit DEF Init
    <2>2. pc = [p \in Warps |-> pc[p]]
      BY DEF Init
    <2>3. unit = [p \in Warps |-> unit[p]]
      BY DEF Init
    <2>4. chunk = [p \in Warps |-> chunk[p]]
      BY DEF Init
    <2> QED BY <2>1, <2>2, <2>3, <2>4 DEF Ctl
  <1>2. /\ pipe = [x \in Pipes |-> PipeInit(Stages[x], Producers(x), Readers(x))]
        /\ inflight = {} /\ tcq = <<>>
    BY DEF Init
  <1>3. PipeShape
    <2>1. ASSUME NEW x \in Pipes PROVE pipe[x] \in PipeType(x)
      <3>1. Producers(x) \in Nat \ {0} /\ Readers(x) \in Nat \ {0}
            /\ StageIds(x) = 0 .. Stages[x] - 1
        BY PartFacts
      <3> QED BY <1>2, <3>1 DEF PipeInit, PipeType, MbarInit, MbarType
    <2>2. pipe = [x \in Pipes |-> pipe[x]]
      BY <1>2
    <2> QED BY <2>1, <2>2 DEF PipeShape
  <1>4. Inflight /\ Queue
    BY <1>2 DEF Inflight, Queue
  <1>5. ASSUME NEW p \in Warps, NEW x \in Pipes, Handles(p, x)
        PROVE  Done(x, p) = 0 /\ Begun(x, p) = 0
    <2>1. /\ unit[p] = 1 /\ chunk[p] = 0 /\ pc[p] = UnitLabel(p, 1)
          /\ 1 \in 1 .. Len(Units) + 1
      BY UnitFacts DEF Init
    <2>2. TurnOf(x, 1, 0) = 0
      BY BeforeNext DEF TurnOf
    <2> QED BY <1>5, <2>1, <2>2, CountUnit DEF Done, Begun
  <1>6. ASSUME NEW x \in Pipes PROVE Ring(x)
    <2>1. pipe[x] = PipeInit(Stages[x], Producers(x), Readers(x))
      BY <1>2
    <2>2. CASE ~Used(x)
      BY <2>1, <2>2 DEF Ring
    <2>3. CASE Used(x)
      <3>1. Entered(x) = [p \in Makers(x) \cup Takers(x) |-> 0]
        <4>1. \A p \in Makers(x) \cup Takers(x) :
                  (IF p = "mma" THEN Begun(Via(x), "mma") ELSE Begun(x, p)) = 0
          BY <1>5, <2>3, HandlesFacts
        <4> QED BY <4>1 DEF Entered
      <3>2. "mma" \in Makers(x) \cup Takers(x) => Computed(Via(x)) = 0
        BY <1>2, <1>5, <2>3, HandlesFacts DEF Computed, One
      <3>3. Left(x) = [q \in Takers(x) |-> 0]
        <4>1. \A q \in Takers(x) :
                  (IF q = "mma" THEN Computed(Via(x)) ELSE Done(x, q)) = 0
          BY <1>5, <2>3, <3>2, HandlesFacts
        <4> QED BY <4>1 DEF Left
      <3>4. Stages[x] \in Nat \ {0} /\ StageIds(x) = 0 .. Stages[x] - 1
            /\ Producers(x) = Cardinality(Makers(x)) /\ Readers(x) = Cardinality(Takers(x))
            /\ IsFiniteSet(Makers(x)) /\ Makers(x) # {}
            /\ IsFiniteSet(Takers(x)) /\ Takers(x) # {}
        BY PartFacts
      <3>5. \A s \in StageIds(x) : Uses(0, Stages[x], s) = 0
        BY <3>4, UsesZero
      <3>6. \A m \in Makers(x), s \in StageIds(x) : Filled(x)[m][s] = 0
        <4>1. ASSUME NEW m \in Makers(x), NEW s \in StageIds(x)
              PROVE  Filled(x)[m][s] = 0
          <5>1. Flying(x, s) = 0
            BY <1>2 DEF Flying, One
          <5>2. m = "load" => Begun(x, m) = 0
            BY <1>5, <2>3, HandlesFacts, WarpFacts
          <5>3. m # "load" /\ m # "mma" => Done(x, m) = 0
            BY <1>5, <2>3, HandlesFacts
          <5> QED BY <3>2, <3>5, <5>1, <5>2, <5>3 DEF Filled
        <4> QED BY <4>1
      <3>7. ASSUME NEW s \in StageIds(x)
            PROVE  StageInv(pipe[x].full[s], pipe[x].empty[s], Makers(x), Takers(x),
                     [m \in Makers(x) |-> Filled(x)[m][s]],
                     [m \in Makers(x) |-> Uses(Entered(x)[m], Stages[x], s)],
                     [q \in Takers(x) |-> Uses(Left(x)[q], Stages[x], s)],
                     [q \in Takers(x) |-> Uses(Entered(x)[q], Stages[x], s)])
        <4>1. [m \in Makers(x) |-> Filled(x)[m][s]] = [m \in Makers(x) |-> 0]
          BY <3>6
        <4>2. [m \in Makers(x) |-> Uses(Entered(x)[m], Stages[x], s)] =
                  [m \in Makers(x) |-> 0]
          BY <3>1, <3>5
        <4>3. /\ [q \in Takers(x) |-> Uses(Left(x)[q], Stages[x], s)] =
                     [q \in Takers(x) |-> 0]
              /\ [q \in Takers(x) |-> Uses(Entered(x)[q], Stages[x], s)] =
                     [q \in Takers(x) |-> 0]
          BY <3>1, <3>3, <3>5
        <4>4. /\ pipe[x].full[s] = MbarInit(Cardinality(Makers(x)))
              /\ pipe[x].empty[s] = MbarInit(Cardinality(Takers(x)))
          BY <2>1, <3>4 DEF PipeInit
        <4>5. /\ Tally(MbarInit(Cardinality(Makers(x))), Makers(x), [m \in Makers(x) |-> 0])
              /\ Tally(MbarInit(Cardinality(Takers(x))), Takers(x), [q \in Takers(x) |-> 0])
          BY <3>4, TallyInit
        <4>6. \A k : MbarInit(k).phase = 0
          BY DEF MbarInit
        <4>7. StageInv(MbarInit(Cardinality(Makers(x))), MbarInit(Cardinality(Takers(x))),
                       Makers(x), Takers(x), [m \in Makers(x) |-> 0],
                       [m \in Makers(x) |-> 0], [q \in Takers(x) |-> 0],
                       [q \in Takers(x) |-> 0])
          BY <4>5, <4>6 DEF StageInv
        <4> QED BY <4>1, <4>2, <4>3, <4>4, <4>7
      <3> QED BY <2>3, <3>7 DEF Ring, RingOK
    <2> QED BY <2>2, <2>3
  <1> QED BY <1>1, <1>3, <1>4, <1>6 DEF Core

\* The counts of turns and the barriers agree in every state of the block:
\* what its warps entered and left is what the barriers of each stage show.
THEOREM CoreAlways == Spec => []Core
  <1>1. Init => Core
    BY CoreInit
  <1>2. Core /\ [Next]_vars => Core'
    BY CoreNext
  <1> QED BY <1>1, <1>2, PTL DEF Spec

\* Each stage is full or empty: no warp can take one turn of a ring for
\* another by its parity bit, whatever units the scheduler hands out.
THEOREM FullOrEmptyAlways == Spec => []FullOrEmpty
  <1>1. Core => FullOrEmpty
    <2>1. SUFFICES ASSUME Core, NEW x \in Pipes, NEW s \in StageIds(x)
          PROVE  pipe[x].full[s].phase - pipe[x].empty[s].phase \in 0 .. 1
      BY DEF FullOrEmpty
    <2>2. CASE Used(x)
      BY <2>1, <2>2, RingHolds, RingFullOrEmpty
    <2>3. CASE ~Used(x)
      <3>1. pipe[x] = PipeInit(Stages[x], Producers(x), Readers(x))
        BY <2>1, <2>3 DEF Core, Ring
      <3> QED BY <3>1, PartFacts DEF PipeInit, MbarInit
    <2> QED BY <2>2, <2>3
  <1> QED BY <1>1, CoreAlways, PTL

-----------------------------------------------------------------------------
(***************************************************************************)
(* Types of the data.                                                      *)
(***************************************************************************)
Shape ==
    /\ tile = [x \in Tiles |-> tile[x]]
    /\ \A x \in Tiles : tile[x] \in [StageIds(x) -> Values]
    /\ scaled \in [StageIds("gk") -> SUBSET CCs]
    /\ part = [x \in Parts |-> part[x]]
    /\ \A x \in Parts : part[x] \in [StageIds(x) -> [CCs -> Values]]
    /\ reg \in [CCs -> [h : Values, decayed : BOOLEAN, u : Values, v : Values]]
    /\ hOut \in [DOMAIN Units -> Seq(Values)]
    /\ vOut \in [DOMAIN Units -> Seq(Values)]
    /\ hT \in [DOMAIN Units -> [CCs -> Seq(Values)]]

LEMMA NameFacts ==
    /\ \A u \in 1 .. Len(Units), c \in Nat : c <= Units[u] => <<u, c>> \in Names
    /\ \A x, tag, t : Named(x, tag, t) => tag \in Names
    /\ Names \subseteq Values /\ Bad \in Values
  <1>1. ASSUME NEW u \in 1 .. Len(Units), NEW c \in Nat, c <= Units[u]
        PROVE  <<u, c>> \in Names
    <2>1. u \in DOMAIN Units /\ c \in 0 .. Units[u]
      BY <1>1, UnitFacts
    <2> QED BY <2>1 DEF Names
  <1>2. ASSUME NEW x, NEW tag, NEW t, Named(x, tag, t) PROVE tag \in Names
    <2>1. PICK u \in 1 .. Len(Units), c \in Nat :
             tag = <<u, c>> /\ IF x = "h0" THEN c = 0 ELSE c < Units[u]
      BY <1>2 DEF Named
    <2>2. c <= Units[u]
      BY <2>1, UnitFacts
    <2> QED BY <1>1, <2>1, <2>2
  <1> QED BY <1>1, <1>2 DEF Values

\* The stage a warp is at is one of the ring.
LEMMA StageIn ==
    ASSUME NEW x \in Pipes, NEW p, Turn(x, p) \in Nat
    PROVE  Stage(x, p) = Turn(x, p) % Stages[x] /\ Stage(x, p) \in StageIds(x)
  BY PartFacts, UsesOwn DEF Stage, StageOf

LEMMA WholeType ==
    ASSUME Shape, NEW x \in Parts, NEW s \in StageIds(x)
    PROVE  Whole(x, s) \in Values
  <1> DEFINE tags == {part[x][s][w] : w \in CCs}
  <1>1. tags \subseteq Values /\ tags # {}
    BY CCsAssumption DEF Shape
  <1>2. (CHOOSE t \in tags : TRUE) \in Values
    BY <1>1
  <1> QED BY <1>2, NameFacts DEF Whole

LEMMA CombineType ==
    ASSUME NEW a \in Values, NEW b \in Values
    PROVE  Combine(a, b) \in Values
  BY NameFacts DEF Combine

LEMMA ShapeTma ==
    ASSUME Core, Shape, NEW r \in inflight, TmaArrive(r)
    PROVE  Shape'
  <1>1. PICK x \in Tiles, t \in Nat :
           /\ r = [pipe |-> x, stage |-> t % Stages[x], tag |-> r.tag]
           /\ Named(x, r.tag, t)
    BY DEF Core, Inflight, Copy
  <1>2. r.pipe = x /\ r.stage = t % Stages[x] /\ r.tag \in Values /\ x \in Pipes
    BY <1>1, NameFacts DEF Pipes
  <1>3. r.stage \in StageIds(x)
    BY <1>2, PartFacts, UsesOwn
  <1>4. tile' = [tile EXCEPT ![x][r.stage] = r.tag]
    BY <1>2 DEF TmaArrive
  <1>5. tile' = [y \in Tiles |-> IF y = x THEN [tile[x] EXCEPT ![r.stage] = r.tag]
                                          ELSE tile[y]]
    BY <1>4 DEF Shape
  <1>6. \A y \in Tiles : tile'[y] \in [StageIds(y) -> Values]
    BY <1>2, <1>5 DEF Shape
  <1>7. scaled' \in [StageIds("gk") -> SUBSET CCs]
    BY DEF TmaArrive, Shape
  <1>8. UNCHANGED <<part, reg, hOut, vOut, hT>>
    BY DEF TmaArrive, outs
  <1> QED BY <1>5, <1>6, <1>7, <1>8 DEF Shape

LEMMA ShapeDone ==
    ASSUME Core, Shape, TensorCoreDone
    PROVE  Shape'
  <1>1. PICK t \in Nat, g \in {Head(tcq)} :
           /\ Operands(g) /\ \A x \in {g.acc, g.a, g.b} : g.at[x] = t % Stages[x]
    BY DEF Core, Queue, TensorCoreDone
  <1> DEFINE acc == g.acc
             a == g.a
             b == g.b
             row == [w \in CCs |-> Combine(part[a][g.at[a]][w], tile[b][g.at[b]])]
  <1>2. /\ acc \in Parts /\ a \in Parts /\ b \in Tiles
        /\ acc \in Pipes /\ a \in Pipes /\ b \in Pipes
    BY <1>1 DEF Operands, Parts, Tiles, Pipes
  <1>3. \A x \in {acc, a, b} : g.at[x] \in StageIds(x)
    <2>1. \A x \in Pipes : t % Stages[x] \in StageIds(x)
      BY PartFacts, UsesOwn
    <2> QED BY <1>1, <1>2, <2>1
  <1>4. part' = [part EXCEPT ![acc][g.at[acc]] = row]
    BY <1>1 DEF TensorCoreDone
  <1>5. row \in [CCs -> Values]
    <2>1. \A w \in CCs : /\ part[a][g.at[a]][w] \in Values
                         /\ tile[b][g.at[b]] \in Values
      BY <1>2, <1>3 DEF Shape
    <2> QED BY <2>1, CombineType
  <1>6. UNCHANGED <<tile, scaled, reg, hOut, vOut, hT>>
    BY DEF TensorCoreDone, outs
  <1> HIDE DEF row, acc
  <1>7. part' = [y \in Parts |-> IF y = acc THEN [part[acc] EXCEPT ![g.at[acc]] = row]
                                            ELSE part[y]]
    BY <1>4 DEF Shape
  <1>8. \A y \in Parts : part'[y] \in [StageIds(y) -> [CCs -> Values]]
    BY <1>2, <1>5, <1>7 DEF Shape
  <1> QED BY <1>6, <1>7, <1>8 DEF Shape

LEMMA ShapePublish ==
    ASSUME Core, Shape, NEW x, NEW w \in CCs, PublishMove(x, w)
    PROVE  Shape'
  <1>1. x \in Parts /\ x \in Pipes /\ Turn(x, w) \in Nat
    BY PublishMoves DEF Parts, Pipes
  <1>2. PICK d \in Values : part' = [part EXCEPT ![x][Stage(x, w)][w] = d]
    <2>1. reg[w].h \in Values /\ reg[w].v \in Values
      BY DEF Shape
    <2> QED BY <2>1 DEF PublishMove, PublishState, PublishHOut, PublishVNew,
                        PublishVStore, Publish
  <1>3. Stage(x, w) \in StageIds(x)
    BY <1>1, StageIn
  <1>4. part' = [y \in Parts |-> IF y = x THEN [part[x] EXCEPT ![Stage(x, w)][w] = d]
                                          ELSE part[y]]
    BY <1>2 DEF Shape
  <1>5. [part[x] EXCEPT ![Stage(x, w)][w] = d] \in [StageIds(x) -> [CCs -> Values]]
    BY <1>1, <1>3 DEF Shape
  <1>6. \A y \in Parts : part'[y] \in [StageIds(y) -> [CCs -> Values]]
    BY <1>1, <1>4, <1>5 DEF Shape
  <1>7. UNCHANGED <<tile, scaled, reg, hOut, vOut, hT>>
    BY DEF PublishMove, PublishState, PublishHOut, PublishVNew, PublishVStore,
           Publish, outs
  <1> QED BY <1>4, <1>6, <1>7 DEF Shape

LEMMA ShapeRead ==
    ASSUME Core, Shape, NEW x, NEW q, ReadMove(x, q)
    PROVE  Shape'
  <1>1. /\ x \in Pipes /\ Turn(x, q) \in Nat /\ q \in Takers(x) /\ Ctl /\ q \in Warps
        /\ pc[q] = LastRead(x)
    BY ReadMoves, WarpFacts, PartFacts DEF Core
  <1>2. Stage(x, q) \in StageIds(x)
    BY <1>1, StageIn
  <1>3. CASE q \in CCs
    <2>1. x \in {"h0", "u", "wh", "gk", "kv"}
      BY <1>3, WarpFacts DEF ReadMove
    <2>2. /\ x \in Tiles => tile[x][Stage(x, q)] \in Values
          /\ x \in Parts => part[x][Stage(x, q)][q] \in Values
      BY <1>2, <1>3 DEF Shape
    <2>3. reg[q] \in [h : Values, decayed : BOOLEAN, u : Values, v : Values]
      BY <1>3 DEF Shape
    <2>4. x = "kv" => <<unit[q], chunk[q] + 1>> \in Values
      <3>1. SUFFICES ASSUME x = "kv" PROVE <<unit[q], chunk[q] + 1>> \in Values
        OBVIOUS
      <3>2. /\ unit[q] \in 1 .. Len(Units) /\ chunk[q] \in Nat
            /\ chunk[q] < Units[unit[q]]
        BY <1>1, <3>1, Standing DEF LastRead, InChunk
      <3>3. chunk[q] + 1 \in Nat /\ chunk[q] + 1 <= Units[unit[q]]
        BY <3>2, UnitFacts
      <3> QED BY <3>2, <3>3, NameFacts
    <2>5. PICK d \in [h : Values, decayed : BOOLEAN, u : Values, v : Values] :
              reg' = [reg EXCEPT ![q] = d]
      <3>1. CASE x = "h0"
        BY <1>3, <2>2, <2>3, <3>1, WarpFacts DEF ReadMove, ReadH0, EndRead, Tiles
      <3>2. CASE x = "u"
        BY <1>3, <2>2, <2>3, <3>2, WarpFacts DEF ReadMove, ReadU, EndRead, Tiles
      <3>3. CASE x = "wh"
        <4>1. Combine(reg[q].u, part["wh"][Stage("wh", q)][q]) \in Values
          BY <2>2, <2>3, <3>3, CombineType DEF Parts
        <4> QED BY <1>3, <2>3, <3>3, <4>1, WarpFacts DEF ReadMove, ReadWH, EndRead
      <3>4. CASE x = "gk"
        <4> DEFINE s == Stage("gk", q)
                   good == tile["gk"][s] = reg[q].h /\ scaled[s] = CCs /\ ~reg[q].decayed
        <4>1. reg' = [reg EXCEPT ![q] =
                 [reg[q] EXCEPT !.h = IF good THEN @ ELSE Bad, !.decayed = TRUE]]
          BY <1>3, <3>4, WarpFacts DEF ReadMove, DecayH, EndRead
        <4> HIDE DEF good
        <4>2. [reg[q] EXCEPT !.h = IF good THEN @ ELSE Bad, !.decayed = TRUE] \in
                 [h : Values, decayed : BOOLEAN, u : Values, v : Values]
          BY <2>3, NameFacts
        <4> QED BY <4>1, <4>2
      <3>5. CASE x = "kv"
        <4> DEFINE good == /\ reg[q].h = part["kv"][Stage("kv", q)][q]
                           /\ reg[q].h = Tag(q)
                           /\ reg[q].decayed = UseGk
        <4>1. reg' = [reg EXCEPT ![q] =
                 [reg[q] EXCEPT !.h = IF good THEN <<unit[q], chunk[q] + 1>> ELSE Bad,
                                !.decayed = FALSE]]
          BY <1>3, <3>5, WarpFacts DEF ReadMove, ReadKV, EndRead
        <4> HIDE DEF good
        <4>2. [reg[q] EXCEPT !.h = IF good THEN <<unit[q], chunk[q] + 1>> ELSE Bad,
                             !.decayed = FALSE] \in
                 [h : Values, decayed : BOOLEAN, u : Values, v : Values]
          BY <2>3, <2>4, <3>5, NameFacts
        <4> QED BY <4>1, <4>2
      <3> QED BY <2>1, <3>1, <3>2, <3>3, <3>4, <3>5
    <2>6. UNCHANGED <<tile, scaled, part, hOut, vOut, hT>>
      BY <1>3, WarpFacts DEF ReadMove, ReadH0, ReadU, ReadWH, DecayH, ReadKV, EndRead,
                             mem, outs
    <2>7. reg' \in [CCs -> [h : Values, decayed : BOOLEAN, u : Values, v : Values]]
      BY <1>3, <2>5 DEF Shape
    <2> QED BY <2>6, <2>7 DEF Shape
  <1>4. CASE q = "store" /\ x = "hout"
    <2>1. unit[q] \in DOMAIN Units
      BY <1>1, <1>4, Standing, UnitFacts DEF LastRead
    <2>2. Whole("hout", Stage("hout", q)) \in Values
      BY <1>2, <1>4, WholeType DEF Parts
    <2>3. /\ hOut' = [hOut EXCEPT ![unit[q]] =
                         Append(@, Whole("hout", Stage("hout", q)))]
          /\ UNCHANGED <<tile, scaled, part, reg, vOut, hT>>
      BY <1>4, WarpFacts DEF ReadMove, StoreHOut, mem
    <2> DEFINE d == Whole("hout", Stage("hout", q))
    <2> HIDE DEF d
    <2>4. hOut' \in [DOMAIN Units -> Seq(Values)]
      <3>1. hOut' = [hOut EXCEPT ![unit[q]] = Append(@, d)] /\ d \in Values
        BY <2>2, <2>3 DEF d
      <3>2. Append(hOut[unit[q]], d) \in Seq(Values)
        BY <2>1, <3>1 DEF Shape
      <3> QED BY <2>1, <3>1, <3>2 DEF Shape
    <2> QED BY <2>3, <2>4 DEF Shape
  <1>5. CASE q = "store" /\ x = "vst"
    <2>1. unit[q] \in DOMAIN Units
      BY <1>1, <1>5, Standing, UnitFacts DEF LastRead
    <2>2. Whole("vst", Stage("vst", q)) \in Values
      BY <1>2, <1>5, WholeType DEF Parts
    <2>3. /\ vOut' = [vOut EXCEPT ![unit[q]] =
                         Append(@, Whole("vst", Stage("vst", q)))]
          /\ UNCHANGED <<tile, scaled, part, reg, hOut, hT>>
      BY <1>5, WarpFacts DEF ReadMove, StoreVNew, mem
    <2> DEFINE d == Whole("vst", Stage("vst", q))
    <2> HIDE DEF d
    <2>4. vOut' \in [DOMAIN Units -> Seq(Values)]
      <3>1. vOut' = [vOut EXCEPT ![unit[q]] = Append(@, d)] /\ d \in Values
        BY <2>2, <2>3 DEF d
      <3>2. Append(vOut[unit[q]], d) \in Seq(Values)
        BY <2>1, <3>1 DEF Shape
      <3> QED BY <2>1, <3>1, <3>2 DEF Shape
    <2> QED BY <2>3, <2>4 DEF Shape
  <1> QED BY <1>3, <1>4, <1>5 DEF ReadMove

LEMMA ShapeStill ==
    ASSUME Core, Shape, NEW p, StillMove(p)
    PROVE  Shape'
  <1>1. Ctl /\ p \in Warps
    BY StillMoves DEF Core
  <1>2. CASE p \in Warps /\ NextUnit(p)
    BY <1>2 DEF NextUnit, Shape, mem, outs
  <1>3. CASE p \in CCs /\ ScaleGk(p)
    <2>1. pc[p] = "gk_exp" /\ "gk" \in Pipes
      BY <1>3 DEF ScaleGk, Pipes, Tiles
    <2>2. Turn("gk", p) \in Nat
      BY <1>1, <2>1, InTurn DEF Inside
    <2>3. Stage("gk", p) \in StageIds("gk")
      BY <2>1, <2>2, StageIn
    <2>4. scaled' \in [StageIds("gk") -> SUBSET CCs]
      BY <1>3, <2>3 DEF ScaleGk, Shape
    <2> QED BY <1>3, <2>4 DEF ScaleGk, Shape, outs
  <1>4. CASE p \in CCs /\ SyncGk
    BY <1>4 DEF SyncGk, Shape, mem, outs
  <1>5. CASE p \in CCs /\ StoreFinal(p)
    <2>1. pc[p] = "final"
      BY <1>5 DEF StoreFinal
    <2>2. unit[p] \in DOMAIN Units
      <3>1. p \in Warps /\ Place(p, unit[p], chunk[p], "final")
        BY <1>1, <2>1 DEF Ctl
      <3>2. unit[p] \in 1 .. Len(Units)
        BY <3>1, PlaceAfter
      <3> QED BY <3>2, UnitFacts
    <2>3. reg[p].h \in Values /\ hT[unit[p]][p] \in Seq(Values)
      BY <1>5, <2>2 DEF Shape
    <2>4. Append(hT[unit[p]][p], reg[p].h) \in Seq(Values)
      BY <2>3
    <2>5. hT' \in [DOMAIN Units -> [CCs -> Seq(Values)]]
      <3>1. CASE StoreFinalState
        <4>1. hT' = [hT EXCEPT ![unit[p]][p] = Append(@, reg[p].h)]
          BY <1>5, <3>1 DEF StoreFinal
        <4> QED BY <1>5, <2>2, <2>4, <4>1 DEF Shape
      <3>2. CASE ~StoreFinalState
        BY <1>5, <3>2 DEF StoreFinal, Shape
      <3> QED BY <3>1, <3>2
    <2> QED BY <1>5, <2>5 DEF StoreFinal, Shape, mem
  <1>6. CASE p \in CCs /\ ~UseInitialState /\ InitState(p)
    <2>1. /\ pc[p] = "h0" /\ UNCHANGED <<mem, outs>>
          /\ reg' = [reg EXCEPT ![p].h = Tag(p), ![p].decayed = FALSE]
      BY <1>6 DEF InitState
    <2>2. unit[p] \in 1 .. Len(Units) /\ chunk[p] = 0
      BY <1>1, <2>1, Standing
    <2>3. Tag(p) \in Values
      <3>1. 0 \in Nat /\ 0 <= Units[unit[p]]
        BY <2>2, UnitFacts
      <3> QED BY <2>2, <3>1, NameFacts DEF Tag
    <2>4. reg' \in [CCs -> [h : Values, decayed : BOOLEAN, u : Values, v : Values]]
      BY <1>6, <2>1, <2>3 DEF Shape
    <2> QED BY <2>1, <2>4 DEF Shape, mem, outs
  <1> QED BY <1>2, <1>3, <1>4, <1>5, <1>6 DEF StillMove

LEMMA ShapeNext ==
    ASSUME Core, Shape, [Next]_vars
    PROVE  Shape'
  <1>1. ASSUME UNCHANGED <<mem, reg, outs>> PROVE Shape'
    BY <1>1 DEF Shape, mem, outs
  <1>2. CASE LoadTile
    BY <1>1, <1>2 DEF LoadTile
  <1>3. ASSUME NEW acc, NEW a, NEW b, IssueMove(acc, a, b) PROVE Shape'
    <2>1. UNCHANGED <<mem, reg, outs>>
      BY <1>3 DEF IssueMove, IssueWH, IssueKV, IssueProduct
    <2> QED BY <1>1, <2>1
  <1>4. ASSUME NEW x, NEW q, WaitMove(x, q) PROVE Shape'
    <2>1. UNCHANGED <<mem, reg, outs>>
      BY <1>4 DEF WaitMove, WaitU, WaitWH, WaitGk, WaitKV, BeginStore, BeginRead
    <2> QED BY <1>1, <2>1
  <1>5. ASSUME NEW r \in inflight, TmaArrive(r) PROVE Shape'
    BY <1>5, ShapeTma
  <1>6. CASE TensorCoreDone
    BY <1>6, ShapeDone
  <1>7. ASSUME NEW x, NEW q, ReadMove(x, q) PROVE Shape'
    BY <1>7, ShapeRead
  <1>8. ASSUME NEW x, NEW w \in CCs, PublishMove(x, w) PROVE Shape'
    BY <1>8, ShapePublish
  <1>9. ASSUME NEW p, StillMove(p) PROVE Shape'
    BY <1>9, ShapeStill
  <1>10. CASE UNCHANGED vars
    BY <1>1, <1>10 DEF vars
  <1>11. CASE Next
    BY <1>2, <1>3, <1>4, <1>5, <1>6, <1>7, <1>8, <1>9, <1>10, <1>11, NextMoves
  <1> QED BY <1>10, <1>11

LEMMA ShapeInit ==
    ASSUME Init
    PROVE  Shape
  <1>1. Bad \in Values
    BY NameFacts
  <1>2. <<>> \in Seq(Values)
    OBVIOUS
  <1>3. /\ tile = [x \in Tiles |-> tile[x]]
        /\ \A x \in Tiles : tile[x] \in [StageIds(x) -> Values]
    BY <1>1 DEF Init
  <1>4. /\ part = [x \in Parts |-> part[x]]
        /\ \A x \in Parts : part[x] \in [StageIds(x) -> [CCs -> Values]]
    BY <1>1 DEF Init
  <1>5. /\ scaled \in [StageIds("gk") -> SUBSET CCs]
        /\ reg \in [CCs -> [h : Values, decayed : BOOLEAN, u : Values, v : Values]]
    BY <1>1 DEF Init
  <1>6. /\ hOut \in [DOMAIN Units -> Seq(Values)]
        /\ vOut \in [DOMAIN Units -> Seq(Values)]
        /\ hT \in [DOMAIN Units -> [CCs -> Seq(Values)]]
    BY <1>2 DEF Init
  <1> QED BY <1>3, <1>4, <1>5, <1>6 DEF Shape

\* The invariant of the proofs: counts, barriers and the types of the data.
LEMMA Shaped == Spec => [](Core /\ Shape)
  <1>1. Init => Core /\ Shape
    BY CoreInit, ShapeInit
  <1>2. Core /\ Shape /\ [Next]_vars => Core' /\ Shape'
    BY CoreNext, ShapeNext
  <1> QED BY <1>1, <1>2, PTL DEF Spec

\* The warps stand at labels of their own, and every barrier, stage, register,
\* copy and output of the block has its type.
THEOREM TypeCorrect == Spec => []TypeOK
  <1>1. Core /\ Shape => TypeOK
    <2>1. SUFFICES ASSUME Core, Shape PROVE TypeOK
      OBVIOUS
    <2> DEFINE Labels == Pipes \cup {"h0_read", "u_read", "wh_read", "gk_exp",
                             "gk_sync", "gk_read", "kv_read", "hout_read",
                             "vst_read", "final", "end", "exit"}
    <2>2. ASSUME NEW p \in Warps
          PROVE  /\ pc[p] \in Labels /\ unit[p] \in 1 .. Len(Units) + 1
                 /\ chunk[p] \in Nat
      <3>1. Place(p, unit[p], chunk[p], pc[p])
        BY <2>1 DEF Core, Ctl
      <3>2. AtUnit(p, pc[p]) => pc[p] \in Labels
        BY DEF AtUnit, Pipes, Tiles, Parts
      <3>3. AtChunk(p, pc[p]) => pc[p] \in Labels
        BY DEF AtChunk, InChunk, Pipes, Tiles, Parts
      <3>4. AtEnd(p, pc[p]) => pc[p] \in Labels
        BY DEF AtEnd
      <3>5. pc[p] = "exit" => pc[p] \in Labels
        OBVIOUS
      <3> HIDE DEF Labels
      <3> QED BY <3>1, <3>2, <3>3, <3>4, <3>5 DEF Place
    <2> HIDE DEF Labels
    <2>3. /\ pc \in [Warps -> Labels] /\ unit \in [Warps -> 1 .. Len(Units) + 1]
          /\ chunk \in [Warps -> Nat]
      BY <2>1, <2>2 DEF Core, Ctl
    <2>4. ASSUME NEW x \in Pipes, NEW s \in StageIds(x)
          PROVE  /\ pipe[x].full[s] \in MbarType(Producers(x))
                 /\ pipe[x].empty[s] \in MbarType(Readers(x))
      BY <2>1 DEF Core, PipeShape, PipeType
    <2>5. inflight \subseteq [pipe : Tiles, stage : Nat, tag : Names]
      <3>1. ASSUME NEW r \in inflight
            PROVE  r \in [pipe : Tiles, stage : Nat, tag : Names]
        <4>1. PICK x \in Tiles, t \in Nat :
                 /\ r = [pipe |-> x, stage |-> t % Stages[x], tag |-> r.tag]
                 /\ Named(x, r.tag, t)
          BY <2>1 DEF Core, Inflight, Copy
        <4>2. t % Stages[x] \in Nat
          <5>1. x \in Pipes
            BY DEF Pipes
          <5>2. Stages[x] \in Nat \ {0}
            BY <5>1, PartFacts
          <5> QED BY <5>2
        <4>3. r.tag \in Names
          BY <4>1, NameFacts
        <4> QED BY <4>1, <4>2, <4>3
      <3> QED BY <3>1
    <2> QED BY <2>1, <2>3, <2>4, <2>5 DEF TypeOK, Shape, Labels
  <1> QED BY <1>1, Shaped, PTL

-----------------------------------------------------------------------------
(***************************************************************************)
(* What the stages hold.  A tile that arrived holds the data of its turn   *)
(* until the Load warp has gone a round further, a part until its maker    *)
(* has; so a consumer finds its own data from its wait to its release.     *)
(***************************************************************************)
Loaded(x, t) ==
    /\ Used(x)
    /\ t < Begun(x, "load") /\ Begun(x, "load") <= t + Stages[x]
    /\ Flying(x, t % Stages[x]) = 0

TileHolds ==
    \A x \in Tiles, t \in Nat :
        Loaded(x, t) => Named(x, tile[x][t % Stages[x]], t)

Maker(x, w) == IF x \in {"wh", "kv"} THEN "mma" ELSE w
Made(x, w) == IF x \in {"wh", "kv"} THEN Computed(x) ELSE Done(x, w)

PartHolds ==
    \A x \in Parts, w \in CCs, t \in Nat :
        (/\ Used(x) /\ t < Made(x, w)
         /\ Begun(x, Maker(x, w)) <= t + Stages[x])
        => Named(x, part[x][t % Stages[x]][w], t)

\* A consumer that is in turn t: every maker has made it and is within a round.
LEMMA Held ==
    ASSUME Core, NEW x \in Pipes, Used(x), NEW q \in Takers(x), NEW t \in Nat,
           t < Entered(x)[q], Left(x)[q] <= t, NEW m \in Makers(x)
    PROVE  /\ Entered(x)[m] <= t + Stages[x]
           /\ m = "mma" => t < Computed(Via(x))
           /\ m \in CCs => t < Done(x, m)
           /\ m = "load" => t < Begun(x, "load") /\ Flying(x, t % Stages[x]) = 0
  <1> DEFINE S == Stages[x]
             s == t % S
             E == Entered(x)[m]
             L == Left(x)[q]
  <1>1. S \in Nat \ {0} /\ StageIds(x) = 0 .. S - 1 /\ s \in StageIds(x)
    BY PartFacts, UsesOwn
  <1>2. /\ RingType(x, pipe[x], Entered(x), Filled(x), Left(x))
        /\ RingOK(x, pipe[x], Entered(x), Filled(x), Left(x))
    BY RingHolds
  <1>3. E \in Nat /\ L \in Nat /\ Filled(x)[m][s] \in Nat
    BY <1>1, <1>2 DEF RingType
  <1>4. Uses(t + 1, S, s) <= Filled(x)[m][s]
    BY Flow
  <1>5. Uses(E, S, s) <= Uses(L, S, s) + 1 /\ Filled(x)[m][s] <= Uses(E, S, s)
    BY <1>1, <1>2, RingBack
  <1>6. Uses(t + 1, S, s) = Uses(t, S, s) + 1 /\ Uses(t, S, s) \in Nat
    BY <1>1, UsesNext, UsesType
  <1>7. Uses(L, S, s) <= Uses(t, S, s) /\ Uses(L, S, s) \in Nat /\ Uses(E, S, s) \in Nat
    BY <1>1, <1>3, UsesMono, UsesType
  <1>8. E <= t + S
    <2>1. SUFFICES ASSUME t + S < E PROVE FALSE
      BY <1>1, <1>3
    <2>2. PICK k \in Nat : k = t + S
      BY <1>1
    <2>3. k % S = s /\ Uses(k, S, s) = Uses(t, S, s) + 1
      BY <1>1, <2>2, UsesRound
    <2>4. Uses(k + 1, S, s) = Uses(k, S, s) + 1
      BY <1>1, <2>3, UsesNext
    <2>5. Uses(k + 1, S, s) <= Uses(E, S, s)
      <3>1. k + 1 <= E /\ k + 1 \in Nat
        BY <1>3, <2>1, <2>2
      <3> QED BY <1>1, <1>3, <3>1, UsesMono
    <2> QED BY <1>5, <1>6, <1>7, <2>3, <2>4, <2>5
  <1>9. m = "load" => Flying(x, s) = 0
    <2>1. SUFFICES ASSUME m = "load" PROVE Flying(x, s) = 0
      OBVIOUS
    <2>2. E = Begun(x, "load") /\ Filled(x)[m][s] = Uses(E, S, s) - Flying(x, s)
      BY <1>1, <2>1, WarpFacts DEF Entered, Filled
    <2>3. Flying(x, s) \in {0, 1}
      BY DEF Flying, One
    <2> HIDE DEF S, s, E, L
    <2> QED BY <1>4, <1>5, <1>6, <1>7, <2>2, <2>3
  <1>10. /\ m = "mma" => t < Computed(Via(x))
         /\ m \in CCs => t < Done(x, m)
         /\ m = "load" => t < Begun(x, "load")
    BY <1>4, MadePast
  <1> QED BY <1>8, <1>9, <1>10

LEMMA TileHeld ==
    ASSUME Core, TileHolds, NEW x \in Tiles, Used(x), NEW q \in Takers(x),
           NEW t \in Nat, t < Entered(x)[q], Left(x)[q] <= t
    PROVE  Named(x, tile[x][t % Stages[x]], t)
  <1>1. x \in Pipes /\ "load" \in Makers(x)
    BY DEF Makers, Pipes, Tiles
  <1>2. Entered(x)["load"] = Begun(x, "load")
    BY <1>1, WarpFacts DEF Entered
  <1> QED BY <1>1, <1>2, Held DEF TileHolds, Loaded

LEMMA PartHeld ==
    ASSUME Core, PartHolds, NEW x \in Parts, Used(x), NEW q \in Takers(x),
           NEW t \in Nat, t < Entered(x)[q], Left(x)[q] <= t, NEW w \in CCs
    PROVE  Named(x, part[x][t % Stages[x]][w], t)
  <1>1. x \in Pipes /\ Maker(x, w) \in Makers(x)
        /\ (x \in {"wh", "kv"} => Via(x) = x)
    BY DEF Makers, Maker, Pipes, Parts, Via
  <1>2. Entered(x)[Maker(x, w)] = Begun(x, Maker(x, w))
    BY <1>1, WarpFacts DEF Entered, Maker
  <1>3. t < Made(x, w)
    BY <1>1, Held DEF Made, Maker
  <1> QED BY <1>1, <1>2, <1>3, Held DEF PartHolds

\* A warp that reads a stage reads the data of its own chunk.
LEMMA InsideUsed ==
    ASSUME Ctl, NEW p \in Warps, NEW x \in Pipes, pc[p] \in Inside(x)
    PROVE  Used(x) /\ Named(x, Tag(p), Turn(x, p))
  <1>1. CASE x = "h0"
    <2>1. pc[p] = "h0_read"
      BY <1>1 DEF Inside
    <2>2. AtUnit(p, "h0_read")
      BY <2>1, Standing
    <2> QED BY <1>1, <2>1, <2>2, OwnName DEF Used, AtUnit
  <1>2. CASE x # "h0"
    <2>1. pc[p] \in InChunk \cup {"hout_read", "vst_read"}
      BY <1>2 DEF Inside, InChunk, Pipes, Tiles, Parts
    <2>2. AtChunk(p, pc[p])
      BY <2>1, Standing
    <2>3. /\ x = "gk" => pc[p] \in {"gk_exp", "gk_sync", "gk_read"}
          /\ x = "vst" => pc[p] = "vst_read"
      BY DEF Inside
    <2> QED BY <1>2, <2>2, <2>3, OwnName DEF Used, AtChunk
  <1> QED BY <1>1, <1>2

LEMMA TileRead ==
    ASSUME Core, TileHolds, NEW x \in Tiles, NEW q \in Takers(x), q # "mma",
           pc[q] \in Inside(x)
    PROVE  tile[x][Stage(x, q)] = Tag(q)
  <1>1. x \in Pipes /\ q \in Warps /\ Ctl
    BY PartFacts DEF Pipes, Core
  <1>2. /\ Turn(x, q) \in Nat /\ Done(x, q) = Turn(x, q)
        /\ Begun(x, q) = Turn(x, q) + 1
    BY <1>1, InTurn
  <1>3. Entered(x)[q] = Turn(x, q) + 1 /\ Left(x)[q] = Turn(x, q)
    BY <1>2 DEF Entered, Left
  <1>4. PICK t \in Nat : t = Turn(x, q)
    BY <1>2
  <1>5. Used(x) /\ Named(x, Tag(q), t) /\ t < Entered(x)[q] /\ Left(x)[q] <= t
    BY <1>1, <1>3, <1>4, InsideUsed
  <1>6. Named(x, tile[x][t % Stages[x]], t)
    BY <1>5, TileHeld
  <1>7. Stage(x, q) = t % Stages[x]
    BY <1>4 DEF Stage, StageOf
  <1> QED BY <1>5, <1>6, <1>7, NamedOnce

LEMMA PartRead ==
    ASSUME Core, PartHolds, NEW x \in Parts, NEW q \in Takers(x), q # "mma",
           pc[q] \in Inside(x), NEW w \in CCs
    PROVE  part[x][Stage(x, q)][w] = Tag(q)
  <1>1. x \in Pipes /\ q \in Warps /\ Ctl
    BY PartFacts DEF Pipes, Core
  <1>2. /\ Turn(x, q) \in Nat /\ Done(x, q) = Turn(x, q)
        /\ Begun(x, q) = Turn(x, q) + 1
    BY <1>1, InTurn
  <1>3. Entered(x)[q] = Turn(x, q) + 1 /\ Left(x)[q] = Turn(x, q)
    BY <1>2 DEF Entered, Left
  <1>4. PICK t \in Nat : t = Turn(x, q)
    BY <1>2
  <1>5. Used(x) /\ Named(x, Tag(q), t) /\ t < Entered(x)[q] /\ Left(x)[q] <= t
    BY <1>1, <1>3, <1>4, InsideUsed
  <1>6. Named(x, part[x][t % Stages[x]][w], t)
    BY <1>5, PartHeld
  <1>7. Stage(x, q) = t % Stages[x]
    BY <1>4 DEF Stage, StageOf
  <1> QED BY <1>5, <1>6, <1>7, NamedOnce

\* A product that is under way finds the data of its own chunk.
LEMMA ProductReads ==
    ASSUME Core, TileHolds, PartHolds, tcq # <<>>, NEW g, g = Head(tcq)
    PROVE  /\ tcq = <<g>> /\ Operands(g)
           /\ \E t \in Nat :
                 /\ Begun(g.acc, "mma") = t + 1 /\ Computed(g.acc) = t
                 /\ Named(g.acc, g.tag, t)
                 /\ \A x \in {g.acc, g.a, g.b} : g.at[x] = t % Stages[x]
           /\ tile[g.b][g.at[g.b]] = g.tag
           /\ \A w \in CCs : part[g.a][g.at[g.a]][w] = g.tag
  <1>1. PICK t \in Nat :
           /\ tcq = <<g>> /\ Operands(g) /\ Begun(g.acc, "mma") = t + 1
           /\ Named(g.acc, g.tag, t)
           /\ \A x \in {g.acc, g.a, g.b} : g.at[x] = t % Stages[x]
    BY DEF Core, Queue
  <1>2. Computed(g.acc) = t
    BY <1>1 DEF Computed, One
  <1>3. /\ g.a \in Parts /\ g.b \in Tiles /\ g.a \in Pipes /\ g.b \in Pipes
        /\ Used(g.a) /\ Used(g.b) /\ Via(g.a) = g.acc /\ Via(g.b) = g.acc
        /\ "mma" \in Takers(g.a) /\ "mma" \in Takers(g.b)
        /\ g.a # "h0" /\ g.b # "h0" /\ g.acc # "h0"
    BY <1>1 DEF Operands, Parts, Tiles, Pipes, Used, Via, Takers
  <1>4. \A x \in {g.a, g.b} : Entered(x)["mma"] = t + 1 /\ Left(x)["mma"] = t
    BY <1>1, <1>2, <1>3 DEF Entered, Left
  <1>5. t < t + 1 /\ t <= t
    OBVIOUS
  <1>6. \A x \in {g.a, g.b} : t < Entered(x)["mma"] /\ Left(x)["mma"] <= t
    BY <1>4, <1>5
  <1>7. \A x \in {g.a, g.b} : Named(x, g.tag, t)
    BY <1>1, <1>3 DEF Named, TurnOf
  <1>8. Named(g.b, tile[g.b][t % Stages[g.b]], t)
    BY <1>3, <1>6, TileHeld
  <1>9. \A w \in CCs : Named(g.a, part[g.a][t % Stages[g.a]][w], t)
    BY <1>3, <1>6, PartHeld
  <1>10. tile[g.b][g.at[g.b]] = g.tag
    BY <1>1, <1>7, <1>8, NamedOnce
  <1>11. \A w \in CCs : part[g.a][g.at[g.a]][w] = g.tag
    BY <1>1, <1>7, <1>9, NamedOnce
  <1> QED BY <1>1, <1>2, <1>10, <1>11

LEMMA HeldImpliesStages ==
    ASSUME Core, TileHolds, PartHolds
    PROVE  StagesHeld
  <1>1. ASSUME NEW w \in CCs, NEW x \in {"h0", "u", "wh", "kv"}, pc[w] = Reading[x]
        PROVE  HoldsOwn(x, Stage(x, w), w, Tag(w))
    <2>1. x \in Tiles \/ (x \in Parts /\ x \notin Tiles)
      BY DEF Tiles, Parts
    <2>3. w \in Takers(x) /\ w # "mma"
      BY WarpFacts DEF Takers
    <2>2. pc[w] \in Inside(x)
      BY <1>1 DEF Reading, Inside
    <2> QED BY <2>1, <2>2, <2>3, TileRead, PartRead DEF HoldsOwn
  <1>2. ASSUME NEW w \in CCs, pc[w] \in {"gk_exp", "gk_sync", "gk_read"}
        PROVE  HoldsOwn("gk", Stage("gk", w), w, Tag(w))
    <2>1. "gk" \in Tiles /\ w \in Takers("gk") /\ w # "mma" /\ pc[w] \in Inside("gk")
      BY <1>2, WarpFacts DEF Inside, Tiles, Takers
    <2> QED BY <2>1, TileRead DEF HoldsOwn
  <1>3. ASSUME NEW i \in DOMAIN tcq, NEW w \in CCs
        PROVE  /\ HoldsOwn(tcq[i].a, tcq[i].at[tcq[i].a], w, tcq[i].tag)
               /\ HoldsOwn(tcq[i].b, tcq[i].at[tcq[i].b], w, tcq[i].tag)
    <2>1. tcq # <<>>
      BY <1>3
    <2>2. PICK g : g = Head(tcq)
      OBVIOUS
    <2>3. /\ tcq = <<g>> /\ Operands(g) /\ tile[g.b][g.at[g.b]] = g.tag
          /\ part[g.a][g.at[g.a]][w] = g.tag
      BY <2>1, <2>2, ProductReads
    <2>4. tcq[i] = g
      BY <2>3
    <2>5. g.a \notin Tiles /\ g.b \in Tiles
      BY <2>3 DEF Operands, Tiles
    <2> QED BY <2>3, <2>4, <2>5 DEF HoldsOwn
  <1>4. ASSUME NEW w \in CCs, NEW x \in {"hout", "vst"}, pc["store"] = Reading[x]
        PROVE  HoldsOwn(x, Stage(x, "store"), w, Tag("store"))
    <2>1. x \in Parts /\ x \notin Tiles /\ "store" \in Takers(x)
          /\ pc["store"] \in Inside(x)
      BY <1>4 DEF Reading, Inside, Tiles, Parts, Takers
    <2> QED BY <2>1, PartRead DEF HoldsOwn
  <1> QED BY <1>1, <1>2, <1>3, <1>4 DEF StagesHeld

-----------------------------------------------------------------------------
(***************************************************************************)
(* The gates.  Scaled(w) gk tiles have the share of warp w scaled, and w   *)
(* passed gk_precompute_bar for Synced(w) of them.                         *)
(***************************************************************************)
Scaled(w) == Done("gk", w) + One(pc[w] \in {"gk_sync", "gk_read"})
Synced(w) == Done("gk", w) + One(pc[w] = "gk_read")

GateOrder == UseGk => \A w, v \in CCs : Synced(w) = Synced(v)

GateHolds ==
    \A t \in Nat :
        Loaded("gk", t) => scaled[t % Stages["gk"]] = {w \in CCs : Scaled(w) > t}

\* Registers hold what the warp computed in its own chunk.
RegsOf(w) ==
    /\ pc[w] \in InChunk \cup {"final"} => reg[w].h = Tag(w)
    /\ pc[w] \in InChunk =>
          (reg[w].decayed <=> UseGk /\ pc[w] \in {"kv", "kv_read"})
    /\ pc[w] \in {"wh", "wh_read"} => reg[w].u = Tag(w)
    /\ pc[w] \in {"vnew", "vst"} => reg[w].v = Tag(w)

Regs == \A w \in CCs : RegsOf(w)

Hold == TileHolds /\ PartHolds /\ GateOrder /\ GateHolds /\ Regs

LEMMA GateCounts ==
    ASSUME Ctl, NEW w \in CCs
    PROVE  /\ Done("gk", w) \in Nat /\ Begun("gk", w) \in Nat
           /\ Scaled(w) \in Nat /\ Synced(w) \in Nat
           /\ Done("gk", w) <= Scaled(w) /\ Scaled(w) <= Begun("gk", w)
           /\ Synced(w) <= Scaled(w)
  <1>1. w \in Warps
    BY WarpFacts
  <1>2. /\ Done("gk", w) \in Nat /\ Begun("gk", w) \in Nat
        /\ Begun("gk", w) \in {Done("gk", w), Done("gk", w) + 1}
    BY <1>1, CountsNat
  <1>3. CASE pc[w] \in {"gk_sync", "gk_read"}
    <2>1. pc[w] \in Inside("gk") /\ "gk" \in Pipes
      BY <1>3 DEF Inside, Pipes, Tiles
    <2>2. Begun("gk", w) = Done("gk", w) + 1
      BY <1>1, <2>1, InTurn
    <2> QED BY <1>2, <1>3, <2>2 DEF Scaled, Synced, One
  <1>4. CASE pc[w] \notin {"gk_sync", "gk_read"}
    BY <1>2, <1>4 DEF Scaled, Synced, One
  <1> QED BY <1>3, <1>4

\* Before its turn at gk_read a warp finds the whole tile scaled once.
LEMMA GateRead ==
    ASSUME Core, GateOrder, GateHolds, NEW w \in CCs,
           pc[w] \in {"gk_exp", "gk_sync", "gk_read"}
    PROVE  /\ UseGk /\ Turn("gk", w) \in Nat
           /\ scaled[Stage("gk", w)] = {v \in CCs : Scaled(v) > Turn("gk", w)}
           /\ pc[w] = "gk_read" => scaled[Stage("gk", w)] = CCs
           /\ pc[w] = "gk_exp" => w \notin scaled[Stage("gk", w)]
  <1>1. /\ "gk" \in Pipes /\ w \in Warps /\ w # "mma" /\ Ctl /\ w \in Takers("gk")
        /\ "load" \in Makers("gk") /\ pc[w] \in Inside("gk") /\ "load" # "mma"
    BY WarpFacts DEF Pipes, Tiles, Core, Takers, Makers, Inside
  <1>2. /\ Turn("gk", w) \in Nat /\ Done("gk", w) = Turn("gk", w)
        /\ Begun("gk", w) = Turn("gk", w) + 1
    BY <1>1, InTurn
  <1>3. Used("gk") /\ UseGk
    BY <1>1, InsideUsed DEF Used
  <1>4. PICK t \in Nat : t = Turn("gk", w)
    BY <1>2
  <1>5. t < Entered("gk")[w] /\ Left("gk")[w] <= t
    BY <1>1, <1>2, <1>4 DEF Entered, Left
  <1>6. Entered("gk")["load"] = Begun("gk", "load")
    BY <1>1 DEF Entered
  <1>7. /\ t < Begun("gk", "load") /\ Begun("gk", "load") <= t + Stages["gk"]
        /\ Flying("gk", t % Stages["gk"]) = 0
    BY <1>1, <1>3, <1>5, <1>6, Held
  <1>8. Stage("gk", w) = t % Stages["gk"]
    BY <1>4 DEF Stage, StageOf
  <1>9. scaled[Stage("gk", w)] = {v \in CCs : Scaled(v) > t}
    BY <1>3, <1>7, <1>8 DEF GateHolds, Loaded
  <1>10. ASSUME pc[w] = "gk_read" PROVE \A v \in CCs : Scaled(v) > t
    <2>1. Synced(w) = t + 1
      BY <1>2, <1>4, <1>10 DEF Synced, One
    <2>2. \A v \in CCs : Synced(w) <= Scaled(v) /\ Scaled(v) \in Nat
      BY <1>1, <1>3, GateCounts DEF GateOrder
    <2> QED BY <2>1, <2>2
  <1>11. ASSUME pc[w] = "gk_exp" PROVE ~(Scaled(w) > t)
    BY <1>2, <1>4, <1>11 DEF Scaled, One
  <1> QED BY <1>2, <1>3, <1>4, <1>9, <1>10, <1>11

LEMMA HeldImpliesGates ==
    ASSUME Core, GateOrder, GateHolds
    PROVE  GatesScaledOnce
  BY GateRead DEF GatesScaledOnce

-----------------------------------------------------------------------------
(***************************************************************************)
(* What a step leaves alone.                                               *)
(***************************************************************************)
Stays(q) == pc'[q] = pc[q] /\ unit'[q] = unit[q] /\ chunk'[q] = chunk[q]

LEMMA Moves ==
    ASSUME Ctl, NEW p \in Warps
    PROVE  /\ \A l : Goto(p, l) =>
                 /\ \A q \in Warps : q # p => Stays(q)
                 /\ pc'[p] = l /\ unit'[p] = unit[p] /\ chunk'[p] = chunk[p]
           /\ NextChunk(p) =>
                 /\ \A q \in Warps : q # p => Stays(q)
                 /\ pc'[p] = ChunkLabel(p, unit[p], chunk[p] + 1)
                 /\ unit'[p] = unit[p] /\ chunk'[p] = chunk[p] + 1
           /\ NextUnit(p) =>
                 /\ \A q \in Warps : q # p => Stays(q)
                 /\ pc'[p] = UnitLabel(p, unit[p] + 1)
                 /\ unit'[p] = unit[p] + 1 /\ chunk'[p] = 0
  BY DEF Goto, NextChunk, NextUnit, Stays, Ctl

\* The Load warp's counts, by a step of another warp or of none.
LEMMA LoadSame ==
    ASSUME Ctl, NEW p \in Warps, NEW B, NEW D, Steps(p, B, D),
           p = "load" => B = {}, NEW x \in Tiles, Used(x)
    PROVE  Begun(x, "load")' = Begun(x, "load")
  <1>1. "load" \in Warps /\ x \in Pipes /\ Handles("load", x)
    BY WarpFacts DEF Handles, Pipes
  <1>2. Begun(x, "load") \in Nat
    BY <1>1, CountsNat
  <1> QED BY <1>1, <1>2 DEF Steps, One

LEMMA TileKept ==
    ASSUME Ctl, NEW p \in Warps, NEW B, NEW D, Steps(p, B, D),
           p = "load" => B = {}, inflight' = inflight
    PROVE  /\ \A x \in Tiles, t \in Nat : Loaded(x, t)' <=> Loaded(x, t)
           /\ TileHolds /\ tile' = tile => TileHolds'
  <1>1. ASSUME NEW x \in Tiles, NEW t \in Nat
        PROVE  Loaded(x, t)' <=> Loaded(x, t)
    <2>1. Used(x) => Begun(x, "load")' = Begun(x, "load")
      BY LoadSame
    <2>2. Flying(x, t % Stages[x])' = Flying(x, t % Stages[x])
      BY DEF Flying
    <2> QED BY <2>1, <2>2 DEF Loaded
  <1> QED BY <1>1 DEF TileHolds

\* A warp's own counts of the gk pipeline, by a step of another or one that
\* is not about the gates.
LEMMA GateSame ==
    ASSUME Ctl, NEW p \in Warps, NEW B, NEW D, Steps(p, B, D), UseGk, "gk" \notin D,
           NEW w \in CCs,
           \/ Stays(w)
           \/ /\ pc[w] \notin {"gk_sync", "gk_read"}
              /\ pc'[w] \notin {"gk_sync", "gk_read"}
    PROVE  Scaled(w)' = Scaled(w) /\ Synced(w)' = Synced(w)
  <1>1. "gk" \in Pipes /\ w \in Warps /\ Handles(w, "gk") /\ Done("gk", w) \in Nat
    BY WarpFacts, CountsNat DEF Handles, Pipes, Tiles, Used
  <1>2. Done("gk", w)' = Done("gk", w)
    BY <1>1 DEF Steps, One
  <1> QED BY <1>2 DEF Scaled, Synced, Stays, One

LEMMA GateKept ==
    ASSUME GateOrder, GateHolds, scaled' = scaled,
           UseGk => \A w \in CCs : Scaled(w)' = Scaled(w) /\ Synced(w)' = Synced(w),
           \A t \in Nat : Loaded("gk", t)' => Loaded("gk", t)
    PROVE  GateOrder' /\ GateHolds'
  <1>1. GateOrder'
    BY DEF GateOrder
  <1>2. ASSUME NEW t \in Nat, Loaded("gk", t)'
        PROVE  scaled'[t % Stages["gk"]] = {w \in CCs : Scaled(w)' > t}
    <2>1. UseGk
      BY <1>2 DEF Loaded, Used
    <2> QED BY <1>2, <2>1 DEF GateHolds
  <1> QED BY <1>1, <1>2 DEF GateHolds

\* What a warp's turns of a part pipeline are, by a step that is not of it.
LEMMA MadeSame ==
    ASSUME Ctl, NEW p \in Warps, p # "mma", NEW B, NEW D, Steps(p, B, D), tcq' = tcq,
           NEW x \in Parts, Used(x), NEW w \in CCs,
           (x \notin B /\ x \notin D) \/ p # Maker(x, w)
    PROVE  Made(x, w)' = Made(x, w) /\ Begun(x, Maker(x, w))' = Begun(x, Maker(x, w))
  <1>1. x \in Pipes /\ Maker(x, w) \in Warps /\ Handles(Maker(x, w), x)
    BY WarpFacts DEF Pipes, Parts, Tiles, Maker, Handles, Used
  <1>2. /\ Done(x, Maker(x, w))' = Done(x, Maker(x, w))
        /\ Begun(x, Maker(x, w))' = Begun(x, Maker(x, w))
    BY <1>1, CountsSame
  <1> QED BY <1>2 DEF Made, Maker, Computed

LEMMA PartKept ==
    ASSUME PartHolds, part' = part,
           \A x \in Parts, w \in CCs : Used(x) =>
               /\ Made(x, w)' = Made(x, w)
               /\ Begun(x, Maker(x, w))' = Begun(x, Maker(x, w))
    PROVE  PartHolds'
  BY DEF PartHolds, Maker

LEMMA RegsKept ==
    ASSUME NEW w, RegsOf(w), Stays(w), reg'[w] = reg[w]
    PROVE  RegsOf(w)'
  BY DEF RegsOf, Stays, Tag

-----------------------------------------------------------------------------
(***************************************************************************)
(* The stages and registers after each kind of step.                       *)
(***************************************************************************)
LEMMA HoldLoad ==
    ASSUME Core, Hold, LoadTile
    PROVE  Hold'
  <1>0. PICK x : x = pc["load"]
    OBVIOUS
  <1> DEFINE n == Begun(x, "load")
             S == Stages[x]
  <1>1. /\ Steps("load", {x}, {x}) /\ x \in Tiles /\ x \in Pipes /\ x \notin Parts /\ Used(x)
        /\ n = Turn(x, "load") /\ n \in Nat /\ Ctl /\ "load" \in Warps
        /\ \A w \in CCs : w \in Warps /\ w # "load"
    BY <1>0, LoadMoves, WarpFacts DEF Core, Tiles, Parts, Pipes
  <1>2. \A q \in Warps : q # "load" => Stays(q)
    <2>1. (\E l : Goto("load", l)) \/ NextChunk("load")
      BY DEF LoadTile, Tiles
    <2> QED BY <1>1, <2>1, Moves
  <1>3. Begun(x, "load")' = n + 1
    <2>1. Handles("load", x)
      BY <1>1 DEF Handles
    <2> QED BY <1>1, <2>1 DEF Steps, One
  <1>4. \A y, s : Flying(y, s)' = IF y = x /\ s = n % S THEN 1 ELSE Flying(y, s)
    <2> DEFINE new == [pipe |-> x, stage |-> n % S, tag |-> Tag("load")]
    <2>1. inflight' = inflight \cup {new} /\ new.pipe = x /\ new.stage = n % S
      BY <1>0, <1>1 DEF LoadTile, Stage, StageOf
    <2> HIDE DEF new
    <2> QED BY <2>1 DEF Flying, One
  <1>5. ASSUME NEW y \in Tiles, NEW t \in Nat, Loaded(y, t)' PROVE Loaded(y, t)
    <2>1. CASE y # x
      <3>1. y \in Pipes /\ Handles("load", y) /\ Used(y)
        BY <1>5 DEF Handles, Pipes, Loaded
      <3>2. Begun(y, "load")' = Begun(y, "load")
        BY <1>1, <2>1, <3>1, CountsSame
      <3> QED BY <1>4, <1>5, <2>1, <3>2 DEF Loaded
    <2>2. CASE y = x
      <3>1. t < n + 1 /\ n + 1 <= t + S /\ Flying(x, t % S)' = 0
        BY <1>3, <1>5, <2>2 DEF Loaded
      <3>2. t % S # n % S /\ Flying(x, t % S) = 0
        BY <1>4, <3>1
      <3>3. t # n
        BY <3>2
      <3>4. t < n /\ n <= t + S
        <4>1. S \in Nat
          BY <1>1, PartFacts
        <4> HIDE DEF n, S
        <4> QED BY <1>1, <3>1, <3>3, <4>1
      <3> QED BY <1>1, <2>2, <3>2, <3>4 DEF Loaded
    <2> QED BY <2>1, <2>2
  <1>6. TileHolds'
    <2>1. tile' = tile
      BY DEF LoadTile, mem
    <2> QED BY <1>5, <2>1 DEF TileHolds, Hold
  <1>7. PartHolds'
    <2>1. part' = part /\ tcq' = tcq /\ "load" # "mma"
      BY DEF LoadTile, mem
    <2>2. \A y \in Parts, w \in CCs : Used(y) =>
               /\ Made(y, w)' = Made(y, w)
               /\ Begun(y, Maker(y, w))' = Begun(y, Maker(y, w))
      BY <1>1, <2>1, MadeSame
    <2> QED BY <2>1, <2>2, PartKept DEF Hold
  <1>8. GateOrder' /\ GateHolds'
    <2>1. ASSUME UseGk, NEW w \in CCs
          PROVE  Scaled(w)' = Scaled(w) /\ Synced(w)' = Synced(w)
      <3>1. "gk" \in Pipes /\ Handles(w, "gk")
        BY <2>1 DEF Pipes, Tiles, Handles, Used
      <3>2. Done("gk", w)' = Done("gk", w)
        BY <1>1, <3>1, CountsSame
      <3> QED BY <1>1, <1>2, <3>2 DEF Scaled, Synced, Stays
    <2>2. scaled' = scaled /\ "gk" \in Tiles
      BY DEF LoadTile, mem, Tiles
    <2> QED BY <1>5, <2>1, <2>2, GateKept DEF Hold
  <1>9. Regs'
    <2>1. reg' = reg
      BY DEF LoadTile
    <2> QED BY <1>1, <1>2, <2>1, RegsKept DEF Regs, Hold
  <1> QED BY <1>6, <1>7, <1>8, <1>9 DEF Hold

\* Nobody has entered the turn of a copy that is under way.
LEMMA NotEntered ==
    ASSUME Core, NEW x \in Tiles, NEW t \in Nat, NEW q \in Takers(x), Used(x),
           Flying(x, t % Stages[x]) = 1, Begun(x, "load") <= t + Stages[x]
    PROVE  ~ (t < Entered(x)[q])
  <1> DEFINE S == Stages[x]
             B == Begun(x, "load")
             s == t % S
  <1>1. /\ x \in Pipes /\ "load" \in Makers(x) /\ "load" \in Warps
        /\ S \in Nat \ {0} /\ StageIds(x) = 0 .. S - 1
    BY PartFacts, WarpFacts DEF Pipes, Tiles, Makers
  <1>2. s \in 0 .. S - 1 /\ B \in Nat
    BY <1>1, UsesOwn, CountsNat DEF Core
  <1>3. SUFFICES ASSUME t < Entered(x)[q] PROVE FALSE
    OBVIOUS
  <1>4. Uses(t + 1, S, s) <= Filled(x)["load"][s]
    BY <1>1, <1>3, Flow
  <1>5. Filled(x)["load"][s] = Uses(B, S, s) - 1
    BY <1>1, <1>2 DEF Filled
  <1>6. /\ Uses(t + 1, S, s) = Uses(t, S, s) + 1
        /\ Uses(t + S, S, s) = Uses(t, S, s) + 1
        /\ Uses(t, S, s) \in Nat
    BY <1>1, <1>2, UsesNext, UsesRound, UsesType
  <1>7. Uses(B, S, s) <= Uses(t + S, S, s) /\ Uses(B, S, s) \in Nat
    <2>1. t + S \in Nat /\ B <= t + S
      BY <1>1
    <2> QED BY <1>1, <1>2, <2>1, UsesMono, UsesType
  <1> HIDE DEF S, s, B
  <1> QED BY <1>4, <1>5, <1>6, <1>7

LEMMA HoldTma ==
    ASSUME Core, Shape, Hold, NEW r \in inflight, TmaArrive(r)
    PROVE  Hold'
  <1>1. PICK x \in Tiles, t0 \in Nat :
           /\ r = [pipe |-> x, stage |-> t0 % Stages[x], tag |-> r.tag]
           /\ Used(x) /\ Named(x, r.tag, t0)
           /\ t0 < Begun(x, "load") /\ Begun(x, "load") <= t0 + Stages[x]
    BY DEF Core, Inflight, Copy
  <1> DEFINE S == Stages[x]
             s0 == t0 % S
  <1>2. /\ r.pipe = x /\ r.stage = s0 /\ Ctl /\ "empty" \in Warps /\ "load" \in Warps
        /\ x \in Pipes /\ "empty" # "mma" /\ "empty" # "load"
        /\ \A w \in CCs : w \in Warps
    BY <1>1, WarpFacts DEF Core, Pipes
  <1>3. S \in Nat \ {0} /\ s0 \in StageIds(x) /\ Begun(x, "load") \in Nat
    BY <1>1, <1>2, PartFacts, UsesOwn, CountsNat
  <1>4. Steps("empty", {}, {})
    BY TmaMoves
  <1>5. UNCHANGED <<pc, unit, chunk, part, reg, tcq>> /\ \A q : Stays(q)
    BY DEF TmaArrive, ctl, Stays
  <1>6. \A y, p : Begun(y, p)' = Begun(y, p) /\ Done(y, p)' = Done(y, p)
    BY <1>5 DEF Begun, BegunAt, Done, DoneAt, TurnOf
  <1>7. /\ \A y, s : ~(y = x /\ s = s0) => Flying(y, s)' = Flying(y, s)
        /\ Flying(x, s0) = 1
    <2>1. inflight' = inflight \ {r} /\ r \in inflight
      BY DEF TmaArrive
    <2>2. \A o \in inflight : o.pipe = x /\ o.stage = s0 => o = r
      BY <1>2 DEF Core, Inflight
    <2> HIDE DEF s0, S
    <2> QED BY <1>2, <2>1, <2>2 DEF Flying, One
  <1>8. /\ tile' = [tile EXCEPT ![x][s0] = r.tag]
        /\ scaled' = IF x = "gk" THEN [scaled EXCEPT ![s0] = {}] ELSE scaled
    BY <1>2 DEF TmaArrive
  <1>9. ASSUME NEW t \in Nat, Loaded(x, t)', t % S = s0 PROVE t = t0
    <2>1. t < Begun(x, "load") /\ Begun(x, "load") <= t + S
      BY <1>6, <1>9 DEF Loaded
    <2>2. t < t0 + S /\ t0 < t + S
      BY <1>1, <1>3, <2>1
    <2> QED BY <1>1, <1>3, <1>9, <2>2, WindowUnique
  <1>10. ASSUME NEW y \in Tiles, NEW t \in Nat, Loaded(y, t)',
               ~(y = x /\ t % S = s0)
        PROVE  Loaded(y, t)
    BY <1>6, <1>7, <1>10 DEF Loaded
  <1> HIDE DEF s0
  <1>11. TileHolds'
    <2>1. ASSUME NEW y \in Tiles, NEW t \in Nat, Loaded(y, t)'
          PROVE  Named(y, tile'[y][t % Stages[y]], t)
      <3>1. CASE y = x /\ t % S = s0
        <4>1. t = t0
          BY <1>9, <2>1, <3>1
        <4>2. tile'[x][s0] = r.tag
          BY <1>3, <1>8 DEF Shape
        <4> QED BY <1>1, <3>1, <4>1, <4>2
      <3>2. CASE ~(y = x /\ t % S = s0)
        <4>1. tile'[y][t % Stages[y]] = tile[y][t % Stages[y]]
          BY <1>8, <3>2
        <4> QED BY <1>10, <2>1, <3>2, <4>1 DEF Hold, TileHolds
      <3> QED BY <3>1, <3>2
    <2> QED BY <2>1 DEF TileHolds, Named, TurnOf
  <1>12. PartHolds'
    <2>1. part' = part /\ tcq' = tcq
      BY <1>5
    <2>2. \A y \in Parts, w \in CCs : Used(y) =>
               /\ Made(y, w)' = Made(y, w)
               /\ Begun(y, Maker(y, w))' = Begun(y, Maker(y, w))
      BY <1>2, <1>4, <2>1, MadeSame
    <2> QED BY <2>1, <2>2, PartKept DEF Hold
  <1>13. \A w : Scaled(w)' = Scaled(w) /\ Synced(w)' = Synced(w)
    BY <1>5, <1>6 DEF Scaled, Synced
  <1>14. GateOrder' /\ GateHolds'
    <2>1. CASE x # "gk"
      <3>1. scaled' = scaled /\ "gk" \in Tiles /\ \A t \in Nat : Loaded("gk", t)' => Loaded("gk", t)
        BY <1>8, <1>10, <2>1 DEF Tiles
      <3> QED BY <1>13, <3>1, GateKept DEF Hold
    <2>2. CASE x = "gk"
      <3>1. GateOrder'
        BY <1>13 DEF Hold, GateOrder
      <3>2. ASSUME NEW t \in Nat, Loaded("gk", t)'
            PROVE  scaled'[t % Stages["gk"]] = {w \in CCs : Scaled(w)' > t}
        <4>1. CASE t % S = s0
          <5>1. t = t0
            BY <1>9, <2>2, <3>2, <4>1
          <5>2. scaled'[s0] = {}
            BY <1>3, <1>8, <2>2 DEF Shape
          <5>3. ASSUME NEW w \in CCs, Scaled(w) > t0 PROVE FALSE
            <6>1. /\ w \in Takers("gk") /\ "load" \in Makers("gk") /\ w # "mma"
                  /\ "load" # "mma"
              BY WarpFacts DEF Takers, Makers
            <6>2. t0 < Entered("gk")[w]
              <7>1. Entered("gk")[w] = Begun("gk", w)
                BY <6>1 DEF Entered
              <7> QED BY <1>2, <5>3, <7>1, GateCounts
            <6>3. Flying(x, t0 % Stages[x]) = 1
              BY <1>7 DEF s0
            <6> QED BY <1>1, <2>2, <6>1, <6>2, <6>3, NotEntered
          <5>4. {w \in CCs : Scaled(w)' > t} = {}
            BY <1>13, <5>1, <5>3
          <5> QED BY <2>2, <4>1, <5>2, <5>4
        <4>2. CASE t % S # s0
          <5>1. scaled'[t % S] = scaled[t % S]
            BY <1>8, <2>2, <4>2
          <5>2. Loaded("gk", t)
            BY <1>10, <2>2, <3>2, <4>2
          <5> QED BY <1>13, <2>2, <5>1, <5>2 DEF Hold, GateHolds
        <4> QED BY <4>1, <4>2
      <3> QED BY <3>1, <3>2 DEF GateHolds
    <2> QED BY <2>1, <2>2
  <1>15. Regs'
    BY <1>2, <1>5, RegsKept DEF Regs, Hold
  <1> QED BY <1>11, <1>12, <1>14, <1>15 DEF Hold

\* Steps that write no stage: waits, reads, the scheduler's.
LEMMA HoldMem ==
    ASSUME Core, Hold, NEW p \in Warps, p # "mma", NEW B, NEW D, Steps(p, B, D),
           p = "load" => B = {},
           \A y \in {"state", "hout", "vnew", "vst"} :
               p \in CCs => y \notin B /\ y \notin D,
           UNCHANGED <<mem, inflight, tcq>>,
           UseGk => \A w \in CCs : Scaled(w)' = Scaled(w) /\ Synced(w)' = Synced(w)
    PROVE  TileHolds' /\ PartHolds' /\ GateOrder' /\ GateHolds'
  <1>1. Ctl /\ tile' = tile /\ scaled' = scaled /\ part' = part /\ tcq' = tcq
        /\ "gk" \in Tiles
    BY DEF Core, mem, Tiles
  <1>2. TileHolds' /\ \A x \in Tiles, t \in Nat : Loaded(x, t)' <=> Loaded(x, t)
    BY <1>1, TileKept DEF Hold
  <1>3. ASSUME NEW x \in Parts, NEW w \in CCs, Used(x)
        PROVE  Made(x, w)' = Made(x, w) /\ Begun(x, Maker(x, w))' = Begun(x, Maker(x, w))
    <2>1. (x \notin B /\ x \notin D) \/ p # Maker(x, w)
      BY WarpFacts DEF Parts, Maker
    <2> QED BY <1>1, <1>3, <2>1, MadeSame
  <1>4. PartHolds'
    BY <1>1, <1>3, PartKept DEF Hold
  <1>5. GateOrder' /\ GateHolds'
    BY <1>1, <1>2, GateKept DEF Hold
  <1> QED BY <1>2, <1>4, <1>5

LEMMA HoldIssue ==
    ASSUME Core, Hold, NEW acc, NEW a, NEW b, IssueMove(acc, a, b)
    PROVE  Hold'
  <1>1. /\ Steps("mma", {acc}, {acc}) /\ tcq = <<>> /\ tcq' = <<Product(acc, a, b)>>
        /\ Ctl /\ "mma" \in Warps /\ acc \in {"wh", "kv"}
        /\ \A w \in CCs : w \in Warps /\ w # "mma"
    BY IssueMoves, WarpFacts DEF Core, IssueMove
  <1>2. /\ tile' = tile /\ scaled' = scaled /\ part' = part /\ reg' = reg
        /\ inflight' = inflight
    BY DEF IssueMove, IssueWH, IssueKV, IssueProduct, mem
  <1>3. \A q \in Warps : q # "mma" => Stays(q)
    <2>1. (\E l : Goto("mma", l)) \/ NextChunk("mma")
      BY DEF IssueMove, IssueWH, IssueKV
    <2> QED BY <1>1, <2>1, Moves
  <1>4. TileHolds' /\ \A x \in Tiles, t \in Nat : Loaded(x, t)' <=> Loaded(x, t)
    BY <1>1, <1>2, TileKept DEF Hold
  <1>5. GateOrder' /\ GateHolds'
    <2>1. UseGk => \A w \in CCs : Scaled(w)' = Scaled(w) /\ Synced(w)' = Synced(w)
      BY <1>1, <1>3, GateSame
    <2> QED BY <1>2, <1>4, <2>1, GateKept DEF Hold, Tiles
  <1>6. PartHolds'
    <2>1. ASSUME NEW x \in Parts, NEW w \in CCs, Used(x)
          PROVE  /\ Made(x, w)' = Made(x, w)
                 /\ Begun(x, Maker(x, w)) \in Nat
                 /\ Begun(x, Maker(x, w))' \in
                        {Begun(x, Maker(x, w)), Begun(x, Maker(x, w)) + 1}
      <3>1. x \in Pipes /\ Maker(x, w) \in Warps /\ Handles(Maker(x, w), x)
        BY <2>1, WarpFacts DEF Pipes, Parts, Tiles, Maker, Handles
      <3>2. Begun(x, Maker(x, w)) \in Nat
        BY <1>1, <3>1, CountsNat
      <3>3. Begun(x, Maker(x, w))' = Begun(x, Maker(x, w)) + One(Maker(x, w) = "mma" /\ x = acc)
        BY <1>1, <3>1 DEF Steps
      <3>4. CASE x \in {"wh", "kv"}
        <4>1. Begun(x, "mma")' = Begun(x, "mma") + One(x = acc) /\ Begun(x, "mma") \in Nat
          BY <3>2, <3>3, <3>4 DEF Maker, One
        <4>2. Computed(x) = Begun(x, "mma")
          BY <1>1, <4>1 DEF Computed, One
        <4>3. tcq' # <<>> /\ Head(tcq').acc = acc
          BY <1>1 DEF Product
        <4>4. Computed(x)' = Begun(x, "mma")' - One(acc = x)
          BY <4>3 DEF Computed, One
        <4>5. Computed(x)' = Computed(x)
          BY <4>1, <4>2, <4>4 DEF One
        <4> QED BY <3>2, <3>3, <3>4, <4>5 DEF Made, One
      <3>5. CASE x \notin {"wh", "kv"}
        <4>1. Done(x, w)' = Done(x, w)
          BY <1>1, <3>1, <3>5, CountsSame DEF Maker
        <4> QED BY <3>2, <3>3, <3>5, <4>1 DEF Made, One
      <3> QED BY <3>4, <3>5
    <2>2. ASSUME NEW x \in Parts, NEW w \in CCs, NEW t \in Nat, Used(x),
                 t < Made(x, w)', Begun(x, Maker(x, w))' <= t + Stages[x]
          PROVE  Named(x, part[x][t % Stages[x]][w], t)
      <3>1. x \in Pipes
        BY DEF Pipes
      <3>2. Stages[x] \in Nat
        BY <3>1, PartFacts
      <3>3. t < Made(x, w) /\ Begun(x, Maker(x, w)) <= t + Stages[x]
        BY <2>1, <2>2, <3>2
      <3> QED BY <2>2, <3>3 DEF Hold, PartHolds
    <2> QED BY <1>2, <2>2 DEF PartHolds, Maker
  <1>7. Regs'
    BY <1>1, <1>2, <1>3, RegsKept DEF Regs, Hold
  <1> QED BY <1>4, <1>5, <1>6, <1>7 DEF Hold

LEMMA HoldDone ==
    ASSUME Core, Shape, Hold, TensorCoreDone
    PROVE  Hold'
  <1>0. PICK g : g = Head(tcq)
    OBVIOUS
  <1>1. PICK t0 \in Nat :
           /\ tcq = <<g>> /\ Operands(g)
           /\ Begun(g.acc, "mma") = t0 + 1 /\ Computed(g.acc) = t0
           /\ Named(g.acc, g.tag, t0)
           /\ \A x \in {g.acc, g.a, g.b} : g.at[x] = t0 % Stages[x]
           /\ tile[g.b][g.at[g.b]] = g.tag
           /\ \A w \in CCs : part[g.a][g.at[g.a]][w] = g.tag
    BY <1>0, ProductReads DEF Hold, TensorCoreDone
  <1> DEFINE acc == g.acc
             S == Stages[acc]
             s0 == t0 % S
  <1>2. /\ acc \in {"wh", "kv"} /\ acc \in Parts /\ acc \in Pipes
        /\ Ctl /\ "empty" \in Warps /\ "empty" # "mma" /\ "empty" # "load"
    BY <1>1, WarpFacts DEF Operands, Parts, Pipes, Core
  <1>3. S \in Nat \ {0} /\ s0 \in StageIds(acc)
    BY <1>1, <1>2, PartFacts, UsesOwn
  <1>4. UNCHANGED <<pc, unit, chunk, tile, scaled, reg, inflight>> /\ \A q : Stays(q)
    BY DEF TensorCoreDone, ctl, Stays
  <1>5. \A y, p : Begun(y, p)' = Begun(y, p) /\ Done(y, p)' = Done(y, p)
    BY <1>4 DEF Begun, BegunAt, Done, DoneAt, TurnOf
  <1>6. tcq' = <<>>
    <2>1. tcq' = Tail(tcq) /\ tcq = <<g>>
      BY <1>1 DEF TensorCoreDone
    <2> QED BY <2>1
  <1>7. /\ part' = [part EXCEPT ![acc][s0] = [w \in CCs |-> g.tag]]
    <2>1. part' = [part EXCEPT ![g.acc][g.at[g.acc]] =
                      [w \in CCs |-> Combine(part[g.a][g.at[g.a]][w], tile[g.b][g.at[g.b]])]]
      BY <1>0 DEF TensorCoreDone
    <2>2. \A w \in CCs : Combine(part[g.a][g.at[g.a]][w], tile[g.b][g.at[g.b]]) = g.tag
      BY <1>1 DEF Combine
    <2>3. g.at[g.acc] = s0
      BY <1>1
    <2> HIDE DEF s0
    <2> QED BY <2>1, <2>2, <2>3
  <1>8. /\ Computed(acc)' = t0 + 1
        /\ \A x : x # acc => Computed(x)' = Computed(x)
    <2>1. \A x : Computed(x)' = Begun(x, "mma") - 0
      BY <1>5, <1>6 DEF Computed, One
    <2>2. \A x : x # acc => Computed(x) = Begun(x, "mma") - 0
      BY <1>1 DEF Computed, One
    <2> QED BY <1>1, <2>1, <2>2
  <1> HIDE DEF acc, s0, S
  <1>9. PartHolds'
    <2>1. ASSUME NEW x \in Parts, NEW w \in CCs, NEW t \in Nat, Used(x),
                 t < Made(x, w)', Begun(x, Maker(x, w)) <= t + Stages[x]
          PROVE  Named(x, part'[x][t % Stages[x]][w], t)
      <3>1. CASE x = acc
        <4>1. t < t0 + 1 /\ t0 + 1 <= t + S
          BY <1>1, <1>2, <1>8, <2>1, <3>1 DEF Made, Maker, S, acc
        <4>2. CASE t = t0
          <5>1. part'[x][t % Stages[x]][w] = g.tag
            BY <1>2, <1>3, <1>7, <3>1, <4>2 DEF Shape, S, s0
          <5> QED BY <1>1, <3>1, <4>2, <5>1 DEF acc
        <4>3. CASE t # t0
          <5>1. t < t0 /\ t0 < t + S /\ t < t0 + S
            BY <1>3, <4>1, <4>3
          <5>2. t % S # s0
            BY <1>3, <4>3, <5>1, WindowUnique DEF s0
          <5>3. part'[x][t % Stages[x]] = part[x][t % Stages[x]]
            BY <1>7, <3>1, <5>2 DEF S
          <5>4. t < Made(x, w) /\ Begun(x, Maker(x, w)) <= t + Stages[x]
            BY <1>1, <1>2, <2>1, <3>1, <5>1 DEF Made, acc
          <5> QED BY <2>1, <5>3, <5>4 DEF Hold, PartHolds
        <4> QED BY <4>2, <4>3
      <3>2. CASE x # acc
        <4>1. part'[x] = part[x]
          BY <1>7, <3>2
        <4>2. Made(x, w)' = Made(x, w)
          BY <1>5, <1>8, <3>2 DEF Made
        <4> QED BY <2>1, <4>1, <4>2 DEF Hold, PartHolds
      <3> QED BY <3>1, <3>2
    <2>2. \A x, w : Begun(x, Maker(x, w))' = Begun(x, Maker(x, w))
      BY <1>5 DEF Maker
    <2> QED BY <2>1, <2>2 DEF PartHolds
  <1>10. TileHolds' /\ \A x \in Tiles, t \in Nat : Loaded(x, t)' <=> Loaded(x, t)
    <2>1. Steps("empty", {}, {})
      BY DoneMoves
    <2> QED BY <1>2, <1>4, <2>1, TileKept DEF Hold
  <1>11. GateOrder' /\ GateHolds'
    <2>1. \A w : Scaled(w)' = Scaled(w) /\ Synced(w)' = Synced(w)
      BY <1>4, <1>5 DEF Scaled, Synced
    <2> QED BY <1>4, <1>10, <2>1, GateKept DEF Hold, Tiles
  <1>12. Regs'
    BY <1>4, RegsKept DEF Regs, Hold
  <1> QED BY <1>9, <1>10, <1>11, <1>12 DEF Hold

LEMMA HoldWait ==
    ASSUME Core, Hold, NEW x, NEW q, WaitMove(x, q)
    PROVE  Hold'
  <1>1. /\ Steps(q, {x}, {}) /\ Ctl /\ q \in Warps /\ q # "mma" /\ q # "load"
        /\ \A w \in CCs : w \in Warps
    <2>1. Steps(q, {x}, {})
      BY WaitMoves
    <2> QED BY <2>1, WarpFacts DEF Core, WaitMove
  <1>2. UNCHANGED <<mem, inflight, tcq>> /\ reg' = reg /\ pc[q] = x
    BY WarpFacts DEF WaitMove, WaitU, WaitWH, WaitGk, WaitKV, BeginStore, BeginRead
  <1>3. PICK l :
           /\ Goto(q, l)
           /\ q \in CCs =>
                \/ x = "h0" /\ l = "h0_read"
                \/ x = "u" /\ l = "u_read"
                \/ x = "wh" /\ l = "wh_read"
                \/ x = "gk" /\ l = "gk_exp"
                \/ x = "kv" /\ l = "kv_read"
    BY WarpFacts DEF WaitMove, WaitU, WaitWH, WaitGk, WaitKV, BeginStore
  <1>4. /\ \A p \in Warps : p # q => Stays(p)
        /\ pc'[q] = l /\ unit'[q] = unit[q] /\ chunk'[q] = chunk[q]
    BY <1>1, <1>3, Moves
  <1>5. TileHolds' /\ PartHolds' /\ GateOrder' /\ GateHolds'
    <2>1. ASSUME UseGk, NEW w \in CCs
          PROVE  Scaled(w)' = Scaled(w) /\ Synced(w)' = Synced(w)
      <3>1. \/ Stays(w)
            \/ /\ pc[w] \notin {"gk_sync", "gk_read"}
               /\ pc'[w] \notin {"gk_sync", "gk_read"}
        BY <1>1, <1>2, <1>3, <1>4
      <3> QED BY <1>1, <2>1, <3>1, GateSame
    <2>2. \A y \in {"state", "hout", "vnew", "vst"} : q \in CCs => y \notin {x}
      BY <1>3
    <2> QED BY <1>1, <1>2, <2>1, <2>2, HoldMem
  <1>6. ASSUME NEW w \in CCs PROVE RegsOf(w)'
    <2>1. RegsOf(w)
      BY DEF Hold, Regs
    <2>2. CASE w # q
      BY <1>1, <1>2, <1>4, <2>1, <2>2, RegsKept
    <2>3. CASE w = q
      <3>1. Tag(q)' = Tag(q)
        BY <1>4 DEF Tag
      <3> QED BY <1>2, <1>3, <1>4, <2>1, <2>3, <3>1 DEF RegsOf, InChunk
    <2> QED BY <2>2, <2>3
  <1> QED BY <1>5, <1>6 DEF Hold, Regs

LEMMA HoldRead ==
    ASSUME Core, Shape, Hold, NEW x, NEW q, ReadMove(x, q)
    PROVE  Hold'
  <1>1. /\ Steps(q, {}, {x}) /\ Ctl /\ q \in Warps /\ q # "mma" /\ q # "load"
        /\ \A w \in CCs : w \in Warps
        /\ q \in Takers(x) /\ pc[q] = LastRead(x) /\ x \in Pipes
        /\ Turn(x, q) \in Nat
    <2>1. /\ Steps(q, {}, {x}) /\ q \in Takers(x) /\ pc[q] = LastRead(x) /\ x \in Pipes
          /\ Turn(x, q) \in Nat
      BY ReadMoves
    <2> QED BY <2>1, WarpFacts DEF Core, ReadMove
  <1>2. UNCHANGED <<mem, inflight, tcq>>
    BY WarpFacts DEF ReadMove, ReadH0, ReadU, ReadWH, DecayH, ReadKV, EndRead,
                     StoreHOut, StoreVNew
  <1>3. /\ \A p \in Warps : p # q => Stays(p)
        /\ q \in CCs =>
             \/ /\ x = "h0" /\ pc'[q] \in {"state", "final"}
                /\ unit'[q] = unit[q] /\ chunk'[q] = chunk[q]
             \/ /\ \/ x = "u" /\ pc'[q] = "wh"
                   \/ x = "wh" /\ pc'[q] = "vnew"
                   \/ x = "gk" /\ pc'[q] = "kv"
                /\ unit'[q] = unit[q] /\ chunk'[q] = chunk[q]
             \/ /\ x = "kv" /\ pc'[q] \in {"state", "final"}
                /\ unit'[q] = unit[q] /\ chunk'[q] = chunk[q] + 1
    <2>1. CASE q = "store"
      <3>1. (\E l : Goto("store", l)) \/ NextChunk("store")
        BY <2>1, WarpFacts DEF ReadMove, StoreHOut, StoreVNew
      <3> QED BY <1>1, <2>1, <3>1, Moves, WarpFacts
    <2>2. CASE q \in CCs
      <3>1. \A u, c : ChunkLabel(q, u, c) \in {"state", "final"}
        BY <2>2, WarpFacts DEF ChunkLabel
      <3>2. \/ x = "h0" /\ Goto(q, ChunkLabel(q, unit[q], 0))
            \/ x = "u" /\ Goto(q, "wh")
            \/ x = "wh" /\ Goto(q, "vnew")
            \/ x = "gk" /\ Goto(q, "kv")
            \/ x = "kv" /\ NextChunk(q)
        BY <2>2, WarpFacts DEF ReadMove, ReadH0, ReadU, ReadWH, DecayH, ReadKV
      <3> QED BY <1>1, <3>1, <3>2, Moves
    <2> QED BY <2>1, <2>2 DEF ReadMove
  <1>4. TileHolds' /\ PartHolds' /\ GateOrder' /\ GateHolds'
    <2>1. ASSUME UseGk, NEW w \in CCs
          PROVE  Scaled(w)' = Scaled(w) /\ Synced(w)' = Synced(w)
      <3>1. "gk" \in Pipes /\ Handles(w, "gk") /\ Done("gk", w) \in Nat
        BY <1>1, <2>1, CountsNat DEF Pipes, Tiles, Handles, Used
      <3>2. Done("gk", w)' = Done("gk", w) + One(w = q /\ x = "gk")
        BY <1>1, <3>1 DEF Steps, One
      <3>3. CASE w # q
        BY <1>1, <1>3, <3>1, <3>2, <3>3 DEF Scaled, Synced, Stays, One
      <3>4. CASE w = q /\ x = "gk"
        <4>1. pc[w] = "gk_read" /\ pc'[w] = "kv"
          BY <1>1, <1>3, <3>4 DEF LastRead
        <4> QED BY <3>1, <3>2, <3>4, <4>1 DEF Scaled, Synced, One
      <3>5. CASE w = q /\ x # "gk"
        <4>1. pc[w] \notin {"gk_sync", "gk_read"} /\ pc'[w] \notin {"gk_sync", "gk_read"}
          BY <1>1, <1>3, <3>5 DEF LastRead
        <4> QED BY <3>1, <3>2, <3>5, <4>1 DEF Scaled, Synced, One
      <3> QED BY <3>3, <3>4, <3>5
    <2>2. \A y \in {"state", "hout", "vnew", "vst"} : q \in CCs => y \notin {x}
      BY <1>3
    <2> QED BY <1>1, <1>2, <2>1, <2>2, HoldMem
  <1>5. ASSUME NEW w \in CCs PROVE RegsOf(w)'
    <2>1. RegsOf(w)
      BY DEF Hold, Regs
    <2>2. CASE w # q
      <3>1. reg'[w] = reg[w]
        <4>1. CASE q = "store"
          BY <4>1, WarpFacts DEF ReadMove, StoreHOut, StoreVNew
        <4>2. CASE q \in CCs
          <5>1. \E r : reg' = [reg EXCEPT ![q] = r]
            BY <4>2, WarpFacts DEF ReadMove, ReadH0, ReadU, ReadWH, DecayH, ReadKV, EndRead
          <5> QED BY <2>2, <5>1 DEF Shape
        <4> QED BY <4>1, <4>2 DEF ReadMove
      <3> QED BY <1>1, <1>3, <2>1, <2>2, <3>1, RegsKept
    <2>3. CASE w = q
      <3>1. reg[q] \in [h : Values, decayed : BOOLEAN, u : Values, v : Values] /\ q \in CCs
        BY <2>3 DEF Shape
      <3>2. /\ x \in Tiles => tile[x][Stage(x, q)] = Tag(q)
            /\ x \in Parts => part[x][Stage(x, q)][q] = Tag(q)
        <4>1. pc[q] \in Inside(x)
          BY <1>1, <1>3, <3>1 DEF LastRead, Inside
        <4> QED BY <1>1, <3>1, <4>1, TileRead, PartRead DEF Hold
      <3>3. x # "kv" => Tag(q)' = Tag(q)
        BY <1>3, <3>1 DEF Tag
      <3>4. CASE x = "h0"
        <4>1. reg' = [reg EXCEPT ![q] = [reg[q] EXCEPT !.h = tile["h0"][Stage("h0", q)],
                                                       !.decayed = FALSE]]
          BY <3>1, <3>4, WarpFacts DEF ReadMove, ReadH0, EndRead
        <4>2. reg'[q].h = Tag(q) /\ reg'[q].decayed = FALSE
          BY <3>1, <3>2, <3>4, <4>1 DEF Shape, Tiles
        <4> QED BY <1>3, <2>3, <3>1, <3>3, <3>4, <4>2 DEF RegsOf, InChunk
      <3>5. CASE x = "u"
        <4>1. reg' = [reg EXCEPT ![q] = [reg[q] EXCEPT !.u = tile["u"][Stage("u", q)]]]
          BY <3>1, <3>5, WarpFacts DEF ReadMove, ReadU, EndRead
        <4>2. reg'[q].u = Tag(q) /\ reg'[q].h = reg[q].h /\ reg'[q].decayed = reg[q].decayed
          BY <3>1, <3>2, <3>5, <4>1 DEF Shape, Tiles
        <4>3. pc[q] = "u_read"
          BY <1>1, <3>5 DEF LastRead
        <4> QED BY <1>3, <2>1, <2>3, <3>1, <3>3, <3>5, <4>2, <4>3 DEF RegsOf, InChunk
      <3>6. CASE x = "wh"
        <4>1. reg' = [reg EXCEPT ![q] = [reg[q] EXCEPT !.v =
                        Combine(reg[q].u, part["wh"][Stage("wh", q)][q])]]
          BY <3>1, <3>6, WarpFacts DEF ReadMove, ReadWH, EndRead
        <4>2. pc[q] = "wh_read"
          BY <1>1, <3>6 DEF LastRead
        <4>3. Combine(reg[q].u, part["wh"][Stage("wh", q)][q]) = Tag(q)
          BY <2>1, <2>3, <3>2, <3>6, <4>2 DEF RegsOf, Combine, Parts
        <4>4. reg'[q].v = Tag(q) /\ reg'[q].h = reg[q].h /\ reg'[q].decayed = reg[q].decayed
          BY <3>1, <4>1, <4>3 DEF Shape
        <4> QED BY <1>3, <2>1, <2>3, <3>1, <3>3, <3>6, <4>2, <4>4 DEF RegsOf, InChunk
      <3>7. CASE x = "gk"
        <4> DEFINE s == Stage("gk", q)
                   good == tile["gk"][s] = reg[q].h /\ scaled[s] = CCs /\ ~reg[q].decayed
        <4>1. reg' = [reg EXCEPT ![q] =
                 [reg[q] EXCEPT !.h = IF good THEN @ ELSE Bad, !.decayed = TRUE]]
          BY <3>1, <3>7, WarpFacts DEF ReadMove, DecayH, EndRead
        <4>2. pc[q] = "gk_read"
          BY <1>1, <3>7 DEF LastRead
        <4>3. UseGk /\ scaled[s] = CCs
          BY <3>1, <4>2, GateRead DEF Hold
        <4>4. good
          <5>1. reg[q].h = Tag(q) /\ ~reg[q].decayed
            BY <2>1, <2>3, <4>2 DEF RegsOf, InChunk
          <5> QED BY <3>2, <3>7, <4>3, <5>1 DEF Tiles
        <4> HIDE DEF good
        <4>5. reg'[q].h = reg[q].h /\ reg'[q].decayed = TRUE
          BY <3>1, <4>1, <4>4 DEF Shape
        <4> QED BY <1>3, <2>1, <2>3, <3>1, <3>3, <3>7, <4>2, <4>3, <4>5 DEF RegsOf, InChunk
      <3>8. CASE x = "kv"
        <4> DEFINE good == /\ reg[q].h = part["kv"][Stage("kv", q)][q]
                           /\ reg[q].h = Tag(q)
                           /\ reg[q].decayed = UseGk
        <4>1. reg' = [reg EXCEPT ![q] =
                 [reg[q] EXCEPT !.h = IF good THEN <<unit[q], chunk[q] + 1>> ELSE Bad,
                                !.decayed = FALSE]]
          BY <3>1, <3>8, WarpFacts DEF ReadMove, ReadKV, EndRead
        <4>2. pc[q] = "kv_read"
          BY <1>1, <3>8 DEF LastRead
        <4>3. reg[q].h = Tag(q) /\ (reg[q].decayed <=> UseGk)
          BY <2>1, <2>3, <4>2 DEF RegsOf, InChunk
        <4>4. reg[q].decayed = UseGk
          BY <3>1, <4>3, FlagsAssumption
        <4>5. good
          BY <3>2, <3>8, <4>3, <4>4 DEF Parts
        <4> HIDE DEF good
        <4>6. reg'[q].h = <<unit[q], chunk[q] + 1>> /\ reg'[q].decayed = FALSE
          BY <3>1, <4>1, <4>5 DEF Shape
        <4>7. Tag(q)' = <<unit[q], chunk[q] + 1>>
          BY <1>3, <3>1, <3>8 DEF Tag
        <4> QED BY <1>3, <2>3, <3>1, <3>8, <4>6, <4>7 DEF RegsOf, InChunk
      <3> QED BY <1>3, <3>1, <3>4, <3>5, <3>6, <3>7, <3>8
    <2> QED BY <2>2, <2>3
  <1> QED BY <1>4, <1>5 DEF Hold, Regs

LEMMA HoldPublish ==
    ASSUME Core, Shape, Hold, NEW x, NEW w \in CCs, PublishMove(x, w)
    PROVE  Hold'
  <1> DEFINE S == Stages[x]
             n == Turn(x, w)
             s0 == n % S
  <1>1. /\ Steps(w, {x}, {x}) /\ x \in {"state", "hout", "vnew", "vst"} /\ Used(x)
        /\ pc[w] = x /\ AtChunk(w, x) /\ n \in Nat /\ Begun(x, w) = n /\ Done(x, w) = n
    BY PublishMoves
  <1>2. /\ Ctl /\ w \in Warps /\ w # "mma" /\ w # "load" /\ \A v \in CCs : v \in Warps
        /\ x \in Parts /\ x \in Pipes
    BY <1>1, WarpFacts DEF Core, Parts, Pipes
  <1>3. S \in Nat \ {0} /\ s0 \in StageIds(x)
    BY <1>1, <1>2, PartFacts, UsesOwn
  <1>4. PICK l :
           /\ Goto(w, l)
           /\ \/ x = "state" /\ l = "hout"
              \/ x = "hout" /\ l = "u"
              \/ x = "vnew" /\ l = "vst"
              \/ x \in {"vnew", "vst"} /\ l = IF UseGk THEN "gk" ELSE "kv"
    BY DEF PublishMove, PublishState, PublishHOut, PublishVNew, PublishVStore, AfterVNew
  <1>5. /\ \A p \in Warps : p # w => Stays(p)
        /\ pc'[w] = l /\ unit'[w] = unit[w] /\ chunk'[w] = chunk[w]
    BY <1>2, <1>4, Moves
  <1>6. UNCHANGED <<tile, scaled, reg, inflight, tcq>>
    BY DEF PublishMove, PublishState, PublishHOut, PublishVNew, PublishVStore, Publish
  <1>7. part' = [part EXCEPT ![x][s0][w] = Tag(w)]
    <2>1. RegsOf(w)
      BY DEF Hold, Regs
    <2>2. x \in {"state", "hout"} => reg[w].h = Tag(w)
      BY <1>1, <2>1 DEF RegsOf, InChunk
    <2>3. x \in {"vnew", "vst"} => reg[w].v = Tag(w)
      BY <1>1, <2>1 DEF RegsOf
    <2>4. \/ x \in {"state", "hout"} /\ Publish(x, w, reg[w].h)
          \/ x \in {"vnew", "vst"} /\ Publish(x, w, reg[w].v)
      BY DEF PublishMove, PublishState, PublishHOut, PublishVNew, PublishVStore
    <2>5. part' = [part EXCEPT ![x][Stage(x, w)][w] = Tag(w)]
      BY <2>2, <2>3, <2>4 DEF Publish
    <2>6. Stage(x, w) = s0
      BY DEF Stage, StageOf
    <2> HIDE DEF s0
    <2> QED BY <2>5, <2>6
  <1>8. Named(x, Tag(w), n)
    BY <1>1, <1>2, OwnName
  <1>9. Begun(x, w)' = n + 1 /\ Done(x, w)' = n + 1
    <2>1. Handles(w, x)
      BY <1>1, <1>2 DEF Handles
    <2> QED BY <1>1, <1>2, <2>1 DEF Steps, One
  <1>10. PartHolds'
    <2> HIDE DEF n, S, s0
    <2>1. ASSUME NEW y \in Parts, NEW v \in CCs, NEW t \in Nat, Used(y),
                 t < Made(y, v)', Begun(y, Maker(y, v))' <= t + Stages[y]
          PROVE  Named(y, part'[y][t % Stages[y]][v], t)
      <3>1. CASE y = x /\ v = w
        <4>1. t < n + 1 /\ n + 1 <= t + S
          BY <1>1, <1>9, <2>1, <3>1 DEF Made, Maker, S
        <4>2. CASE t = n
          <5>1. part'[x][s0][w] = Tag(w)
            BY <1>2, <1>3, <1>7 DEF Shape
          <5> QED BY <1>8, <3>1, <4>2, <5>1 DEF s0, S
        <4>3. CASE t # n
          <5>1. t < n /\ n < t + S /\ t < n + S
            BY <1>1, <1>3, <4>1, <4>3
          <5>2. t % S # s0
            BY <1>1, <1>3, <4>3, <5>1, WindowUnique DEF s0
          <5>3. part'[x][t % S] = part[x][t % S]
            BY <1>7, <5>2
          <5>4. t < Made(y, v) /\ Begun(y, Maker(y, v)) <= t + Stages[y]
            <6>1. Made(y, v) = n /\ Begun(y, Maker(y, v)) = n /\ Stages[y] = S
              BY <1>1, <3>1 DEF Made, Maker, S
            <6> QED BY <1>1, <1>3, <5>1, <6>1
          <5> QED BY <2>1, <3>1, <5>3, <5>4 DEF Hold, PartHolds, S
        <4> QED BY <4>2, <4>3
      <3>2. CASE ~(y = x /\ v = w)
        <4>1. part'[y][t % Stages[y]][v] = part[y][t % Stages[y]][v]
          <5>1. t % Stages[y] \in StageIds(y)
            <6>1. y \in Pipes
              BY DEF Pipes
            <6> QED BY <6>1, PartFacts, UsesOwn
          <5> QED BY <1>2, <1>3, <1>7, <3>2, <5>1 DEF Shape
        <4>2. Made(y, v)' = Made(y, v) /\ Begun(y, Maker(y, v))' = Begun(y, Maker(y, v))
          <5>1. (y \notin {x} /\ y \notin {x}) \/ w # Maker(y, v)
            BY <1>1, <3>2 DEF Maker
          <5> QED BY <1>1, <1>2, <1>6, <2>1, <5>1, MadeSame
        <4> QED BY <2>1, <4>1, <4>2 DEF Hold, PartHolds
      <3> QED BY <3>1, <3>2
    <2> QED BY <2>1 DEF PartHolds, Maker
  <1>11. TileHolds' /\ \A y \in Tiles, t \in Nat : Loaded(y, t)' <=> Loaded(y, t)
    BY <1>1, <1>2, <1>6, TileKept DEF Hold
  <1>12. GateOrder' /\ GateHolds'
    <2>1. ASSUME UseGk, NEW v \in CCs
          PROVE  Scaled(v)' = Scaled(v) /\ Synced(v)' = Synced(v)
      <3>1. \/ Stays(v)
            \/ /\ pc[v] \notin {"gk_sync", "gk_read"}
               /\ pc'[v] \notin {"gk_sync", "gk_read"}
        BY <1>1, <1>2, <1>4, <1>5
      <3>2. "gk" \notin {x}
        BY <1>1
      <3> QED BY <1>1, <1>2, <2>1, <3>1, <3>2, GateSame
    <2> QED BY <1>6, <1>11, <2>1, GateKept DEF Hold, Tiles
  <1>13. ASSUME NEW v \in CCs PROVE RegsOf(v)'
    <2>1. RegsOf(v)
      BY DEF Hold, Regs
    <2>2. CASE v # w
      BY <1>2, <1>5, <1>6, <2>1, <2>2, RegsKept
    <2>3. CASE v = w
      <3>1. Tag(w)' = Tag(w)
        BY <1>5 DEF Tag
      <3>2. UseGk \in BOOLEAN
        BY FlagsAssumption
      <3> QED BY <1>1, <1>4, <1>5, <1>6, <2>1, <2>3, <3>1, <3>2 DEF RegsOf, InChunk
    <2> QED BY <2>2, <2>3
  <1> QED BY <1>10, <1>11, <1>12, <1>13 DEF Hold, Regs

LEMMA HoldStill ==
    ASSUME Core, Shape, Hold, NEW p, StillMove(p)
    PROVE  Hold'
  <1>1. /\ Steps(p, {}, {}) /\ p \in Warps /\ Ctl /\ UNCHANGED <<inflight, tcq>>
        /\ \A w \in CCs : w \in Warps
    BY StillMoves, WarpFacts DEF Core
  <1>2. \A x \in Tiles, t \in Nat : Loaded(x, t)' <=> Loaded(x, t)
    BY <1>1, TileKept
  <1>3. ASSUME part' = part PROVE PartHolds'
    <2>1. ASSUME NEW x \in Parts, NEW w \in CCs, Used(x)
          PROVE  Made(x, w)' = Made(x, w) /\ Begun(x, Maker(x, w))' = Begun(x, Maker(x, w))
      <3>1. x \in Pipes /\ Maker(x, w) \in Warps /\ Handles(Maker(x, w), x)
        BY <2>1, WarpFacts DEF Pipes, Parts, Tiles, Maker, Handles, Used
      <3>2. /\ Done(x, Maker(x, w))' = Done(x, Maker(x, w))
            /\ Begun(x, Maker(x, w))' = Begun(x, Maker(x, w))
        BY <1>1, <3>1, CountsSame
      <3> QED BY <1>1, <3>2 DEF Made, Maker, Computed
    <2> QED BY <1>3, <2>1, PartKept DEF Hold
  <1>4. TileHolds' \/ tile' # tile
    BY <1>1, TileKept DEF Hold
  <1>5. ASSUME UNCHANGED mem, reg' = reg \/ p \in CCs,
               \A q \in Warps : q # p => Stays(q),
               p \in CCs => /\ pc[p] \notin {"gk_sync", "gk_read"}
                            /\ pc'[p] \notin {"gk_sync", "gk_read"}
                            /\ RegsOf(p)'
                            /\ \A w \in CCs : w # p => reg'[w] = reg[w]
        PROVE  Hold'
    <2>1. tile' = tile /\ scaled' = scaled /\ part' = part
      BY <1>5 DEF mem
    <2>2. UseGk => \A w \in CCs : Scaled(w)' = Scaled(w) /\ Synced(w)' = Synced(w)
      BY <1>1, <1>5, GateSame
    <2>3. GateOrder' /\ GateHolds'
      BY <1>2, <2>1, <2>2, GateKept DEF Hold, Tiles
    <2>4. Regs'
      BY <1>1, <1>5, RegsKept DEF Hold, Regs
    <2> QED BY <1>3, <1>4, <2>1, <2>3, <2>4 DEF Hold
  <1>6. CASE p \in Warps /\ NextUnit(p)
    <2>1. pc[p] = "end" /\ UNCHANGED mem /\ reg' = reg
      BY <1>6 DEF NextUnit
    <2>2. pc'[p] = UnitLabel(p, unit[p] + 1) /\ \A q \in Warps : q # p => Stays(q)
      BY <1>1, <1>6, Moves
    <2>3. p \in CCs => pc'[p] \in {"exit", "h0"}
      BY <2>2, WarpFacts DEF UnitLabel
    <2>4. p \in CCs => RegsOf(p)'
      BY <2>3 DEF RegsOf, InChunk
    <2> QED BY <1>5, <2>1, <2>2, <2>3, <2>4
  <1>7. CASE p \in CCs /\ StoreFinal(p)
    <2>1. pc[p] = "final" /\ UNCHANGED mem /\ reg' = reg /\ Goto(p, "end")
      BY <1>7 DEF StoreFinal
    <2>2. pc'[p] = "end" /\ \A q \in Warps : q # p => Stays(q)
      BY <1>1, <2>1, Moves
    <2>3. RegsOf(p)'
      BY <2>2 DEF RegsOf, InChunk
    <2> QED BY <1>5, <2>1, <2>2, <2>3
  <1>8. CASE p \in CCs /\ ~UseInitialState /\ InitState(p)
    <2>1. /\ pc[p] = "h0" /\ UNCHANGED mem /\ Goto(p, ChunkLabel(p, unit[p], 0))
          /\ reg' = [reg EXCEPT ![p].h = Tag(p), ![p].decayed = FALSE]
      BY <1>8 DEF InitState
    <2>2. /\ pc'[p] = ChunkLabel(p, unit[p], 0) /\ unit'[p] = unit[p]
          /\ chunk'[p] = chunk[p] /\ \A q \in Warps : q # p => Stays(q)
      BY <1>1, <2>1, Moves
    <2>3. pc'[p] \in {"state", "final"}
      BY <1>8, <2>2, WarpFacts DEF ChunkLabel
    <2>4. /\ reg'[p].h = Tag(p) /\ reg'[p].decayed = FALSE
          /\ \A w \in CCs : w # p => reg'[w] = reg[w]
      BY <1>8, <2>1 DEF Shape
    <2>5. Tag(p)' = Tag(p)
      BY <2>2 DEF Tag
    <2>6. RegsOf(p)'
      BY <2>3, <2>4, <2>5 DEF RegsOf, InChunk
    <2> QED BY <1>5, <1>8, <2>1, <2>2, <2>3, <2>4, <2>6
  <1>9. CASE p \in CCs /\ SyncGk
    <2>1. /\ \A w \in CCs : pc[w] = "gk_sync" /\ pc'[w] = "gk_read"
          /\ unit' = unit /\ chunk' = chunk /\ tile' = tile /\ scaled' = scaled
          /\ part' = part /\ reg' = reg
      BY <1>1, <1>9 DEF SyncGk, mem
    <2>2. ASSUME UseGk, NEW w \in CCs
          PROVE  /\ Scaled(w)' = Scaled(w) /\ Synced(w)' = Turn("gk", w) + 1
                 /\ Synced(w) = Turn("gk", w)
                 /\ Scaled(w) = Turn("gk", w) + 1 /\ Turn("gk", w) \in Nat
      <3>1. "gk" \in Pipes /\ Handles(w, "gk") /\ w \in Warps
        BY <1>1, <2>2 DEF Pipes, Tiles, Handles, Used
      <3>2. Done("gk", w)' = Done("gk", w)
        BY <1>1, <3>1, CountsSame
      <3>3. Turn("gk", w) \in Nat /\ Done("gk", w) = Turn("gk", w)
        BY <1>1, <2>1, <3>1, InTurn DEF Inside
      <3> QED BY <2>1, <3>2, <3>3 DEF Scaled, Synced, One
    <2>3. GateOrder'
      <3>1. ASSUME UseGk, NEW w \in CCs, NEW v \in CCs PROVE Synced(w)' = Synced(v)'
        <4>1. Turn("gk", w) = Turn("gk", v)
          BY <2>2, <3>1 DEF Hold, GateOrder
        <4> QED BY <2>2, <3>1, <4>1
      <3> QED BY <3>1 DEF GateOrder
    <2>4. GateHolds'
      <3>1. ASSUME NEW t \in Nat, Loaded("gk", t)'
            PROVE  scaled'[t % Stages["gk"]] = {w \in CCs : Scaled(w)' > t}
        <4>1. UseGk /\ Loaded("gk", t)
          BY <1>2, <3>1 DEF Loaded, Used, Tiles
        <4> QED BY <2>1, <2>2, <4>1 DEF Hold, GateHolds
      <3> QED BY <3>1 DEF GateHolds
    <2>5. ASSUME NEW w \in CCs PROVE RegsOf(w)'
      <3>1. RegsOf(w) /\ Tag(w)' = Tag(w)
        BY <2>1 DEF Hold, Regs, Tag
      <3> QED BY <2>1, <3>1 DEF RegsOf, InChunk
    <2> QED BY <1>3, <1>4, <2>1, <2>3, <2>4, <2>5 DEF Hold, Regs
  <1>10. CASE p \in CCs /\ ScaleGk(p)
    <2> DEFINE n == Turn("gk", p)
               S == Stages["gk"]
    <2>1. /\ pc[p] = "gk_exp" /\ Goto(p, "gk_sync") /\ tile' = tile /\ part' = part
          /\ reg' = reg /\ "gk" \in Pipes /\ "gk" \in Tiles
      BY <1>10 DEF ScaleGk, Pipes, Tiles
    <2>2. /\ pc'[p] = "gk_sync" /\ unit'[p] = unit[p] /\ chunk'[p] = chunk[p]
          /\ \A q \in Warps : q # p => Stays(q)
      BY <1>1, <2>1, Moves
    <2>3. n \in Nat /\ Done("gk", p) = n /\ Begun("gk", p) = n + 1
      BY <1>1, <2>1, InTurn DEF Inside
    <2>4. UseGk
      BY <1>10, <2>1, GateRead DEF Hold
    <2>5. /\ Scaled(p) = n /\ Scaled(p)' = n + 1
          /\ Synced(p)' = Synced(p)
          /\ \A w \in CCs : w # p => Scaled(w)' = Scaled(w) /\ Synced(w)' = Synced(w)
      <3>1. ASSUME NEW w \in CCs PROVE Done("gk", w)' = Done("gk", w)
        <4>1. Handles(w, "gk")
          BY <2>1, <2>4 DEF Handles, Used, Tiles
        <4> QED BY <1>1, <2>1, <4>1, CountsSame
      <3> HIDE DEF n
      <3> QED BY <1>1, <1>10, <2>1, <2>2, <2>3, <3>1 DEF Scaled, Synced, One, Stays
    <2>6. GateOrder'
      <3>1. \A w \in CCs : Scaled(w) \in Nat /\ Synced(w) \in Nat
        BY <1>1, GateCounts
      <3> HIDE DEF n
      <3> QED BY <1>10, <2>3, <2>4, <2>5, <3>1 DEF Hold, GateOrder
    <2>7. S \in Nat \ {0} /\ n % S \in StageIds("gk")
      BY <2>1, <2>3, PartFacts, UsesOwn
    <2>8. scaled' = [scaled EXCEPT ![n % S] = @ \cup {p}]
      <3>1. Stage("gk", p) = n % S
        BY DEF Stage, StageOf
      <3> HIDE DEF n, S
      <3> QED BY <1>10, <3>1 DEF ScaleGk
    <2>9. Begun("gk", "load") <= n + S /\ n < Begun("gk", "load") /\ Begun("gk", "load") \in Nat
      <3>1. /\ p \in Takers("gk") /\ "load" \in Makers("gk") /\ p # "mma"
            /\ "load" # "mma" /\ "load" \in Warps /\ Used("gk")
        BY <1>10, <2>4, WarpFacts DEF Takers, Makers, Used
      <3>2. Entered("gk")[p] = n + 1 /\ Left("gk")[p] = n /\ Entered("gk")["load"] = Begun("gk", "load")
        BY <2>3, <3>1 DEF Entered, Left
      <3>3. PICK k \in Nat : k = n
        BY <2>3
      <3>4. k < Entered("gk")[p] /\ Left("gk")[p] <= k
        BY <3>2, <3>3
      <3> QED BY <1>1, <2>1, <3>1, <3>2, <3>3, <3>4, Held, CountsNat
    <2>10. GateHolds'
      <3> HIDE DEF n, S
      <3>1. ASSUME NEW t \in Nat, Loaded("gk", t)'
            PROVE  scaled'[t % S] = {w \in CCs : Scaled(w)' > t}
        <4>1. Loaded("gk", t) /\ scaled[t % S] = {w \in CCs : Scaled(w) > t}
          BY <1>2, <2>1, <3>1 DEF Hold, GateHolds, S
        <4>2. CASE t = n
          <5>1. scaled'[t % S] = scaled[t % S] \cup {p}
            BY <2>7, <2>8, <4>2 DEF Shape
          <5>2. {w \in CCs : Scaled(w)' > t} = {w \in CCs : Scaled(w) > t} \cup {p}
            BY <1>10, <2>3, <2>5, <4>2
          <5> QED BY <4>1, <5>1, <5>2
        <4>3. CASE t # n
          <5>1. t < n + S /\ n < t + S
            <6>1. t < Begun("gk", "load") /\ Begun("gk", "load") <= t + S
              BY <4>1 DEF Loaded, S
            <6> QED BY <2>3, <2>7, <2>9, <6>1
          <5>2. t % S # n % S
            BY <2>3, <2>7, <4>3, <5>1, WindowUnique
          <5>3. scaled'[t % S] = scaled[t % S]
            BY <2>8, <5>2
          <5>4. Scaled(p)' > t <=> Scaled(p) > t
            BY <2>3, <2>5, <4>3
          <5> QED BY <2>5, <4>1, <5>3, <5>4
        <4> QED BY <4>2, <4>3
      <3> QED BY <3>1 DEF GateHolds, S
    <2>11. ASSUME NEW w \in CCs PROVE RegsOf(w)'
      <3>1. RegsOf(w)
        BY DEF Hold, Regs
      <3>2. CASE w # p
        BY <1>1, <2>1, <2>2, <3>1, <3>2, RegsKept
      <3>3. CASE w = p
        <4>1. Tag(p)' = Tag(p)
          BY <2>2 DEF Tag
        <4> QED BY <2>1, <2>2, <3>1, <3>3, <4>1 DEF RegsOf, InChunk
      <3> QED BY <3>2, <3>3
    <2> QED BY <1>3, <1>4, <2>1, <2>6, <2>10, <2>11 DEF Hold, Regs
  <1> QED BY <1>6, <1>7, <1>8, <1>9, <1>10 DEF StillMove

LEMMA HoldInit ==
    ASSUME Init
    PROVE  Hold
  <1>1. Core /\ inflight = {} /\ tcq = <<>>
    BY CoreInit DEF Init
  <1>2. ASSUME NEW p \in Warps, NEW x \in Pipes, Handles(p, x)
        PROVE  Done(x, p) = 0 /\ Begun(x, p) = 0
    <2>1. /\ unit[p] = 1 /\ chunk[p] = 0 /\ pc[p] = UnitLabel(p, 1)
          /\ 1 \in 1 .. Len(Units) + 1
      BY UnitFacts DEF Init
    <2>2. TurnOf(x, 1, 0) = 0
      BY BeforeNext DEF TurnOf
    <2> QED BY <1>2, <2>1, <2>2, CountUnit DEF Done, Begun
  <1>3. \A w \in CCs : w \in Warps /\ pc[w] \in {"exit", "h0"}
    BY WarpFacts DEF Init, UnitLabel
  <1>4. \A x \in Tiles, t \in Nat : ~ Loaded(x, t)
    <2>1. ASSUME NEW x \in Tiles, NEW t \in Nat, Loaded(x, t) PROVE FALSE
      <3>1. x \in Pipes /\ Handles("load", x) /\ "load" \in Warps
        BY <2>1, WarpFacts DEF Handles, Pipes, Loaded
      <3>2. t < 0
        BY <1>2, <2>1, <3>1 DEF Loaded
      <3> QED BY <3>2
    <2> QED BY <2>1
  <1>5. TileHolds /\ GateHolds
    BY <1>4 DEF TileHolds, GateHolds, Tiles
  <1>6. PartHolds
    <2>1. ASSUME NEW x \in Parts, NEW w \in CCs, NEW t \in Nat, Used(x),
                 t < Made(x, w)
          PROVE  FALSE
      <3>1. x \in Pipes /\ Maker(x, w) \in Warps /\ Handles(Maker(x, w), x)
        BY <2>1, WarpFacts DEF Pipes, Parts, Tiles, Maker, Handles
      <3>2. Done(x, Maker(x, w)) = 0 /\ Begun(x, Maker(x, w)) = 0
        BY <1>2, <3>1
      <3>3. Made(x, w) = 0
        BY <1>1, <3>2 DEF Made, Maker, Computed, One
      <3> QED BY <2>1, <3>3
    <2> QED BY <2>1 DEF PartHolds
  <1>7. GateOrder
    <2>1. ASSUME UseGk, NEW w \in CCs PROVE Scaled(w) = 0 /\ Synced(w) = 0
      <3>1. "gk" \in Pipes /\ Handles(w, "gk")
        BY <2>1 DEF Pipes, Tiles, Handles, Used
      <3> QED BY <1>2, <1>3, <3>1 DEF Scaled, Synced, One
    <2> QED BY <2>1 DEF GateOrder
  <1>8. Regs
    BY <1>3 DEF Regs, RegsOf, InChunk
  <1> QED BY <1>5, <1>6, <1>7, <1>8 DEF Hold

LEMMA HoldNext ==
    ASSUME Core, Shape, Hold, [Next]_vars
    PROVE  Hold'
  <1>1. CASE LoadTile
    BY <1>1, HoldLoad
  <1>2. ASSUME NEW r \in inflight, TmaArrive(r) PROVE Hold'
    BY <1>2, HoldTma
  <1>3. ASSUME NEW acc, NEW a, NEW b, IssueMove(acc, a, b) PROVE Hold'
    BY <1>3, HoldIssue
  <1>4. CASE TensorCoreDone
    BY <1>4, HoldDone
  <1>5. ASSUME NEW x, NEW q, WaitMove(x, q) PROVE Hold'
    BY <1>5, HoldWait
  <1>6. ASSUME NEW x, NEW q, ReadMove(x, q) PROVE Hold'
    BY <1>6, HoldRead
  <1>7. ASSUME NEW x, NEW w \in CCs, PublishMove(x, w) PROVE Hold'
    BY <1>7, HoldPublish
  <1>8. ASSUME NEW p, StillMove(p) PROVE Hold'
    BY <1>8, HoldStill
  <1>9. CASE UNCHANGED vars
    <2>1. Ctl /\ "empty" \in Warps /\ "empty" # "mma" /\ "empty" # "load" /\ "empty" \notin CCs
      BY WarpFacts DEF Core
    <2>2. UNCHANGED <<mem, inflight, tcq>> /\ reg' = reg /\ UNCHANGED ctl /\ \A q : Stays(q)
      BY <1>9 DEF vars, ctl, Stays
    <2>3. Steps("empty", {}, {})
      BY <2>1, <2>2, StillStep
    <2>4. UseGk => \A w \in CCs : Scaled(w)' = Scaled(w) /\ Synced(w)' = Synced(w)
      BY <2>1, <2>2, <2>3, GateSame
    <2>5. TileHolds' /\ PartHolds' /\ GateOrder' /\ GateHolds'
      BY <2>1, <2>2, <2>3, <2>4, HoldMem
    <2>6. Regs'
      BY <2>2, RegsKept DEF Hold, Regs
    <2> QED BY <2>5, <2>6 DEF Hold
  <1>10. CASE Next
    BY <1>1, <1>2, <1>3, <1>4, <1>5, <1>6, <1>7, <1>8, <1>9, <1>10, NextMoves
  <1> QED BY <1>9, <1>10

LEMMA Holds == Spec => [](Core /\ Shape /\ Hold)
  <1>1. Init => Core /\ Shape /\ Hold
    BY CoreInit, ShapeInit, HoldInit
  <1>2. Core /\ Shape /\ Hold /\ [Next]_vars => Core' /\ Shape' /\ Hold'
    BY CoreNext, ShapeNext, HoldNext
  <1> QED BY <1>1, <1>2, PTL DEF Spec

\* From its wait to its release a stage is the reader's: a warp, a product and
\* a store find the data of their own unit and chunk, whatever the numbers of
\* stages, warps, units and chunks are.
THEOREM StagesHeldAlways == Spec => []StagesHeld
  <1>1. Core /\ Hold => StagesHeld
    BY HeldImpliesStages DEF Hold
  <1> QED BY <1>1, Holds, PTL

\* Past gk_precompute_bar the whole gk tile is exp2 of the gate, and no warp
\* scales its share of a tile twice.
THEOREM GatesScaledOnceAlways == Spec => []GatesScaledOnce
  <1>1. Core /\ Hold => GatesScaledOnce
    BY HeldImpliesGates DEF Hold
  <1> QED BY <1>1, Holds, PTL

-----------------------------------------------------------------------------
(***************************************************************************)
(* The end of the block.                                                   *)
(***************************************************************************)

\* Who has left its last unit has left every turn there is.
LEMMA ExitCounts ==
    ASSUME Ctl, AllExited, NEW p \in Warps, NEW x \in Pipes, Handles(p, x)
    PROVE  /\ Done(x, p) = TurnOf(x, Len(Units) + 1, 0)
           /\ Begun(x, p) = TurnOf(x, Len(Units) + 1, 0)
           /\ TurnOf(x, Len(Units) + 1, 0) \in Nat
  <1>1. Place(p, unit[p], chunk[p], pc[p]) /\ pc[p] = "exit"
    BY DEF Ctl, AllExited
  <1>2. ~ AtUnit(p, "exit") /\ ~ AtChunk(p, "exit") /\ ~ AtEnd(p, "exit")
    BY DEF AtUnit, AtChunk, AtEnd, InChunk
  <1>3. unit[p] = Len(Units) + 1 /\ chunk[p] = 0
    BY <1>1, <1>2 DEF Place
  <1>4. UnitLabel(p, Len(Units) + 1) = "exit"
    BY UnitFacts DEF UnitLabel
  <1>5. Len(Units) + 1 \in 1 .. Len(Units) + 1
    BY UnitFacts
  <1>6. /\ DoneAt(x, Len(Units) + 1, 0, "exit") = TurnOf(x, Len(Units) + 1, 0)
        /\ BegunAt(x, Len(Units) + 1, 0, "exit") = TurnOf(x, Len(Units) + 1, 0)
    BY <1>4, <1>5, CountUnit
  <1>7. 0 \in Nat
    OBVIOUS
  <1> QED BY <1>1, <1>3, <1>5, <1>6, <1>7, TurnType DEF Done, Begun

LEMMA ExitQueue ==
    ASSUME Core, AllExited
    PROVE  tcq = <<>>
  <1>1. SUFFICES ASSUME tcq # <<>> PROVE FALSE
    OBVIOUS
  <1>2. PICK t \in Nat, g \in {Head(tcq)} : Operands(g) /\ Begun(g.acc, "mma") = t + 1
    BY <1>1 DEF Core, Queue
  <1>3. PICK w \in CCs : TRUE
    BY CCsAssumption
  <1> DEFINE x == g.acc
  <1>4. /\ x \in {"wh", "kv"} /\ x \in Pipes /\ Used(x) /\ Via(x) = x
        /\ "mma" \in Makers(x) /\ w \in Takers(x) /\ w # "mma"
        /\ Handles("mma", x) /\ Handles(w, x) /\ w \in Warps /\ "mma" \in Warps
    BY <1>2, WarpFacts DEF Operands, Pipes, Tiles, Parts, Used, Via, Makers, Takers, Handles
  <1>5. Computed(x) = t
    BY <1>1, <1>2 DEF Computed, One
  <1> HIDE DEF x
  <1>6. Begun(x, w) = t + 1
    <2>1. Begun(x, w) = Begun(x, "mma")
      BY <1>4, ExitCounts DEF Core
    <2> QED BY <1>2, <2>1 DEF x
  <1>7. t < Entered(x)[w]
    BY <1>4, <1>6 DEF Entered
  <1>8. Uses(t + 1, Stages[x], t % Stages[x]) <= Filled(x)["mma"][t % Stages[x]]
    BY <1>4, <1>7, Flow
  <1>9. t < Computed(x)
    BY <1>4, <1>8, MadePast
  <1> QED BY <1>5, <1>9

LEMMA ExitTurns ==
    ASSUME Core, AllExited, NEW x \in Pipes, Used(x)
    PROVE  \E n \in Nat :
             /\ \A p \in Makers(x) \cup Takers(x) : Entered(x)[p] = n
             /\ \A q \in Takers(x) : Left(x)[q] = n
             /\ \A m \in Makers(x) :
                   /\ m = "mma" => Computed(Via(x)) = n
                   /\ m # "mma" => Done(x, m) = n /\ Begun(x, m) = n
  <1> DEFINE n == TurnOf(x, Len(Units) + 1, 0)
  <1>1. tcq = <<>> /\ Ctl
    BY ExitQueue DEF Core
  <1>2. ASSUME NEW p \in Makers(x) \cup Takers(x), p # "mma"
        PROVE  Done(x, p) = n /\ Begun(x, p) = n
    BY <1>1, <1>2, HandlesFacts, ExitCounts
  <1>3. ASSUME "mma" \in Makers(x) \cup Takers(x)
        PROVE  Begun(Via(x), "mma") = n /\ Computed(Via(x)) = n
    <2>1. Handles("mma", Via(x)) /\ Via(x) \in Pipes /\ "mma" \in Warps /\ Via(x) \in {"wh", "kv"}
      BY <1>3, HandlesFacts
    <2>2. x # "h0"
      BY <1>3, WarpFacts DEF Makers, Takers
    <2>3. TurnOf(Via(x), Len(Units) + 1, 0) = n
      BY <2>1, <2>2 DEF TurnOf
    <2>4. Begun(Via(x), "mma") = n /\ n \in Nat
      BY <1>1, <2>1, <2>3, ExitCounts
    <2> QED BY <1>1, <2>4 DEF Computed, One
  <1>4. n \in Nat
    <2>1. Len(Units) + 1 \in 1 .. Len(Units) + 1 /\ 0 \in Nat
      BY UnitFacts
    <2> QED BY <2>1, TurnType
  <1> HIDE DEF n
  <1>5. \A p \in Makers(x) \cup Takers(x) : Entered(x)[p] = n
    BY <1>2, <1>3 DEF Entered
  <1>6. \A q \in Takers(x) : Left(x)[q] = n
    BY <1>2, <1>3 DEF Left
  <1> QED BY <1>2, <1>3, <1>4, <1>5, <1>6

LEMMA ExitInflight ==
    ASSUME Core, AllExited
    PROVE  inflight = {}
  <1>1. SUFFICES ASSUME NEW r \in inflight PROVE FALSE
    OBVIOUS
  <1>2. PICK x \in Tiles, t \in Nat :
           /\ r = [pipe |-> x, stage |-> t % Stages[x], tag |-> r.tag]
           /\ Used(x) /\ t < Begun(x, "load") /\ Begun(x, "load") <= t + Stages[x]
    BY DEF Core, Inflight, Copy
  <1>3. Flying(x, t % Stages[x]) = 1
    <2>1. r.pipe = x /\ r.stage = t % Stages[x]
      BY <1>2
    <2> QED BY <2>1 DEF Flying, One
  <1>4. x \in Pipes /\ "load" \in Makers(x) /\ "load" # "mma"
    BY DEF Pipes, Tiles, Makers
  <1>5. PICK q \in Takers(x) : TRUE
    BY <1>4, PartFacts
  <1>6. Entered(x)[q] = Begun(x, "load")
    BY <1>2, <1>4, ExitTurns
  <1> QED BY <1>2, <1>3, <1>6, NotEntered

LEMMA ExitBarriers ==
    ASSUME Core, AllExited, NEW x \in Pipes, NEW s \in StageIds(x)
    PROVE  pipe[x].full[s].phase = pipe[x].empty[s].phase
  <1>1. CASE ~Used(x)
    <2>1. pipe[x] = PipeInit(Stages[x], Producers(x), Readers(x))
      BY <1>1 DEF Core, Ring
    <2> QED BY <2>1, PartFacts DEF PipeInit, MbarInit
  <1>2. CASE Used(x)
    <2>1. PICK n \in Nat :
             /\ \A p \in Makers(x) \cup Takers(x) : Entered(x)[p] = n
             /\ \A q \in Takers(x) : Left(x)[q] = n
             /\ \A m \in Makers(x) :
                   /\ m = "mma" => Computed(Via(x)) = n
                   /\ m # "mma" => Done(x, m) = n /\ Begun(x, m) = n
      BY <1>2, ExitTurns
    <2>2. \A m \in Makers(x) : Filled(x)[m][s] = Uses(n, Stages[x], s)
      <3>1. Flying(x, s) = 0
        BY ExitInflight DEF Flying, One
      <3>2. Uses(n, Stages[x], s) \in Nat
        BY PartFacts, UsesType
      <3> QED BY <2>1, <3>1, <3>2, WarpFacts DEF Filled
    <2> DEFINE fi == [m \in Makers(x) |-> Filled(x)[m][s]]
               be == [m \in Makers(x) |-> Uses(Entered(x)[m], Stages[x], s)]
               ta == [q \in Takers(x) |-> Uses(Left(x)[q], Stages[x], s)]
               wa == [q \in Takers(x) |-> Uses(Entered(x)[q], Stages[x], s)]
    <2>3. StageInv(pipe[x].full[s], pipe[x].empty[s], Makers(x), Takers(x), fi, be, ta, wa)
      BY <1>2, RingHolds DEF RingOK
    <2>4. /\ \A m \in Makers(x) : fi[m] = Uses(n, Stages[x], s)
          /\ \A q \in Takers(x) : ta[q] = Uses(n, Stages[x], s)
      BY <2>1, <2>2
    <2> HIDE DEF fi, be, ta, wa
    <2>5. \E m \in Makers(x) : fi[m] = pipe[x].full[s].phase
      BY <2>3, PartFacts, TallyMissing DEF StageInv
    <2>6. \E q \in Takers(x) : ta[q] = pipe[x].empty[s].phase
      BY <2>3, PartFacts, TallyMissing DEF StageInv
    <2> QED BY <2>4, <2>5, <2>6
  <1> QED BY <1>1, <1>2

\* When TMEM is freed nothing is outstanding: no copy, no product, no stage.
THEOREM DrainedAlways == Spec => []DrainedAtExit
  <1>1. Core => DrainedAtExit
    BY ExitQueue, ExitInflight, ExitBarriers DEF DrainedAtExit
  <1> QED BY <1>1, CoreAlways, PTL

-----------------------------------------------------------------------------
(***************************************************************************)
(* What is written.  Of unit u, Rows(u, x) tiles of the output that the    *)
(* Store warp takes from x, and the final state of the warps that have     *)
(* ended it.  With what the stages and registers hold, every step is one   *)
(* of the serial recurrence or writes nothing.                             *)
(***************************************************************************)
Rows(u, x) ==
    IF u < unit["store"] THEN Units[u]
    ELSE IF u = unit["store"] THEN chunk["store"] + One(pc["store"] \in Past(x))
    ELSE 0

Ended(u, w) == u < unit[w] \/ (u = unit[w] /\ pc[w] = "end")

Outs ==
    \A u \in DOMAIN Units :
        /\ Len(hOut[u]) = Rows(u, "hout")
        /\ SaveVNew => Len(vOut[u]) = Rows(u, "vst")
        /\ \A w \in CCs :
              /\ ~Ended(u, w) => hT[u][w] = <<>>
              /\ StoreFinalState /\ Ended(u, w) => hT[u][w] # <<>>

\* A step that writes nothing, of a warp that stays in its row or unit.
Quiet ==
    /\ UNCHANGED outs
    /\ unit'["store"] = unit["store"] /\ chunk'["store"] = chunk["store"]
    /\ \A x \in {"hout", "vst"} :
          pc'["store"] \in Past(x) <=> pc["store"] \in Past(x)
    /\ \A w \in CCs :
          unit'[w] = unit[w] /\ (pc'[w] = "end" <=> pc[w] = "end")

LEMMA QuietKeeps ==
    ASSUME Outs, Quiet
    PROVE  Outs' /\ UNCHANGED Serial!outs
  <1>1. \A u, x : x \in {"hout", "vst"} => Rows(u, x)' = Rows(u, x)
    BY DEF Quiet, Rows, One
  <1>2. \A u : \A w \in CCs : Ended(u, w)' <=> Ended(u, w)
    BY DEF Quiet, Ended
  <1>3. hOut' = hOut /\ vOut' = vOut /\ hT' = hT
    BY DEF Quiet, outs
  <1>4. Outs'
    BY <1>1, <1>2, <1>3 DEF Outs
  <1> QED BY <1>3, <1>4 DEF Serial!outs

\* The steps of the Load and MMA warps, of the TMA unit and the tensor cores.
LEMMA QuietUnits ==
    ASSUME Ctl,
           \/ LoadTile
           \/ \E r \in inflight : TmaArrive(r)
           \/ \E acc, a, b : IssueMove(acc, a, b)
           \/ TensorCoreDone
           \/ UNCHANGED vars
    PROVE  Quiet
  <1>1. /\ "load" \in Warps /\ "mma" \in Warps /\ "store" \in Warps
        /\ "load" # "store" /\ "mma" # "store"
        /\ \A w \in CCs : w \in Warps /\ w # "load" /\ w # "mma"
    BY WarpFacts
  <1>2. UNCHANGED outs
    BY DEF LoadTile, TmaArrive, IssueMove, IssueWH, IssueKV, IssueProduct,
           TensorCoreDone, vars
  <1>3. \A q \in Warps : q \notin {"load", "mma"} => Stays(q)
    <2>1. CASE LoadTile
      <3>1. NextChunk("load") \/ \E l : Goto("load", l)
        BY <2>1 DEF LoadTile
      <3> QED BY <1>1, <3>1, Moves
    <2>2. ASSUME NEW acc, NEW a, NEW b, IssueMove(acc, a, b)
          PROVE  \A q \in Warps : q \notin {"load", "mma"} => Stays(q)
      <3>1. NextChunk("mma") \/ \E l : Goto("mma", l)
        BY <2>2 DEF IssueMove, IssueWH, IssueKV
      <3> QED BY <1>1, <3>1, Moves
    <2>3. CASE (\E r \in inflight : TmaArrive(r)) \/ TensorCoreDone \/ UNCHANGED vars
      BY <2>3 DEF TmaArrive, TensorCoreDone, vars, ctl, Stays
    <2> QED BY <2>1, <2>2, <2>3
  <1> QED BY <1>1, <1>2, <1>3 DEF Quiet, Stays

\* The steps of the CUDA-core warps within a unit, and the Store warp's waits.
LEMMA QuietWarps ==
    ASSUME Ctl, NEW q,
           \/ \E x : WaitMove(x, q)
           \/ q \in CCs /\ \E x : ReadMove(x, q)
           \/ q \in CCs /\ \E x : PublishMove(x, q)
           \/ q \in CCs /\ (ScaleGk(q) \/ SyncGk \/ (~UseInitialState /\ InitState(q)))
    PROVE  Quiet
  <1>1. /\ "store" \in Warps /\ q \in Warps
        /\ \A w \in CCs : w \in Warps /\ w # "store"
    BY WarpFacts DEF WaitMove
  <1>2. UNCHANGED outs
    <2>1. ASSUME NEW x, WaitMove(x, q) PROVE UNCHANGED outs
      BY <2>1 DEF WaitMove, WaitU, WaitWH, WaitGk, WaitKV, BeginStore, BeginRead
    <2>2. ASSUME q \in CCs, NEW x, ReadMove(x, q) PROVE UNCHANGED outs
      BY <1>1, <2>2 DEF ReadMove, ReadH0, ReadU, ReadWH, DecayH, ReadKV, EndRead
    <2>3. ASSUME NEW x, PublishMove(x, q) PROVE UNCHANGED outs
      BY <2>3 DEF PublishMove, PublishState, PublishHOut, PublishVNew,
                  PublishVStore, Publish
    <2>4. ASSUME ScaleGk(q) \/ SyncGk \/ (~UseInitialState /\ InitState(q))
          PROVE  UNCHANGED outs
      BY <2>4 DEF ScaleGk, SyncGk, InitState
    <2> QED BY <2>1, <2>2, <2>3, <2>4
  <1>3. CASE q \notin CCs
    <2>1. PICK x \in {"hout", "vst"} : /\ q = "store" /\ pc[q] = x
                                       /\ Goto(q, IF x = "hout" THEN "hout_read" ELSE "vst_read")
      BY <1>3 DEF WaitMove, BeginStore, BeginRead
    <2>2. /\ \A p \in Warps : p # q => Stays(p)
          /\ pc'[q] = IF x = "hout" THEN "hout_read" ELSE "vst_read"
          /\ unit'[q] = unit[q] /\ chunk'[q] = chunk[q]
      BY <1>1, <2>1, Moves
    <2> QED BY <1>1, <1>2, <2>1, <2>2 DEF Quiet, Stays, Past, InChunk
  <1>4. CASE q \in CCs /\ SyncGk
    BY <1>1, <1>2, <1>4 DEF SyncGk, Quiet
  <1>5. CASE q \in CCs /\ ~SyncGk
    <2>1. pc[q] # "end"
      BY <1>1, <1>5 DEF WaitMove, WaitU, WaitWH, WaitGk, WaitKV, BeginRead,
           ReadMove, ReadH0, ReadU, ReadWH, DecayH, ReadKV, EndRead,
           PublishMove, PublishState, PublishHOut, PublishVNew, PublishVStore,
           Publish, ScaleGk, InitState
    <2>2. NextChunk(q) \/ \E l : l # "end" /\ Goto(q, l)
      <3>1. ChunkLabel(q, unit[q], 0) # "end" /\ AfterVNew # "end"
        BY <1>5, WarpFacts DEF ChunkLabel, AfterVNew
      <3>2. ASSUME NEW x, WaitMove(x, q) PROVE \E l : l # "end" /\ Goto(q, l)
        BY <1>1, <1>5, <3>2 DEF WaitMove, WaitU, WaitWH, WaitGk, WaitKV
      <3>3. ASSUME NEW x, ReadMove(x, q) PROVE NextChunk(q) \/ \E l : l # "end" /\ Goto(q, l)
        BY <1>1, <1>5, <3>1, <3>3 DEF ReadMove, ReadH0, ReadU, ReadWH, DecayH, ReadKV
      <3>4. ASSUME NEW x, PublishMove(x, q) PROVE \E l : l # "end" /\ Goto(q, l)
        BY <3>1, <3>4 DEF PublishMove, PublishState, PublishHOut, PublishVNew, PublishVStore
      <3>5. ASSUME ScaleGk(q) \/ (~UseInitialState /\ InitState(q))
            PROVE  \E l : l # "end" /\ Goto(q, l)
        BY <3>1, <3>5 DEF ScaleGk, InitState
      <3> QED BY <1>5, <3>2, <3>3, <3>4, <3>5
    <2>3. ChunkLabel(q, unit[q], chunk[q] + 1) # "end"
      BY <1>5, WarpFacts DEF ChunkLabel
    <2>4. /\ \A p \in Warps : p # q => Stays(p)
          /\ unit'[q] = unit[q] /\ pc'[q] # "end"
      BY <1>1, <2>2, <2>3, Moves
    <2> QED BY <1>1, <1>2, <1>5, <2>1, <2>4 DEF Quiet, Stays
  <1> QED BY <1>3, <1>4, <1>5

\* The scheduler: a warp that leaves its unit has written all of it.
LEMMA OutsUnit ==
    ASSUME Core, Outs, NEW p \in Warps, NextUnit(p)
    PROVE  Outs' /\ UNCHANGED Serial!outs
  <1>1. /\ Ctl /\ "store" \in Warps /\ \A w \in CCs : w \in Warps /\ w # "store"
        /\ pc[p] = "end" /\ Place(p, unit[p], chunk[p], "end")
    BY WarpFacts DEF Core, Ctl, NextUnit
  <1>2. /\ unit[p] \in 1 .. Len(Units) /\ Units[unit[p]] \in Nat
        /\ chunk[p] = IF p = "empty" THEN 0 ELSE Units[unit[p]]
    BY <1>1, PlaceAfter, UnitFacts
  <1>3. /\ \A q \in Warps : q # p => Stays(q)
        /\ pc'[p] = UnitLabel(p, unit[p] + 1)
        /\ unit'[p] = unit[p] + 1 /\ chunk'[p] = 0
    BY <1>1, Moves
  <1>4. hOut' = hOut /\ vOut' = vOut /\ hT' = hT
    BY DEF NextUnit, outs
  <1>5. ASSUME NEW u \in DOMAIN Units, NEW x \in {"hout", "vst"}
        PROVE  Rows(u, x)' = Rows(u, x)
    <2>1. CASE p # "store"
      BY <1>1, <1>3, <2>1 DEF Rows, Stays
    <2>2. CASE p = "store"
      <3>1. pc'[p] \in {"hout", "end", "exit"}
        BY <1>3, <2>2, WarpFacts DEF UnitLabel, ChunkLabel
      <3>2. pc'[p] \notin Past(x) /\ pc[p] \notin Past(x)
        BY <1>1, <3>1 DEF Past, InChunk
      <3>3. p # "empty" /\ u \in Nat
        BY <2>2, UnitFacts
      <3> QED BY <1>2, <1>3, <2>2, <3>2, <3>3 DEF Rows, One
    <2> QED BY <2>1, <2>2
  <1>6. ASSUME NEW u \in DOMAIN Units, NEW w \in CCs
        PROVE  Ended(u, w)' <=> Ended(u, w)
    <2>1. CASE p # w
      BY <1>1, <1>3, <2>1 DEF Ended, Stays
    <2>2. CASE p = w
      <3>1. pc'[p] # "end"
        BY <1>3, <2>2, WarpFacts DEF UnitLabel
      <3> QED BY <1>1, <1>2, <1>3, <2>2, <3>1, UnitFacts DEF Ended
    <2> QED BY <2>1, <2>2
  <1>7. Outs'
    BY <1>4, <1>5, <1>6 DEF Outs
  <1> QED BY <1>4, <1>7 DEF Serial!outs

\* A tile whose parts are all of the Store warp's chunk is that chunk's.
LEMMA WholeRead ==
    ASSUME Core, Hold, NEW x \in {"hout", "vst"}, pc["store"] \in Inside(x)
    PROVE  Whole(x, Stage(x, "store")) = Tag("store")
  <1> DEFINE tags == {part[x][Stage(x, "store")][w] : w \in CCs}
  <1>1. x \in Parts /\ "store" \in Takers(x)
    BY WarpFacts DEF Parts, Takers
  <1>2. \A w \in CCs : part[x][Stage(x, "store")][w] = Tag("store")
    BY <1>1, PartRead DEF Hold
  <1>3. tags = {Tag("store")}
    BY <1>2, CCsAssumption
  <1>4. Cardinality(tags) = 1
    BY <1>3, FS_Singleton
  <1>5. (CHOOSE t \in tags : TRUE) = Tag("store")
    BY <1>3
  <1> QED BY <1>4, <1>5 DEF Whole

LEMMA OutsStore ==
    ASSUME Core, Shape, Hold, Outs, StoreHOut \/ StoreVNew
    PROVE  Outs' /\ Serial!Next
  <1> DEFINE p == "store"
             u == unit[p]
             c == chunk[p]
  <1>1. /\ Ctl /\ p \in Warps /\ \A w \in CCs : w \in Warps /\ w # p
    BY WarpFacts DEF Core
  <1>2. pc[p] \in {"hout_read", "vst_read"}
    BY DEF StoreHOut, StoreVNew
  <1>3. /\ AtChunk(p, pc[p]) /\ u \in DOMAIN Units /\ c \in Nat /\ c < Units[u]
        /\ u \in Nat /\ \A v \in DOMAIN Units : v \in Nat
    BY <1>1, <1>2, Standing, UnitFacts
  <1>4. /\ hOut \in [DOMAIN Units -> Seq(Values)]
        /\ vOut \in [DOMAIN Units -> Seq(Values)] /\ hT' = hT
    BY DEF Shape, StoreHOut, StoreVNew
  <1>5. CASE StoreHOut
    <2>1. /\ pc[p] = "hout_read" /\ vOut' = vOut
          /\ hOut' = [hOut EXCEPT ![u] = Append(@, Tag(p))]
          /\ IF SaveVNew THEN Goto(p, "vst") ELSE NextChunk(p)
      BY <1>5, WholeRead DEF StoreHOut, Inside
    <2>2. Rows(u, "hout") = c /\ Rows(u, "vst") = c
      BY <1>3, <2>1 DEF Rows, One, Past, InChunk
    <2>3. Len(hOut[u]) = c /\ (SaveVNew => Len(vOut[u]) = c)
      BY <1>3, <2>2 DEF Outs
    <2>4. Serial!StoreH(u)
      <3>1. hOut' = [hOut EXCEPT ![u] = Append(@, <<u, Len(hOut[u])>>)]
        BY <2>1, <2>3 DEF Tag
      <3> QED BY <1>3, <1>4, <2>1, <2>3, <3>1 DEF Serial!StoreH
    <2>5. /\ \A q \in Warps : q # p => Stays(q)
          /\ unit'[p] = u
          /\ SaveVNew => pc'[p] = "vst" /\ chunk'[p] = c
          /\ ~SaveVNew => chunk'[p] = c + 1 /\ pc'[p] \in {"hout", "end"}
      <3>1. ChunkLabel(p, u, c + 1) \in {"hout", "end"}
        BY WarpFacts DEF ChunkLabel
      <3> QED BY <1>1, <2>1, <3>1, Moves
    <2>6. ASSUME NEW v \in DOMAIN Units
          PROVE  /\ Rows(v, "hout")' = Rows(v, "hout") + One(v = u)
                 /\ SaveVNew => Rows(v, "vst")' = Rows(v, "vst")
      <3>1. /\ pc[p] \notin Past("hout") /\ pc[p] \notin Past("vst")
            /\ SaveVNew => pc'[p] \in Past("hout") /\ pc'[p] \notin Past("vst")
            /\ ~SaveVNew => pc'[p] \notin Past("hout")
        BY <2>1, <2>5 DEF Past, InChunk
      <3>2. v \in Nat /\ Units[v] \in Nat
        BY UnitFacts
      <3> HIDE DEF p, u, c
      <3> QED BY <1>3, <2>5, <3>1, <3>2 DEF Rows, One, p, u, c
    <2>7. ASSUME NEW v \in DOMAIN Units
          PROVE  Len(hOut'[v]) = Len(hOut[v]) + One(v = u)
      <3>1. CASE v = u
        BY <1>3, <1>4, <2>1, <2>3, <3>1, NameFacts DEF One
      <3>2. CASE v # u
        BY <1>4, <2>1, <3>2 DEF One
      <3> QED BY <3>1, <3>2
    <2>8. \A v, w : w \in CCs => (Ended(v, w)' <=> Ended(v, w))
      BY <1>1, <2>5 DEF Ended, Stays
    <2>9. Outs'
      BY <1>4, <2>1, <2>6, <2>7, <2>8 DEF Outs
    <2> QED BY <1>3, <2>4, <2>9 DEF Serial!Next
  <1>6. CASE StoreVNew
    <2>1. /\ pc[p] = "vst_read" /\ hOut' = hOut /\ NextChunk(p)
          /\ vOut' = [vOut EXCEPT ![u] = Append(@, Tag(p))]
      BY <1>6, WholeRead DEF StoreVNew, Inside
    <2>2. SaveVNew
      BY <1>3, <2>1 DEF AtChunk
    <2>3. Rows(u, "hout") = c + 1 /\ Rows(u, "vst") = c
      BY <1>3, <2>1 DEF Rows, One, Past, InChunk
    <2>4. Len(hOut[u]) = c + 1 /\ Len(vOut[u]) = c
      BY <1>3, <2>2, <2>3 DEF Outs
    <2>5. Serial!StoreV(u)
      <3>1. vOut' = [vOut EXCEPT ![u] = Append(@, <<u, Len(vOut[u])>>)]
        BY <2>1, <2>4 DEF Tag
      <3> QED BY <1>3, <1>4, <2>1, <2>2, <2>4, <3>1 DEF Serial!StoreV
    <2>6. /\ \A q \in Warps : q # p => Stays(q)
          /\ unit'[p] = u /\ chunk'[p] = c + 1 /\ pc'[p] \in {"hout", "end"}
      <3>1. ChunkLabel(p, u, c + 1) \in {"hout", "end"}
        BY WarpFacts DEF ChunkLabel
      <3> QED BY <1>1, <2>1, <3>1, Moves
    <2>7. ASSUME NEW v \in DOMAIN Units
          PROVE  /\ Rows(v, "hout")' = Rows(v, "hout")
                 /\ Rows(v, "vst")' = Rows(v, "vst") + One(v = u)
      <3>1. /\ pc[p] \in Past("hout") /\ pc[p] \notin Past("vst")
            /\ pc'[p] \notin Past("hout") /\ pc'[p] \notin Past("vst")
        BY <2>1, <2>6 DEF Past, InChunk
      <3>2. v \in Nat /\ Units[v] \in Nat
        BY UnitFacts
      <3> HIDE DEF p, u, c
      <3> QED BY <1>3, <2>6, <3>1, <3>2 DEF Rows, One, p, u, c
    <2>8. ASSUME NEW v \in DOMAIN Units
          PROVE  Len(vOut'[v]) = Len(vOut[v]) + One(v = u)
      <3>1. CASE v = u
        BY <1>3, <1>4, <2>1, <2>4, <3>1, NameFacts DEF One
      <3>2. CASE v # u
        BY <1>4, <2>1, <3>2 DEF One
      <3> QED BY <3>1, <3>2
    <2>9. \A v, w : w \in CCs => (Ended(v, w)' <=> Ended(v, w))
      BY <1>1, <2>6 DEF Ended, Stays
    <2>10. Outs'
      BY <1>4, <2>1, <2>7, <2>8, <2>9 DEF Outs
    <2> QED BY <1>3, <2>5, <2>10 DEF Serial!Next
  <1> QED BY <1>5, <1>6

LEMMA OutsFinal ==
    ASSUME Core, Shape, Hold, Outs, NEW w \in CCs, StoreFinal(w)
    PROVE  Outs' /\ (Serial!Next \/ UNCHANGED Serial!outs)
  <1> DEFINE u == unit[w]
  <1>1. /\ Ctl /\ w \in Warps /\ "store" \in Warps /\ w # "store"
        /\ \A v \in CCs : v \in Warps
    BY WarpFacts DEF Core
  <1>2. /\ pc[w] = "final" /\ Goto(w, "end") /\ hOut' = hOut /\ vOut' = vOut
        /\ Place(w, u, chunk[w], "final")
    BY <1>1 DEF StoreFinal, Ctl
  <1>3. u \in 1 .. Len(Units) /\ u \in DOMAIN Units /\ chunk[w] = Units[u] /\ u \in Nat
    BY <1>1, <1>2, PlaceAfter, WarpFacts, UnitFacts
  <1>4. reg[w].h = <<u, Units[u]>>
    BY <1>2, <1>3 DEF Hold, Regs, RegsOf, Tag
  <1>5. /\ \A q \in Warps : q # w => Stays(q)
        /\ pc'[w] = "end" /\ unit'[w] = u
    BY <1>1, <1>2, Moves
  <1>6. \A v, x : Rows(v, x)' = Rows(v, x)
    BY <1>1, <1>5 DEF Rows, Stays
  <1>7. /\ \A v, q : q \in CCs /\ q # w => (Ended(v, q)' <=> Ended(v, q))
        /\ \A v \in DOMAIN Units : v # u => (Ended(v, w)' <=> Ended(v, w))
        /\ \A v \in DOMAIN Units : v = u => ~Ended(v, w) /\ Ended(v, w)'
    BY <1>1, <1>2, <1>3, <1>5 DEF Ended, Stays
  <1>8. hT[u][w] = <<>>
    BY <1>3, <1>7 DEF Outs
  <1>9. CASE ~StoreFinalState
    <2>1. hT' = hT
      BY <1>9 DEF StoreFinal
    <2>2. ASSUME NEW v \in DOMAIN Units, NEW q \in CCs, ~Ended(v, q)'
          PROVE  hT'[v][q] = <<>>
      <3>1. ~Ended(v, q)
        BY <1>7, <2>2
      <3> QED BY <2>1, <3>1 DEF Outs
    <2>3. Outs'
      BY <1>2, <1>6, <1>9, <2>2 DEF Outs
    <2> QED BY <1>2, <2>1, <2>3 DEF Serial!outs
  <1>10. CASE StoreFinalState
    <2>1. hT' = [hT EXCEPT ![u][w] = << <<u, Units[u]>> >>]
      <3>1. hT' = [hT EXCEPT ![u][w] = Append(@, reg[w].h)]
        BY <1>10 DEF StoreFinal
      <3>2. Append(hT[u][w], reg[w].h) = << <<u, Units[u]>> >>
        BY <1>4, <1>8
      <3> QED BY <3>1, <3>2
    <2>2. Serial!StoreFinal(u, w)
      BY <1>2, <1>8, <1>10, <2>1 DEF Serial!StoreFinal
    <2>3. /\ hT'[u][w] # <<>>
          /\ \A v \in DOMAIN Units, q \in CCs : (v # u \/ q # w) => hT'[v][q] = hT[v][q]
      BY <1>3, <2>1 DEF Shape
    <2>4. ASSUME NEW v \in DOMAIN Units, NEW q \in CCs
          PROVE  /\ ~Ended(v, q)' => hT'[v][q] = <<>>
                 /\ Ended(v, q)' => hT'[v][q] # <<>>
      <3>1. CASE v = u /\ q = w
        BY <1>7, <2>3, <3>1
      <3>2. CASE v # u \/ q # w
        BY <1>7, <1>10, <2>3, <3>2 DEF Outs
      <3> QED BY <3>1, <3>2
    <2>5. Outs'
      BY <1>2, <1>6, <2>4 DEF Outs
    <2> QED BY <1>3, <2>2, <2>5 DEF Serial!Next
  <1> QED BY <1>9, <1>10

LEMMA OutsNext ==
    ASSUME Core, Shape, Hold, Outs, [Next]_vars
    PROVE  Outs' /\ [Serial!Next]_(Serial!outs)
  <1>1. Ctl
    BY DEF Core
  <1>2. CASE \/ LoadTile \/ TensorCoreDone \/ UNCHANGED vars
             \/ \E r \in inflight : TmaArrive(r)
             \/ \E acc, a, b : IssueMove(acc, a, b)
    BY <1>1, <1>2, QuietUnits, QuietKeeps
  <1>3. ASSUME NEW x, NEW q, WaitMove(x, q)
        PROVE  Outs' /\ UNCHANGED Serial!outs
    BY <1>1, <1>3, QuietWarps, QuietKeeps
  <1>4. ASSUME NEW x, NEW q, ReadMove(x, q)
        PROVE  Outs' /\ (Serial!Next \/ UNCHANGED Serial!outs)
    <2>1. CASE q \in CCs
      BY <1>1, <1>4, <2>1, QuietWarps, QuietKeeps
    <2>2. CASE q \notin CCs
      <3>1. StoreHOut \/ StoreVNew
        BY <1>4, <2>2 DEF ReadMove
      <3> QED BY <3>1, OutsStore
    <2> QED BY <2>1, <2>2
  <1>5. ASSUME NEW x, NEW w \in CCs, PublishMove(x, w)
        PROVE  Outs' /\ UNCHANGED Serial!outs
    BY <1>1, <1>5, QuietWarps, QuietKeeps
  <1>6. ASSUME NEW p, StillMove(p)
        PROVE  Outs' /\ (Serial!Next \/ UNCHANGED Serial!outs)
    <2>1. CASE p \in Warps /\ NextUnit(p)
      BY <2>1, OutsUnit
    <2>2. CASE p \in CCs /\ StoreFinal(p)
      BY <2>2, OutsFinal
    <2>3. CASE p \in CCs /\ (ScaleGk(p) \/ SyncGk \/ (~UseInitialState /\ InitState(p)))
      BY <1>1, <2>3, QuietWarps, QuietKeeps
    <2> QED BY <1>6, <2>1, <2>2, <2>3 DEF StillMove
  <1>7. CASE Next
    BY <1>2, <1>3, <1>4, <1>5, <1>6, <1>7, NextMoves
  <1> QED BY <1>2, <1>7

LEMMA OutsInit ==
    ASSUME Init
    PROVE  Outs /\ Serial!Init
  <1>1. /\ hOut = [u \in DOMAIN Units |-> <<>>]
        /\ vOut = [u \in DOMAIN Units |-> <<>>]
        /\ hT = [u \in DOMAIN Units |-> [w \in CCs |-> <<>>]]
        /\ \A p \in Warps : unit[p] = 1 /\ chunk[p] = 0 /\ pc[p] = UnitLabel(p, 1)
    BY DEF Init
  <1>2. "store" \in Warps /\ \A w \in CCs : w \in Warps
    BY WarpFacts
  <1>3. ASSUME NEW u \in DOMAIN Units
        PROVE  /\ Rows(u, "hout") = 0 /\ Rows(u, "vst") = 0
               /\ \A w \in CCs : ~Ended(u, w)
    <2>1. u \in Nat /\ u >= 1
      BY UnitFacts
    <2>2. pc["store"] \in {"hout", "end", "exit"}
      BY <1>1, <1>2, WarpFacts DEF UnitLabel, ChunkLabel
    <2>3. pc["store"] \notin Past("hout") /\ pc["store"] \notin Past("vst")
      BY <2>2 DEF Past, InChunk
    <2>4. \A w \in CCs : pc[w] # "end"
      BY <1>1, <1>2, WarpFacts DEF UnitLabel
    <2> QED BY <1>1, <1>2, <2>1, <2>3, <2>4 DEF Rows, Ended, One
  <1>4. Outs
    BY <1>1, <1>3 DEF Outs
  <1> QED BY <1>1, <1>4 DEF Serial!Init

LEMMA OutsHold == Spec => [](Core /\ Shape /\ Hold /\ Outs)
  <1>1. Init => Outs
    BY OutsInit
  <1>2. Core /\ Shape /\ Hold /\ Outs /\ [Next]_vars => Outs'
    BY OutsNext
  <1> QED BY <1>1, <1>2, Holds, PTL DEF Spec

\* Whatever the warps, the TMA unit and the tensor cores do in what order, the
\* block writes the h_out, v_new and ht of the serial recurrence, tile by tile
\* in chunk order, each with the data of its own chunk.
THEOREM SerialImplemented == Spec => ImplementsSerial
  <1>1. Init => Serial!Init
    BY OutsInit
  <1>2. Core /\ Shape /\ Hold /\ Outs /\ [Next]_vars => [Serial!Next]_(Serial!outs)
    BY OutsNext
  <1> QED BY <1>1, <1>2, OutsHold, PTL DEF Spec, ImplementsSerial, Serial!Spec

\* When every warp has left its loop the outputs of all units are complete:
\* none is skipped, none cut short, an empty unit has its final state.
THEOREM AllWrittenAlways == Spec => []AllWrittenAtExit
  <1>1. Core /\ Outs => AllWrittenAtExit
    <2>1. SUFFICES ASSUME Core, Outs, AllExited, NEW u \in DOMAIN Units
          PROVE  /\ Len(hOut[u]) = Units[u]
                 /\ SaveVNew => Len(vOut[u]) = Units[u]
                 /\ StoreFinalState => \A w \in CCs : hT[u][w] # <<>>
      BY DEF AllWrittenAtExit, Serial!Complete
    <2>2. ASSUME NEW p \in Warps PROVE u < unit[p]
      <3>1. Place(p, unit[p], chunk[p], pc[p]) /\ pc[p] = "exit"
        BY <2>1 DEF Core, Ctl, AllExited
      <3>2. ~ AtUnit(p, "exit") /\ ~ AtChunk(p, "exit") /\ ~ AtEnd(p, "exit")
        BY DEF AtUnit, AtChunk, AtEnd, InChunk
      <3>3. unit[p] = Len(Units) + 1
        BY <3>1, <3>2 DEF Place
      <3> QED BY <3>3, UnitFacts
    <2>3. Rows(u, "hout") = Units[u] /\ Rows(u, "vst") = Units[u]
      BY <2>2, WarpFacts DEF Rows
    <2>4. \A w \in CCs : Ended(u, w)
      BY <2>2, WarpFacts DEF Ended
    <2> QED BY <2>1, <2>3, <2>4 DEF Outs
  <1> QED BY <1>1, OutsHold, PTL

-----------------------------------------------------------------------------
(***************************************************************************)
(* Progress.  When no copy and no product is under way the counts decide   *)
(* what a barrier shows: a stage is free for a producer that no consumer   *)
(* is a round behind (RingFree), and full for a consumer that every        *)
(* producer is ahead of (RingReady).  Of the warps in the earliest unit    *)
(* one trails, in the order in which a serial program would take the steps *)
(* of a chunk; it waits for nobody.                                        *)
(***************************************************************************)
LEMMA StageFree ==
    ASSUME NEW f, NEW e, NEW M, NEW T, NEW fi, NEW be, NEW ta, NEW wa,
           Participants(M, T, fi, be, ta, wa),
           StageInv(f, e, M, T, fi, be, ta, wa),
           NEW k \in M, fi[k] = be[k], \A q \in T : be[k] <= ta[q]
    PROVE  MbarWaitable(e, 1 - (be[k] % 2))
  <1>1. /\ f.phase \in Nat /\ e.phase \in Nat
        /\ f.phase \in {e.phase, e.phase + 1}
        /\ fi[k] \in {f.phase, f.phase + 1}
    BY StageFullOrEmpty
  <1>2. PICK q \in T : ta[q] = e.phase
    BY TallyMissing DEF StageInv, Participants
  <1>3. be[k] = e.phase
    BY <1>1, <1>2
  <1> QED BY <1>1, <1>3 DEF MbarWaitable

LEMMA StageReady ==
    ASSUME NEW f, NEW e, NEW M, NEW T, NEW fi, NEW be, NEW ta, NEW wa,
           Participants(M, T, fi, be, ta, wa),
           StageInv(f, e, M, T, fi, be, ta, wa),
           NEW k \in T, ta[k] = wa[k], \A m \in M : wa[k] < fi[m]
    PROVE  MbarWaitable(f, wa[k] % 2)
  <1>1. /\ f.phase \in Nat /\ e.phase \in Nat
        /\ f.phase \in {e.phase, e.phase + 1}
        /\ ta[k] \in {e.phase, e.phase + 1}
    BY StageFullOrEmpty
  <1>2. PICK m \in M : fi[m] = f.phase
    BY TallyMissing DEF StageInv, Participants
  <1>3. f.phase = wa[k] + 1
    BY <1>1, <1>2
  <1> QED BY <1>1, <1>3 DEF MbarWaitable

LEMMA RingFree ==
    ASSUME NEW x \in Pipes, NEW pp, NEW E, NEW F, NEW L, RingType(x, pp, E, F, L),
           RingOK(x, pp, E, F, L), NEW k \in Makers(x),
           \A s \in StageIds(x) : F[k][s] = Uses(E[k], Stages[x], s),
           \A q \in Takers(x) : E[k] < L[q] + Stages[x]
    PROVE  CanAcquire(pp, E[k], Stages[x])
  <1> DEFINE S == Stages[x]
             n == E[k]
             s == n % S
             fi == [m \in Makers(x) |-> F[m][s]]
             be == [m \in Makers(x) |-> Uses(E[m], S, s)]
             ta == [q \in Takers(x) |-> Uses(L[q], S, s)]
             wa == [q \in Takers(x) |-> Uses(E[q], S, s)]
  <1>1. S \in Nat \ {0} /\ StageIds(x) = 0 .. S - 1 /\ n \in Nat
    BY PartFacts DEF RingType
  <1>2. s \in 0 .. S - 1 /\ s \in StageIds(x) /\ Uses(n, S, s) = n \div S
    BY <1>1, UsesOwn
  <1>3. StageInv(pp.full[s], pp.empty[s], Makers(x), Takers(x), fi, be, ta, wa)
    BY <1>2 DEF RingOK
  <1>4. Participants(Makers(x), Takers(x), fi, be, ta, wa)
    BY <1>2, RingParticipants
  <1>5. fi[k] = be[k] /\ be[k] = n \div S
    BY <1>2
  <1>6. ASSUME NEW q \in Takers(x) PROVE be[k] <= ta[q]
    <2>1. L[q] \in Nat /\ L[q] + S \in Nat /\ n + 1 \in Nat /\ n + 1 <= L[q] + S
      BY <1>1 DEF RingType
    <2>2. Uses(n + 1, S, s) <= Uses(L[q] + S, S, s)
      BY <1>1, <1>2, <2>1, UsesMono
    <2>3. Uses(L[q] + S, S, s) = Uses(L[q], S, s) + 1
      BY <1>1, <1>2, <2>1, UsesRound
    <2>4. Uses(n + 1, S, s) = Uses(n, S, s) + 1
      BY <1>1, <1>2, UsesNext
    <2>5. Uses(n, S, s) \in Nat /\ Uses(L[q], S, s) \in Nat
      BY <1>1, <1>2, <2>1, UsesType
    <2>6. be[k] = Uses(n, S, s) /\ ta[q] = Uses(L[q], S, s)
      OBVIOUS
    <2> HIDE DEF be, ta, n, s, S
    <2> QED BY <2>2, <2>3, <2>4, <2>5, <2>6
  <1> HIDE DEF fi, be, ta, wa
  <1>7. MbarWaitable(pp.empty[s], 1 - (be[k] % 2))
    BY <1>3, <1>4, <1>5, <1>6, StageFree
  <1> QED BY <1>5, <1>7 DEF CanAcquire, StageOf, PhaseOf

LEMMA RingReady ==
    ASSUME NEW x \in Pipes, NEW pp, NEW E, NEW F, NEW L, RingType(x, pp, E, F, L),
           RingOK(x, pp, E, F, L), NEW k \in Takers(x), E[k] = L[k],
           \A m \in Makers(x), s \in StageIds(x) :
               Uses(E[k] + 1, Stages[x], s) <= F[m][s]
    PROVE  CanConsume(pp, E[k], Stages[x])
  <1> DEFINE S == Stages[x]
             n == E[k]
             s == n % S
             fi == [m \in Makers(x) |-> F[m][s]]
             be == [m \in Makers(x) |-> Uses(E[m], S, s)]
             ta == [q \in Takers(x) |-> Uses(L[q], S, s)]
             wa == [q \in Takers(x) |-> Uses(E[q], S, s)]
  <1>1. S \in Nat \ {0} /\ StageIds(x) = 0 .. S - 1 /\ n \in Nat
    BY PartFacts DEF RingType
  <1>2. s \in 0 .. S - 1 /\ s \in StageIds(x) /\ Uses(n, S, s) = n \div S
    BY <1>1, UsesOwn
  <1>3. StageInv(pp.full[s], pp.empty[s], Makers(x), Takers(x), fi, be, ta, wa)
    BY <1>2 DEF RingOK
  <1>4. Participants(Makers(x), Takers(x), fi, be, ta, wa)
    BY <1>2, RingParticipants
  <1>5. ta[k] = wa[k] /\ wa[k] = n \div S
    BY <1>2
  <1>6. ASSUME NEW m \in Makers(x) PROVE wa[k] < fi[m]
    <2>1. Uses(n + 1, S, s) = Uses(n, S, s) + 1
      BY <1>1, <1>2, UsesNext
    <2>2. Uses(n, S, s) \in Nat /\ F[m][s] \in Nat
      BY <1>1, <1>2, UsesType DEF RingType
    <2>3. wa[k] = Uses(n, S, s) /\ fi[m] = F[m][s] /\ Uses(n + 1, S, s) <= F[m][s]
      BY <1>2
    <2> HIDE DEF wa, fi, n, s, S
    <2> QED BY <2>1, <2>2, <2>3
  <1> HIDE DEF fi, be, ta, wa
  <1>7. MbarWaitable(pp.full[s], wa[k] % 2)
    BY <1>3, <1>4, <1>5, <1>6, StageReady
  <1> QED BY <1>5, <1>7 DEF CanConsume, StageOf, PhaseOf

\* The order of the labels in a chunk, as far as it matters, and of the
\* places in a unit.
Rank(p) ==
    CASE p = "load"  -> 0
      [] p = "mma"   -> IF pc[p] = "wh" THEN 2 ELSE 4
      [] p = "store" -> 6
      [] OTHER -> IF pc[p] \in {"state", "hout"} THEN 1
                  ELSE IF pc[p] \in {"u", "u_read", "wh", "wh_read", "vnew"}
                  THEN 3 ELSE 5

Pos(p) ==
    IF pc[p] \in {"h0", "h0_read"} THEN One(p # "load")
    ELSE 2 + 7 * chunk[p] + Rank(p)

Within(p) == pc[p] \notin {"end", "exit"}

Trails(p) ==
    /\ p \in Warps /\ Within(p)
    /\ \A q \in Warps : unit[p] <= unit[q]
    /\ \A q \in Warps : Within(q) /\ unit[q] = unit[p] => Pos(p) <= Pos(q)

Settled == inflight = {} /\ tcq = <<>>

LEMMA RankType ==
    ASSUME NEW p \in Warps
    PROVE  Rank(p) \in 0 .. 6
  <1>1. Rank(p) \in {0, 1, 2, 3, 4, 5, 6}
    BY DEF Rank
  <1> QED BY <1>1

LEMMA SoonerPos ==
    ASSUME NEW a \in Nat, NEW b \in Nat, NEW r \in 0 .. 6, NEW s \in 0 .. 6,
           2 + 7 * a + r <= 2 + 7 * b + s
    PROVE  a < b \/ (a = b /\ r <= s)
  OBVIOUS

\* Nobody is behind the warp that trails: at x each is at its turn or later,
\* and at the same turn not at an earlier label.
LEMMA NoneBehind ==
    ASSUME Ctl, NEW p, Trails(p), NEW q \in Warps, q # "empty",
           NEW x \in Pipes,
           \/ x = "h0" /\ AtUnit(p, pc[p])
           \/ x # "h0" /\ AtChunk(p, pc[p])
    PROVE  LET t == TurnOf(x, unit[p], chunk[p])
               n == TurnOf(x, unit[q], chunk[q])
           IN  /\ t \in Nat /\ n \in Nat
               /\ \/ t < n
                  \/ /\ t = n /\ unit[q] = unit[p] /\ unit[p] <= Len(Units)
                     /\ x = "h0" => pc[q] = "end" \/ Pos(p) <= Pos(q)
                     /\ x # "h0" => /\ AtChunk(q, pc[q]) /\ chunk[q] = chunk[p]
                                    /\ Rank(p) <= Rank(q)
  <1> DEFINE u == unit[p]
             v == unit[q]
             t == TurnOf(x, u, chunk[p])
             n == TurnOf(x, v, chunk[q])
  <1>1. /\ p \in Warps /\ Place(p, u, chunk[p], pc[p]) /\ Place(q, v, chunk[q], pc[q])
        /\ u <= v /\ Within(p)
    BY DEF Ctl, Trails
  <1>2. /\ u \in 1 .. Len(Units) /\ u \in Nat /\ Units[u] \in Nat /\ Len(Units) \in Nat
        /\ chunk[p] \in Nat
        /\ x # "h0" => chunk[p] < Units[u]
    <2>1. CASE x = "h0"
      <3>1. pc[p] \in {"h0", "h0_read"}
        BY <2>1 DEF AtUnit
      <3> QED BY <1>1, <2>1, <3>1, PlaceBefore, UnitFacts
    <2>2. CASE x # "h0"
      BY <1>1, <2>2, PlaceInChunk, UnitFacts
    <2> QED BY <2>1, <2>2
  <1>3. t \in Nat /\ n \in Nat /\ v \in 1 .. Len(Units) + 1 /\ chunk[q] \in Nat
    BY <1>1, CountsNat DEF Place, Ctl
  <1>4. CASE u < v
    <2>1. CASE x = "h0"
      BY <1>2, <1>3, <1>4, <2>1 DEF TurnOf
    <2>2. CASE x # "h0"
      <3>1. Before[u] + Units[u] <= Before[v]
        BY <1>2, <1>3, <1>4, BeforeMono
      <3>2. Before[u] \in Nat /\ Before[v] \in Nat
        BY <1>2, <1>3, BeforeType
      <3>3. t = Before[u] + chunk[p] /\ n = Before[v] + chunk[q]
        BY <2>2 DEF TurnOf
      <3> HIDE DEF t, n, u, v
      <3>4. t < n
        BY <1>2, <1>3, <2>2, <3>1, <3>2, <3>3
      <3> QED BY <1>3, <3>4 DEF t, n, u, v
    <2> QED BY <1>3, <2>1, <2>2
  <1>5. CASE u = v
    <2>1. pc[q] # "exit" /\ (AtUnit(q, pc[q]) \/ AtChunk(q, pc[q]) \/ AtEnd(q, pc[q]))
      <3>1. v # Len(Units) + 1
        BY <1>2, <1>5
      <3> QED BY <1>1, <3>1 DEF Place, AtUnit, AtChunk, AtEnd, InChunk
    <2>2. CASE x = "h0"
      <3>1. t = n
        BY <1>5, <2>2 DEF TurnOf
      <3>2. pc[q] = "end" \/ Pos(p) <= Pos(q)
        BY <1>5, <2>1 DEF Trails, Within
      <3> QED BY <1>2, <1>3, <1>5, <2>2, <3>1, <3>2
    <2>3. CASE x # "h0"
      <3>1. t = Before[u] + chunk[p] /\ n = Before[u] + chunk[q] /\ Before[u] \in Nat
        BY <1>2, <1>5, <2>3, BeforeType DEF TurnOf
      <3>2. AtChunk(p, pc[p]) /\ pc[p] \notin {"h0", "h0_read"}
        BY <2>3, WarpFacts DEF AtChunk, InChunk
      <3>3. Pos(p) = 2 + 7 * chunk[p] + Rank(p) /\ Rank(p) \in 0 .. 6
            /\ Rank(q) \in 0 .. 6
        BY <1>1, <3>2, RankType DEF Pos
      <3>4. CASE AtEnd(q, pc[q])
        <4>1. chunk[q] = Units[u]
          BY <1>1, <1>5, <3>4, PlaceAfter DEF AtEnd
        <4> HIDE DEF t, n, u, v
        <4>2. t < n
          BY <1>2, <2>3, <3>1, <4>1
        <4> QED BY <1>3, <4>2 DEF t, n, u, v
      <3>5. CASE AtUnit(q, pc[q])
        <4>1. pc[q] \in {"h0", "h0_read"}
          BY <3>5 DEF AtUnit
        <4>2. Pos(q) \in {0, 1} /\ Within(q)
          BY <4>1 DEF Pos, One, Within
        <4>3. Pos(p) <= Pos(q)
          BY <1>5, <4>2 DEF Trails
        <4> QED BY <1>2, <3>3, <4>2, <4>3
      <3>6. CASE AtChunk(q, pc[q])
        <4>1. pc[q] \notin {"h0", "h0_read"} /\ Within(q)
          BY <3>6, WarpFacts DEF AtChunk, InChunk, Within
        <4>2. Pos(q) = 2 + 7 * chunk[q] + Rank(q) /\ Pos(p) <= Pos(q)
          BY <1>5, <4>1 DEF Trails, Pos
        <4>3. chunk[p] < chunk[q] \/ (chunk[p] = chunk[q] /\ Rank(p) <= Rank(q))
          <5>1. PICK a \in Nat, b \in Nat, r \in 0 .. 6, s \in 0 .. 6 :
                       a = chunk[p] /\ b = chunk[q] /\ r = Rank(p) /\ s = Rank(q)
            BY <1>2, <1>3, <3>3
          <5>2. 2 + 7 * a + r <= 2 + 7 * b + s
            BY <3>3, <4>2, <5>1
          <5>3. a < b \/ (a = b /\ r <= s)
            BY <5>2, SoonerPos
          <5> QED BY <5>1, <5>3
        <4> HIDE DEF t, n, u, v
        <4>4. t < n \/ (t = n /\ chunk[q] = chunk[p] /\ Rank(p) <= Rank(q))
          BY <1>2, <1>3, <3>1, <4>3
        <4>5. v = u /\ u <= Len(Units)
          BY <1>2, <1>5
        <4> QED BY <1>3, <2>3, <3>6, <4>4, <4>5 DEF t, n, u, v
      <3> QED BY <2>1, <3>4, <3>5, <3>6
    <2> QED BY <2>2, <2>3
  <1> QED BY <1>1, <1>2, <1>3, <1>4, <1>5

\* What the counts of a participant of a ring are at least.
LEMMA LeftAtLeast ==
    ASSUME Core, Settled, NEW x \in Pipes, NEW q \in Takers(x)
    PROVE  /\ q \in Warps /\ q # "empty"
           /\ Left(x)[q] \in Nat
           /\ TurnOf(x, unit[q], chunk[q]) <= Left(x)[q]
  <1>1. q \in Warps /\ q # "empty" /\ Ctl
    BY PartFacts, WarpFacts DEF Takers, Core
  <1>2. /\ TurnOf(x, unit[q], chunk[q]) \in Nat
        /\ \A y : Done(y, q) \in Nat /\ Begun(y, q) \in Nat /\ Done(y, q) <= Begun(y, q)
    BY <1>1, CountsNat
  <1>3. \A y : TurnOf(y, unit[q], chunk[q]) \in Nat /\ TurnOf(y, unit[q], chunk[q]) <= Done(y, q)
    BY <1>1, CountsNat DEF Done, DoneAt
  <1>4. CASE q # "mma"
    BY <1>1, <1>2, <1>3, <1>4 DEF Left
  <1>5. CASE q = "mma"
    <2>1. Left(x)[q] = Begun(Via(x), q)
      BY <1>2, <1>5 DEF Left, Computed, Settled, One
    <2>2. x # "h0" /\ Via(x) # "h0"
      BY <1>5, WarpFacts DEF Takers, Via, Pipes, Tiles, Parts
    <2>3. TurnOf(Via(x), unit[q], chunk[q]) = TurnOf(x, unit[q], chunk[q])
      BY <2>2 DEF TurnOf
    <2> QED BY <1>1, <1>2, <1>3, <2>1, <2>3
  <1> QED BY <1>1, <1>4, <1>5

LEMMA FilledAtLeast ==
    ASSUME Core, Settled, NEW x \in Pipes, Used(x), NEW m \in Makers(x),
           NEW t \in Nat, t < Done(x, m), NEW s \in StageIds(x)
    PROVE  Uses(t + 1, Stages[x], s) <= Filled(x)[m][s]
  <1>1. /\ m \in Warps /\ Ctl /\ Stages[x] \in Nat \ {0} /\ s \in 0 .. Stages[x] - 1
        /\ Done(x, m) \in Nat /\ Begun(x, m) \in Nat /\ Done(x, m) <= Begun(x, m)
    BY PartFacts, CountsNat DEF Core
  <1>2. /\ Uses(t + 1, Stages[x], s) <= Uses(Done(x, m), Stages[x], s)
        /\ Uses(Done(x, m), Stages[x], s) <= Uses(Begun(x, m), Stages[x], s)
    <2>1. t + 1 \in Nat /\ t + 1 <= Done(x, m)
      BY <1>1
    <2> QED BY <1>1, <2>1, UsesMono
  <1>3. ASSUME NEW k \in {t + 1, Done(x, m), Begun(x, m)}
        PROVE  Uses(k, Stages[x], s) \in Nat
    <2>1. k \in Nat
      BY <1>1
    <2> QED BY <1>1, <2>1, UsesType
  <1>4. CASE m = "load"
    <2>1. Flying(x, s) = 0
      BY DEF Flying, One, Settled
    <2>2. Filled(x)[m][s] = Uses(Begun(x, m), Stages[x], s) - Flying(x, s)
      BY <1>4 DEF Filled
    <2> QED BY <1>2, <1>3, <2>1, <2>2
  <1>5. CASE m = "mma"
    <2>1. Via(x) = x
      BY <1>5, WarpFacts DEF Makers, Via, Pipes, Tiles, Parts
    <2>2. Computed(x) = Begun(x, m)
      BY <1>1, <1>5 DEF Computed, Settled, One
    <2> QED BY <1>2, <1>3, <1>5, <2>1, <2>2 DEF Filled
  <1>6. CASE m # "load" /\ m # "mma"
    BY <1>2, <1>6 DEF Filled
  <1> QED BY <1>4, <1>5, <1>6

\* Where a warp stands that produces, or consumes.
LEMMA AtPipe ==
    ASSUME Ctl, NEW p \in Warps, NEW x \in Pipes, Used(x),
           \/ p \in Makers(x) /\ pc[p] = x
           \/ p \in Takers(x) /\ p # "mma" /\ pc[p] = x
           \/ p \in Takers(x) /\ p = "mma" /\ pc[p] = Via(x)
    PROVE  /\ x = "h0" => AtUnit(p, pc[p])
           /\ x # "h0" => AtChunk(p, pc[p])
           /\ Turn(x, p) = TurnOf(x, unit[p], chunk[p])
           /\ Entered(x)[p] = Turn(x, p)
           /\ Turn(x, p) \in Nat
  <1>1. Turn(x, p) = TurnOf(x, unit[p], chunk[p]) /\ Turn(x, p) \in Nat
    BY CountsNat DEF Turn, TurnOf
  <1>2. pc[p] \in Pipes /\ (p # "mma" => pc[p] = x) /\ (p = "mma" => pc[p] = Via(x))
    BY WarpFacts DEF Makers, Via, Pipes, Tiles, Parts
  <1>3. x = "h0" => pc[p] = "h0"
    BY <1>2, WarpFacts DEF Makers, Takers, Pipes, Tiles, Parts
  <1>4. x # "h0" => pc[p] \in InChunk \cup {"w", "kt", "hout_read", "vst_read"}
    BY <1>2 DEF Via, Pipes, Tiles, Parts, InChunk
  <1>5. Turn(pc[p], p) = Turn(x, p) /\ Begun(pc[p], p) = Turn(x, p)
    <2>1. pc[p] = "h0" <=> x = "h0"
      BY <1>2, WarpFacts DEF Makers, Takers, Via, Pipes, Tiles, Parts
    <2>2. Turn(pc[p], p) = Turn(x, p)
      BY <2>1 DEF Turn
    <2> QED BY <1>2, <2>2, AtTurn
  <1>6. Entered(x)[p] = Turn(x, p)
    BY <1>2, <1>5 DEF Entered
  <1> QED BY <1>1, <1>3, <1>4, <1>6, Standing

LEMMA TrailingFree ==
    ASSUME Core, Settled, NEW p, Trails(p), NEW x \in Pipes, Used(x),
           p \in Makers(x), pc[p] = x
    PROVE  Free(x, p)
  <1>1. /\ Ctl /\ p \in Warps /\ Entered(x)[p] = Turn(x, p) /\ Turn(x, p) \in Nat
        /\ Turn(x, p) = TurnOf(x, unit[p], chunk[p])
        /\ x = "h0" => AtUnit(p, pc[p])
        /\ x # "h0" => AtChunk(p, pc[p])
    BY AtPipe DEF Core, Trails
  <1>2. Done(x, p) = Turn(x, p) /\ Begun(x, p) = Turn(x, p)
    BY <1>1, AtTurn
  <1>3. ASSUME NEW q \in Takers(x) PROVE Entered(x)[p] < Left(x)[q] + Stages[x]
    <2>1. /\ q \in Warps /\ q # "empty" /\ Left(x)[q] \in Nat
          /\ TurnOf(x, unit[q], chunk[q]) <= Left(x)[q]
      BY LeftAtLeast
    <2>2. /\ TurnOf(x, unit[q], chunk[q]) \in Nat
          /\ Turn(x, p) <= TurnOf(x, unit[q], chunk[q])
      BY <1>1, <2>1, NoneBehind
    <2>3. Stages[x] \in Nat \ {0}
      BY PartFacts
    <2> QED BY <1>1, <2>1, <2>2, <2>3
  <1>4. ASSUME NEW s \in StageIds(x)
        PROVE  Filled(x)[p][s] = Uses(Entered(x)[p], Stages[x], s)
    <2>1. Uses(Turn(x, p), Stages[x], s) \in Nat
      BY <1>1, PartFacts, UsesType
    <2>2. Flying(x, s) = 0
      BY DEF Flying, One, Settled
    <2>3. p = "mma" => Via(x) = x /\ Computed(x) = Turn(x, p)
      BY <1>1, <1>2, WarpFacts DEF Makers, Via, Pipes, Tiles, Parts, Computed, Settled, One
    <2> QED BY <1>1, <1>2, <2>1, <2>2, <2>3 DEF Filled
  <1>5. /\ RingType(x, pipe[x], Entered(x), Filled(x), Left(x))
        /\ RingOK(x, pipe[x], Entered(x), Filled(x), Left(x))
    BY RingHolds
  <1>6. CanAcquire(pipe[x], Entered(x)[p], Stages[x])
    BY <1>3, <1>4, <1>5, RingFree
  <1> QED BY <1>1, <1>6 DEF Free


\* The makers of x are a turn ahead of the warp that trails and takes from it.
LEMMA MakersAhead ==
    ASSUME Core, NEW p, Trails(p), NEW x \in Pipes, Used(x), p \in Takers(x),
           \/ p # "mma" /\ pc[p] = x
           \/ p = "mma" /\ pc[p] = Via(x),
           NEW m \in Makers(x)
    PROVE  Turn(x, p) < Done(x, m)
  <1>1. /\ Ctl /\ p \in Warps /\ Turn(x, p) \in Nat
        /\ Turn(x, p) = TurnOf(x, unit[p], chunk[p])
        /\ x = "h0" => AtUnit(p, pc[p])
        /\ x # "h0" => AtChunk(p, pc[p])
    BY AtPipe DEF Core, Trails
  <1>2. m \in Warps /\ m # "empty"
    BY PartFacts, WarpFacts DEF Makers
  <1> DEFINE t == Turn(x, p)
             n == TurnOf(x, unit[m], chunk[m])
  <1>3. /\ n \in Nat
        /\ \/ t < n
           \/ /\ t = n /\ unit[m] = unit[p] /\ unit[p] <= Len(Units)
              /\ x = "h0" => pc[m] = "end" \/ Pos(p) <= Pos(m)
              /\ x # "h0" => /\ AtChunk(m, pc[m]) /\ chunk[m] = chunk[p]
                             /\ Rank(p) <= Rank(m)
    BY <1>1, <1>2, NoneBehind
  <1>4. Done(x, m) = n + One(pc[m] \in Past(x)) /\ t \in Nat
    BY <1>1 DEF Done, DoneAt, One
  <1>5. CASE t < n
    <2> HIDE DEF t, n
    <2> QED BY <1>3, <1>4, <1>5 DEF One, t
  <1>6. CASE ~(t < n)
    <2>1. pc[m] \in Past(x)
      <3>1. CASE x = "h0"
        <4>1. p \in CCs /\ m = "load" /\ pc[p] = "h0" /\ p # "load"
          BY <3>1, WarpFacts DEF Takers, Makers, Via
        <4>2. pc[m] = "end" \/ 1 <= Pos(m)
          BY <1>3, <1>6, <3>1, <4>1 DEF Pos, One
        <4>3. pc[m] # "h0" /\ pc[m] # "h0_read"
          <5>1. m = "load" /\ pc[m] \in {"h0", "h0_read"} => Pos(m) = 0
            BY DEF Pos, One
          <5> QED BY <4>1, <4>2, <5>1
        <4>4. unit[m] # Len(Units) + 1
          BY <1>3, <1>6, <3>1, UnitFacts
        <4>5. AtChunk(m, pc[m]) \/ AtEnd(m, pc[m])
          BY <1>1, <1>2, <4>3, <4>4 DEF Ctl, Place, AtUnit
        <4> QED BY <3>1, <4>1, <4>5, WarpFacts DEF AtChunk, AtEnd, Past, InChunk
      <3>2. CASE x # "h0"
        <4>1. AtChunk(m, pc[m]) /\ Rank(p) <= Rank(m)
          BY <1>3, <1>6, <3>2
        <4>2. CASE x \in {"w", "kt", "u", "gk"}
          <5>1. m = "load" /\ Rank(m) = 0
            BY <4>2, WarpFacts DEF Makers, Rank
          <5>2. Rank(p) > 0
            BY <4>2, WarpFacts DEF Takers, Via, Rank
          <5>3. Rank(p) \in 0 .. 6
            BY <1>1, RankType
          <5> QED BY <4>1, <5>1, <5>2, <5>3
        <4>3. CASE x \in {"state", "vnew"}
          <5>1. m \in CCs /\ p = "mma" /\ pc[p] = Via(x)
            BY <4>3, WarpFacts DEF Makers, Takers
          <5>2. Rank(p) = IF x = "state" THEN 2 ELSE 4
            BY <4>3, <5>1, WarpFacts DEF Via, Rank
          <5>3. pc[m] \in InChunk
            BY <4>1, <5>1, WarpFacts DEF AtChunk
          <5>4. m # "load" /\ m # "mma" /\ m # "store"
            BY <5>1, WarpFacts
          <5>5. Rank(m) = IF pc[m] \in {"state", "hout"} THEN 1
                          ELSE IF pc[m] \in {"u", "u_read", "wh", "wh_read", "vnew"}
                          THEN 3 ELSE 5
            BY <5>4 DEF Rank
          <5> QED BY <4>1, <4>3, <5>2, <5>3, <5>5 DEF Past, InChunk
        <4>4. CASE x \in {"wh", "kv"}
          <5>1. m = "mma" /\ p \in CCs /\ pc[p] = x
            BY <4>4, WarpFacts DEF Makers, Takers
          <5>2. Rank(p) = IF x = "wh" THEN 3 ELSE 5
            BY <4>4, <5>1, WarpFacts DEF Rank
          <5>3. Rank(m) = IF pc[m] = "wh" THEN 2 ELSE 4
            BY <5>1 DEF Rank
          <5>4. pc[m] \in {"wh", "kv"}
            BY <4>1, <5>1, WarpFacts DEF AtChunk
          <5> QED BY <4>1, <4>4, <5>2, <5>3, <5>4 DEF Past
        <4>5. CASE x \in {"hout", "vst"}
          <5>1. m \in CCs /\ p = "store" /\ Rank(p) = 6
            BY <4>5, WarpFacts DEF Makers, Takers, Rank
          <5>2. m # "load" /\ m # "mma" /\ m # "store"
            BY <5>1, WarpFacts
          <5>3. Rank(m) \in {1, 3, 5}
            BY <5>2 DEF Rank
          <5> QED BY <4>1, <5>1, <5>3
        <4> QED BY <3>2, <4>2, <4>3, <4>4, <4>5 DEF Pipes, Tiles, Parts
      <3> QED BY <3>1, <3>2
    <2>2. t = n
      BY <1>3, <1>6
    <2> HIDE DEF t, n
    <2> QED BY <1>4, <2>1, <2>2 DEF One, t
  <1> QED BY <1>5, <1>6

LEMMA TrailingReady ==
    ASSUME Core, Settled, NEW p, Trails(p), NEW x \in Pipes, Used(x),
           p \in Takers(x),
           \/ p # "mma" /\ pc[p] = x
           \/ p = "mma" /\ pc[p] = Via(x)
    PROVE  Ready(x, p)
  <1>1. /\ Ctl /\ p \in Warps /\ Entered(x)[p] = Turn(x, p) /\ Turn(x, p) \in Nat
    BY AtPipe DEF Core, Trails
  <1>2. Left(x)[p] = Turn(x, p)
    <2>1. CASE p # "mma"
      <3>1. Done(x, p) = Turn(x, p)
        BY <1>1, <2>1, AtTurn
      <3> QED BY <2>1, <3>1 DEF Left
    <2>2. CASE p = "mma"
      <3>1. Left(x)[p] = Computed(Via(x)) /\ Entered(x)[p] = Begun(Via(x), "mma")
        BY <2>2 DEF Left, Entered
      <3>2. Begun(Via(x), "mma") \in Nat
        BY <1>1, <2>2, CountsNat
      <3>3. Computed(Via(x)) = Begun(Via(x), "mma")
        BY <3>2 DEF Computed, Settled, One
      <3> QED BY <1>1, <3>1, <3>3
    <2> QED BY <2>1, <2>2
  <1>3. ASSUME NEW m \in Makers(x), NEW s \in StageIds(x)
        PROVE  Uses(Entered(x)[p] + 1, Stages[x], s) <= Filled(x)[m][s]
    <2>1. Turn(x, p) < Done(x, m)
      BY MakersAhead
    <2> QED BY <1>1, <2>1, FilledAtLeast
  <1>4. /\ RingType(x, pipe[x], Entered(x), Filled(x), Left(x))
        /\ RingOK(x, pipe[x], Entered(x), Filled(x), Left(x))
    BY RingHolds
  <1>5. CanConsume(pipe[x], Entered(x)[p], Stages[x])
    BY <1>1, <1>2, <1>3, <1>4, RingReady
  <1> QED BY <1>1, <1>5 DEF Ready

\* The warp that trails waits for nobody, gk_precompute_bar apart.
LEMMA TrailingAble ==
    ASSUME Core, Settled, NEW p, Trails(p), pc[p] # "gk_sync"
    PROVE  Able(p)
  <1>1. Ctl /\ p \in Warps /\ pc[p] # "end" /\ pc[p] # "exit"
    BY DEF Core, Trails, Within
  <1>2. ASSUME NEW x \in Pipes, pc[p] = x
        PROVE  /\ x = "h0" => AtUnit(p, x)
               /\ x # "h0" => AtChunk(p, x)
    <2>1. x # "h0" => x \in InChunk \cup {"w", "kt"}
      BY DEF Pipes, Tiles, Parts, InChunk
    <2> QED BY <1>1, <1>2, <2>1, Standing
  <1>3. ASSUME NEW x \in Awaits(p) PROVE Ready(x, p)
    <2>1. x \in Pipes
      BY DEF Awaits
    <2>2. /\ Used(x) /\ p \in Takers(x)
          /\ \/ p # "mma" /\ pc[p] = x
             \/ p = "mma" /\ pc[p] = Via(x)
      <3>1. CASE p = "mma"
        <4>1. \/ pc[p] = "wh" /\ x \in {"state", "w"}
              \/ pc[p] = "kv" /\ x \in {"vnew", "kt"}
          BY <3>1, WarpFacts DEF Awaits
        <4> QED BY <3>1, <4>1 DEF Used, Takers, Via
      <3>2. CASE p = "store"
        <4>1. pc[p] = x
          BY <3>2, WarpFacts DEF Awaits
        <4>2. x # "h0" /\ AtChunk(p, x)
          BY <1>2, <2>1, <3>2, <4>1, WarpFacts DEF AtUnit
        <4> QED BY <2>1, <3>2, <4>1, <4>2, WarpFacts
                DEF AtChunk, Used, Takers, Pipes, Tiles, Parts
      <3>3. CASE p # "mma" /\ p # "store"
        <4>1. /\ p \in CCs /\ pc[p] = x /\ x \in {"h0", "u", "wh", "gk", "kv"}
              /\ x = "h0" => UseInitialState
          BY <3>3 DEF Awaits
        <4>2. x = "gk" => UseGk
          BY <1>2, <2>1, <4>1 DEF AtChunk
        <4> QED BY <3>3, <4>1, <4>2 DEF Used, Takers
      <3> QED BY <3>1, <3>2, <3>3
    <2> QED BY <2>1, <2>2, TrailingReady
  <1>4. ASSUME NEW x \in Acquires(p) PROVE Free(x, p)
    <2>1. x \in Pipes /\ pc[p] = x
      BY DEF Acquires
    <2>2. Used(x) /\ p \in Makers(x)
      <3>1. CASE p = "load"
        <4>1. (x = "h0" /\ UseInitialState) \/ x \in {"w", "kt", "u", "gk"}
          BY <1>2, <2>1, <3>1, WarpFacts DEF AtUnit, AtChunk
        <4>2. x = "gk" => UseGk
          BY <1>2, <2>1 DEF AtChunk
        <4> QED BY <3>1, <4>1, <4>2 DEF Used, Makers
      <3>2. CASE p = "mma"
        <4>1. x \in {"wh", "kv"}
          BY <1>2, <2>1, <3>2, WarpFacts DEF AtUnit, AtChunk
        <4> QED BY <3>2, <4>1 DEF Used, Makers
      <3>3. CASE p # "load" /\ p # "mma"
        <4>1. p \in CCs /\ x \in {"state", "hout", "vnew", "vst"}
          BY <3>3 DEF Acquires
        <4>2. x = "vst" => SaveVNew
          BY <1>2, <2>1, <4>1 DEF AtChunk
        <4> QED BY <4>1, <4>2 DEF Used, Makers
      <3> QED BY <3>1, <3>2, <3>3
    <2> QED BY <2>1, <2>2, TrailingFree
  <1> QED BY <1>1, <1>3, <1>4 DEF Able

\* At gk_precompute_bar the other warps are there, or come as far behind.
LEMMA TrailingSync ==
    ASSUME Core, GateOrder, NEW p, Trails(p), pc[p] = "gk_sync", NEW v \in CCs
    PROVE  Trails(v) /\ p \in CCs
  <1>1. Ctl /\ p \in Warps /\ v \in Warps /\ v # "empty" /\ "gk" \in Pipes
    BY WarpFacts DEF Core, Trails, Pipes, Tiles
  <1>2. AtChunk(p, pc[p]) /\ p \in CCs /\ UseGk
    <2>1. AtChunk(p, pc[p])
      BY <1>1, Standing DEF InChunk
    <2> QED BY <2>1 DEF AtChunk
  <1> DEFINE t == TurnOf("gk", unit[p], chunk[p])
             n == TurnOf("gk", unit[v], chunk[v])
  <1>3. /\ t \in Nat /\ n \in Nat
        /\ \/ t < n
           \/ /\ t = n /\ unit[v] = unit[p] /\ chunk[v] = chunk[p]
              /\ AtChunk(v, pc[v]) /\ Rank(p) <= Rank(v)
    BY <1>1, <1>2, NoneBehind
  <1>4. Synced(p) = t
    <2>1. Done("gk", p) = t
      BY <1>3 DEF Done, DoneAt, Past
    <2> HIDE DEF t
    <2> QED BY <1>3, <2>1 DEF Synced, One
  <1>5. Synced(v) = t
    BY <1>2, <1>4 DEF GateOrder
  <1>6. Done("gk", v) = n + One(pc[v] \in Past("gk"))
    BY <1>3 DEF Done, DoneAt, One
  <1>7. ~(t < n)
    <2> HIDE DEF t, n
    <2> QED BY <1>3, <1>5, <1>6 DEF Synced, One
  <1>8. /\ unit[v] = unit[p] /\ chunk[v] = chunk[p]
        /\ AtChunk(v, pc[v]) /\ Rank(p) <= Rank(v)
    BY <1>3, <1>7
  <1>9. Rank(p) = 5 /\ Rank(v) \in {1, 3, 5}
    BY <1>2, WarpFacts DEF Rank
  <1>10. Rank(v) = 5
    BY <1>8, <1>9
  <1>11. pc[v] \in InChunk
    BY <1>8, WarpFacts DEF AtChunk
  <1>12. Within(v) /\ Pos(v) = Pos(p)
    BY <1>8, <1>9, <1>10, <1>11 DEF Within, Pos, InChunk
  <1> QED BY <1>1, <1>2, <1>8, <1>12 DEF Trails

LEMMA SomeAble ==
    ASSUME Core, GateOrder, Settled, ~AllExited
    PROVE  \E p \in Warps : Able(p)
  <1>1. Ctl /\ "load" \in Warps
    BY WarpFacts DEF Core
  <1>2. \A q \in Warps : unit[q] \in 1 .. Len(Units) + 1 /\ chunk[q] \in Nat
    BY <1>1, Standing
  <1>3. PICK o \in Warps : \A q \in Warps : unit[o] <= unit[q]
    <2> DEFINE S == {unit[q] : q \in Warps}
    <2>1. S \in SUBSET Nat /\ S # {}
      BY <1>1, <1>2, UnitFacts
    <2>2. PICK k \in S : \A y \in S : k <= y
      <3> HIDE DEF S
      <3> QED BY <2>1, Least
    <2> QED BY <2>2
  <1>4. \A q \in Warps : unit[q] \in Nat
    BY <1>2, UnitFacts
  <1>5. CASE \E q \in Warps : Within(q) /\ unit[q] = unit[o]
    <2> DEFINE H == {q \in Warps : Within(q) /\ unit[q] = unit[o]}
               S == {Pos(q) : q \in H}
    <2>1. PICK p \in H : \A q \in H : Pos(p) <= Pos(q)
      <3>1. S \in SUBSET Nat
        <4>1. ASSUME NEW q \in Warps PROVE Pos(q) \in Nat
          <5>1. Rank(q) \in 0 .. 6 /\ chunk[q] \in Nat
            BY <1>2, RankType
          <5> QED BY <5>1 DEF Pos, One
        <4> QED BY <4>1
      <3>2. S # {}
        BY <1>5
      <3>3. PICK k \in S : \A y \in S : k <= y
        <4> HIDE DEF S
        <4> QED BY <3>1, <3>2, Least
      <3> QED BY <3>3
    <2>2. Trails(p)
      BY <1>3, <2>1 DEF Trails
    <2>3. CASE pc[p] # "gk_sync"
      BY <2>1, <2>2, <2>3, TrailingAble
    <2>4. CASE pc[p] = "gk_sync"
      <3>1. p \in CCs /\ \A v \in CCs : Trails(v) /\ v \in Warps
        <4>1. ASSUME NEW v \in CCs PROVE p \in CCs /\ Trails(v) /\ v \in Warps
          <5>1. Trails(v) /\ p \in CCs
            BY <2>2, <2>4, TrailingSync
          <5> QED BY <5>1 DEF Trails
        <4>2. CCs # {}
          BY CCsAssumption
        <4> QED BY <4>1, <4>2
      <3>2. CASE \E v \in CCs : pc[v] # "gk_sync"
        BY <3>1, <3>2, TrailingAble
      <3>3. CASE \A v \in CCs : pc[v] = "gk_sync"
        <4>1. Awaits(p) = {} /\ Acquires(p) = {}
          BY <2>4, <3>1, WarpFacts DEF Awaits, Acquires, Pipes, Tiles, Parts
        <4>2. Able(p)
          BY <2>4, <3>3, <4>1 DEF Able
        <4> QED BY <3>1, <4>2
      <3> QED BY <3>2, <3>3
    <2> QED BY <2>3, <2>4
  <1>6. CASE ~ \E q \in Warps : Within(q) /\ unit[q] = unit[o]
    <2>1. unit[o] # Len(Units) + 1
      <3>1. SUFFICES ASSUME unit[o] = Len(Units) + 1 PROVE FALSE
        OBVIOUS
      <3>2. ASSUME NEW q \in Warps PROVE pc[q] = "exit"
        <4>1. unit[q] = Len(Units) + 1
          BY <1>2, <1>3, <3>1, UnitFacts
        <4> QED BY <1>1, <4>1 DEF Ctl, Place
      <3> QED BY <3>2 DEF AllExited
    <2>2. ASSUME NEW q \in Warps, unit[q] = unit[o]
          PROVE  pc[q] = "end"
      <3>1. pc[q] \in {"end", "exit"}
        BY <1>6, <2>2 DEF Within
      <3>2. pc[q] # "exit"
        BY <1>1, <2>1, <2>2, WarpFacts DEF Ctl, Place, AtUnit, AtChunk, AtEnd, InChunk
      <3> QED BY <3>1, <3>2
    <2>3. ASSUME NEW q \in Warps, pc[q] = "end", Dealt(q) PROVE Able(q)
      <3>1. Awaits(q) = {} /\ Acquires(q) = {}
        BY <2>3, WarpFacts DEF Awaits, Acquires, Pipes, Tiles, Parts
      <3> QED BY <2>3, <3>1 DEF Able
    <2>4. CASE unit["load"] = unit[o]
      <3>1. Dealt("load")
        BY <1>1, <1>3, <1>4, <2>4 DEF Dealt
      <3> QED BY <1>1, <2>2, <2>3, <2>4, <3>1
    <2>5. CASE unit["load"] # unit[o]
      <3>1. Dealt(o)
        BY <1>1, <1>3, <1>4, <2>5 DEF Dealt
      <3> QED BY <1>3, <2>2, <2>3, <3>1
    <2> QED BY <2>4, <2>5
  <1> QED BY <1>5, <1>6

\* Whatever the numbers of stages, warps, units and chunks are, the warps never
\* wait for one another in a circle: as long as one has not left, a copy or a
\* product is under way or a warp can go on.
THEOREM NeverStuckAlways == Spec => []NeverStuck
  <1>1. Core /\ Hold => NeverStuck
    BY SomeAble DEF NeverStuck, Settled, Hold
  <1> QED BY <1>1, Holds, PTL
=============================================================================
