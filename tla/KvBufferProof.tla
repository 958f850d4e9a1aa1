--------------------------- MODULE KvBufferProof ---------------------------
(***************************************************************************)
(* Proofs about the key-value buffer, for every modulus, number of         *)
(* channels and tokens, pool and workload: the chunkwise form computes     *)
(* what the recurrence computes, the flush makes the state of any accepted *)
(* prefix, the decode launches update each tile once, and so states and    *)
(* outputs are always those of decoding token by token.                    *)
(*                                                                         *)
(* The argument.  Unrolled, the state after t tokens is the state before   *)
(* the chunk times the product of the gates plus, for each token, what it  *)
(* added times the product of the gates after it (StateClosed).  Seen by   *)
(* the key of the next token this is one row of a triangular system in     *)
(* what the tokens add (AddedClosed); the chunk solves the same rows by    *)
(* forward substitution (SolveRow), so both add the same (UpdatesAre), and *)
(* the queries see the same (ChunkIsSerial).  The flush repeats the        *)
(* recurrence from what is kept (FlushIsSerial).  Sums are folds over      *)
(* sets, and recursive functions are CHOOSE expressions; what is known of  *)
(* them comes from inductions over sets of numbers, not over operators.    *)
(***************************************************************************)
EXTENDS KvBuffer, FiniteSetTheorems, TLAPS

Below == {p \in Nat \X Nat : p[1] < p[2]}

\* A nonempty set of naturals has a least element.
LEMMA Least ==
    ASSUME NEW S \in SUBSET Nat, S # {}
    PROVE  \E m \in S : \A y \in S : m <= y
  <1>1. IsWellFoundedOn(Below, Nat)
    <2>1. OpToRel(<, Nat) = Below
      BY DEF OpToRel, Below
    <2> QED BY <2>1, NatLessThanWellFounded
  <1>2. PICK m \in S : \A y \in S : ~(<<y, m>> \in Below)
    BY <1>1, WFMin
  <1>3. ASSUME NEW y \in S PROVE m <= y
    <2>1. y \in Nat /\ m \in Nat
      OBVIOUS
    <2>2. y < m => <<y, m>> \in Below
      BY <2>1 DEF Below
    <2> QED BY <1>2, <2>1, <2>2
  <1> QED BY <1>3

\* Induction, for a set: what holds of a number is that it is in G.
LEMMA Induction ==
    ASSUME NEW G, 0 \in G, \A n \in Nat : n \in G => n + 1 \in G
    PROVE  Nat \subseteq G
  <1> DEFINE B == {n \in Nat : n \notin G}
  <1>1. SUFFICES ASSUME B # {} PROVE FALSE
    OBVIOUS
  <1>2. PICK m \in B : \A y \in B : m <= y
    <2>1. B \in SUBSET Nat
      OBVIOUS
    <2> HIDE DEF B
    <2> QED BY <1>1, <2>1, Least
  <1>3. m # 0
    OBVIOUS
  <1>4. m - 1 \in Nat /\ m - 1 \notin B
    BY <1>2, <1>3
  <1>5. (m - 1) + 1 \in G
    BY <1>4
  <1> QED BY <1>5

\* Of the subsets of a finite set that are bad one has no bad part.
LEMMA Smallest ==
    ASSUME NEW S, IsFiniteSet(S), NEW B \in SUBSET SUBSET S, B # {}
    PROVE  \E X \in B : \A x \in X : X \ {x} \notin B
  <1> DEFINE N == {n \in Nat : \E X \in B : Cardinality(X) = n}
  <1>1. ASSUME NEW X \in B
        PROVE  /\ IsFiniteSet(X) /\ Cardinality(X) \in Nat
               /\ \A x \in X : Cardinality(X \ {x}) = Cardinality(X) - 1
    <2>1. IsFiniteSet(X)
      BY FS_Subset
    <2> QED BY <2>1, FS_CardinalityType, FS_RemoveElement
  <1>2. N # {} /\ N \in SUBSET Nat
    <2>1. PICK X \in B : TRUE
      OBVIOUS
    <2>2. Cardinality(X) \in N
      BY <1>1
    <2> QED BY <2>2
  <1>3. PICK n \in N : \A m \in N : n <= m
    <2> HIDE DEF N
    <2> QED BY <1>2, Least
  <1>4. PICK X \in B : Cardinality(X) = n
    OBVIOUS
  <1>5. ASSUME NEW x \in X, X \ {x} \in B PROVE FALSE
    <2>1. Cardinality(X \ {x}) = n - 1 /\ n \in Nat
      BY <1>1, <1>4
    <2>2. Cardinality(X \ {x}) \in Nat
      BY <1>1, <1>5
    <2>3. n - 1 \in N
      BY <1>5, <2>1, <2>2
    <2> QED BY <1>3, <2>1, <2>3
  <1> QED BY <1>5

-----------------------------------------------------------------------------
(* Sums: a table of them over the subsets of a set. *)
First(X) == CHOOSE x \in X : TRUE
Iterates(it, f, S) ==
    it = [X \in SUBSET S |-> IF X = {} THEN 0 ELSE f[First(X)] + it[X \ {First(X)}]]

\* The fold by which KvBuffer defines a sum is such a table.
LEMMA TotalIterates ==
    ASSUME NEW f, NEW S
    PROVE  Total(f, S) = (CHOOSE it : Iterates(it, f, S))[S]
  BY DEF Total, FoldFunctionOnSet, MapThenFoldSet, Iterates, First

\* A table at one subset.
LEMMA IteratesAt ==
    ASSUME NEW f, NEW S, NEW it, Iterates(it, f, S), NEW X \in SUBSET S
    PROVE  it[X] = IF X = {} THEN 0 ELSE f[First(X)] + it[X \ {First(X)}]
  BY DEF Iterates

\* Two such tables agree where both are defined.
LEMMA IteratesAgree ==
    ASSUME NEW f, NEW S, NEW R, NEW it, NEW jt, Iterates(it, f, S), Iterates(jt, f, R),
           NEW Q \in SUBSET S, Q \in SUBSET R, IsFiniteSet(Q)
    PROVE  it[Q] = jt[Q]
  <1> DEFINE B == {X \in SUBSET Q : it[X] # jt[X]}
  <1>1. SUFFICES ASSUME B # {} PROVE FALSE
    OBVIOUS
  <1>2. PICK X \in B : \A x \in X : X \ {x} \notin B
    <2>1. B \in SUBSET SUBSET Q
      OBVIOUS
    <2> HIDE DEF B
    <2> QED BY <1>1, <2>1, Smallest
  <1> DEFINE c == First(X)
  <1>3. X \in SUBSET S /\ X \in SUBSET R
    OBVIOUS
  <1>4. it[X] = (IF X = {} THEN 0 ELSE f[c] + it[X \ {c}])
    BY <1>3 DEF Iterates
  <1>5. jt[X] = (IF X = {} THEN 0 ELSE f[c] + jt[X \ {c}])
    BY <1>3 DEF Iterates
  <1>6. X # {} => c \in X
    BY DEF First
  <1> HIDE DEF c
  <1>7. X # {} => it[X \ {c}] = jt[X \ {c}]
    BY <1>2, <1>6
  <1> QED BY <1>4, <1>5, <1>7

\* There is one for every finite set.
LEMMA IteratesExist ==
    ASSUME NEW f, NEW S, IsFiniteSet(S)
    PROVE  \E it : Iterates(it, f, S)
  <1> DEFINE B == {X \in SUBSET S : ~ \E it : Iterates(it, f, X)}
  <1>1. SUFFICES ASSUME B # {} PROVE FALSE
    OBVIOUS
  <1>2. PICK X \in B : \A x \in X : X \ {x} \notin B
    <2>1. B \in SUBSET SUBSET S
      OBVIOUS
    <2> HIDE DEF B
    <2> QED BY <1>1, <2>1, Smallest
  <1> DEFINE It(x) == CHOOSE it : Iterates(it, f, X \ {x})
             Out(Y) == CHOOSE x \in X \ Y : TRUE
             g == [Y \in SUBSET X |-> IF Y = {} THEN 0
                     ELSE IF Y = X THEN f[First(X)] + It(First(X))[X \ {First(X)}]
                     ELSE It(Out(Y))[Y]]
  <1>3. ASSUME NEW x \in X PROVE Iterates(It(x), f, X \ {x})
    <2>1. X \ {x} \in SUBSET S
      OBVIOUS
    <2> QED BY <1>2, <2>1
  <1>4. \A Y \in SUBSET X : Y # X => Out(Y) \in X /\ Y \in SUBSET (X \ {Out(Y)})
    OBVIOUS
  <1>5. \A Y \in SUBSET X : Y # {} => First(Y) \in Y
    BY DEF First
  <1>6. \A Y \in SUBSET X : IsFiniteSet(Y)
    BY FS_Subset
  <1>7. Out(X \ {First(X)}) = First(X) \/ X = {}
    BY <1>5
  <1> HIDE DEF It, Out
  <1>8. ASSUME NEW Y \in SUBSET X
        PROVE  g[Y] = IF Y = {} THEN 0 ELSE f[First(Y)] + g[Y \ {First(Y)}]
    <2>1. CASE Y = {}
      BY <2>1
    <2>2. CASE Y # {} /\ Y = X
      <3> DEFINE Z == X \ {First(X)}
      <3>0. First(X) \in X
        BY <1>5, <2>2
      <3>1. g[Z] = It(First(X))[Z]
        <4>1. CASE Z = {}
          <5>1. It(First(X))[Z] = 0
            BY <1>3, <3>0, <4>1 DEF Iterates
          <5> QED BY <4>1, <5>1
        <4>2. CASE Z # {}
          BY <1>7, <3>0, <4>2
        <4> QED BY <4>1, <4>2
      <3> QED BY <2>2, <3>1
    <2>3. CASE Y # {} /\ Y # X
      <3> DEFINE Z == Y \ {First(Y)}
      <3>1. Out(Y) \in X /\ Y \in SUBSET (X \ {Out(Y)}) /\ First(Y) \in Y
        BY <1>4, <1>5, <2>3
      <3>2. g[Y] = It(Out(Y))[Y]
        BY <2>3
      <3>3. It(Out(Y))[Y] = f[First(Y)] + It(Out(Y))[Z]
        BY <1>3, <2>3, <3>1 DEF Iterates
      <3>4. Z # X /\ Z \in SUBSET X
        BY <3>1
      <3>5. g[Z] = It(Out(Y))[Z]
        <4>1. CASE Z = {}
          <5>1. It(Out(Y))[Z] = 0
            BY <1>3, <3>1, <4>1 DEF Iterates
          <5> QED BY <4>1, <5>1
        <4>2. CASE Z # {}
          <5>1. g[Z] = It(Out(Z))[Z]
            BY <3>4, <4>2
          <5>2. Out(Z) \in X /\ Z \in SUBSET (X \ {Out(Z)}) /\ Z \in SUBSET (X \ {Out(Y)})
            BY <1>4, <3>1, <3>4
          <5>3. Iterates(It(Out(Z)), f, X \ {Out(Z)}) /\ Iterates(It(Out(Y)), f, X \ {Out(Y)})
            BY <1>3, <3>1, <5>2
          <5>4. IsFiniteSet(Z)
            BY <1>6, <3>4
          <5> HIDE DEF Z
          <5>5. It(Out(Z))[Z] = It(Out(Y))[Z]
            BY <5>2, <5>3, <5>4, IteratesAgree
          <5> QED BY <5>1, <5>5
        <4> QED BY <4>1, <4>2
      <3> QED BY <2>3, <3>2, <3>3, <3>5
    <2> QED BY <2>1, <2>2, <2>3
  <1>9. DOMAIN g = SUBSET X /\ g = [Y \in SUBSET X |-> g[Y]]
    OBVIOUS
  <1> HIDE DEF g
  <1>10. Iterates(g, f, X)
    BY <1>8, <1>9 DEF Iterates
  <1> QED BY <1>2, <1>10

\* A sum, one element at a time: the chosen one first.
LEMMA TotalAt ==
    ASSUME NEW f, NEW S, IsFiniteSet(S)
    PROVE  Total(f, S) = IF S = {} THEN 0 ELSE f[First(S)] + Total(f, S \ {First(S)})
  <1> DEFINE It(X) == CHOOSE it : Iterates(it, f, X)
             c == First(S)
             Z == S \ {c}
  <1>1. Total(f, S) = It(S)[S] /\ Total(f, Z) = It(Z)[Z]
    BY TotalIterates
  <1>2. IsFiniteSet(Z)
    BY FS_Subset
  <1>3. Iterates(It(S), f, S) /\ Iterates(It(Z), f, Z)
    BY <1>2, IteratesExist
  <1> HIDE DEF It
  <1>4. It(S)[S] = IF S = {} THEN 0 ELSE f[c] + It(S)[Z]
    BY <1>3 DEF Iterates
  <1>5. It(S)[Z] = It(Z)[Z]
    <2>1. Z \in SUBSET S /\ Z \in SUBSET Z
      OBVIOUS
    <2> HIDE DEF Z
    <2> QED BY <1>2, <1>3, <2>1, IteratesAgree
  <1> QED BY <1>1, <1>4, <1>5

\* An empty sum is 0.
LEMMA TotalEmpty ==
    ASSUME NEW f
    PROVE  Total(f, {}) = 0
  BY TotalAt, FS_EmptySet

\* A sum of integers is an integer.
LEMMA TotalType ==
    ASSUME NEW S, IsFiniteSet(S), NEW f, \A x \in S : f[x] \in Int
    PROVE  Total(f, S) \in Int
  <1> DEFINE B == {X \in SUBSET S : Total(f, X) \notin Int}
  <1>1. SUFFICES ASSUME B # {} PROVE FALSE
    OBVIOUS
  <1>2. PICK X \in B : \A x \in X : X \ {x} \notin B
    <2>1. B \in SUBSET SUBSET S
      OBVIOUS
    <2> HIDE DEF B
    <2> QED BY <1>1, <2>1, Smallest
  <1> DEFINE c == First(X)
  <1>3. Total(f, X) = IF X = {} THEN 0 ELSE f[c] + Total(f, X \ {c})
    <2>1. IsFiniteSet(X)
      BY FS_Subset
    <2> QED BY <2>1, TotalAt
  <1>4. X # {} => c \in X
    BY DEF First
  <1> HIDE DEF c
  <1>5. X # {} => Total(f, X \ {c}) \in Int
    BY <1>2, <1>4
  <1> QED BY <1>3, <1>4, <1>5

\* Any element may be taken out first.
LEMMA TotalAny ==
    ASSUME NEW S, IsFiniteSet(S), NEW f, \A x \in S : f[x] \in Int, NEW y \in S
    PROVE  Total(f, S) = f[y] + Total(f, S \ {y})
  <1> DEFINE B == {X \in SUBSET S : \E x \in X : Total(f, X) # f[x] + Total(f, X \ {x})}
  <1>1. SUFFICES ASSUME B # {} PROVE FALSE
    OBVIOUS
  <1>2. PICK X \in B : \A x \in X : X \ {x} \notin B
    <2>1. B \in SUBSET SUBSET S
      OBVIOUS
    <2> HIDE DEF B
    <2> QED BY <1>1, <2>1, Smallest
  <1>3. PICK x \in X : Total(f, X) # f[x] + Total(f, X \ {x})
    OBVIOUS
  <1> DEFINE c == First(X)
  <1>4. Total(f, X) = f[c] + Total(f, X \ {c})
    <2>1. IsFiniteSet(X)
      BY FS_Subset
    <2> QED BY <2>1, TotalAt
  <1>5. c \in X
    BY DEF First
  <1> HIDE DEF c
  <1>6. x # c
    BY <1>3, <1>4
  <1>7. Total(f, X \ {c}) = f[x] + Total(f, (X \ {c}) \ {x})
    BY <1>2, <1>5, <1>6
  <1>8. Total(f, X \ {x}) = f[c] + Total(f, (X \ {x}) \ {c})
    BY <1>2, <1>5, <1>6
  <1>9. (X \ {c}) \ {x} = (X \ {x}) \ {c}
    OBVIOUS
  <1>10. /\ f[x] \in Int /\ f[c] \in Int /\ Total(f, (X \ {c}) \ {x}) \in Int
    <2>1. (X \ {c}) \ {x} \in SUBSET S
      OBVIOUS
    <2>2. IsFiniteSet((X \ {c}) \ {x}) /\ \A z \in (X \ {c}) \ {x} : f[z] \in Int
      BY <2>1, FS_Subset
    <2> QED BY <1>5, <2>2, TotalType
  <1> QED BY <1>3, <1>4, <1>7, <1>8, <1>9, <1>10

-----------------------------------------------------------------------------
(* Numbers modulo P. *)
Eq(x, y) == M(x) = M(y)

\* Reduction modulo P yields a residue and leaves a residue alone.
LEMMA MType ==
    ASSUME NEW x \in Int
    PROVE  M(x) \in Int /\ M(x) \in Zp /\ (x \in Zp => M(x) = x)
  BY KvBufferAssumption DEF M, Zp

\* Quotient and remainder are determined.
LEMMA DivModUnique ==
    ASSUME NEW S \in Nat \ {0}, NEW d \in Int, NEW r \in 0 .. S - 1
    PROVE  (S * d + r) \div S = d /\ (S * d + r) % S = r
  OBVIOUS

\* And there always are some.
LEMMA DivMod ==
    ASSUME NEW n \in Int, NEW S \in Nat \ {0}
    PROVE  \E d \in Int, r \in 0 .. S - 1 :
              n = S * d + r /\ n \div S = d /\ n % S = r
  <1> DEFINE d == n \div S
  <1>1. d \in Int /\ d * S <= n /\ n < d * S + S
    OBVIOUS
  <1> HIDE DEF d
  <1> DEFINE r == n - d * S
  <1>2. r \in 0 .. S - 1 /\ n = S * d + r
    <2>1. d * S \in Int /\ d * S = S * d
      BY <1>1
    <2> QED BY <1>1, <2>1
  <1> HIDE DEF r
  <1>3. (S * d + r) % S = r
    BY <1>1, <1>2, DivModUnique
  <1>4. n % S = r
    BY <1>2, <1>3
  <1>5. n \div S = d
    BY DEF d
  <1> QED BY <1>1, <1>2, <1>4, <1>5

\* A multiple of P changes nothing.
LEMMA EqPlusP ==
    ASSUME NEW x \in Int, NEW k \in Int
    PROVE  Eq(x + P * k, x)
  <1>1. P \in Nat \ {0} /\ P * k \in Int
    BY KvBufferAssumption
  <1>2. PICK d \in Int, r \in 0 .. P - 1 : x = P * d + r /\ x % P = r
    BY <1>1, DivMod
  <1>3. x + P * k = P * (d + k) + r
    BY <1>1, <1>2
  <1>4. (P * (d + k) + r) % P = r
    BY <1>1, DivModUnique
  <1> QED BY <1>2, <1>3, <1>4 DEF Eq, M

\* Numbers with one residue differ by a multiple of P.
LEMMA EqDiff ==
    ASSUME NEW x \in Int, NEW y \in Int, Eq(x, y)
    PROVE  \E k \in Int : x = y + P * k
  <1>1. P \in Nat \ {0}
    BY KvBufferAssumption
  <1>2. PICK d \in Int, r \in 0 .. P - 1 : x = P * d + r /\ x % P = r
    BY <1>1, DivMod
  <1>3. PICK e \in Int, q \in 0 .. P - 1 : y = P * e + q /\ y % P = q
    BY <1>1, DivMod
  <1>4. x = y + P * (d - e)
    BY <1>1, <1>2, <1>3 DEF Eq, M
  <1> QED BY <1>4

\* A number and its residue.
LEMMA EqM ==
    ASSUME NEW x \in Int
    PROVE  Eq(M(x), x)
  BY MType DEF Eq

\* Congruent numbers have congruent sums,
LEMMA EqPlus ==
    ASSUME NEW x \in Int, NEW y \in Int, NEW u \in Int, NEW v \in Int,
           Eq(x, y), Eq(u, v)
    PROVE  Eq(x + u, y + v)
  <1>1. PICK k \in Int : x = y + P * k
    BY EqDiff
  <1>2. PICK l \in Int : u = v + P * l
    BY EqDiff
  <1>3. x + u = (y + v) + P * (k + l)
    BY <1>1, <1>2, KvBufferAssumption
  <1> QED BY <1>3, EqPlusP

\* congruent differences
LEMMA EqMinus ==
    ASSUME NEW x \in Int, NEW y \in Int, NEW u \in Int, NEW v \in Int,
           Eq(x, y), Eq(u, v)
    PROVE  Eq(x - u, y - v)
  <1>1. PICK k \in Int : x = y + P * k
    BY EqDiff
  <1>2. PICK l \in Int : u = v + P * l
    BY EqDiff
  <1>3. x - u = (y - v) + P * (k - l)
    BY <1>1, <1>2, KvBufferAssumption
  <1> QED BY <1>3, EqPlusP

\* and congruent products.
LEMMA EqTimes ==
    ASSUME NEW x \in Int, NEW y \in Int, NEW u \in Int, NEW v \in Int,
           Eq(x, y), Eq(u, v)
    PROVE  Eq(x * u, y * v)
  <1>1. PICK k \in Int : x = y + P * k
    BY EqDiff
  <1>2. PICK l \in Int : u = v + P * l
    BY EqDiff
  <1>3. x * u = (y * v) + P * (y * l + k * v + P * (k * l))
    BY <1>1, <1>2, KvBufferAssumption
  <1>4. y * l + k * v + P * (k * l) \in Int /\ y * v \in Int
    BY KvBufferAssumption
  <1> QED BY <1>3, <1>4, EqPlusP

-----------------------------------------------------------------------------
(* More of sums. *)
Combines(h, a, f, b, g, S) ==
    \A x \in S : f[x] \in Int /\ g[x] \in Int /\ h[x] = a * f[x] + b * g[x]

\* A sum is linear in what is summed.
LEMMA TotalLinear ==
    ASSUME NEW S, IsFiniteSet(S), NEW a \in Int, NEW b \in Int, NEW f, NEW g, NEW h,
           Combines(h, a, f, b, g, S)
    PROVE  Total(h, S) = a * Total(f, S) + b * Total(g, S)
  <1> USE DEF Combines
  <1> DEFINE B == {X \in SUBSET S : Total(h, X) # a * Total(f, X) + b * Total(g, X)}
  <1>1. SUFFICES ASSUME B # {} PROVE FALSE
    OBVIOUS
  <1>2. PICK X \in B : \A x \in X : X \ {x} \notin B
    <2>1. B \in SUBSET SUBSET S
      OBVIOUS
    <2> HIDE DEF B
    <2> QED BY <1>1, <2>1, Smallest
  <1>3. X # {}
    <2>1. a * 0 + b * 0 = 0
      OBVIOUS
    <2>2. X = {} => Total(f, X) = 0 /\ Total(g, X) = 0 /\ Total(h, X) = 0
      BY TotalEmpty
    <2> QED BY <2>1, <2>2
  <1>4. PICK y \in X : TRUE
    BY <1>3
  <1> DEFINE R == X \ {y}
  <1>5. IsFiniteSet(X) /\ IsFiniteSet(R) /\ y \in S /\ R \in SUBSET S
    BY FS_Subset
  <1>6. Total(h, R) = a * Total(f, R) + b * Total(g, R)
    BY <1>2, <1>5
  <1>7. \A x \in X : f[x] \in Int /\ g[x] \in Int /\ h[x] \in Int
    OBVIOUS
  <1>8. /\ Total(f, X) = f[y] + Total(f, R)
        /\ Total(g, X) = g[y] + Total(g, R)
        /\ Total(h, X) = h[y] + Total(h, R)
    BY <1>5, <1>7, TotalAny
  <1>9. Total(f, R) \in Int /\ Total(g, R) \in Int
    BY <1>5, TotalType
  <1>10. f[y] \in Int /\ g[y] \in Int /\ h[y] = a * f[y] + b * g[y]
    BY <1>5
  <1> HIDE DEF R
  <1>11. Total(h, X) = a * Total(f, X) + b * Total(g, X)
    BY <1>6, <1>8, <1>9, <1>10
  <1> QED BY <1>11

\* A sum only looks at the elements of its set.
LEMMA TotalSame ==
    ASSUME NEW S, IsFiniteSet(S), NEW f, NEW g, \A x \in S : f[x] \in Int /\ g[x] = f[x]
    PROVE  Total(g, S) = Total(f, S)
  <1>1. Combines(g, 1, f, 0, f, S) /\ 0 \in Int /\ 1 \in Int /\ -1 \in Int
    BY DEF Combines
  <1>2. Total(g, S) = 1 * Total(f, S) + 0 * Total(f, S)
    BY <1>1, TotalLinear
  <1> QED BY <1>2, TotalType

\* The sum of sums,
LEMMA TotalPlus ==
    ASSUME NEW S, IsFiniteSet(S), NEW f, NEW g, NEW h,
           \A x \in S : f[x] \in Int /\ g[x] \in Int /\ h[x] = f[x] + g[x]
    PROVE  Total(h, S) = Total(f, S) + Total(g, S)
  <1>1. Combines(h, 1, f, 1, g, S) /\ 0 \in Int /\ 1 \in Int /\ -1 \in Int
    BY DEF Combines
  <1>2. Total(h, S) = 1 * Total(f, S) + 1 * Total(g, S)
    BY <1>1, TotalLinear
  <1> QED BY <1>2, TotalType

\* their difference,
LEMMA TotalMinus ==
    ASSUME NEW S, IsFiniteSet(S), NEW f, NEW g, NEW h,
           \A x \in S : f[x] \in Int /\ g[x] \in Int /\ h[x] = f[x] - g[x]
    PROVE  Total(h, S) = Total(f, S) - Total(g, S)
  <1>1. Combines(h, 1, f, -1, g, S) /\ 0 \in Int /\ 1 \in Int /\ -1 \in Int
    BY DEF Combines
  <1>2. Total(h, S) = 1 * Total(f, S) + (-1) * Total(g, S)
    BY <1>1, TotalLinear
  <1>3. Total(f, S) \in Int /\ Total(g, S) \in Int
    BY TotalType
  <1> QED BY <1>2, <1>3

\* and a factor before a sum.
LEMMA TotalTimes ==
    ASSUME NEW S, IsFiniteSet(S), NEW a \in Int, NEW f, NEW h,
           \A x \in S : f[x] \in Int /\ h[x] = a * f[x]
    PROVE  Total(h, S) = a * Total(f, S)
  <1>1. Combines(h, a, f, 0, f, S) /\ 0 \in Int /\ 1 \in Int /\ -1 \in Int
    BY DEF Combines
  <1>2. Total(h, S) = a * Total(f, S) + 0 * Total(f, S)
    BY <1>1, TotalLinear
  <1> QED BY <1>2, TotalType

\* A sum of zeros.
LEMMA TotalZero ==
    ASSUME NEW S, IsFiniteSet(S), NEW f, \A x \in S : f[x] = 0
    PROVE  Total(f, S) = 0
  <1>1. \A x \in S : f[x] \in Int /\ f[x] = 0 * f[x]
    OBVIOUS
  <1>2. Total(f, S) = 0 * Total(f, S)
    BY <1>1, TotalTimes
  <1>3. Total(f, S) \in Int
    BY TotalType
  <1> QED BY <1>2, <1>3

\* Congruent terms have congruent sums.
LEMMA TotalEq ==
    ASSUME NEW S, IsFiniteSet(S), NEW f, NEW g,
           \A x \in S : f[x] \in Int /\ g[x] \in Int /\ Eq(f[x], g[x])
    PROVE  Eq(Total(f, S), Total(g, S))
  <1> DEFINE B == {X \in SUBSET S : ~ Eq(Total(f, X), Total(g, X))}
  <1>1. SUFFICES ASSUME B # {} PROVE FALSE
    OBVIOUS
  <1>2. PICK X \in B : \A x \in X : X \ {x} \notin B
    <2>1. B \in SUBSET SUBSET S
      OBVIOUS
    <2> HIDE DEF B
    <2> QED BY <1>1, <2>1, Smallest
  <1>3. X # {}
    BY TotalEmpty DEF Eq
  <1>4. PICK y \in X : TRUE
    BY <1>3
  <1> DEFINE R == X \ {y}
  <1>5. IsFiniteSet(X) /\ IsFiniteSet(R) /\ y \in S /\ R \in SUBSET S
    BY FS_Subset
  <1>6. Eq(Total(f, R), Total(g, R))
    BY <1>2, <1>5
  <1>7. \A x \in X : f[x] \in Int /\ g[x] \in Int
    OBVIOUS
  <1>8. /\ Total(f, X) = f[y] + Total(f, R)
        /\ Total(g, X) = g[y] + Total(g, R)
    BY <1>5, <1>7, TotalAny
  <1>9. Total(f, R) \in Int /\ Total(g, R) \in Int
    BY <1>5, TotalType
  <1>10. f[y] \in Int /\ g[y] \in Int /\ Eq(f[y], g[y])
    BY <1>5
  <1> HIDE DEF R
  <1>11. Eq(Total(f, X), Total(g, X))
    BY <1>6, <1>8, <1>9, <1>10, EqPlus
  <1> QED BY <1>11

\* The rows of a table first, or its columns.
Transposes(G, F, R, C) == \A x \in R, y \in C : F[x][y] \in Int /\ G[y][x] = F[x][y]
RowTotals(f, F, R, C) == \A x \in R : f[x] = Total(F[x], C)

\* The double sum of a table can be taken either way.
LEMMA TotalSwap ==
    ASSUME NEW R, IsFiniteSet(R), NEW C, IsFiniteSet(C), NEW F, NEW G, NEW f, NEW g,
           Transposes(G, F, R, C), RowTotals(f, F, R, C), RowTotals(g, G, C, R)
    PROVE  Total(f, R) = Total(g, C)
  <1> USE DEF Transposes, RowTotals
  <1> DEFINE g_(X) == [y \in C |-> Total(G[y], X)]
             B == {X \in SUBSET R : Total(f, X) # Total(g_(X), C)}
  <1>1. ASSUME NEW X \in SUBSET R
        PROVE  /\ IsFiniteSet(X)
               /\ \A y \in C : g_(X)[y] = Total(G[y], X) /\ g_(X)[y] \in Int
               /\ \A x \in X : f[x] = Total(F[x], C) /\ f[x] \in Int
    <2>1. IsFiniteSet(X)
      BY FS_Subset
    <2>2. ASSUME NEW y \in C PROVE g_(X)[y] = Total(G[y], X) /\ g_(X)[y] \in Int
      <3>1. \A x \in X : G[y][x] \in Int
        OBVIOUS
      <3> QED BY <2>1, <3>1, TotalType
    <2>3. ASSUME NEW x \in X PROVE f[x] = Total(F[x], C) /\ f[x] \in Int
      <3>1. \A y \in C : F[x][y] \in Int
        OBVIOUS
      <3> QED BY <3>1, TotalType
    <2> QED BY <2>1, <2>2, <2>3
  <1> HIDE DEF g_
  <1>2. B = {}
    <2>1. SUFFICES ASSUME B # {} PROVE FALSE
      OBVIOUS
    <2>2. PICK X \in B : \A x \in X : X \ {x} \notin B
      <3>1. B \in SUBSET SUBSET R
        OBVIOUS
      <3> HIDE DEF B
      <3> QED BY <2>1, <3>1, Smallest
    <2>3. X # {}
      <3>1. ASSUME X = {} PROVE FALSE
        <4>1. \A y \in C : g_(X)[y] = 0
          BY <1>1, <3>1, TotalEmpty
        <4>2. Total(g_(X), C) = 0 /\ Total(f, X) = 0
          BY <3>1, <4>1, TotalZero, TotalEmpty
        <4> QED BY <4>2
      <3> QED BY <3>1
    <2>4. PICK x \in X : TRUE
      BY <2>3
    <2> DEFINE Z == X \ {x}
    <2>5. Z \in SUBSET R /\ X \in SUBSET R /\ x \in R
      OBVIOUS
    <2>6. Total(f, Z) = Total(g_(Z), C)
      BY <2>2, <2>5
    <2>7. Total(f, X) = Total(F[x], C) + Total(f, Z)
      <3>1. IsFiniteSet(X) /\ \A z \in X : f[z] \in Int
        BY <1>1, <2>5
      <3>2. Total(f, X) = f[x] + Total(f, Z)
        BY <3>1, TotalAny
      <3> QED BY <1>1, <2>5, <3>2
    <2>8. ASSUME NEW y \in C
          PROVE  /\ F[x][y] \in Int /\ g_(Z)[y] \in Int
                 /\ g_(X)[y] = F[x][y] + g_(Z)[y]
      <3>1. IsFiniteSet(X) /\ \A z \in X : G[y][z] \in Int
        BY <1>1, <2>5
      <3>2. Total(G[y], X) = G[y][x] + Total(G[y], Z)
        BY <3>1, TotalAny
      <3> QED BY <1>1, <2>5, <3>2
    <2>9. Total(g_(X), C) = Total(F[x], C) + Total(g_(Z), C)
      <3>1. \A y \in C : /\ F[x][y] \in Int /\ g_(Z)[y] \in Int
                          /\ g_(X)[y] = F[x][y] + g_(Z)[y]
        BY <2>8
      <3> HIDE DEF Z
      <3> QED BY <3>1, TotalPlus
    <2> QED BY <2>6, <2>7, <2>9
  <1>3. Total(f, R) = Total(g_(R), C)
    BY <1>2
  <1>4. \A y \in C : g_(R)[y] \in Int /\ g[y] = g_(R)[y]
    BY <1>1
  <1> QED BY <1>3, <1>4, TotalSame

\* One more term of an interval.
LEMMA TotalNext ==
    ASSUME NEW n \in Nat, NEW f, \A i \in 1 .. n + 1 : f[i] \in Int
    PROVE  Total(f, 1 .. n + 1) = Total(f, 1 .. n) + f[n + 1]
  <1>1. IsFiniteSet(1 .. n + 1) /\ IsFiniteSet(1 .. n)
    BY FS_Interval
  <1>2. (1 .. n + 1) \ {n + 1} = 1 .. n /\ n + 1 \in 1 .. n + 1
    OBVIOUS
  <1>3. Total(f, 1 .. n + 1) = f[n + 1] + Total(f, 1 .. n)
    BY <1>1, <1>2, TotalAny
  <1>4. Total(f, 1 .. n) \in Int
    BY <1>1, TotalType
  <1> QED BY <1>3, <1>4

\* What is 0 beyond m may be left out.
LEMMA TotalBeyond ==
    ASSUME NEW n \in Nat, NEW m \in 0 .. n, NEW f,
           \A i \in 1 .. n : f[i] \in Int /\ (i > m => f[i] = 0)
    PROVE  Total(f, 1 .. n) = Total(f, 1 .. m)
  <1> DEFINE G == {l \in Nat : m + l <= n => Total(f, 1 .. m + l) = Total(f, 1 .. m)}
  <1>1. 0 \in G
    OBVIOUS
  <1>2. ASSUME NEW l \in Nat, l \in G PROVE l + 1 \in G
    <2>1. SUFFICES ASSUME m + (l + 1) <= n
                   PROVE  Total(f, 1 .. m + (l + 1)) = Total(f, 1 .. m)
      OBVIOUS
    <2>2. m + l \in Nat /\ m + (l + 1) = (m + l) + 1
      OBVIOUS
    <2>3. Total(f, 1 .. (m + l) + 1) = Total(f, 1 .. m + l) + f[(m + l) + 1]
      <3>1. \A i \in 1 .. (m + l) + 1 : f[i] \in Int
        BY <2>1
      <3> QED BY <2>2, <3>1, TotalNext
    <2>4. f[(m + l) + 1] = 0
      BY <2>1
    <2>5. Total(f, 1 .. m + l) = Total(f, 1 .. m)
      BY <1>2, <2>1
    <2>6. Total(f, 1 .. m) \in Int
      <3>1. \A i \in 1 .. m : f[i] \in Int
        OBVIOUS
      <3>2. IsFiniteSet(1 .. m)
        BY FS_Interval
      <3> QED BY <3>1, <3>2, TotalType
    <2> QED BY <2>2, <2>3, <2>4, <2>5, <2>6
  <1>3. Nat \subseteq G
    <2> HIDE DEF G
    <2> QED BY <1>1, <1>2, Induction
  <1>4. n - m \in G
    BY <1>3
  <1> QED BY <1>4

-----------------------------------------------------------------------------
(* Recursive functions over an interval of integers. *)

\* Induction from lo to hi, for a set.
LEMMA UpFrom ==
    ASSUME NEW lo \in Int, NEW hi \in Int, NEW G, lo \in G,
           \A j \in lo .. hi - 1 : j \in G => j + 1 \in G
    PROVE  lo .. hi \subseteq G
  <1> DEFINE H == {n \in Nat : lo + n <= hi => lo + n \in G}
  <1>1. 0 \in H
    OBVIOUS
  <1>2. ASSUME NEW n \in Nat, n \in H PROVE n + 1 \in H
    <2>1. SUFFICES ASSUME lo + (n + 1) <= hi PROVE lo + (n + 1) \in G
      OBVIOUS
    <2>2. lo + n \in G /\ lo + n \in lo .. hi - 1
      BY <1>2, <2>1
    <2>3. (lo + n) + 1 \in G
      BY <2>2
    <2> QED BY <2>3
  <1>3. Nat \subseteq H
    <2> HIDE DEF H
    <2> QED BY <1>1, <1>2, Induction
  <1>4. ASSUME NEW j \in lo .. hi PROVE j \in G
    <2>1. j - lo \in H
      BY <1>3
    <2> QED BY <2>1
  <1> QED BY <1>4

\* A value that is made of those before it.
Before(f, lo, t) == [i \in lo .. t - 1 |-> f[i]]

Steps(step, V, lo, hi) ==
    \A t \in lo .. hi : \A h \in [lo .. t - 1 -> V] : step[t][h] \in V
Recursive(f, step, V, lo, hi) ==
    /\ f \in [lo .. hi -> V]
    /\ \A t \in lo .. hi : f[t] = step[t][Before(f, lo, t)]

\* A function in which each value is made of the values before it exists:
\* glued from those on the intervals below, with no induction over an operator.
LEMMA RecursionExists ==
    ASSUME NEW V, NEW lo \in Int, NEW hi \in Int, NEW step, Steps(step, V, lo, hi)
    PROVE  \E f : Recursive(f, step, V, lo, hi)
  <1> USE DEF Steps, Recursive
  <1> DEFINE Good(f, n) == Recursive(f, step, V, lo, n)
             G == {n \in Int : \E f : Good(f, n)}
  <1>1. lo - 1 \in G
    <2>1. Good([i \in lo .. lo - 1 |-> 0], lo - 1)
      OBVIOUS
    <2> QED BY <2>1
  <1>2. ASSUME NEW n \in lo - 1 .. hi - 1, n \in G PROVE n + 1 \in G
    <2>1. PICK f : Good(f, n)
      BY <1>2
    <2> DEFINE v == step[n + 1][Before(f, lo, n + 1)]
               g == [t \in lo .. n + 1 |-> IF t = n + 1 THEN v ELSE f[t]]
    <2>2. v \in V
      <3>1. (n + 1) - 1 = n /\ n + 1 \in lo .. hi
        OBVIOUS
      <3>2. Before(f, lo, n + 1) \in [lo .. (n + 1) - 1 -> V]
        BY <2>1, <3>1 DEF Before
      <3> QED BY <3>1, <3>2
    <2>3. ASSUME NEW t \in lo .. n + 1
          PROVE  /\ Before(g, lo, t) = Before(f, lo, t)
                 /\ g[t] \in V
      <3>1. \A i \in lo .. t - 1 : g[i] = f[i]
        OBVIOUS
      <3>2. g[t] \in V
        BY <2>1, <2>2
      <3> HIDE DEF g
      <3> QED BY <3>1, <3>2 DEF Before
    <2>4. ASSUME NEW t \in lo .. n + 1
          PROVE  g[t] = step[t][Before(g, lo, t)]
      <3>1. g[t] = step[t][Before(f, lo, t)]
        BY <2>1
      <3> QED BY <2>3, <3>1
    <2>5. g \in [lo .. n + 1 -> V]
      BY <2>3
    <2> HIDE DEF g
    <2>6. Good(g, n + 1)
      BY <2>4, <2>5
    <2> QED BY <2>6
  <1>3. lo - 1 .. hi \subseteq G
    <2> HIDE DEF G
    <2>1. lo - 1 \in Int /\ \A j \in lo - 1 .. hi - 1 : j \in G => j + 1 \in G
      BY <1>2
    <2> QED BY <1>1, <2>1, UpFrom
  <1>4. CASE hi >= lo - 1
    <2>1. hi \in lo - 1 .. hi
      BY <1>4
    <2>2. hi \in G
      BY <1>3, <2>1
    <2> QED BY <2>2
  <1>5. CASE hi < lo - 1
    <2>1. lo .. hi = {}
      BY <1>5
    <2>2. Recursive([i \in lo .. hi |-> 0], step, V, lo, hi)
      BY <2>1
    <2> QED BY <2>1, <2>2
  <1> QED BY <1>4, <1>5

-----------------------------------------------------------------------------
(* The recurrence, token by token. *)

\* A product of vectors is the residue of the sum of their products.
LEMMA DotType ==
    ASSUME NEW x, NEW y, \A c \in Channels : x[c] \in Int /\ y[c] \in Int
    PROVE  /\ Dot(x, y) \in Zp /\ Dot(x, y) \in Int
           /\ Total([c \in Channels |-> x[c] * y[c]], Channels) \in Int
           /\ Eq(Dot(x, y), Total([c \in Channels |-> x[c] * y[c]], Channels))
  <1> DEFINE f == [c \in Channels |-> x[c] * y[c]]
  <1>1. \A c \in Channels : f[c] \in Int
    OBVIOUS
  <1>2. Dot(x, y) = M(Total(f, Channels))
    BY DEF Dot, Sum
  <1> HIDE DEF f
  <1>3. Total(f, Channels) \in Int
    BY <1>1, TotalType, KvBufferAssumption
  <1> QED BY <1>2, <1>3, MType, EqM DEF f

\* Residues are integers.
LEMMA ZpInt == Zp \subseteq Int /\ 0 \in Zp /\ 1 \in Zp
  BY KvBufferAssumption DEF Zp

\* The integers are closed under the operations of a ring.
LEMMA IntType ==
    ASSUME NEW x \in Int, NEW y \in Int
    PROVE  x + y \in Int /\ x - y \in Int /\ x * y \in Int
  OBVIOUS

\* One step of decoding stays within the residues.
LEMMA StepType ==
    ASSUME work \in Workloads, NEW s \in Vector, NEW x \in TokenRecord
    PROVE  /\ \A c \in Channels : Gate(x, c) \in Zp
           /\ Decayed(s, x) \in Vector
           /\ Delta(s, x) \in Zp
           /\ Decode(s, x) \in Vector
  <1>1. \A y \in Int : M(y) \in Zp
    BY MType
  <1>2. x.k \in Vector /\ x.g \in Vector /\ x.beta \in Zp /\ x.v \in Zp
    BY DEF TokenRecord
  <1>3. \A c \in Channels : Gate(x, c) \in Zp
    BY <1>2, WorkloadsAssumption DEF Gate, Vector
  <1>4. Decayed(s, x) \in Vector
    <2>1. \A c \in Channels : s[c] \in Int /\ Gate(x, c) \in Int
      BY <1>3, ZpInt DEF Vector
    <2>2. \A c \in Channels : Gate(x, c) * s[c] \in Int
      BY <2>1, IntType
    <2> QED BY <1>1, <2>2 DEF Decayed, Vector
  <1>5. ASSUME NEW d \in Vector PROVE Delta(d, x) \in Zp
    <2>1. Dot(d, x.k) \in Int
      BY <1>2, ZpInt, DotType DEF Vector
    <2>2. x.beta * (x.v - Dot(d, x.k)) \in Int
      <3>1. x.beta \in Int /\ x.v \in Int
        BY <1>2, ZpInt
      <3> QED BY <2>1, <3>1, IntType
    <2> QED BY <1>1, <1>2, <2>2 DEF Delta
  <1>6. Decode(s, x) \in Vector
    <2>1. \A c \in Channels : Decayed(s, x)[c] + Delta(Decayed(s, x), x) * x.k[c] \in Int
      <3>1. Delta(Decayed(s, x), x) \in Int
        BY <1>4, <1>5, ZpInt
      <3>2. \A c \in Channels : Decayed(s, x)[c] \in Int /\ x.k[c] \in Int
        BY <1>2, <1>4, ZpInt DEF Vector
      <3> QED BY <3>1, <3>2, IntType
    <2> QED BY <1>1, <2>1 DEF Decode, Vector
  <1> QED BY <1>3, <1>4, <1>5, <1>6

\* xs are n tokens, at least.
AreTokens(xs, n) == \A i \in 1 .. n : xs[i] \in TokenRecord

\* f are the states from s on over the first n tokens of xs.
States(f, s, xs, n) ==
    /\ f \in [0 .. n -> Vector]
    /\ f[0] = s
    /\ \A i \in 1 .. n : f[i] = Decode(f[i - 1], xs[i])

\* The recurrence can be run.
LEMMA StatesExist ==
    ASSUME work \in Workloads, NEW s \in Vector, NEW n \in Nat, NEW xs, AreTokens(xs, n)
    PROVE  \E f : States(f, s, xs, n)
  <1> DEFINE step == [t \in 0 .. n |-> [h \in [0 .. t - 1 -> Vector] |->
                        IF t = 0 THEN s ELSE Decode(h[t - 1], xs[t])]]
  <1>1. \A t \in 0 .. n : \A h \in [0 .. t - 1 -> Vector] :
           step[t][h] = (IF t = 0 THEN s ELSE Decode(h[t - 1], xs[t]))
    OBVIOUS
  <1>2. \A t \in 0 .. n : \A h \in [0 .. t - 1 -> Vector] : step[t][h] \in Vector
    <2>1. ASSUME NEW t \in 0 .. n, NEW h \in [0 .. t - 1 -> Vector], t # 0
          PROVE  Decode(h[t - 1], xs[t]) \in Vector
      <3>1. h[t - 1] \in Vector /\ xs[t] \in TokenRecord
        BY <2>1 DEF AreTokens
      <3> QED BY <3>1, StepType
    <2> QED BY <1>1, <2>1
  <1> HIDE DEF step
  <1>3. PICK f : Recursive(f, step, Vector, 0, n)
    <2>1. Steps(step, Vector, 0, n) /\ 0 \in Int /\ n \in Int
      BY <1>2 DEF Steps
    <2> QED BY <1>2, <2>1, RecursionExists
  <1>4. ASSUME NEW t \in 0 .. n
        PROVE  f[t] = IF t = 0 THEN s ELSE Decode(f[t - 1], xs[t])
    <2> DEFINE h == Before(f, 0, t)
    <2>1. h \in [0 .. t - 1 -> Vector] /\ (t # 0 => h[t - 1] = f[t - 1])
      BY <1>3 DEF Before, Recursive
    <2> HIDE DEF h
    <2>2. f[t] = step[t][h]
      BY <1>3 DEF h, Recursive
    <2> QED BY <1>1, <2>1, <2>2
  <1>5. States(f, s, xs, n)
    BY <1>3, <1>4 DEF States, Recursive
  <1> QED BY <1>5

\* It has one result.
LEMMA StatesAgree ==
    ASSUME work \in Workloads, NEW s, NEW n \in Nat, NEW m \in Nat, NEW xs,
           NEW f, NEW g, States(f, s, xs, n), States(g, s, xs, m), m <= n
    PROVE  \A i \in 0 .. m : f[i] = g[i]
  <1> DEFINE G == {i \in 0 .. m : f[i] = g[i]}
  <1>1. 0 \in G
    BY DEF States
  <1>2. ASSUME NEW i \in 0 .. m - 1, i \in G PROVE i + 1 \in G
    <2>1. /\ f[i + 1] = Decode(f[(i + 1) - 1], xs[i + 1])
          /\ g[i + 1] = Decode(g[(i + 1) - 1], xs[i + 1])
      BY DEF States
    <2>2. f[i] = g[i] /\ (i + 1) - 1 = i
      BY <1>2
    <2> QED BY <2>1, <2>2
  <1>3. 0 .. m \subseteq G
    <2> HIDE DEF G
    <2> QED BY <1>1, <1>2, UpFrom
  <1> QED BY <1>3

\* And After names it.
LEMMA AfterIs ==
    ASSUME work \in Workloads, NEW s \in Vector, NEW n \in Nat, NEW xs, AreTokens(xs, n),
           NEW f, States(f, s, xs, n), NEW m \in 0 .. n
    PROVE  After(s, xs, m) = f[m]
  <1> DEFINE Q(g) == g = [i \in 0 .. m |-> IF i = 0 THEN s ELSE Decode(g[i - 1], xs[i])]
  <1>1. After(s, xs, m) = (CHOOSE g : Q(g))[m]
    BY DEF After
  <1>2. AreTokens(xs, m)
    BY DEF AreTokens
  <1>3. \E g : Q(g)
    <2>1. PICK g : States(g, s, xs, m)
      BY <1>2, StatesExist
    <2>2. Q(g)
      BY <2>1 DEF States
    <2> QED BY <2>2
  <1> DEFINE st == CHOOSE g : Q(g)
  <1>4. Q(st)
    BY <1>3
  <1> HIDE DEF st
  <1>5. States(st, s, xs, m)
    <2>1. st[0] = s /\ \A i \in 1 .. m : st[i] = Decode(st[i - 1], xs[i])
      BY <1>4
    <2> DEFINE G == {i \in 0 .. m : st[i] \in Vector}
    <2>2. 0 \in G
      BY <2>1
    <2>3. ASSUME NEW i \in 0 .. m - 1, i \in G PROVE i + 1 \in G
      <3>1. st[i + 1] = Decode(st[(i + 1) - 1], xs[i + 1]) /\ (i + 1) - 1 = i
        BY <2>1
      <3>2. xs[i + 1] \in TokenRecord /\ st[i] \in Vector
        BY <1>2, <2>3 DEF AreTokens
      <3> QED BY <3>1, <3>2, StepType
    <2>4. 0 .. m \subseteq G
      <3> HIDE DEF G
      <3> QED BY <2>2, <2>3, UpFrom
    <2>5. st \in [0 .. m -> Vector]
      BY <1>4, <2>4
    <2> QED BY <2>1, <2>5 DEF States
  <1>6. f[m] = st[m]
    BY <1>5, StatesAgree
  <1> QED BY <1>1, <1>6 DEF st

\* The recursion of After, as a reader of the code expects it.
LEMMA AfterFacts ==
    ASSUME work \in Workloads, NEW s \in Vector, NEW n \in Nat, NEW xs, AreTokens(xs, n),
           NEW m \in 0 .. n
    PROVE  /\ After(s, xs, m) \in Vector
           /\ After(s, xs, 0) = s
           /\ m > 0 => After(s, xs, m) = Decode(After(s, xs, m - 1), xs[m])
  <1>1. PICK f : States(f, s, xs, n)
    BY StatesExist
  <1>2. \A i \in 0 .. n : After(s, xs, i) = f[i]
    BY <1>1, AfterIs
  <1>3. 0 \in 0 .. n /\ (m > 0 => m - 1 \in 0 .. n /\ m \in 1 .. n)
    OBVIOUS
  <1> QED BY <1>1, <1>2, <1>3 DEF States

-----------------------------------------------------------------------------
(* The products of the gates after token i. *)
Products(f, xs, i, n, c) ==
    /\ f \in [i .. n -> Zp]
    /\ f[i] = 1
    /\ \A j \in i + 1 .. n : f[j] = M(f[j - 1] * Gate(xs[j], c))

\* A gate is a residue.
LEMMA GateType ==
    ASSUME work \in Workloads, NEW x \in TokenRecord, NEW c \in Channels
    PROVE  Gate(x, c) \in Zp /\ Gate(x, c) \in Int
  <1>1. x.g \in Vector
    BY DEF TokenRecord
  <1> QED BY <1>1, WorkloadsAssumption, ZpInt DEF Gate, Vector

\* The products of gates exist,
LEMMA ProductsExist ==
    ASSUME work \in Workloads, NEW n \in Nat, NEW xs, AreTokens(xs, n), NEW i \in 0 .. n,
           NEW c \in Channels
    PROVE  \E f : Products(f, xs, i, n, c)
  <1> DEFINE step == [t \in i .. n |-> [h \in [i .. t - 1 -> Zp] |->
                        IF t = i THEN 1 ELSE M(h[t - 1] * Gate(xs[t], c))]]
  <1>1. \A t \in i .. n : \A h \in [i .. t - 1 -> Zp] :
           step[t][h] = (IF t = i THEN 1 ELSE M(h[t - 1] * Gate(xs[t], c)))
    OBVIOUS
  <1>2. \A t \in i .. n : \A h \in [i .. t - 1 -> Zp] : step[t][h] \in Zp
    <2>1. ASSUME NEW t \in i .. n, NEW h \in [i .. t - 1 -> Zp], t # i
          PROVE  M(h[t - 1] * Gate(xs[t], c)) \in Zp
      <3>1. h[t - 1] \in Int /\ xs[t] \in TokenRecord
        <4>1. t - 1 \in i .. t - 1 /\ t \in 1 .. n
          BY <2>1
        <4> QED BY <4>1, ZpInt DEF AreTokens
      <3>2. Gate(xs[t], c) \in Int
        BY <3>1, GateType
      <3> QED BY <3>1, <3>2, IntType, MType
    <2> QED BY <1>1, <2>1, ZpInt
  <1> HIDE DEF step
  <1>3. PICK f : Recursive(f, step, Zp, i, n)
    <2>1. Steps(step, Zp, i, n) /\ i \in Int /\ n \in Int
      BY <1>2 DEF Steps
    <2> QED BY <2>1, RecursionExists
  <1>4. ASSUME NEW t \in i .. n
        PROVE  f[t] = IF t = i THEN 1 ELSE M(f[t - 1] * Gate(xs[t], c))
    <2> DEFINE h == Before(f, i, t)
    <2>1. h \in [i .. t - 1 -> Zp] /\ (t # i => h[t - 1] = f[t - 1])
      BY <1>3 DEF Before, Recursive
    <2> HIDE DEF h
    <2>2. f[t] = step[t][h]
      BY <1>3 DEF h, Recursive
    <2> QED BY <1>1, <2>1, <2>2
  <1>5. Products(f, xs, i, n, c)
    BY <1>3, <1>4 DEF Products, Recursive
  <1> QED BY <1>5

\* are determined,
LEMMA ProductsAgree ==
    ASSUME NEW n \in Nat, NEW i \in 0 .. n, NEW m \in i .. n, NEW xs, NEW c,
           NEW f, NEW g, Products(f, xs, i, n, c), Products(g, xs, i, m, c)
    PROVE  \A j \in i .. m : f[j] = g[j]
  <1> DEFINE G == {j \in i .. m : f[j] = g[j]}
  <1>1. i \in G
    BY DEF Products
  <1>2. ASSUME NEW j \in i .. m - 1, j \in G PROVE j + 1 \in G
    <2>1. /\ f[j + 1] = M(f[(j + 1) - 1] * Gate(xs[j + 1], c))
          /\ g[j + 1] = M(g[(j + 1) - 1] * Gate(xs[j + 1], c))
      BY DEF Products
    <2>2. f[j] = g[j] /\ (j + 1) - 1 = j
      BY <1>2
    <2> QED BY <2>1, <2>2
  <1>3. i .. m \subseteq G
    <2> HIDE DEF G
    <2> QED BY <1>1, <1>2, UpFrom
  <1> QED BY <1>3

\* and Ratio names them.
LEMMA RatioIs ==
    ASSUME work \in Workloads, NEW n \in Nat, NEW xs, AreTokens(xs, n), NEW i \in 0 .. n,
           NEW c \in Channels, NEW f, Products(f, xs, i, n, c), NEW m \in i .. n
    PROVE  Ratio(xs, m, i, c) = f[m]
  <1> DEFINE Q(g) == g = [j \in i .. m |-> IF j = i THEN 1 ELSE M(g[j - 1] * Gate(xs[j], c))]
  <1>1. Ratio(xs, m, i, c) = (CHOOSE g : Q(g))[m]
    BY DEF Ratio
  <1>2. AreTokens(xs, m) /\ m \in Nat /\ i \in 0 .. m
    BY DEF AreTokens
  <1>3. \E g : Q(g)
    <2>1. PICK g : Products(g, xs, i, m, c)
      BY <1>2, ProductsExist
    <2>2. \A j \in i .. m : g[j] = IF j = i THEN 1 ELSE M(g[j - 1] * Gate(xs[j], c))
      BY <2>1 DEF Products
    <2>3. Q(g)
      BY <2>1, <2>2 DEF Products
    <2> QED BY <2>3
  <1> DEFINE st == CHOOSE g : Q(g)
  <1>4. Q(st)
    BY <1>3
  <1> HIDE DEF st
  <1>5. Products(st, xs, i, m, c)
    <2>1. st[i] = 1 /\ \A j \in i + 1 .. m : st[j] = M(st[j - 1] * Gate(xs[j], c))
      BY <1>4
    <2> DEFINE G == {j \in i .. m : st[j] \in Zp}
    <2>2. i \in G
      BY <2>1, ZpInt
    <2>3. ASSUME NEW j \in i .. m - 1, j \in G PROVE j + 1 \in G
      <3>1. st[j + 1] = M(st[(j + 1) - 1] * Gate(xs[j + 1], c)) /\ (j + 1) - 1 = j
        BY <2>1
      <3>2. xs[j + 1] \in TokenRecord /\ st[j] \in Int
        <4>1. j + 1 \in 1 .. m
          OBVIOUS
        <4> QED BY <1>2, <2>3, <4>1, ZpInt DEF AreTokens
      <3>3. st[j] * Gate(xs[j + 1], c) \in Int
        BY <3>2, GateType, IntType
      <3> QED BY <3>1, <3>3, MType
    <2>4. i .. m \subseteq G
      <3> HIDE DEF G
      <3> QED BY <2>2, <2>3, UpFrom
    <2>5. st \in [i .. m -> Zp]
      BY <1>4, <2>4
    <2> QED BY <2>1, <2>5 DEF Products
  <1>6. f[m] = st[m]
    BY <1>5, ProductsAgree
  <1> QED BY <1>1, <1>6 DEF st

\* The recursion of Ratio.
LEMMA RatioFacts ==
    ASSUME work \in Workloads, NEW n \in Nat, NEW xs, AreTokens(xs, n), NEW i \in 0 .. n,
           NEW m \in i .. n, NEW c \in Channels
    PROVE  /\ Ratio(xs, m, i, c) \in Zp /\ Ratio(xs, m, i, c) \in Int
           /\ Ratio(xs, i, i, c) = 1
           /\ m > i => Ratio(xs, m, i, c) = M(Ratio(xs, m - 1, i, c) * Gate(xs[m], c))
  <1>1. PICK f : Products(f, xs, i, n, c)
    BY ProductsExist
  <1>2. \A j \in i .. n : Ratio(xs, j, i, c) = f[j]
    BY <1>1, RatioIs
  <1>3. i \in i .. n /\ (m > i => m - 1 \in i .. n /\ m \in i + 1 .. n)
    OBVIOUS
  <1> QED BY <1>1, <1>2, <1>3, ZpInt DEF Products

-----------------------------------------------------------------------------
(* The closed form of the recurrence. *)

\* What token t adds along its key, when the tokens are decoded one by one.
Added(s, xs, t) == Delta(Decayed(After(s, xs, t - 1), xs[t]), xs[t])

\* Channel c of what each token has added, as it stands at token t.
Part(s, xs, t, c) ==
    [i \in 1 .. T |-> Added(s, xs, i) * xs[i].k[c] * Ratio(xs, t, i, c)]

\* The fields of a token and what decoding adds for it are numbers.
LEMMA TokenFacts ==
    ASSUME work \in Workloads, NEW s \in Vector, NEW xs \in Drafts, NEW t \in 1 .. T
    PROVE  /\ AreTokens(xs, T) /\ T \in Nat /\ xs[t] \in TokenRecord
           /\ xs[t].k \in Vector /\ xs[t].q \in Vector
           /\ xs[t].beta \in Int /\ xs[t].v \in Int
           /\ \A c \in Channels : xs[t].k[c] \in Int /\ xs[t].q[c] \in Int
           /\ After(s, xs, t - 1) \in Vector
           /\ Added(s, xs, t) \in Zp /\ Added(s, xs, t) \in Int
           /\ Decayed(After(s, xs, t - 1), xs[t]) \in Vector
  <1>1. AreTokens(xs, T) /\ T \in Nat /\ xs[t] \in TokenRecord
    BY KvBufferAssumption DEF Drafts, AreTokens
  <1>2. xs[t].k \in Vector /\ xs[t].q \in Vector /\ xs[t].beta \in Int /\ xs[t].v \in Int
    BY <1>1, ZpInt DEF TokenRecord
  <1>3. \A c \in Channels : xs[t].k[c] \in Int /\ xs[t].q[c] \in Int
    BY <1>2, ZpInt DEF Vector
  <1>4. After(s, xs, t - 1) \in Vector
    <2>1. t - 1 \in 0 .. T
      BY <1>1
    <2> QED BY <1>1, <2>1, AfterFacts
  <1>5. Decayed(After(s, xs, t - 1), xs[t]) \in Vector
    BY <1>1, <1>4, StepType
  <1>6. Added(s, xs, t) \in Zp
    BY <1>1, <1>5, StepType DEF Added
  <1> QED BY <1>1, <1>2, <1>3, <1>4, <1>5, <1>6, ZpInt

\* The contributions to one channel are numbers.
LEMMA PartType ==
    ASSUME work \in Workloads, NEW s \in Vector, NEW xs \in Drafts, NEW t \in 0 .. T,
           NEW c \in Channels, NEW n \in 0 .. t
    PROVE  /\ \A i \in 1 .. n : Part(s, xs, t, c)[i] \in Int
           /\ Total(Part(s, xs, t, c), 1 .. n) \in Int
  <1>1. ASSUME NEW i \in 1 .. n PROVE Part(s, xs, t, c)[i] \in Int
    <2>1. i \in 1 .. T /\ i \in 0 .. T /\ t \in i .. T /\ T \in Nat
      BY KvBufferAssumption
    <2>2. Added(s, xs, i) \in Int /\ xs[i].k[c] \in Int /\ AreTokens(xs, T)
      BY <2>1, TokenFacts
    <2>3. Ratio(xs, t, i, c) \in Int
      BY <2>1, <2>2, RatioFacts
    <2>4. Added(s, xs, i) * xs[i].k[c] * Ratio(xs, t, i, c) \in Int
      BY <2>2, <2>3, IntType
    <2> QED BY <2>1, <2>4 DEF Part
  <1>2. IsFiniteSet(1 .. n)
    <2>1. n \in Int
      OBVIOUS
    <2> QED BY <2>1, FS_Interval
  <1> QED BY <1>1, <1>2, TotalType

\* y is what decoding makes of s, as of token t and the first n tokens.
Closed(y, s, xs, t, n) ==
    \A c \in Channels :
        Eq(y[c], s[c] * Ratio(xs, t, 0, c) + Total(Part(s, xs, t, c), 1 .. n))

\* One more gate: the state before token t, decayed.
LEMMA DecayClosed ==
    ASSUME work \in Workloads, NEW s \in Vector, NEW xs \in Drafts, NEW t \in 1 .. T,
           NEW y \in Vector, Closed(y, s, xs, t - 1, t - 1)
    PROVE  Closed(Decayed(y, xs[t]), s, xs, t, t - 1)
  <1> SUFFICES ASSUME NEW c \in Channels
               PROVE  Eq(Decayed(y, xs[t])[c],
                         s[c] * Ratio(xs, t, 0, c) + Total(Part(s, xs, t, c), 1 .. t - 1))
    BY DEF Closed
  <1> DEFINE g == Gate(xs[t], c)
             b == s[c]
             r == Ratio(xs, t - 1, 0, c)
             p == Part(s, xs, t - 1, c)
             q == Part(s, xs, t, c)
             z == Total(p, 1 .. t - 1)
  <1>1. AreTokens(xs, T) /\ T \in Nat /\ xs[t] \in TokenRecord
    BY TokenFacts
  <1>2. t - 1 \in 0 .. T /\ t \in 0 .. T /\ t - 1 \in 0 .. t - 1 /\ t - 1 \in 0 .. t
    BY <1>1
  <1>3. g \in Int
    BY <1>1, GateType
  <1>4. b \in Int /\ y[c] \in Int
    BY ZpInt DEF Vector
  <1>5. /\ \A i \in 1 .. t - 1 : p[i] \in Int /\ q[i] \in Int
        /\ z \in Int /\ Total(q, 1 .. t - 1) \in Int
    BY <1>2, PartType
  <1>6. r \in Int
    <2>1. 0 \in 0 .. T /\ t - 1 \in 0 .. T
      BY <1>1
    <2> QED BY <1>1, <2>1, RatioFacts
  <1>7. Eq(Ratio(xs, t, 0, c), r * g) /\ Ratio(xs, t, 0, c) \in Int
    <2>1. 0 \in 0 .. T /\ t \in 0 .. T /\ t > 0
      BY <1>1
    <2>2. Ratio(xs, t, 0, c) = M(r * g) /\ Ratio(xs, t, 0, c) \in Int
      BY <1>1, <2>1, RatioFacts
    <2> QED BY <1>3, <1>6, <2>2, IntType, EqM
  <1>8. ASSUME NEW i \in 1 .. t - 1 PROVE Eq(g * p[i], q[i])
    <2>1. i \in 1 .. T /\ i \in 0 .. T /\ t \in i .. T /\ t - 1 \in i .. T /\ t > i
      BY <1>1
    <2>2. Added(s, xs, i) \in Int /\ xs[i].k[c] \in Int
      BY <2>1, TokenFacts
    <2>3. Ratio(xs, t - 1, i, c) \in Int
      BY <1>1, <2>1, RatioFacts
    <2>4. Ratio(xs, t, i, c) \in Int /\ Ratio(xs, t, i, c) = M(Ratio(xs, t - 1, i, c) * g)
      BY <1>1, <2>1, RatioFacts
    <2>5. Eq(Ratio(xs, t, i, c), Ratio(xs, t - 1, i, c) * g)
      BY <1>3, <2>3, <2>4, IntType, EqM
    <2> DEFINE a == Added(s, xs, i) * xs[i].k[c]
               e == Ratio(xs, t - 1, i, c)
    <2>6. p[i] = a * e /\ q[i] = a * Ratio(xs, t, i, c)
      BY <2>1 DEF Part
    <2>7. a \in Int /\ e \in Int /\ e * g \in Int
      BY <1>3, <2>2, <2>3, IntType
    <2> HIDE DEF g, p, q, a, e
    <2>8. Eq(a * Ratio(xs, t, i, c), a * (e * g))
      <3>1. Eq(a, a) /\ Eq(Ratio(xs, t, i, c), e * g)
        BY <2>5 DEF Eq, e
      <3> QED BY <2>4, <2>7, <3>1, EqTimes
    <2>9. a * (e * g) = g * (a * e)
      BY <1>3, <2>7
    <2> QED BY <2>6, <2>8, <2>9 DEF Eq
  <1> HIDE DEF p, q
  <1>9. Eq(g * z, Total(q, 1 .. t - 1))
    <2> DEFINE h == [i \in 1 .. t - 1 |-> g * p[i]]
    <2>1. IsFiniteSet(1 .. t - 1)
      <3>1. t - 1 \in Int
        OBVIOUS
      <3> QED BY <3>1, FS_Interval
    <2>2. \A i \in 1 .. t - 1 : p[i] \in Int /\ h[i] = g * p[i]
      BY <1>5
    <2>3. \A i \in 1 .. t - 1 : h[i] \in Int /\ q[i] \in Int /\ Eq(h[i], q[i])
      BY <1>3, <1>5, <1>8, IntType
    <2> HIDE DEF h, g
    <2>4. Total(h, 1 .. t - 1) = g * z
      BY <1>3, <2>1, <2>2, TotalTimes
    <2>5. Eq(Total(h, 1 .. t - 1), Total(q, 1 .. t - 1))
      BY <2>1, <2>3, TotalEq
    <2> QED BY <2>4, <2>5
  <1>10. Eq(y[c], b * r + z)
    BY DEF Closed, p
  <1>11. Decayed(y, xs[t])[c] = M(g * y[c])
    BY DEF Decayed
  <1> HIDE DEF g, b, r, z
  <1>12. Eq(Decayed(y, xs[t])[c], g * y[c])
    BY <1>3, <1>4, <1>11, IntType, EqM
  <1>13. b * r \in Int /\ b * r + z \in Int /\ r * g \in Int /\ b * (r * g) \in Int /\ g * z \in Int
    BY <1>3, <1>4, <1>5, <1>6, IntType
  <1>14. Eq(g * y[c], g * (b * r + z))
    <2>1. Eq(g, g)
      BY DEF Eq
    <2> QED BY <1>3, <1>4, <1>10, <1>13, <2>1, EqTimes
  <1>15. g * (b * r + z) = b * (r * g) + g * z
    BY <1>3, <1>4, <1>5, <1>6
  <1>16. Eq(b * (r * g), b * Ratio(xs, t, 0, c))
    <2>1. Eq(b, b) /\ Eq(r * g, Ratio(xs, t, 0, c))
      BY <1>7 DEF Eq
    <2> QED BY <1>4, <1>7, <1>13, <2>1, EqTimes
  <1>17. b * Ratio(xs, t, 0, c) \in Int
    BY <1>4, <1>7, IntType
  <1>18. Eq(b * (r * g) + g * z, b * Ratio(xs, t, 0, c) + Total(q, 1 .. t - 1))
    BY <1>5, <1>9, <1>13, <1>16, <1>17, EqPlus
  <1> QED BY <1>12, <1>14, <1>15, <1>18 DEF Eq, b, q

\* The state after t tokens.
LEMMA StateClosed ==
    ASSUME work \in Workloads, NEW s \in Vector, NEW xs \in Drafts, NEW t \in 0 .. T
    PROVE  Closed(After(s, xs, t), s, xs, t, t)
  <1> DEFINE G == {n \in 0 .. T : Closed(After(s, xs, n), s, xs, n, n)}
  <1>1. AreTokens(xs, T) /\ T \in Nat \ {0}
    BY KvBufferAssumption DEF Drafts, AreTokens
  <1>2. 0 \in G
    <2>1. ASSUME NEW c \in Channels
          PROVE  Eq(s[c], s[c] * Ratio(xs, 0, 0, c) + Total(Part(s, xs, 0, c), 1 .. 0))
      <3>1. 0 \in 0 .. T /\ 1 .. 0 = {}
        BY <1>1
      <3>2. Ratio(xs, 0, 0, c) = 1
        BY <1>1, <3>1, RatioFacts
      <3>3. Total(Part(s, xs, 0, c), 1 .. 0) = 0
        BY <3>1, TotalEmpty
      <3>4. s[c] \in Int
        BY ZpInt DEF Vector
      <3>5. s[c] * 1 + 0 = s[c]
        BY <3>4
      <3> QED BY <3>2, <3>3, <3>5 DEF Eq
    <2>2. 0 \in 0 .. T /\ After(s, xs, 0) = s
      BY <1>1, AfterFacts
    <2> QED BY <2>1, <2>2 DEF Closed
  <1>3. ASSUME NEW n \in 0 .. T - 1, n \in G PROVE n + 1 \in G
    <2> DEFINE m == n + 1
               d == Decayed(After(s, xs, n), xs[m])
    <2>1. m \in 1 .. T /\ m \in 0 .. T /\ m - 1 = n /\ m > 0 /\ n \in Nat /\ n \in 0 .. T
      BY <1>1
    <2>2. After(s, xs, n) \in Vector
      BY <1>1, <2>1, AfterFacts
    <2>3. Closed(d, s, xs, m, n)
      BY <1>3, <2>1, <2>2, DecayClosed
    <2>4. After(s, xs, m) = Decode(After(s, xs, n), xs[m])
      BY <1>1, <2>1, AfterFacts
    <2>5. ASSUME NEW c \in Channels
          PROVE  Eq(After(s, xs, m)[c],
                    s[c] * Ratio(xs, m, 0, c) + Total(Part(s, xs, m, c), 1 .. m))
      <3> DEFINE a == Added(s, xs, m)
                 k == xs[m].k[c]
                 p == Part(s, xs, m, c)
                 z == Total(p, 1 .. n)
                 e == s[c] * Ratio(xs, m, 0, c)
      <3>1. After(s, xs, m)[c] = M(d[c] + a * k)
        BY <2>1, <2>4 DEF Decode, Added
      <3>2. a \in Int /\ k \in Int /\ d \in Vector
        BY <2>1, TokenFacts
      <3>3. d[c] \in Int /\ a * k \in Int
        BY <3>2, ZpInt, IntType DEF Vector
      <3>4. z \in Int /\ \A i \in 1 .. n + 1 : p[i] \in Int
        BY <2>1, PartType
      <3>5. p[n + 1] = a * k
        <4>1. Ratio(xs, m, m, c) = 1
          BY <1>1, <2>1, RatioFacts
        <4>2. p[m] = a * k * Ratio(xs, m, m, c)
          BY <2>1 DEF Part
        <4> QED BY <3>3, <4>1, <4>2
      <3>6. e \in Int
        <4>1. 0 \in 0 .. T /\ m \in 0 .. T /\ T \in Nat
          BY <1>1, <2>1
        <4>2. Ratio(xs, m, 0, c) \in Int
          BY <1>1, <4>1, RatioFacts
        <4>3. s[c] \in Int
          BY ZpInt DEF Vector
        <4> QED BY <4>2, <4>3, IntType
      <3>7. Eq(d[c], e + z)
        BY <2>3 DEF Closed
      <3> HIDE DEF d, a, k, p, z, e, m
      <3>8. Eq(After(s, xs, m)[c], d[c] + a * k)
        BY <3>1, <3>3, IntType, EqM
      <3>9. Eq(d[c] + a * k, (e + z) + a * k)
        <4>1. Eq(a * k, a * k)
          BY DEF Eq
        <4> QED BY <3>3, <3>4, <3>6, <3>7, <4>1, IntType, EqPlus
      <3>10. Total(p, 1 .. n + 1) = z + a * k
        BY <2>1, <3>4, <3>5, TotalNext DEF z
      <3>11. (e + z) + a * k = e + (z + a * k)
        BY <3>3, <3>4, <3>6
      <3> QED BY <3>8, <3>9, <3>10, <3>11 DEF Eq, p, m, e
    <2> QED BY <2>1, <2>5 DEF Closed
  <1>4. 0 .. T \subseteq G
    <2>1. 0 \in Int /\ T \in Int
      BY <1>1
    <2> HIDE DEF G
    <2> QED BY <1>2, <1>3, <2>1, UpFrom
  <1> QED BY <1>4

\* A sum modulo P.
LEMMA SumIs ==
    ASSUME NEW S, IsFiniteSet(S), NEW f, \A x \in S : f[x] \in Int
    PROVE  /\ Total(f, S) \in Int
           /\ Sum(f, S) \in Zp /\ Sum(f, S) \in Int
           /\ Eq(Sum(f, S), Total(f, S))
  BY TotalType, MType, EqM DEF Sum

\* Pair is a sum over the channels,
LEMMA PairFacts ==
    ASSUME work \in Workloads, NEW s \in Vector, NEW xs \in Drafts, NEW x \in Vector,
           NEW t \in 0 .. T, NEW i \in 1 .. t
    PROVE  LET f == [c \in Channels |-> x[c] * xs[i].k[c] * DecayRatio(xs, t, i, c)]
           IN /\ \A c \in Channels : f[c] \in Int
              /\ Pair(xs, x, t, i) \in Int
              /\ Eq(Pair(xs, x, t, i), Total(f, Channels))
  <1> DEFINE f == [c \in Channels |-> x[c] * xs[i].k[c] * DecayRatio(xs, t, i, c)]
  <1>1. i \in 1 .. T /\ i \in 0 .. T /\ t \in i .. T /\ T \in Nat
    BY KvBufferAssumption
  <1>2. ASSUME NEW c \in Channels PROVE f[c] \in Int
    <2>1. xs[i].k[c] \in Int /\ AreTokens(xs, T)
      BY <1>1, TokenFacts
    <2>2. DecayRatio(xs, t, i, c) \in Int
      BY <1>1, <2>1, RatioFacts DEF DecayRatio
    <2>3. x[c] \in Int
      BY ZpInt DEF Vector
    <2>4. x[c] * xs[i].k[c] * DecayRatio(xs, t, i, c) \in Int
      BY <2>1, <2>2, <2>3, IntType
    <2> QED BY <2>4
  <1>3. Pair(xs, x, t, i) = Sum(f, Channels)
    BY DEF Pair
  <1> HIDE DEF f
  <1>4. Sum(f, Channels) \in Int /\ Eq(Sum(f, Channels), Total(f, Channels))
    BY <1>2, SumIs, KvBufferAssumption
  <1> QED BY <1>2, <1>3, <1>4 DEF f

\* and so is FromState.
LEMMA FromStateFacts ==
    ASSUME work \in Workloads, NEW s \in Vector, NEW xs \in Drafts, NEW x \in Vector,
           NEW t \in 0 .. T
    PROVE  LET f == [c \in Channels |-> s[c] * x[c] * Ratio(xs, t, 0, c)]
           IN /\ \A c \in Channels : f[c] \in Int /\ s[c] \in Int /\ x[c] \in Int
                                     /\ Ratio(xs, t, 0, c) \in Int
              /\ FromState(s, xs, x, t) \in Int
              /\ Eq(FromState(s, xs, x, t), Total(f, Channels))
  <1> DEFINE f == [c \in Channels |-> s[c] * x[c] * Ratio(xs, t, 0, c)]
  <1>1. AreTokens(xs, T) /\ T \in Nat /\ 0 \in 0 .. T
    BY KvBufferAssumption DEF Drafts, AreTokens
  <1>2. ASSUME NEW c \in Channels
        PROVE  f[c] \in Int /\ s[c] \in Int /\ x[c] \in Int /\ Ratio(xs, t, 0, c) \in Int
    <2>1. s[c] \in Int /\ x[c] \in Int
      BY ZpInt DEF Vector
    <2>2. Ratio(xs, t, 0, c) \in Int
      BY <1>1, RatioFacts
    <2>3. s[c] * x[c] * Ratio(xs, t, 0, c) \in Int
      BY <2>1, <2>2, IntType
    <2> QED BY <2>1, <2>2, <2>3
  <1>3. FromState(s, xs, x, t) = Sum(f, Channels)
    BY DEF FromState
  <1> HIDE DEF f
  <1>4. Sum(f, Channels) \in Int /\ Eq(Sum(f, Channels), Total(f, Channels))
    BY <1>2, SumIs, KvBufferAssumption
  <1> QED BY <1>2, <1>3, <1>4 DEF f

\* What x sees of what each of the tokens has added, as of token t.
Paired(s, xs, x, t) == [i \in 1 .. T |-> Pair(xs, x, t, i) * Added(s, xs, i)]

\* What a key or a query sees of the tokens before are numbers.
LEMMA PairedType ==
    ASSUME work \in Workloads, NEW s \in Vector, NEW xs \in Drafts, NEW x \in Vector,
           NEW t \in 0 .. T, NEW n \in 0 .. t
    PROVE  /\ \A i \in 1 .. n : Paired(s, xs, x, t)[i] \in Int
           /\ Total(Paired(s, xs, x, t), 1 .. n) \in Int
  <1>1. ASSUME NEW i \in 1 .. n PROVE Paired(s, xs, x, t)[i] \in Int
    <2>1. i \in 1 .. T /\ i \in 1 .. t
      BY KvBufferAssumption
    <2>2. Added(s, xs, i) \in Int /\ Pair(xs, x, t, i) \in Int
      BY <2>1, TokenFacts, PairFacts
    <2> QED BY <2>1, <2>2, IntType DEF Paired
  <1>2. IsFiniteSet(1 .. n)
    <2>1. n \in Int
      OBVIOUS
    <2> QED BY <2>1, FS_Interval
  <1> QED BY <1>1, <1>2, TotalType

\* The exchange of the sums: over the channels of a state, over the tokens.
LEMMA DotClosed ==
    ASSUME work \in Workloads, NEW s \in Vector, NEW xs \in Drafts, NEW x \in Vector,
           NEW t \in 0 .. T, NEW n \in 0 .. t, NEW y \in Vector, Closed(y, s, xs, t, n)
    PROVE  Eq(Dot(y, x), FromState(s, xs, x, t) + Total(Paired(s, xs, x, t), 1 .. n))
  <1> DEFINE F == [c \in Channels |-> [i \in 1 .. n |-> Part(s, xs, t, c)[i] * x[c]]]
             W == [i \in 1 .. n |-> [c \in Channels |-> Part(s, xs, t, c)[i] * x[c]]]
             f == [c \in Channels |-> Total(F[c], 1 .. n)]
             w == [i \in 1 .. n |-> Total(W[i], Channels)]
             h == [c \in Channels |-> s[c] * x[c] * Ratio(xs, t, 0, c)]
             e == [c \in Channels |-> h[c] + f[c]]
             yx == [c \in Channels |-> y[c] * x[c]]
  <1>1. IsFiniteSet(Channels) /\ IsFiniteSet(1 .. n)
    <2>1. n \in Int
      OBVIOUS
    <2> QED BY <2>1, FS_Interval, KvBufferAssumption
  <1>2. \A c \in Channels : y[c] \in Int /\ x[c] \in Int /\ s[c] \in Int
    BY ZpInt DEF Vector
  <1>3. \A c \in Channels : \A i \in 1 .. n : Part(s, xs, t, c)[i] \in Int
    BY PartType
  <1>4. \A c \in Channels, i \in 1 .. n : F[c][i] \in Int /\ W[i][c] = F[c][i]
    BY <1>2, <1>3, IntType
  <1>5. Total(f, Channels) = Total(w, 1 .. n)
    <2>1. RowTotals(f, F, Channels, 1 .. n) /\ RowTotals(w, W, 1 .. n, Channels)
      BY DEF RowTotals
    <2>2. Transposes(W, F, Channels, 1 .. n)
      BY <1>4 DEF Transposes
    <2> HIDE DEF F, W, f, w
    <2> QED BY <1>1, <2>1, <2>2, TotalSwap
  <1>6. ASSUME NEW i \in 1 .. n
        PROVE  w[i] \in Int /\ Paired(s, xs, x, t)[i] \in Int /\ Eq(w[i], Paired(s, xs, x, t)[i])
    <2> DEFINE p == [c \in Channels |-> x[c] * xs[i].k[c] * DecayRatio(xs, t, i, c)]
               a == Added(s, xs, i)
    <2>1. i \in 1 .. T /\ i \in 1 .. t
      BY KvBufferAssumption
    <2>2. /\ \A c \in Channels : p[c] \in Int
          /\ Pair(xs, x, t, i) \in Int
          /\ Eq(Pair(xs, x, t, i), Total(p, Channels))
      BY <2>1, PairFacts
    <2>3. a \in Int /\ \A c \in Channels : xs[i].k[c] \in Int
      BY <2>1, TokenFacts
    <2>4. ASSUME NEW c \in Channels PROVE W[i][c] = a * p[c]
      <3> DEFINE r == Ratio(xs, t, i, c)
      <3>1. r \in Int
        <4>1. i \in 0 .. T /\ t \in i .. T /\ T \in Nat
          BY <2>1, KvBufferAssumption
        <4>2. AreTokens(xs, T)
          BY <2>1, TokenFacts
        <4> QED BY <4>1, <4>2, RatioFacts
      <3>2. W[i][c] = (a * xs[i].k[c] * r) * x[c]
        BY <2>1 DEF Part
      <3>3. p[c] = x[c] * xs[i].k[c] * r
        BY DEF DecayRatio
      <3>4. x[c] \in Int /\ xs[i].k[c] \in Int
        BY <1>2, <2>3
      <3> HIDE DEF a, r, W, p
      <3> QED BY <2>3, <3>1, <3>2, <3>3, <3>4
    <2>5. w[i] = Total(W[i], Channels)
      OBVIOUS
    <2> HIDE DEF p, a, w, W
    <2>6. w[i] = a * Total(p, Channels)
      BY <1>1, <2>2, <2>3, <2>4, <2>5, TotalTimes
    <2>7. Total(p, Channels) \in Int
      BY <1>1, <2>2, TotalType
    <2>8. Eq(Pair(xs, x, t, i) * a, Total(p, Channels) * a)
      <3>1. Eq(a, a)
        BY DEF Eq
      <3> QED BY <2>2, <2>3, <2>7, <3>1, EqTimes
    <2>9. Paired(s, xs, x, t)[i] = Pair(xs, x, t, i) * a
      BY <2>1 DEF Paired, a
    <2>10. Total(p, Channels) * a = a * Total(p, Channels)
      BY <2>3, <2>7
    <2> QED BY <2>2, <2>3, <2>6, <2>7, <2>8, <2>9, <2>10, IntType DEF Eq
  <1>7. Eq(Total(w, 1 .. n), Total(Paired(s, xs, x, t), 1 .. n))
    <2> HIDE DEF w
    <2> QED BY <1>1, <1>6, TotalEq
  <1>8. /\ \A c \in Channels : h[c] \in Int /\ Ratio(xs, t, 0, c) \in Int
        /\ FromState(s, xs, x, t) \in Int
        /\ Eq(FromState(s, xs, x, t), Total(h, Channels))
    BY FromStateFacts
  <1>9. \A c \in Channels : f[c] \in Int
    <2>1. ASSUME NEW c \in Channels PROVE Total(F[c], 1 .. n) \in Int
      <3>1. \A i \in 1 .. n : F[c][i] \in Int
        BY <1>4
      <3> HIDE DEF F
      <3> QED BY <1>1, <3>1, TotalType
    <2> QED BY <2>1
  <1>10. Total(e, Channels) = Total(h, Channels) + Total(f, Channels)
    <2>1. \A c \in Channels : h[c] \in Int /\ f[c] \in Int /\ e[c] = h[c] + f[c]
      BY <1>8, <1>9
    <2> HIDE DEF h, f, e
    <2> QED BY <1>1, <2>1, TotalPlus
  <1>11. ASSUME NEW c \in Channels PROVE yx[c] \in Int /\ e[c] \in Int /\ Eq(yx[c], e[c])
    <2> DEFINE r == Ratio(xs, t, 0, c)
               p == Part(s, xs, t, c)
               z == Total(p, 1 .. n)
               b == s[c]
    <2>1. z \in Int /\ \A i \in 1 .. n : p[i] \in Int
      BY PartType
    <2>2. r \in Int /\ b \in Int /\ x[c] \in Int /\ y[c] \in Int
      BY <1>2, <1>8
    <2>3. Eq(y[c], b * r + z)
      BY DEF Closed
    <2>4. f[c] = x[c] * z
      <3>1. \A i \in 1 .. n : p[i] \in Int /\ F[c][i] = x[c] * p[i]
        BY <2>1, <2>2
      <3>2. f[c] = Total(F[c], 1 .. n)
        OBVIOUS
      <3> HIDE DEF p, F, f
      <3> QED BY <1>1, <2>2, <3>1, <3>2, TotalTimes
    <2>5. e[c] = b * x[c] * r + x[c] * z /\ yx[c] = y[c] * x[c]
      BY <2>4
    <2> HIDE DEF r, p, z, b, e, yx, f
    <2>6. b * r + z \in Int
      BY <2>1, <2>2, IntType
    <2>7. Eq(y[c] * x[c], (b * r + z) * x[c])
      <3>1. Eq(x[c], x[c])
        BY DEF Eq
      <3> QED BY <2>2, <2>3, <2>6, <3>1, EqTimes
    <2>8. (b * r + z) * x[c] = b * x[c] * r + x[c] * z
      BY <2>1, <2>2
    <2> QED BY <2>2, <2>5, <2>6, <2>7, <2>8, IntType DEF Eq
  <1>12. Eq(Total(yx, Channels), Total(e, Channels))
    <2> HIDE DEF yx, e
    <2> QED BY <1>1, <1>11, TotalEq
  <1>13. Eq(Dot(y, x), Total(yx, Channels))
    BY <1>2, DotType
  <1>14. Total(h, Channels) \in Int /\ Total(f, Channels) \in Int
    <2> HIDE DEF h, f
    <2> QED BY <1>1, <1>8, <1>9, TotalType
  <1>15. Total(Paired(s, xs, x, t), 1 .. n) \in Int
    BY PairedType
  <1> HIDE DEF h, f, e, yx, w
  <1>16. Eq(FromState(s, xs, x, t) + Total(Paired(s, xs, x, t), 1 .. n),
            Total(h, Channels) + Total(f, Channels))
    <2>1. Eq(Total(Paired(s, xs, x, t), 1 .. n), Total(f, Channels))
      BY <1>5, <1>7 DEF Eq
    <2> QED BY <1>8, <1>14, <1>15, <2>1, EqPlus
  <1> QED BY <1>10, <1>12, <1>13, <1>16 DEF Eq

-----------------------------------------------------------------------------
(* The correction of the chunk. *)
BeforeAt(xs, w, t, j) == [i \in 1 .. t - 1 |-> Pair(xs, xs[t].k, t, i) * w[i][j]]
RowAt(xs, w, t) ==
    [j \in 1 .. T |-> M(xs[t].beta * ((IF t = j THEN 1 ELSE 0)
                                      - Sum(BeforeAt(xs, w, t, j), 1 .. t - 1)))]
Row == [1 .. T -> Zp]

\* A row of the correction, from the rows above it.
LEMMA RowType ==
    ASSUME work \in Workloads, NEW s \in Vector, NEW xs \in Drafts, NEW t \in 1 .. T,
           NEW w, \A i \in 1 .. t - 1 : w[i] \in Row
    PROVE  /\ RowAt(xs, w, t) \in Row
           /\ \A j \in 1 .. T :
                 /\ \A i \in 1 .. t - 1 : BeforeAt(xs, w, t, j)[i] \in Int
                 /\ Total(BeforeAt(xs, w, t, j), 1 .. t - 1) \in Int
                 /\ Sum(BeforeAt(xs, w, t, j), 1 .. t - 1) \in Int
                 /\ Eq(Sum(BeforeAt(xs, w, t, j), 1 .. t - 1),
                       Total(BeforeAt(xs, w, t, j), 1 .. t - 1))
  <1>1. xs[t].k \in Vector /\ xs[t].beta \in Int /\ t \in 0 .. T /\ T \in Nat
    BY TokenFacts
  <1>2. IsFiniteSet(1 .. t - 1)
    <2>1. t - 1 \in Int
      OBVIOUS
    <2> QED BY <2>1, FS_Interval
  <1>3. ASSUME NEW j \in 1 .. T
        PROVE  /\ \A i \in 1 .. t - 1 : BeforeAt(xs, w, t, j)[i] \in Int
               /\ Total(BeforeAt(xs, w, t, j), 1 .. t - 1) \in Int
               /\ Sum(BeforeAt(xs, w, t, j), 1 .. t - 1) \in Int
               /\ Eq(Sum(BeforeAt(xs, w, t, j), 1 .. t - 1),
                     Total(BeforeAt(xs, w, t, j), 1 .. t - 1))
    <2>1. ASSUME NEW i \in 1 .. t - 1 PROVE BeforeAt(xs, w, t, j)[i] \in Int
      <3>1. Pair(xs, xs[t].k, t, i) \in Int
        <4>1. i \in 1 .. t
          OBVIOUS
        <4> QED BY <1>1, <4>1, PairFacts
      <3>2. w[i][j] \in Int
        BY ZpInt DEF Row
      <3> QED BY <3>1, <3>2, IntType DEF BeforeAt
    <2> QED BY <1>2, <2>1, SumIs
  <1>4. ASSUME NEW j \in 1 .. T PROVE RowAt(xs, w, t)[j] \in Zp
    <2> DEFINE z == Sum(BeforeAt(xs, w, t, j), 1 .. t - 1)
               o == IF t = j THEN 1 ELSE 0
    <2>1. z \in Int /\ o \in Int
      BY <1>3
    <2>2. RowAt(xs, w, t)[j] = M(xs[t].beta * (o - z))
      BY DEF RowAt
    <2> HIDE DEF z, o
    <2> QED BY <1>1, <2>1, <2>2, IntType, MType
  <1>5. RowAt(xs, w, t) \in Row
    BY <1>4 DEF RowAt, Row
  <1> QED BY <1>3, <1>5

\* The correction has its rows: forward substitution, row by row.
LEMMA CorrectionFacts ==
    ASSUME work \in Workloads, NEW s \in Vector, NEW xs \in Drafts
    PROVE  LET w == Correction(xs)
           IN \A t \in 1 .. T : w[t] \in Row /\ w[t] = RowAt(xs, w, t)
  <1> DEFINE Q(w) == w = [t \in 1 .. T |-> RowAt(xs, w, t)]
             step == [t \in 1 .. T |-> [h \in [1 .. t - 1 -> Row] |-> RowAt(xs, h, t)]]
             w == CHOOSE v : Q(v)
  <1>1. Correction(xs) = w
    BY DEF Correction, RowAt, BeforeAt
  <1>2. \A t \in 1 .. T : \A h \in [1 .. t - 1 -> Row] :
           step[t][h] = RowAt(xs, h, t) /\ step[t][h] \in Row
    BY RowType
  <1> HIDE DEF step
  <1>3. PICK f : Recursive(f, step, Row, 1, T)
    <2>1. Steps(step, Row, 1, T) /\ 1 \in Int /\ T \in Int
      BY <1>2, KvBufferAssumption DEF Steps
    <2> QED BY <2>1, RecursionExists
  <1>4. ASSUME NEW t \in 1 .. T PROVE f[t] = RowAt(xs, f, t)
    <2> DEFINE h == Before(f, 1, t)
    <2>1. h \in [1 .. t - 1 -> Row] /\ \A i \in 1 .. t - 1 : h[i] = f[i]
      <3>1. \A i \in 1 .. t - 1 : i \in 1 .. T
        BY KvBufferAssumption
      <3> QED BY <1>3, <3>1 DEF Before, Recursive
    <2> HIDE DEF h
    <2>2. f[t] = step[t][h]
      BY <1>3 DEF h, Recursive
    <2>3. \A j \in 1 .. T : BeforeAt(xs, h, t, j) = BeforeAt(xs, f, t, j)
      BY <2>1 DEF BeforeAt
    <2>4. RowAt(xs, h, t) = RowAt(xs, f, t)
      BY <2>3 DEF RowAt
    <2> QED BY <1>2, <2>1, <2>2, <2>4
  <1>5. Q(f)
    BY <1>3, <1>4 DEF Recursive
  <1>6. Q(w)
    BY <1>5
  <1> HIDE DEF w
  <1>7. \A t \in 1 .. T : w[t] = RowAt(xs, w, t)
    BY <1>6
  <1> DEFINE G == {n \in 0 .. T : \A t \in 1 .. n : w[t] \in Row}
  <1>8. 0 \in G
    BY KvBufferAssumption
  <1>9. ASSUME NEW n \in 0 .. T - 1, n \in G PROVE n + 1 \in G
    <2>1. n + 1 \in 1 .. T /\ n + 1 \in 0 .. T /\ (n + 1) - 1 = n /\ n \in Nat
      BY KvBufferAssumption
    <2>2. RowAt(xs, w, n + 1) \in Row
      BY <1>9, <2>1, RowType
    <2>3. w[n + 1] \in Row
      BY <1>7, <2>1, <2>2
    <2>4. \A t \in 1 .. n + 1 : t = n + 1 \/ t \in 1 .. n
      BY <2>1
    <2> QED BY <1>9, <2>1, <2>3, <2>4
  <1>10. 0 .. T \subseteq G
    <2>1. 0 \in Int /\ T \in Int
      BY KvBufferAssumption
    <2> HIDE DEF G
    <2> QED BY <1>8, <1>9, <2>1, UpFrom
  <1>11. \A t \in 1 .. T : w[t] \in Row
    <2>1. T \in 0 .. T
      BY KvBufferAssumption
    <2> QED BY <1>10, <2>1
  <1> QED BY <1>1, <1>7, <1>11

\* It is lower triangular.
LEMMA CorrectionBeyond ==
    ASSUME work \in Workloads, NEW s \in Vector, NEW xs \in Drafts,
           NEW t \in 1 .. T, NEW j \in 1 .. T, j > t
    PROVE  Correction(xs)[t][j] = 0
  <1> DEFINE w == Correction(xs)
             G == {n \in 0 .. T : \A i \in 1 .. n : i < j => w[i][j] = 0}
  <1>1. \A i \in 1 .. T : w[i] \in Row /\ w[i] = RowAt(xs, w, i)
    BY CorrectionFacts
  <1> HIDE DEF w
  <1>2. 0 \in G
    BY KvBufferAssumption
  <1>3. ASSUME NEW n \in 0 .. T - 1, n \in G PROVE n + 1 \in G
    <2> DEFINE m == n + 1
    <2>1. m \in 1 .. T /\ m \in 0 .. T /\ m - 1 = n /\ n \in Nat
      BY KvBufferAssumption
    <2>2. ASSUME m < j PROVE w[m][j] = 0
      <3>1. \A i \in 1 .. m - 1 : w[i] \in Row
        <4>1. \A i \in 1 .. m - 1 : i \in 1 .. T
          BY <2>1, KvBufferAssumption
        <4> QED BY <1>1, <4>1
      <3>2. \A i \in 1 .. m - 1 : BeforeAt(xs, w, m, j)[i] = 0
        <4>1. ASSUME NEW i \in 1 .. m - 1 PROVE BeforeAt(xs, w, m, j)[i] = 0
          <5>1. w[i][j] = 0
            BY <1>3, <2>1, <2>2
          <5>2. Pair(xs, xs[m].k, m, i) \in Int
            <6>1. i \in 1 .. m /\ xs[m].k \in Vector
              BY <2>1, TokenFacts
            <6> QED BY <2>1, <6>1, PairFacts
          <5>3. BeforeAt(xs, w, m, j)[i] = Pair(xs, xs[m].k, m, i) * w[i][j]
            BY DEF BeforeAt
          <5> HIDE DEF m
          <5> QED BY <5>1, <5>2, <5>3
        <4> QED BY <4>1
      <3>3. IsFiniteSet(1 .. m - 1)
        <4>1. m - 1 \in Int
          BY <2>1
        <4> QED BY <4>1, FS_Interval
      <3>4. Total(BeforeAt(xs, w, m, j), 1 .. m - 1) = 0
        BY <3>2, <3>3, TotalZero
      <3>5. M(0) = 0
        BY MType, ZpInt
      <3>6. w[m][j] = M(xs[m].beta * (0 - Sum(BeforeAt(xs, w, m, j), 1 .. m - 1)))
        <4>1. w[m] = RowAt(xs, w, m) /\ m # j
          BY <1>1, <2>1, <2>2
        <4> HIDE DEF m
        <4> QED BY <4>1 DEF RowAt
      <3>7. Sum(BeforeAt(xs, w, m, j), 1 .. m - 1) = 0
        BY <3>4, <3>5 DEF Sum
      <3>8. xs[m].beta * (0 - 0) = 0
        BY <2>1, TokenFacts
      <3> QED BY <3>5, <3>6, <3>7, <3>8
    <2>3. \A i \in 1 .. m : i = m \/ i \in 1 .. n
      BY <2>1
    <2> QED BY <1>3, <2>1, <2>2, <2>3
  <1>4. 0 .. T \subseteq G
    <2>1. 0 \in Int /\ T \in Int
      BY KvBufferAssumption
    <2> HIDE DEF G
    <2> QED BY <1>2, <1>3, <2>1, UpFrom
  <1>5. t \in G /\ t \in 1 .. t
    BY <1>4, KvBufferAssumption
  <1> QED BY <1>5 DEF w

\* A sum with one term that is not 0.
LEMMA TotalOne ==
    ASSUME NEW S, IsFiniteSet(S), NEW y \in S, NEW f, f[y] \in Int,
           \A x \in S : x # y => f[x] = 0
    PROVE  Total(f, S) = f[y]
  <1>1. \A x \in S : f[x] \in Int
    OBVIOUS
  <1>2. Total(f, S) = f[y] + Total(f, S \ {y})
    BY <1>1, TotalAny
  <1>3. IsFiniteSet(S \ {y}) /\ \A x \in S \ {y} : f[x] = 0
    BY FS_Subset
  <1>4. Total(f, S \ {y}) = 0
    BY <1>3, TotalZero
  <1> QED BY <1>2, <1>4

\* What the state before the chunk leaves of the value of token t.
Rest(s, xs) == [t \in 1 .. T |-> xs[t].v - FromState(s, xs, xs[t].k, t)]

\* These are numbers.
LEMMA RestType ==
    ASSUME work \in Workloads, NEW s \in Vector, NEW xs \in Drafts, NEW t \in 1 .. T
    PROVE  /\ Rest(s, xs)[t] \in Int
           /\ FromState(s, xs, xs[t].k, t) \in Int
           /\ Rest(s, xs)[t] = xs[t].v - FromState(s, xs, xs[t].k, t)
  <1>1. xs[t].v \in Int /\ xs[t].k \in Vector /\ t \in 0 .. T
    BY TokenFacts
  <1>2. FromState(s, xs, xs[t].k, t) \in Int
    BY <1>1, FromStateFacts
  <1> QED BY <1>1, <1>2, IntType DEF Rest

\* What decoding adds for a token, by the tokens before it: one row of the
\* triangular system the chunk solves.
LEMMA AddedClosed ==
    ASSUME work \in Workloads, work.rule = "kda", NEW s \in Vector, NEW xs \in Drafts,
           NEW t \in 1 .. T
    PROVE  Eq(Added(s, xs, t),
              xs[t].beta * (Rest(s, xs)[t] - Total(Paired(s, xs, xs[t].k, t), 1 .. t - 1)))
  <1> DEFINE y == After(s, xs, t - 1)
             d == Decayed(y, xs[t])
             k == xs[t].k
             b == xs[t].beta
             v == xs[t].v
             a == FromState(s, xs, k, t)
             z == Total(Paired(s, xs, k, t), 1 .. t - 1)
  <1>1. k \in Vector /\ b \in Int /\ v \in Int /\ y \in Vector /\ d \in Vector
    BY TokenFacts
  <1>2. t - 1 \in 0 .. T /\ t \in 0 .. T /\ t - 1 \in 0 .. t
    BY KvBufferAssumption
  <1>3. Closed(d, s, xs, t, t - 1)
    <2>1. Closed(y, s, xs, t - 1, t - 1)
      BY <1>2, StateClosed
    <2> HIDE DEF y
    <2> QED BY <1>1, <2>1, DecayClosed
  <1>4. Eq(Dot(d, k), a + z) /\ z \in Int
    <2> HIDE DEF d, k
    <2> QED BY <1>1, <1>2, <1>3, DotClosed, PairedType
  <1>5. a \in Int /\ Rest(s, xs)[t] = v - a
    BY RestType
  <1>6. Dot(d, k) \in Int
    <2>1. \A c \in Channels : d[c] \in Int /\ k[c] \in Int
      BY <1>1, ZpInt DEF Vector
    <2> QED BY <2>1, DotType
  <1>7. Added(s, xs, t) = M(b * (v - Dot(d, k)))
    BY DEF Added, Delta
  <1> HIDE DEF y, d, k, b, v, a, z
  <1>8. Eq(Added(s, xs, t), b * (v - Dot(d, k)))
    BY <1>1, <1>6, <1>7, IntType, EqM
  <1>9. Eq(v - Dot(d, k), v - (a + z))
    <2>1. Eq(v, v)
      BY DEF Eq
    <2> QED BY <1>1, <1>4, <1>5, <1>6, <2>1, IntType, EqMinus
  <1>10. Eq(b * (v - Dot(d, k)), b * (v - (a + z)))
    <2>1. Eq(b, b)
      BY DEF Eq
    <2> QED BY <1>1, <1>4, <1>5, <1>6, <1>9, <2>1, IntType, EqTimes
  <1>11. v - (a + z) = (v - a) - z
    BY <1>1, <1>4, <1>5
  <1> QED BY <1>5, <1>8, <1>10, <1>11 DEF Eq, b, v, a, z, k

-----------------------------------------------------------------------------
\* Row t of the correction, applied.
Weighed(w, x, t) == [j \in 1 .. T |-> w[t][j] * x[j]]
Solved(w, x) == [t \in 1 .. T |-> Total(Weighed(w, x, t), 1 .. T)]

\* The solution is made of numbers.
LEMMA SolvedType ==
    ASSUME NEW w, NEW x, NEW t \in 1 .. T, w[t] \in Row, \A j \in 1 .. T : x[j] \in Int
    PROVE  /\ \A j \in 1 .. T : Weighed(w, x, t)[j] \in Int
           /\ Solved(w, x)[t] \in Int
  <1>1. \A j \in 1 .. T : Weighed(w, x, t)[j] \in Int
    BY ZpInt, IntType DEF Weighed, Row
  <1>2. IsFiniteSet(1 .. T)
    BY FS_Interval, KvBufferAssumption
  <1> QED BY <1>1, <1>2, TotalType DEF Solved

\* Row t of the system, solved by forward substitution.
LEMMA SolveRow ==
    ASSUME work \in Workloads, NEW s \in Vector, NEW xs \in Drafts, NEW t \in 1 .. T,
           NEW x, \A j \in 1 .. T : x[j] \in Int
    PROVE  LET u == Solved(Correction(xs), x)
               p == [i \in 1 .. t - 1 |-> Pair(xs, xs[t].k, t, i) * u[i]]
           IN /\ \A i \in 1 .. t - 1 : p[i] \in Int
              /\ Eq(u[t], xs[t].beta * (x[t] - Total(p, 1 .. t - 1)))
  <1> DEFINE w == Correction(xs)
             u == Solved(w, x)
             A(i) == Pair(xs, xs[t].k, t, i)
             p == [i \in 1 .. t - 1 |-> A(i) * u[i]]
             b == xs[t].beta
             o == [j \in 1 .. T |-> IF t = j THEN x[j] ELSE 0]
             F == [j \in 1 .. T |-> [i \in 1 .. t - 1 |-> A(i) * w[i][j] * x[j]]]
             W == [i \in 1 .. t - 1 |-> [j \in 1 .. T |-> A(i) * w[i][j] * x[j]]]
             f == [j \in 1 .. T |-> Total(F[j], 1 .. t - 1)]
             e == [j \in 1 .. T |-> b * o[j] + (-b) * f[j]]
  <1>1. \A i \in 1 .. T : w[i] \in Row /\ w[i] = RowAt(xs, w, i)
    BY CorrectionFacts
  <1>2. IsFiniteSet(1 .. T) /\ IsFiniteSet(1 .. t - 1)
    <2>1. T \in Int /\ t - 1 \in Int
      BY KvBufferAssumption
    <2> QED BY <2>1, FS_Interval
  <1>3. b \in Int /\ -b \in Int /\ \A i \in 1 .. t - 1 : A(i) \in Int /\ i \in 1 .. T
    <2>1. ASSUME NEW i \in 1 .. t - 1 PROVE A(i) \in Int /\ i \in 1 .. T
      <3>1. i \in 1 .. t /\ t \in 0 .. T /\ i \in 1 .. T /\ xs[t].k \in Vector
        BY TokenFacts
      <3> QED BY <3>1, PairFacts
    <2>2. b \in Int
      BY TokenFacts
    <2> QED BY <2>1, <2>2
  <1> HIDE DEF w, A, b
  <1>4. \A i \in 1 .. T : u[i] \in Int /\ \A j \in 1 .. T : Weighed(w, x, i)[j] \in Int
    BY <1>1, SolvedType
  <1>5. \A i \in 1 .. T, j \in 1 .. T : w[i][j] \in Int
    BY <1>1, ZpInt DEF Row
  <1>6. \A j \in 1 .. T, i \in 1 .. t - 1 : F[j][i] \in Int /\ W[i][j] = F[j][i]
    <2>1. ASSUME NEW j \in 1 .. T, NEW i \in 1 .. t - 1
          PROVE  A(i) * w[i][j] * x[j] \in Int
      BY <1>3, <1>5, IntType
    <2> QED BY <2>1
  <1>7. Total(f, 1 .. T) = Total(p, 1 .. t - 1)
    <2>1. RowTotals(f, F, 1 .. T, 1 .. t - 1)
      BY DEF RowTotals
    <2>2. Transposes(W, F, 1 .. T, 1 .. t - 1)
      BY <1>6 DEF Transposes
    <2>3. ASSUME NEW i \in 1 .. t - 1 PROVE p[i] = Total(W[i], 1 .. T)
      <3>1. \A j \in 1 .. T : Weighed(w, x, i)[j] \in Int
                              /\ W[i][j] = A(i) * Weighed(w, x, i)[j]
        <4>1. ASSUME NEW j \in 1 .. T PROVE W[i][j] = A(i) * Weighed(w, x, i)[j]
          <5>1. A(i) * w[i][j] * x[j] = A(i) * (w[i][j] * x[j])
            BY <1>3, <1>5
          <5>2. Weighed(w, x, i)[j] = w[i][j] * x[j]
            BY DEF Weighed
          <5> QED BY <5>1, <5>2
        <4> QED BY <1>3, <1>4, <4>1
      <3>2. Total(W[i], 1 .. T) = A(i) * Total(Weighed(w, x, i), 1 .. T)
        <4> HIDE DEF W
        <4> QED BY <1>2, <1>3, <3>1, TotalTimes
      <3> QED BY <1>3, <3>2 DEF Solved
    <2>4. RowTotals(p, W, 1 .. t - 1, 1 .. T)
      BY <2>3 DEF RowTotals
    <2> HIDE DEF f, F, W, p
    <2> QED BY <1>2, <2>1, <2>2, <2>4, TotalSwap
  <1>8. Total(o, 1 .. T) = x[t]
    <2>1. o[t] = x[t] /\ o[t] \in Int /\ \A j \in 1 .. T : j # t => o[j] = 0
      OBVIOUS
    <2> HIDE DEF o
    <2> QED BY <1>2, <2>1, TotalOne
  <1>9. \A j \in 1 .. T : f[j] \in Int /\ o[j] \in Int
    <2>1. ASSUME NEW j \in 1 .. T PROVE Total(F[j], 1 .. t - 1) \in Int
      <3>1. \A i \in 1 .. t - 1 : F[j][i] \in Int
        BY <1>6
      <3> HIDE DEF F
      <3> QED BY <1>2, <3>1, TotalType
    <2> QED BY <2>1
  <1>10. Total(e, 1 .. T) = b * Total(o, 1 .. T) + (-b) * Total(f, 1 .. T)
    <2>1. PICK c \in Int : c = -b
      BY <1>3
    <2>2. Combines(e, b, o, c, f, 1 .. T)
      BY <1>9, <2>1 DEF Combines
    <2> HIDE DEF o, f, e
    <2>3. Total(e, 1 .. T) = b * Total(o, 1 .. T) + c * Total(f, 1 .. T)
      BY <1>2, <1>3, <2>2, TotalLinear
    <2> QED BY <2>1, <2>3
  <1>11. ASSUME NEW j \in 1 .. T
         PROVE  /\ Weighed(w, x, t)[j] \in Int /\ e[j] \in Int
                /\ Eq(Weighed(w, x, t)[j], e[j])
    <2> DEFINE B == BeforeAt(xs, w, t, j)
               n == IF t = j THEN 1 ELSE 0
               S == Sum(B, 1 .. t - 1)
               Z == Total(B, 1 .. t - 1)
    <2>1. \A i \in 1 .. t - 1 : w[i] \in Row
      BY <1>1, <1>3
    <2>2. /\ \A i \in 1 .. t - 1 : B[i] \in Int
          /\ Z \in Int /\ S \in Int /\ Eq(S, Z)
      BY <2>1, RowType
    <2>3. w[t][j] = M(b * (n - S))
      BY <1>1 DEF RowAt, b
    <2>4. f[j] = x[j] * Z
      <3>1. \A i \in 1 .. t - 1 : B[i] \in Int /\ F[j][i] = x[j] * B[i]
        <4>1. ASSUME NEW i \in 1 .. t - 1 PROVE F[j][i] = x[j] * B[i]
          <5>1. B[i] = A(i) * w[i][j]
            BY DEF BeforeAt, A
          <5>2. A(i) * w[i][j] * x[j] = x[j] * (A(i) * w[i][j])
            BY <1>3, <1>5
          <5> QED BY <5>1, <5>2
        <4> QED BY <2>2, <4>1
      <3>2. f[j] = Total(F[j], 1 .. t - 1)
        OBVIOUS
      <3> HIDE DEF F, f, B
      <3> QED BY <1>2, <3>1, <3>2, TotalTimes
    <2>5. o[j] = n * x[j] /\ n \in Int
      OBVIOUS
    <2>6. e[j] = b * o[j] + (-b) * f[j]
      OBVIOUS
    <2> HIDE DEF B, n, S, Z, e, o, f
    <2>7. Eq(w[t][j], b * (n - Z))
      <3>1. Eq(n, n) /\ Eq(b, b)
        BY DEF Eq
      <3>2. Eq(n - S, n - Z)
        BY <2>2, <2>5, <3>1, EqMinus
      <3>3. n - S \in Int /\ n - Z \in Int /\ b * (n - S) \in Int
        BY <1>3, <2>2, <2>5, IntType
      <3>4. Eq(b * (n - S), b * (n - Z))
        BY <1>3, <3>1, <3>2, <3>3, EqTimes
      <3>5. Eq(w[t][j], b * (n - S))
        BY <2>3, <3>3, EqM
      <3> QED BY <3>4, <3>5 DEF Eq
    <2>8. b * (n - Z) \in Int /\ w[t][j] \in Int /\ x[j] \in Int
      BY <1>3, <1>5, <2>2, <2>5, IntType
    <2>9. Eq(w[t][j] * x[j], (b * (n - Z)) * x[j])
      <3>1. Eq(x[j], x[j])
        BY DEF Eq
      <3> QED BY <2>7, <2>8, <3>1, EqTimes
    <2>10. (b * (n - Z)) * x[j] = b * (n * x[j]) + (-b) * (x[j] * Z)
      BY <1>3, <2>2, <2>5, <2>8
    <2>11. e[j] = (b * (n - Z)) * x[j] /\ e[j] \in Int
      BY <2>4, <2>5, <2>6, <2>8, <2>10, IntType
    <2>12. Weighed(w, x, t)[j] = w[t][j] * x[j] /\ Weighed(w, x, t)[j] \in Int
      BY <1>4 DEF Weighed
    <2> QED BY <2>9, <2>11, <2>12 DEF Eq
  <1>12. Eq(Total(Weighed(w, x, t), 1 .. T), Total(e, 1 .. T))
    <2> HIDE DEF e
    <2> QED BY <1>2, <1>11, TotalEq
  <1>13. u[t] = Total(Weighed(w, x, t), 1 .. T)
    BY DEF Solved
  <1>14. \A i \in 1 .. t - 1 : p[i] \in Int
    BY <1>3, <1>4, IntType
  <1>15. Total(p, 1 .. t - 1) \in Int
    <2> HIDE DEF p
    <2> QED BY <1>2, <1>14, TotalType
  <1>16. b * x[t] + (-b) * Total(p, 1 .. t - 1) = b * (x[t] - Total(p, 1 .. t - 1))
    <2>1. x[t] \in Int
      OBVIOUS
    <2> HIDE DEF p
    <2> QED BY <1>3, <1>15, <2>1
  <1>17. Eq(u[t], b * (x[t] - Total(p, 1 .. t - 1)))
    <2> HIDE DEF p, f, o, e, u
    <2> QED BY <1>7, <1>8, <1>10, <1>12, <1>13, <1>16 DEF Eq
  <1> QED BY <1>14, <1>17 DEF w, A, b

\* Congruent residues are equal.
LEMMA ZpEq ==
    ASSUME NEW x \in Zp, NEW y \in Zp, Eq(x, y)
    PROVE  x = y
  BY MType, ZpInt DEF Eq

\* What the chunk adds for every token is what decoding adds.
LEMMA UpdatesAre ==
    ASSUME work \in Workloads, NEW s \in Vector, NEW xs \in Drafts
    PROVE  Updates(s, xs) = [t \in 1 .. T |-> Added(s, xs, t)]
  <1> DEFINE w == Correction(xs)
             x == Rest(s, xs)
             u == Solved(w, x)
  <1>1. CASE work.rule # "kda"
    <2>1. \A t \in 1 .. T : Added(s, xs, t) = xs[t].v
      BY <1>1 DEF Added, Delta
    <2> QED BY <1>1, <2>1 DEF Updates
  <1>2. CASE work.rule = "kda"
    <2>1. \A t \in 1 .. T : w[t] \in Row /\ \A j \in 1 .. T : j > t => w[t][j] = 0
      BY CorrectionFacts, CorrectionBeyond
    <2>2. \A t \in 1 .. T : x[t] \in Int
      BY RestType
    <2>3. \A t \in 1 .. T : u[t] \in Int /\ \A j \in 1 .. T : Weighed(w, x, t)[j] \in Int
      <3> HIDE DEF w, x
      <3> QED BY <2>1, <2>2, SolvedType
    <2> DEFINE f(t) == [i \in 1 .. t |-> w[t][i] * x[i]]
    <2>4. Updates(s, xs) = [t \in 1 .. T |-> Sum(f(t), 1 .. t)]
      BY <1>2 DEF Updates, Rest
    <2>5. ASSUME NEW t \in 1 .. T
          PROVE  Sum(f(t), 1 .. t) \in Zp /\ Eq(Sum(f(t), 1 .. t), u[t])
      <3>1. IsFiniteSet(1 .. t) /\ t \in 0 .. T /\ T \in Nat
        <4>1. t \in Int
          OBVIOUS
        <4> QED BY <4>1, FS_Interval, KvBufferAssumption
      <3>2. \A i \in 1 .. t : Weighed(w, x, t)[i] \in Int /\ f(t)[i] = Weighed(w, x, t)[i]
        BY <2>3, <3>1 DEF Weighed
      <3>3. ASSUME NEW i \in 1 .. T
            PROVE  Weighed(w, x, t)[i] \in Int /\ (i > t => Weighed(w, x, t)[i] = 0)
        <4>1. Weighed(w, x, t)[i] = w[t][i] * x[i] /\ x[i] \in Int
          BY <2>2 DEF Weighed
        <4>2. i > t => w[t][i] = 0
          BY <2>1
        <4> HIDE DEF w, x
        <4> QED BY <2>3, <4>1, <4>2
      <3> HIDE DEF f, w, x
      <3>4. Total(f(t), 1 .. t) = Total(Weighed(w, x, t), 1 .. t)
        BY <3>1, <3>2, TotalSame
      <3>5. Total(Weighed(w, x, t), 1 .. T) = Total(Weighed(w, x, t), 1 .. t)
        BY <3>1, <3>3, TotalBeyond
      <3>6. u[t] = Total(f(t), 1 .. t)
        BY <3>4, <3>5 DEF Solved
      <3>7. \A i \in 1 .. t : f(t)[i] \in Int
        BY <3>2
      <3> QED BY <3>1, <3>6, <3>7, SumIs
    <2> DEFINE a(t) == Added(s, xs, t)
               G == {n \in 0 .. T : \A t \in 1 .. n : Eq(u[t], a(t))}
    <2>6. 0 \in G
      BY KvBufferAssumption
    <2>7. ASSUME NEW n \in 0 .. T - 1, n \in G PROVE n + 1 \in G
      <3> DEFINE m == n + 1
                 k == xs[m].k
                 b == xs[m].beta
                 p == [i \in 1 .. m - 1 |-> Pair(xs, k, m, i) * u[i]]
                 q == Paired(s, xs, k, m)
      <3>1. m \in 1 .. T /\ m \in 0 .. T /\ m - 1 = n /\ n \in Nat /\ n \in 0 .. m
        BY KvBufferAssumption
      <3>2. /\ \A i \in 1 .. m - 1 : p[i] \in Int
            /\ Eq(u[m], b * (x[m] - Total(p, 1 .. m - 1)))
        <4> HIDE DEF m, x
        <4> QED BY <2>2, <3>1, SolveRow
      <3>3. k \in Vector /\ b \in Int /\ x[m] \in Int
        BY <2>2, <3>1, TokenFacts
      <3>4. ASSUME NEW i \in 1 .. m - 1
            PROVE  p[i] \in Int /\ q[i] \in Int /\ Eq(p[i], q[i])
        <4>1. i \in 1 .. T /\ i \in 1 .. m /\ i \in 1 .. n
          BY <3>1, KvBufferAssumption
        <4>2. Pair(xs, k, m, i) \in Int /\ a(i) \in Int /\ u[i] \in Int
          BY <2>3, <3>1, <3>3, <4>1, PairFacts, TokenFacts
        <4>3. Eq(u[i], a(i))
          BY <2>7, <4>1
        <4>4. p[i] = Pair(xs, k, m, i) * u[i] /\ q[i] = Pair(xs, k, m, i) * a(i)
          BY <4>1 DEF Paired
        <4> HIDE DEF p, q, a, k, m, u
        <4>5. Eq(Pair(xs, k, m, i), Pair(xs, k, m, i))
          BY DEF Eq
        <4>6. Eq(Pair(xs, k, m, i) * u[i], Pair(xs, k, m, i) * a(i))
          BY <4>2, <4>3, <4>5, EqTimes
        <4> QED BY <4>2, <4>4, <4>6, IntType
      <3>5. IsFiniteSet(1 .. m - 1)
        <4>1. m - 1 \in Int
          BY <3>1
        <4> QED BY <4>1, FS_Interval
      <3>6. Eq(a(m), b * (x[m] - Total(q, 1 .. m - 1)))
        <4> HIDE DEF m
        <4> QED BY <1>2, <3>1, AddedClosed
      <3> HIDE DEF p, q, x, a, u, k, b, m
      <3>7. Eq(Total(p, 1 .. m - 1), Total(q, 1 .. m - 1))
        BY <3>4, <3>5, TotalEq
      <3>8. Total(p, 1 .. m - 1) \in Int /\ Total(q, 1 .. m - 1) \in Int
        BY <3>4, <3>5, TotalType
      <3>9. Eq(b, b) /\ Eq(x[m], x[m])
        BY DEF Eq
      <3>10. Eq(x[m] - Total(p, 1 .. m - 1), x[m] - Total(q, 1 .. m - 1))
        BY <3>3, <3>7, <3>8, <3>9, EqMinus
      <3>11. Eq(b * (x[m] - Total(p, 1 .. m - 1)), b * (x[m] - Total(q, 1 .. m - 1)))
        BY <3>3, <3>8, <3>9, <3>10, IntType, EqTimes
      <3>12. Eq(u[m], a(m))
        BY <3>2, <3>6, <3>11 DEF Eq
      <3>13. \A t \in 1 .. m : t = m \/ t \in 1 .. n
        BY <3>1 DEF m
      <3> QED BY <2>7, <3>1, <3>12, <3>13 DEF m
    <2>8. 0 .. T \subseteq G
      <3>1. 0 \in Int /\ T \in Int
        BY KvBufferAssumption
      <3> HIDE DEF G
      <3> QED BY <2>6, <2>7, <3>1, UpFrom
    <2>9. ASSUME NEW t \in 1 .. T PROVE Sum(f(t), 1 .. t) = a(t)
      <3>1. T \in G
        BY <2>8, KvBufferAssumption
      <3>2. Eq(u[t], a(t)) /\ a(t) \in Zp
        BY <3>1, TokenFacts
      <3> HIDE DEF u, a, f
      <3> QED BY <2>5, <3>2, ZpEq DEF Eq
    <2> QED BY <2>4, <2>9
  <1> QED BY <1>1, <1>2

\* The chunkwise form: for every state and every draft the outputs of the chunk
\* (the corrected updates u = W (v - S0 kdec) of the verify kernel, or plain v
\* of lightning attention) are the outputs of decoding token by token.
THEOREM ChunkIsSerial ==
    ASSUME work \in Workloads, NEW s \in Vector, NEW xs \in Drafts
    PROVE  ChunkOutputs(s, xs) = Outputs(s, xs)
  <1> DEFINE u == Updates(s, xs)
             f(t) == [i \in 1 .. t |-> Pair(xs, xs[t].q, t, i) * u[i]]
             z(t) == FromState(s, xs, xs[t].q, t) + Sum(f(t), 1 .. t)
  <1>1. \A t \in 1 .. T : u[t] = Added(s, xs, t)
    BY UpdatesAre
  <1>2. ChunkOutputs(s, xs) = [t \in 1 .. T |-> M(z(t))]
    BY DEF ChunkOutputs
  <1> HIDE DEF u
  <1>3. ASSUME NEW t \in 1 .. T PROVE M(z(t)) = Dot(After(s, xs, t), xs[t].q)
    <2> DEFINE q == xs[t].q
               y == After(s, xs, t)
               p == Paired(s, xs, q, t)
               e == FromState(s, xs, q, t)
    <2>1. q \in Vector /\ t \in 0 .. T /\ t \in 0 .. t /\ T \in Nat /\ AreTokens(xs, T)
      BY TokenFacts
    <2>2. y \in Vector
      BY <2>1, AfterFacts
    <2>3. Closed(y, s, xs, t, t)
      BY <2>1, StateClosed
    <2>4. /\ \A i \in 1 .. t : p[i] \in Int
          /\ Total(p, 1 .. t) \in Int
      BY <2>1, PairedType
    <2>5. e \in Int
      BY <2>1, FromStateFacts
    <2>6. \A i \in 1 .. t : f(t)[i] = p[i]
      BY <1>1, <2>1 DEF Paired
    <2>7. IsFiniteSet(1 .. t)
      <3>1. t \in Int
        OBVIOUS
      <3> QED BY <3>1, FS_Interval
    <2>8. Dot(y, q) \in Zp
      <3>1. \A c \in Channels : y[c] \in Int /\ q[c] \in Int
        BY <2>1, <2>2, ZpInt DEF Vector
      <3> QED BY <3>1, DotType
    <2>9. z(t) = e + Sum(f(t), 1 .. t)
      OBVIOUS
    <2> HIDE DEF z, f, e, p, y, q
    <2>10. Total(f(t), 1 .. t) = Total(p, 1 .. t)
      BY <2>4, <2>6, <2>7, TotalSame
    <2>11. Sum(f(t), 1 .. t) \in Int /\ Eq(Sum(f(t), 1 .. t), Total(p, 1 .. t))
      BY <2>4, <2>6, <2>7, <2>10, SumIs
    <2>12. Eq(Dot(y, q), e + Total(p, 1 .. t))
      BY <2>1, <2>2, <2>3, DotClosed DEF e, p
    <2>13. Eq(z(t), e + Total(p, 1 .. t))
      <3>1. Eq(e, e)
        BY DEF Eq
      <3> QED BY <2>4, <2>5, <2>9, <2>11, <3>1, EqPlus
    <2>14. M(z(t)) \in Zp /\ Eq(M(z(t)), z(t))
      BY <2>5, <2>9, <2>11, IntType, MType, EqM
    <2>15. M(z(t)) = Dot(y, q)
      BY <2>8, <2>12, <2>13, <2>14, ZpEq DEF Eq
    <2> QED BY <2>15 DEF y, q
  <1>4. DOMAIN xs = 1 .. T
    BY DEF Drafts
  <1> HIDE DEF z
  <1> QED BY <1>2, <1>3, <1>4 DEF Outputs

-----------------------------------------------------------------------------
(* What a flush makes of the tokens that are kept. *)
Keeps(kept, m) ==
    \A i \in 1 .. m : kept[i].g \in Vector /\ kept[i].k \in Vector /\ kept[i].d \in Int

\* st is the recurrence over the first m of them.
Follows(st, s, kept, m) ==
    /\ st \in [0 .. m -> Vector]
    /\ st[0] = s
    /\ \A i \in 1 .. m : \A c \in Channels :
          Eq(st[i][c], kept[i].g[c] * st[i - 1][c] + kept[i].d * kept[i].k[c])

NoneAfter == [suf |-> [c \in Channels |-> 1], acc |-> [c \in Channels |-> 0]]
Earlier(kept, i, later) ==
    [suf |-> [c \in Channels |-> M(later.suf[c] * kept[i].g[c])],
     acc |-> [c \in Channels |->
                M(later.acc[c] + kept[i].d * kept[i].k[c] * later.suf[c])]]
Pairs == [suf : Vector, acc : Vector]

\* One step of the rebuild.
LEMMA EarlierType ==
    ASSUME NEW kept, NEW m \in Nat, Keeps(kept, m), NEW i \in 1 .. m, NEW later \in Pairs
    PROVE  /\ Earlier(kept, i, later) \in Pairs
           /\ \A c \in Channels :
                 /\ Eq(Earlier(kept, i, later).suf[c], later.suf[c] * kept[i].g[c])
                 /\ Eq(Earlier(kept, i, later).acc[c],
                       later.acc[c] + kept[i].d * kept[i].k[c] * later.suf[c])
  <1> DEFINE e == Earlier(kept, i, later)
  <1>1. ASSUME NEW c \in Channels
        PROVE  /\ later.suf[c] * kept[i].g[c] \in Int
               /\ later.acc[c] + kept[i].d * kept[i].k[c] * later.suf[c] \in Int
    <2>1. later.suf \in Vector /\ later.acc \in Vector
      BY DEF Pairs
    <2>2. kept[i].g \in Vector /\ kept[i].k \in Vector /\ kept[i].d \in Int
      BY DEF Keeps
    <2>3. /\ later.suf[c] \in Int /\ later.acc[c] \in Int
          /\ kept[i].g[c] \in Int /\ kept[i].k[c] \in Int
      BY <2>1, <2>2, ZpInt DEF Vector
    <2> QED BY <2>2, <2>3, IntType
  <1>2. ASSUME NEW c \in Channels
        PROVE  /\ e.suf[c] = M(later.suf[c] * kept[i].g[c])
               /\ e.acc[c] = M(later.acc[c] + kept[i].d * kept[i].k[c] * later.suf[c])
    BY DEF Earlier
  <1>3. \A c \in Channels : e.suf[c] \in Zp /\ e.acc[c] \in Zp
    BY <1>1, <1>2, MType
  <1>4. e \in Pairs
    BY <1>3 DEF Earlier, Pairs, Vector
  <1> QED BY <1>1, <1>2, <1>4, EqM

\* The rebuild from the last token down ends where the recurrence ends.
LEMMA RebuildIs ==
    ASSUME NEW s \in Vector, NEW m \in Nat, NEW kept, Keeps(kept, m),
           NEW st, Follows(st, s, kept, m)
    PROVE  Rebuild(s, kept, m) = st[m]
  <1> DEFINE Q(g) == g = [i \in 1 .. m + 1 |-> IF i = m + 1 THEN NoneAfter
                             ELSE Earlier(kept, i, g[i + 1])]
             from == CHOOSE g : Q(g)
             step == [t \in 0 .. m |-> [h \in [0 .. t - 1 -> Pairs] |->
                        IF t = 0 THEN NoneAfter ELSE Earlier(kept, (m + 1) - t, h[t - 1])]]
  <1>1. Rebuild(s, kept, m) = [c \in Channels |-> M(from[1].suf[c] * s[c] + from[1].acc[c])]
    BY DEF Rebuild, NoneAfter, Earlier
  <1>2. NoneAfter \in Pairs
    BY ZpInt DEF NoneAfter, Pairs, Vector
  <1>3. \A t \in 0 .. m : \A h \in [0 .. t - 1 -> Pairs] :
           step[t][h] = (IF t = 0 THEN NoneAfter ELSE Earlier(kept, (m + 1) - t, h[t - 1]))
    OBVIOUS
  <1>4. \A t \in 0 .. m : \A h \in [0 .. t - 1 -> Pairs] : step[t][h] \in Pairs
    <2>1. ASSUME NEW t \in 0 .. m, NEW h \in [0 .. t - 1 -> Pairs], t # 0
          PROVE  Earlier(kept, (m + 1) - t, h[t - 1]) \in Pairs
      <3>1. (m + 1) - t \in 1 .. m /\ h[t - 1] \in Pairs
        BY <2>1
      <3> QED BY <3>1, EarlierType
    <2> QED BY <1>2, <1>3, <2>1
  <1> HIDE DEF step
  <1>5. PICK f : Recursive(f, step, Pairs, 0, m)
    <2>1. Steps(step, Pairs, 0, m) /\ 0 \in Int /\ m \in Int
      BY <1>4 DEF Steps
    <2> QED BY <2>1, RecursionExists
  <1>6. ASSUME NEW t \in 0 .. m
        PROVE  f[t] = IF t = 0 THEN NoneAfter ELSE Earlier(kept, (m + 1) - t, f[t - 1])
    <2> DEFINE h == Before(f, 0, t)
    <2>1. h \in [0 .. t - 1 -> Pairs] /\ (t # 0 => h[t - 1] = f[t - 1])
      BY <1>5 DEF Before, Recursive
    <2> HIDE DEF h
    <2>2. f[t] = step[t][h]
      BY <1>5 DEF h, Recursive
    <2> QED BY <1>3, <2>1, <2>2
  <1> DEFINE r == [i \in 1 .. m + 1 |-> f[(m + 1) - i]]
  <1>7. Q(r)
    <2>1. ASSUME NEW i \in 1 .. m + 1
          PROVE  r[i] = IF i = m + 1 THEN NoneAfter ELSE Earlier(kept, i, r[i + 1])
      <3> DEFINE t == (m + 1) - i
      <3>1. t \in 0 .. m /\ (t = 0 <=> i = m + 1) /\ (m + 1) - t = i
        OBVIOUS
      <3>2. r[i] = f[t]
        OBVIOUS
      <3>3. i # m + 1 => r[i + 1] = f[t - 1]
        <4>1. i # m + 1 => i + 1 \in 1 .. m + 1 /\ (m + 1) - (i + 1) = t - 1
          OBVIOUS
        <4> QED BY <4>1
      <3> HIDE DEF t, r
      <3> QED BY <1>6, <3>1, <3>2, <3>3
    <2> QED BY <2>1
  <1>8. Q(from)
    BY <1>7
  <1> HIDE DEF from
  <1>9. /\ from[m + 1] = NoneAfter
        /\ \A i \in 1 .. m : from[i] = Earlier(kept, i, from[i + 1])
    <2>1. m + 1 \in 1 .. m + 1 /\ \A i \in 1 .. m : i \in 1 .. m + 1 /\ i # m + 1
      OBVIOUS
    <2> QED BY <1>8, <2>1
  \* From the last token down: what follows token i, applied to the state there.
  <1> DEFINE Good(i) == /\ from[i] \in Pairs
                        /\ \A c \in Channels :
                              Eq(from[i].suf[c] * st[i - 1][c] + from[i].acc[c], st[m][c])
             G == {n \in 0 .. m : Good((m + 1) - n)}
  <1>10. 0 \in G
    <2>1. (m + 1) - 0 = m + 1 /\ (m + 1) - 1 = m /\ st[m] \in Vector
      BY DEF Follows
    <2>2. ASSUME NEW c \in Channels
          PROVE  from[m + 1].suf[c] * st[m][c] + from[m + 1].acc[c] = st[m][c]
      <3>1. st[m][c] \in Int
        BY <2>1, ZpInt DEF Vector
      <3>2. from[m + 1].suf[c] = 1 /\ from[m + 1].acc[c] = 0
        BY <1>9 DEF NoneAfter
      <3> QED BY <3>1, <3>2
    <2>3. Good(m + 1)
      BY <1>2, <1>9, <2>1, <2>2 DEF Eq
    <2> QED BY <2>1, <2>3
  <1>11. ASSUME NEW n \in 0 .. m - 1, n \in G PROVE n + 1 \in G
    <2> DEFINE i == (m + 1) - (n + 1)
               l == from[i + 1]
    <2>1. i \in 1 .. m /\ i + 1 = (m + 1) - n /\ (i + 1) - 1 = i /\ n + 1 \in 0 .. m
      OBVIOUS
    <2>2. Good(i + 1)
      BY <1>11, <2>1
    <2>3. from[i] = Earlier(kept, i, l)
      BY <1>9, <2>1
    <2>4. l \in Pairs
      BY <2>2
    <2> HIDE DEF i, l
    <2>5. /\ from[i] \in Pairs
          /\ \A c \in Channels :
                /\ Eq(from[i].suf[c], l.suf[c] * kept[i].g[c])
                /\ Eq(from[i].acc[c], l.acc[c] + kept[i].d * kept[i].k[c] * l.suf[c])
      BY <2>1, <2>3, <2>4, EarlierType
    <2>6. ASSUME NEW c \in Channels
          PROVE  Eq(from[i].suf[c] * st[i - 1][c] + from[i].acc[c], st[m][c])
      <3> DEFINE g == kept[i].g[c]
                 k == kept[i].k[c]
                 d == kept[i].d
                 z == st[i - 1][c]
                 y == st[i][c]
                 p == l.suf[c]
                 a == l.acc[c]
                 p_ == from[i].suf[c]
                 a_ == from[i].acc[c]
      <3>1. g \in Int /\ k \in Int /\ d \in Int
        <4>1. kept[i].g \in Vector /\ kept[i].k \in Vector /\ kept[i].d \in Int
          BY <2>1 DEF Keeps
        <4> QED BY <4>1, ZpInt DEF Vector
      <3>2. z \in Int /\ y \in Int
        <4>1. i - 1 \in 0 .. m /\ i \in 0 .. m
          BY <2>1
        <4>2. st[i - 1] \in Vector /\ st[i] \in Vector
          BY <4>1 DEF Follows
        <4> QED BY <4>2, ZpInt DEF Vector
      <3>3. p \in Int /\ a \in Int /\ p_ \in Int /\ a_ \in Int
        <4>1. /\ l.suf \in Vector /\ l.acc \in Vector
              /\ from[i].suf \in Vector /\ from[i].acc \in Vector
          BY <2>4, <2>5 DEF Pairs
        <4> QED BY <4>1, ZpInt DEF Vector
      <3>4. Eq(p * y + a, st[m][c])
        BY <2>1, <2>2 DEF l
      <3>5. Eq(y, g * z + d * k)
        BY <2>1 DEF Follows
      <3>6. Eq(p_, p * g) /\ Eq(a_, a + d * k * p)
        BY <2>5
      <3> HIDE DEF g, k, d, z, y, p, a, p_, a_
      <3>7. Eq(p, p) /\ Eq(z, z) /\ Eq(a, a)
        BY DEF Eq
      <3>8. /\ g * z \in Int /\ d * k \in Int /\ g * z + d * k \in Int /\ p * g \in Int
            /\ (p * g) * z \in Int /\ p_ * z \in Int /\ d * k * p \in Int
            /\ a + d * k * p \in Int /\ p * y \in Int /\ p * (g * z + d * k) \in Int
        BY <3>1, <3>2, <3>3, IntType
      <3>9. Eq(p_ * z, (p * g) * z)
        BY <3>2, <3>3, <3>6, <3>7, <3>8, EqTimes
      <3>10. Eq(p_ * z + a_, (p * g) * z + (a + d * k * p))
        BY <3>3, <3>6, <3>8, <3>9, EqPlus
      <3>11. Eq(p * y, p * (g * z + d * k))
        BY <3>2, <3>3, <3>5, <3>7, <3>8, EqTimes
      <3>12. Eq(p * y + a, p * (g * z + d * k) + a)
        BY <3>3, <3>7, <3>8, <3>11, EqPlus
      <3>13. (p * g) * z + (a + d * k * p) = p * (g * z + d * k) + a
        BY <3>1, <3>2, <3>3
      <3>14. Eq(p_ * z + a_, st[m][c])
        BY <3>4, <3>10, <3>12, <3>13 DEF Eq
      <3> QED BY <3>14 DEF p_, z, a_
    <2>7. Good(i)
      BY <2>5, <2>6
    <2> QED BY <2>1, <2>7 DEF i
  <1>12. 0 .. m \subseteq G
    <2>1. 0 \in Int /\ m \in Int
      OBVIOUS
    <2> HIDE DEF G
    <2> QED BY <1>10, <1>11, <2>1, UpFrom
  <1>13. Good(1)
    <2>1. m \in G /\ (m + 1) - m = 1
      BY <1>12
    <2> QED BY <2>1
  <1>14. st[0] = s /\ st[m] \in Vector /\ 1 - 1 = 0
    BY DEF Follows
  <1>15. ASSUME NEW c \in Channels
         PROVE  M(from[1].suf[c] * s[c] + from[1].acc[c]) = st[m][c]
    <2>1. Eq(from[1].suf[c] * s[c] + from[1].acc[c], st[m][c])
      BY <1>13, <1>14
    <2>2. st[m][c] \in Zp
      BY <1>14 DEF Vector
    <2> QED BY <2>1, <2>2, ZpInt, MType DEF Eq
  <1>16. st[m] = [c \in Channels |-> st[m][c]]
    BY <1>14 DEF Vector
  <1> QED BY <1>1, <1>15, <1>16

\* The lightning flush repeats the recurrence.
LEMMA AdvanceIs ==
    ASSUME NEW s \in Vector, NEW m \in Nat, NEW kept, Keeps(kept, m),
           NEW st, Follows(st, s, kept, m)
    PROVE  Advance(s, kept, m) = st[m]
  <1> DEFINE Next_(i, v) == [c \in Channels |-> M(kept[i].g[c] * v[c]
                                                   + kept[i].d * kept[i].k[c])]
             Q(g) == g = [i \in 0 .. m |-> IF i = 0 THEN s ELSE Next_(i, g[i - 1])]
             state == CHOOSE g : Q(g)
  <1>1. Advance(s, kept, m) = state[m]
    BY DEF Advance
  <1>2. ASSUME NEW i \in 1 .. m PROVE st[i] = Next_(i, st[i - 1])
    <2>1. i - 1 \in 0 .. m /\ i \in 0 .. m
      OBVIOUS
    <2>2. st[i - 1] \in Vector /\ st[i] \in Vector
      BY <2>1 DEF Follows
    <2>3. kept[i].g \in Vector /\ kept[i].k \in Vector /\ kept[i].d \in Int
      BY DEF Keeps
    <2>4. ASSUME NEW c \in Channels
          PROVE  st[i][c] = M(kept[i].g[c] * st[i - 1][c] + kept[i].d * kept[i].k[c])
      <3>1. Eq(st[i][c], kept[i].g[c] * st[i - 1][c] + kept[i].d * kept[i].k[c])
        BY DEF Follows
      <3>2. st[i][c] \in Zp
        BY <2>2 DEF Vector
      <3> QED BY <3>1, <3>2, MType, ZpInt DEF Eq
    <2>5. st[i] = [c \in Channels |-> st[i][c]]
      BY <2>2 DEF Vector
    <2> QED BY <2>4, <2>5
  <1> HIDE DEF Next_
  <1>3. Q(st)
    <2>1. \A i \in 0 .. m : st[i] = IF i = 0 THEN s ELSE Next_(i, st[i - 1])
      BY <1>2 DEF Follows
    <2>2. st = [i \in 0 .. m |-> st[i]]
      BY DEF Follows
    <2> QED BY <2>1, <2>2
  <1>4. Q(state)
    BY <1>3
  <1> HIDE DEF state
  <1> DEFINE G == {i \in 0 .. m : state[i] = st[i]}
  <1>5. 0 \in G
    BY <1>4 DEF Follows
  <1>6. ASSUME NEW i \in 0 .. m - 1, i \in G PROVE i + 1 \in G
    <2>1. i + 1 \in 1 .. m /\ i + 1 \in 0 .. m /\ (i + 1) - 1 = i
      OBVIOUS
    <2>2. state[i + 1] = Next_(i + 1, state[i])
      BY <1>4, <2>1
    <2>3. st[i + 1] = Next_(i + 1, st[i])
      BY <1>2, <2>1
    <2> QED BY <1>6, <2>1, <2>2, <2>3
  <1>7. 0 .. m \subseteq G
    <2>1. 0 \in Int /\ m \in Int
      OBVIOUS
    <2> HIDE DEF G
    <2> QED BY <1>5, <1>6, <2>1, UpFrom
  <1> QED BY <1>1, <1>7 DEF state

\* The triplets the kernel keeps make the state go where decoding goes.
LEMMA KeptFollows ==
    ASSUME work \in Workloads, NEW s \in Vector, NEW xs \in Drafts, NEW m \in 0 .. T
    PROVE  /\ Keeps(Kept(s, xs), m)
           /\ Follows([i \in 0 .. m |-> After(s, xs, i)], s, Kept(s, xs), m)
  <1> DEFINE kept == Kept(s, xs)
             st == [i \in 0 .. m |-> After(s, xs, i)]
  <1>1. T \in Nat /\ m \in Nat /\ AreTokens(xs, T) /\ \A i \in 1 .. m : i \in 1 .. T
    BY KvBufferAssumption DEF Drafts, AreTokens
  <1>2. ASSUME NEW i \in 1 .. m
        PROVE  /\ kept[i].d = Added(s, xs, i) /\ kept[i].k = xs[i].k
               /\ kept[i].g = [c \in Channels |-> Gate(xs[i], c)]
    BY <1>1, UpdatesAre DEF Kept
  <1>3. Keeps(kept, m)
    <2>1. ASSUME NEW i \in 1 .. m
          PROVE  /\ Added(s, xs, i) \in Int /\ xs[i].k \in Vector
                 /\ [c \in Channels |-> Gate(xs[i], c)] \in Vector
      <3>1. xs[i] \in TokenRecord /\ Added(s, xs, i) \in Int /\ xs[i].k \in Vector
        BY <1>1, TokenFacts
      <3>2. \A c \in Channels : Gate(xs[i], c) \in Zp
        BY <3>1, GateType
      <3> QED BY <3>1, <3>2 DEF Vector
    <2> QED BY <1>2, <2>1 DEF Keeps
  <1>4. \A i \in 0 .. m : After(s, xs, i) \in Vector /\ After(s, xs, 0) = s
    <2>1. \A i \in 0 .. m : i \in 0 .. T
      BY <1>1
    <2> QED BY <1>1, <2>1, AfterFacts
  <1>5. ASSUME NEW i \in 1 .. m, NEW c \in Channels
        PROVE  Eq(After(s, xs, i)[c],
                  kept[i].g[c] * After(s, xs, i - 1)[c] + kept[i].d * kept[i].k[c])
    <2> DEFINE y == After(s, xs, i - 1)
               a == Added(s, xs, i)
               g == Gate(xs[i], c)
               k == xs[i].k[c]
    <2>1. i \in 1 .. T /\ i \in 0 .. T /\ i > 0
      BY <1>1
    <2>2. After(s, xs, i) = Decode(y, xs[i])
      BY <1>1, <2>1, AfterFacts
    <2>3. After(s, xs, i)[c] = M(M(g * y[c]) + a * k)
      BY <2>2 DEF Decode, Decayed, Added
    <2>4. y \in Vector /\ a \in Int /\ k \in Int /\ xs[i] \in TokenRecord
      BY <2>1, TokenFacts
    <2>5. y[c] \in Int /\ g \in Int
      BY <2>4, GateType, ZpInt DEF Vector
    <2>6. kept[i].g[c] = g /\ kept[i].d = a /\ kept[i].k[c] = k
      BY <1>2
    <2> HIDE DEF y, a, g, k, kept
    <2>7. g * y[c] \in Int /\ a * k \in Int /\ M(g * y[c]) \in Int /\ g * y[c] + a * k \in Int
      BY <2>4, <2>5, IntType, MType
    <2>8. Eq(M(g * y[c]), g * y[c]) /\ Eq(a * k, a * k)
      BY <2>7, EqM DEF Eq
    <2>9. Eq(M(g * y[c]) + a * k, g * y[c] + a * k)
      BY <2>7, <2>8, EqPlus
    <2>10. Eq(After(s, xs, i)[c], M(g * y[c]) + a * k)
      BY <2>3, <2>7, IntType, EqM
    <2>11. Eq(After(s, xs, i)[c], g * y[c] + a * k)
      BY <2>9, <2>10 DEF Eq
    <2> QED BY <2>6, <2>11 DEF y
  <1>6. Follows(st, s, kept, m)
    <2>1. st \in [0 .. m -> Vector] /\ st[0] = s
      BY <1>1, <1>4
    <2>2. \A i \in 1 .. m : st[i] = After(s, xs, i) /\ st[i - 1] = After(s, xs, i - 1)
      BY <1>1
    <2> HIDE DEF st, kept
    <2> QED BY <1>5, <2>1, <2>2 DEF Follows, kept
  <1> QED BY <1>3, <1>6

\* The flush: from the triplets that are kept, for any number m of accepted
\* tokens, it makes the state that decoding the first m tokens makes.
THEOREM FlushIsSerial ==
    ASSUME work \in Workloads, NEW s \in Vector, NEW xs \in Drafts, NEW m \in 0 .. T
    PROVE  /\ Flushed(s, Kept(s, xs), m) = After(s, xs, m)
           /\ Rebuild(s, Kept(s, xs), m) = After(s, xs, m)
  <1> DEFINE st == [i \in 0 .. m |-> After(s, xs, i)]
  <1>1. m \in Nat /\ st[m] = After(s, xs, m)
    BY KvBufferAssumption
  <1>2. Keeps(Kept(s, xs), m) /\ Follows(st, s, Kept(s, xs), m)
    BY KeptFollows
  <1> HIDE DEF st
  <1>3. Rebuild(s, Kept(s, xs), m) = st[m] /\ Advance(s, Kept(s, xs), m) = st[m]
    BY <1>1, <1>2, RebuildIs, AdvanceIs
  <1> QED BY <1>1, <1>3 DEF Flushed

\* A flush of no token leaves the state, whatever the buffer holds.
LEMMA FlushedNone ==
    ASSUME NEW s \in Vector, NEW kept
    PROVE  Flushed(s, kept, 0) = s
  <1> DEFINE st == [i \in 0 .. 0 |-> s]
  <1>1. Keeps(kept, 0) /\ Follows(st, s, kept, 0) /\ st[0] = s /\ 0 \in Nat
    BY DEF Keeps, Follows
  <1> HIDE DEF st
  <1>2. Rebuild(s, kept, 0) = s /\ Advance(s, kept, 0) = s
    BY <1>1, RebuildIs, AdvanceIs
  <1> QED BY <1>2 DEF Flushed

\* So does decoding no token.
LEMMA AfterNone ==
    ASSUME work \in Workloads, NEW s \in Vector, NEW xs
    PROVE  After(s, xs, 0) = s
  <1>1. AreTokens(xs, 0) /\ 0 \in Nat /\ 0 \in 0 .. 0
    BY DEF AreTokens
  <1> QED BY <1>1, AfterFacts

\* One block is one step of decoding.
LEMMA RepeatedOnce ==
    ASSUME work \in Workloads, NEW s \in Vector, NEW x \in TokenRecord
    PROVE  Repeated(s, x, 1) = Decode(s, x)
  <1> DEFINE xs == [i \in 1 .. 1 |-> x]
  <1>1. AreTokens(xs, 1) /\ 1 \in Nat /\ 1 \in 0 .. 1 /\ 0 \in 0 .. 1 /\ xs[1] = x /\ 1 - 1 = 0
    BY DEF AreTokens
  <1>2. Repeated(s, x, 1) = After(s, xs, 1)
    BY DEF Repeated
  <1> HIDE DEF xs
  <1>3. After(s, xs, 0) = s
    BY AfterNone
  <1>4. 1 > 0 => After(s, xs, 1) = Decode(After(s, xs, 1 - 1), xs[1])
    BY <1>1, AfterFacts
  <1> QED BY <1>1, <1>2, <1>3, <1>4

-----------------------------------------------------------------------------
(* The paths of a call. *)

\* A call the fast path takes is launched by it as by the general path: the
\* same kernel, with arguments of the same form.
THEOREM FastLaunchesTheSame ==
    ASSUME NEW c, IsCall(c), c.tiles % Blocks(c) = 0, FastPath(c) # Declines
    PROVE  FastPath(c) = GeneralPath(c)
  <1>1. c.packed \in BOOLEAN /\ c.varlen \in BOOLEAN
    BY DEF IsCall
  <1> DEFINE v == IF c.packed THEN c.varlen ELSE FALSE
  <1>2. /\ c.indices = "ready" /\ FastA(c, v) /\ FastB(c, v)
        /\ FastPath(c) = Launch(Kernel(c, v), c, Target(c, v).a, Target(c, v).b, "ready", "ready")
        /\ IsVarlen(c) = v
        /\ c.packed => c.cu \notin {"strided", "wide"}
        /\ ~c.packed => c.cu # "wide"
    BY <1>1 DEF FastPath, FastDense, FastPacked, Fast, IsVarlen
  <1>3. Kernel(c, v).varlen = v
    BY DEF Kernel
  <1>4. FastPath(c) = Kernel(c, v)
    BY <1>2, <1>3 DEF Launch, Target
  <1>5. NormalizedA(c, v) = Target(c, v).a
    BY <1>1, <1>2 DEF FastA, NormalizedA
  <1>6. NormalizedB(c, v) = Target(c, v).b
    <2>1. CASE v
      <3>1. c.b = <<c.N, c.HV>> /\ Len(c.b) = 2
        <4>1. c.b = <<c.N, c.HV>>
          BY <1>2, <2>1 DEF FastB
        <4> QED BY <4>1
      <3> QED BY <2>1, <3>1 DEF NormalizedB, Target
    <2>2. CASE ~v
      <3>1. CASE c.b = <<c.N, c.HV>>
        <4>1. Len(c.b) = 2 /\ c.b[1] = c.N /\ c.b[2] = c.HV
          BY <3>1
        <4> QED BY <2>2, <4>1 DEF NormalizedB, Target
      <3>2. CASE c.b = <<c.N, 1, c.HV>>
        <4>1. Len(c.b) = 3
          BY <3>2
        <4> QED BY <2>2, <3>2, <4>1 DEF NormalizedB, Target
      <3> QED BY <1>2, <2>2, <3>1, <3>2 DEF FastB
    <2> QED BY <1>1, <2>1, <2>2
  <1>7. GeneralPath(c) = Kernel(c, v)
    <2>1. c.cu \in {"none", "ready", "strided", "wide"}
      BY DEF IsCall
    <2>2. [a |-> NormalizedA(c, v), b |-> NormalizedB(c, v)] = Target(c, v)
      BY <1>5, <1>6 DEF Target
    <2> HIDE DEF v
    <2>3. CASE c.packed
      BY <1>2, <1>3, <2>1, <2>2, <2>3 DEF GeneralPath, GeneralPacked, Launch
    <2>4. CASE ~c.packed
      BY <1>2, <1>3, <2>1, <2>2, <2>4 DEF GeneralPath, GeneralDense, Launch
    <2> QED BY <1>1, <2>3, <2>4
  <1> QED BY <1>4, <1>7

\* A call that launches launches one of the kernels.
LEMMA DispatchFacts ==
    ASSUME NEW c, Dispatch(c) # Raises, IsCall(c)
    PROVE  \E v \in BOOLEAN : Dispatch(c) = Kernel(c, v)
  <1>1. ASSUME NEW k, NEW a, NEW b, NEW i, NEW u
        PROVE  Launch(k, c, a, b, i, u) \in {k, Raises}
    BY DEF Launch
  <1>2. FastPath(c) # Declines => \E v \in BOOLEAN : FastPath(c) \in {Kernel(c, v), Raises}
    <2>1. ASSUME NEW v \in BOOLEAN, Fast(c, v) # Declines
          PROVE  Fast(c, v) \in {Kernel(c, v), Raises}
      BY <1>1, <2>1 DEF Fast
    <2> QED BY <2>1 DEF FastPath, FastDense, FastPacked, IsCall
  <1>3. \E v \in BOOLEAN : GeneralPath(c) \in {Kernel(c, v), Raises}
    <2>1. IsVarlen(c) \in BOOLEAN
      BY DEF IsVarlen, IsCall
    <2>2. GeneralPath(c) \in {Kernel(c, IsVarlen(c)), Raises}
      BY <1>1 DEF GeneralPath, GeneralDense, GeneralPacked
    <2> QED BY <2>1, <2>2
  <1> QED BY <1>2, <1>3 DEF Dispatch

-----------------------------------------------------------------------------
(* Blocks as numbers of three digits. *)
HasDigits(m, B, C, x, y, z) == (m \div C) \div B = x /\ (m \div C) % B = y /\ m % C = z

AreDigits(G, A, B, C, x, y, z) ==
    /\ {A, B, C} \subseteq Nat \ {0}
    /\ x \in 0 .. A - 1 /\ y \in 0 .. B - 1 /\ z \in 0 .. C - 1
    /\ G = A * B * C

\* A block of the grid is named by its three coordinates.
LEMMA Digits ==
    ASSUME NEW A, NEW B, NEW C, NEW x, NEW y, NEW z, NEW G, AreDigits(G, A, B, C, x, y, z)
    PROVE  \E n \in 0 .. G - 1 : \A m \in 0 .. G - 1 : HasDigits(m, B, C, x, y, z) <=> m = n
  <1>0. /\ A \in Nat \ {0} /\ B \in Nat \ {0} /\ C \in Nat \ {0}
        /\ x \in 0 .. A - 1 /\ y \in 0 .. B - 1 /\ z \in 0 .. C - 1
        /\ G = A * B * C
    BY DEF AreDigits
  <1> DEFINE g == B * x + y
             n == C * g + z
  <1>1. g \in Nat /\ g \div B = x /\ g % B = y
    <2>1. B * x \in Nat /\ B \in Nat \ {0} /\ x \in Int /\ y \in 0 .. B - 1
      BY <1>0
    <2>2. g \in Nat
      BY <2>1
    <2> QED BY <2>1, <2>2, DivModUnique
  <1>2. g + 1 <= A * B
    <2>1. x + 1 <= A
      BY <1>0
    <2>2. B * (x + 1) <= B * A
      BY <1>0, <2>1
    <2>3. B * (x + 1) = B * x + B /\ B * A = A * B
      BY <1>0
    <2> QED BY <1>0, <2>2, <2>3
  <1> HIDE DEF g
  <1>3. n \div C = g /\ n % C = z /\ n \in Nat
    <2>1. C * g \in Nat /\ g \in Int
      BY <1>0, <1>1
    <2>2. n \in Nat /\ z \in 0 .. C - 1 /\ C \in Nat \ {0}
      BY <1>0, <2>1
    <2> QED BY <2>1, <2>2, DivModUnique
  <1>4. n + 1 <= A * B * C
    <2>1. A * B \in Nat
      BY <1>0
    <2>2. C * (g + 1) <= C * (A * B)
      BY <1>0, <1>1, <1>2, <2>1
    <2>3. C * (g + 1) = C * g + C /\ C * (A * B) = A * B * C
      BY <1>0, <1>1, <2>1
    <2>4. C * g \in Nat
      BY <1>0, <1>1
    <2> QED BY <1>0, <1>1, <2>2, <2>3, <2>4
  <1>5. ASSUME NEW m \in Nat, (m \div C) \div B = x, (m \div C) % B = y, m % C = z
        PROVE  m = n
    <2>1. PICK d \in Int, r \in 0 .. C - 1 : m = C * d + r /\ m \div C = d /\ m % C = r
      BY <1>0, DivMod
    <2>2. PICK e \in Int, q \in 0 .. B - 1 : d = B * e + q /\ d \div B = e /\ d % B = q
      BY <1>0, DivMod
    <2>3. e = x /\ q = y /\ r = z
      BY <1>5, <2>1, <2>2
    <2> QED BY <2>1, <2>2, <2>3 DEF g
  <1>6. n \in 0 .. A * B * C - 1
    BY <1>0, <1>3, <1>4
  <1>7. \A m \in 0 .. A * B * C - 1 : HasDigits(m, B, C, x, y, z) <=> m = n
    <2> HIDE DEF n
    <2> QED BY <1>1, <1>3, <1>5 DEF HasDigits
  <1> QED BY <1>0, <1>6, <1>7

\* A split without remainder.
LEMMA Divides ==
    ASSUME NEW n \in Nat \ {0}, NEW S \in Nat \ {0}, n % S = 0
    PROVE  n \div S \in Nat \ {0} /\ n = S * (n \div S)
  <1>1. PICK d \in Int, r \in 0 .. S - 1 : n = S * d + r /\ n \div S = d /\ n % S = r
    BY DivMod
  <1>2. n = S * d
    BY <1>1
  <1>3. d > 0
    <2>1. ASSUME d <= 0 PROVE FALSE
      <3>1. S * d <= S * 0
        BY <2>1
      <3> QED BY <1>2, <3>1
    <2> QED BY <2>1
  <1> QED BY <1>1, <1>2, <1>3

\* The runs of W that start at p * W share no number.
LEMMA Runs ==
    ASSUME NEW W \in Nat \ {0}, NEW C \in Nat \ {0}, NEW t \in 0 .. C * W - 1
    PROVE  /\ t \div W \in 0 .. C - 1
           /\ \A p \in Nat : t \in p * W .. p * W + W - 1 <=> p = t \div W
  <1>1. PICK d \in Int, r \in 0 .. W - 1 : t = W * d + r /\ t \div W = d
    BY DivMod
  <1>2. C * W \in Nat /\ t \in Nat /\ t + 1 <= C * W
    OBVIOUS
  <1>3. d >= 0
    <2>1. ASSUME d <= -1 PROVE FALSE
      <3>1. W * d <= W * (-1)
        BY <2>1
      <3>2. W * d \in Int /\ W * (-1) = -W
        OBVIOUS
      <3> QED BY <1>1, <1>2, <3>1, <3>2
    <2> QED BY <2>1
  <1>4. d < C
    <2>1. ASSUME d >= C PROVE FALSE
      <3>1. W * d >= W * C
        BY <2>1
      <3>2. W * d \in Int /\ W * C = C * W
        OBVIOUS
      <3> QED BY <1>1, <1>2, <3>1, <3>2
    <2> QED BY <2>1
  <1>5. ASSUME NEW p \in Nat PROVE t \in p * W .. p * W + W - 1 <=> p = d
    <2>1. p * W = W * p /\ W * p \in Int /\ W * d \in Int
      OBVIOUS
    <2>2. p = d => t \in p * W .. p * W + W - 1
      BY <1>1, <2>1
    <2>3. ASSUME t \in p * W .. p * W + W - 1 PROVE p = d
      <3>1. ASSUME p <= d - 1 PROVE FALSE
        <4>1. W * p <= W * (d - 1)
          BY <3>1
        <4>2. W * (d - 1) = W * d - W
          OBVIOUS
        <4> QED BY <1>1, <2>1, <2>3, <4>1, <4>2
      <3>2. ASSUME p >= d + 1 PROVE FALSE
        <4>1. W * p >= W * (d + 1)
          BY <3>2
        <4>2. W * (d + 1) = W * d + W
          OBVIOUS
        <4> QED BY <1>1, <2>1, <2>3, <4>1, <4>2
      <3> QED BY <3>1, <3>2
    <2> QED BY <2>2, <2>3
  <1> QED BY <1>1, <1>3, <1>4, <1>5

\* Of the blocks a call launches exactly one updates a given tile of the state
\* of a given row and head, whichever kernel, grid and split the call gets.
THEOREM OneBlockPerTile ==
    ASSUME NEW c, IsCall(c), c.tiles % Blocks(c) = 0, Dispatch(c) # Raises,
           NEW row \in 0 .. c.N - 1
    PROVE  \E n : BlocksOf(Dispatch(c), c, row, c.head, c.tile) = {n}
  <1> DEFINE l == Dispatch(c)
             head == c.head
             tile == c.tile
             R == c.HV \div c.H
             W == c.tiles \div l.blocks
             B == l.blocks
             LT == LargeTiles(c)
  <1>1. PICK v \in BOOLEAN : l = Kernel(c, v)
    BY DispatchFacts
  <1>2. /\ c.N \in Nat \ {0} /\ c.H \in Nat \ {0} /\ c.HV \in Nat \ {0} /\ c.tiles \in Nat \ {0}
        /\ head \in 0 .. c.HV - 1 /\ tile \in 0 .. c.tiles - 1
        /\ c.HV % c.H = 0 /\ c.tiles % 2 = 0
    BY DEF IsCall
  <1>3. /\ l.kernel = (IF IsSmall(c) THEN "small" ELSE "large") /\ l.varlen = v
        /\ l.parallel \in BOOLEAN /\ l.blocks = Blocks(c)
    BY <1>1 DEF Kernel, HeadsParallel, IsSmall
  <1>4. B \in Nat \ {0}
    BY <1>2, <1>3 DEF Blocks, Smaller
  <1>5. W \in Nat \ {0} /\ c.tiles = B * W
    BY <1>2, <1>3, <1>4, Divides
  <1>6. R \in Nat \ {0} /\ c.HV = c.H * R
    BY <1>2, Divides
  <1>7. LT \in Nat \ {0} /\ c.tiles = 2 * LT
    <2>1. 2 \in Nat \ {0}
      OBVIOUS
    <2> QED BY <1>2, <2>1, Divides DEF LargeTiles
  <1>8. /\ tile \div W \in 0 .. B - 1
        /\ \A p \in Nat : tile \in p * W .. p * W + W - 1 <=> p = tile \div W
    BY <1>2, <1>4, <1>5, Runs
  <1> HIDE DEF l
  <1>9. CASE l.kernel = "large"
    <2> DEFINE z == tile \div 2
    <2>1. /\ z \in 0 .. LT - 1
          /\ \A p \in Nat : tile \in {2 * p, 2 * p + 1} <=> p = z
      BY <1>2, <1>7
    <2> HIDE DEF z, LT
    <2>3. Grid(l, c) = c.N * c.HV * LT
      BY <1>9 DEF Grid, LT
    <2>2. PICK n \in 0 .. Grid(l, c) - 1 :
             \A m \in 0 .. Grid(l, c) - 1 : HasDigits(m, c.HV, LT, row, head, z) <=> m = n
      <3>1. AreDigits(Grid(l, c), c.N, c.HV, LT, row, head, z)
        BY <1>2, <1>7, <2>1, <2>3 DEF AreDigits
      <3> QED BY <3>1, Digits
    <2>4. ASSUME NEW m \in 0 .. Grid(l, c) - 1
          PROVE  LET w == Share(l, c, m)
                 IN  (w.row = row /\ head \in w.heads /\ tile \in w.tiles) <=> m = n
      <3>1. Share(l, c, m) = [row |-> (m \div LT) \div c.HV, heads |-> {(m \div LT) % c.HV},
                              tiles |-> {2 * (m % LT), 2 * (m % LT) + 1}]
        BY <1>9 DEF Share, Large, LT
      <3>2. m \in Nat
        OBVIOUS
      <3>3. m % LT \in Nat
        BY <1>7, <3>2
      <3>4. tile \in {2 * (m % LT), 2 * (m % LT) + 1} <=> m % LT = z
        BY <2>1, <3>3
      <3>5. head \in {(m \div LT) % c.HV} <=> (m \div LT) % c.HV = head
        OBVIOUS
      <3> QED BY <2>2, <2>3, <3>1, <3>4, <3>5 DEF HasDigits
    <2>5. BlocksOf(l, c, row, head, tile) = {n}
      BY <2>2, <2>3, <2>4 DEF BlocksOf
    <2> QED BY <2>5 DEF l
  <1>10. ASSUME l.kernel # "large", l.varlen \/ l.parallel
         PROVE  \E n : BlocksOf(l, c, row, head, tile) = {n}
    <2> DEFINE z == tile \div W
    <2> HIDE DEF z, W, B
    <2>2. Grid(l, c) = c.N * c.HV * B
      BY <1>10 DEF Grid, B
    <2>1. PICK n \in 0 .. Grid(l, c) - 1 :
             \A m \in 0 .. Grid(l, c) - 1 : HasDigits(m, c.HV, B, row, head, z) <=> m = n
      <3>1. z \in 0 .. B - 1
        BY <1>8 DEF z
      <3>2. AreDigits(Grid(l, c), c.N, c.HV, B, row, head, z)
        BY <1>2, <1>4, <2>2, <3>1 DEF AreDigits
      <3> QED BY <3>2, Digits
    <2>3. ASSUME NEW m \in 0 .. Grid(l, c) - 1
          PROVE  LET w == Share(l, c, m)
                 IN  (w.row = row /\ head \in w.heads /\ tile \in w.tiles) <=> m = n
      <3>1. /\ Share(l, c, m).row = (m \div B) \div c.HV
            /\ Share(l, c, m).heads = {(m \div B) % c.HV}
            /\ Share(l, c, m).tiles = (m % B) * W .. (m % B) * W + W - 1
        <4>1. CASE l.varlen
          <5>1. Share(l, c, m) = SmallDense([l EXCEPT !.parallel = TRUE], c, m)
            BY <1>10, <4>1 DEF Share, SmallVarlen
          <5>2. /\ [l EXCEPT !.parallel = TRUE].parallel = TRUE
                /\ [l EXCEPT !.parallel = TRUE].blocks = B
            BY <1>1 DEF Kernel, B
          <5> QED BY <5>1, <5>2 DEF SmallDense, W, B
        <4>2. CASE ~l.varlen
          <5>1. Share(l, c, m) = SmallDense(l, c, m) /\ l.parallel
            BY <1>10, <4>2 DEF Share
          <5> QED BY <5>1 DEF SmallDense, W, B
        <4> QED BY <4>1, <4>2
      <3>2. m % B \in Nat
        BY <1>4
      <3>3. tile \in (m % B) * W .. (m % B) * W + W - 1 <=> m % B = z
        BY <1>8, <3>2 DEF z
      <3>4. head \in {(m \div B) % c.HV} <=> (m \div B) % c.HV = head
        OBVIOUS
      <3> QED BY <2>1, <2>2, <3>1, <3>3, <3>4 DEF HasDigits
    <2>4. BlocksOf(l, c, row, head, tile) = {n}
      BY <2>1, <2>2, <2>3 DEF BlocksOf
    <2> QED BY <2>4
  <1>11. ASSUME l.kernel # "large", ~l.varlen, ~l.parallel
         PROVE  \E n : BlocksOf(l, c, row, head, tile) = {n}
    <2> DEFINE z == tile \div W
               y == head \div R
    <2>1. /\ y \in 0 .. c.H - 1
          /\ \A p \in Nat : head \in p * R .. p * R + R - 1 <=> p = y
      BY <1>2, <1>6, Runs
    <2>2. \A p \in Nat : {p * R + h : h \in 0 .. R - 1} = p * R .. p * R + R - 1
      <3>1. ASSUME NEW p \in Nat PROVE {p * R + h : h \in 0 .. R - 1} = p * R .. p * R + R - 1
        <4>1. p * R \in Nat /\ R \in Nat
          BY <1>6
        <4>2. ASSUME NEW i \in p * R .. p * R + R - 1
              PROVE  i \in {p * R + h : h \in 0 .. R - 1}
          <5>1. i - p * R \in 0 .. R - 1 /\ p * R + (i - p * R) = i
            BY <4>1
          <5> QED BY <5>1
        <4>3. \A h \in 0 .. R - 1 : p * R + h \in p * R .. p * R + R - 1
          BY <4>1
        <4> QED BY <4>2, <4>3
      <3> QED BY <3>1
    <2> HIDE DEF z, y, W, B, R
    <2>4. Grid(l, c) = c.N * c.H * B
      BY <1>11 DEF Grid, B
    <2>3. PICK n \in 0 .. Grid(l, c) - 1 :
             \A m \in 0 .. Grid(l, c) - 1 : HasDigits(m, c.H, B, row, y, z) <=> m = n
      <3>1. z \in 0 .. B - 1
        BY <1>8 DEF z
      <3>2. AreDigits(Grid(l, c), c.N, c.H, B, row, y, z)
        BY <1>2, <1>4, <2>1, <2>4, <3>1 DEF AreDigits
      <3> QED BY <3>2, Digits
    <2>5. ASSUME NEW m \in 0 .. Grid(l, c) - 1
          PROVE  LET w == Share(l, c, m)
                 IN  (w.row = row /\ head \in w.heads /\ tile \in w.tiles) <=> m = n
      <3>1. /\ Share(l, c, m).row = (m \div B) \div c.H
            /\ Share(l, c, m).heads = {((m \div B) % c.H) * R + h : h \in 0 .. R - 1}
            /\ Share(l, c, m).tiles = (m % B) * W .. (m % B) * W + W - 1
        BY <1>11 DEF Share, SmallDense, W, B, R
      <3>2. m % B \in Nat /\ m \div B \in Int /\ (m \div B) % c.H \in Nat
        BY <1>2, <1>4
      <3>3. tile \in (m % B) * W .. (m % B) * W + W - 1 <=> m % B = z
        BY <1>8, <3>2 DEF z
      <3>4. head \in {((m \div B) % c.H) * R + h : h \in 0 .. R - 1} <=> (m \div B) % c.H = y
        BY <2>1, <2>2, <3>2
      <3> QED BY <2>3, <2>4, <3>1, <3>3, <3>4 DEF HasDigits
    <2>6. BlocksOf(l, c, row, head, tile) = {n}
      BY <2>3, <2>4, <2>5 DEF BlocksOf
    <2> QED BY <2>6
  <1> QED BY <1>3, <1>9, <1>10, <1>11 DEF l

-----------------------------------------------------------------------------
(* The inductive invariant. *)

Types ==
    /\ work \in Workloads
    /\ pool \in [Slots -> Vector]
    /\ draft \in [Slots -> Drafts \cup {<<>>}]
    /\ DOMAIN buffer = Places
    /\ IsBatch(batch)
    /\ asked \subseteq Calls(work.calls)

HoldsTokens(s) ==
    IF work.rule = "kda"
    THEN \E r \in Rows(batch) : batch[r] = s /\ buffer[r] = Kept(pool[s], draft[s])
    ELSE buffer[s] = Kept(pool[s], draft[s])

BufferHolds == \A s \in Slots : draft[s] # <<>> => HoldsTokens(s)

Inv == Types /\ BufferHolds /\ StateIsSerial /\ OutputsAreSerial

SplitsEvenly == \A w \in Workloads : \A c \in Calls(w.calls) : c.tiles % Blocks(c) = 0

\* A batch gives each of its slots one row.
LEMMA Seated ==
    ASSUME NEW b, IsBatch(b)
    PROVE  /\ \A r \in Rows(b) : b[r] \in Slots /\ RowOf(b, b[r]) = r /\ In(b, b[r])
           /\ \A r \in Rows(b) : r \in 1 .. Len(b)
           /\ \A s \in Slots : In(b, s) => RowOf(b, s) \in Rows(b) /\ b[RowOf(b, s)] = s
  <1>1. b \in Seq(Slots \cup {NoSlot})
    BY DEF IsBatch
  <1>2. ASSUME NEW r \in Rows(b) PROVE b[r] \in Slots /\ r \in 1 .. Len(b)
    BY <1>1 DEF Rows
  <1>3. ASSUME NEW r \in Rows(b) PROVE RowOf(b, b[r]) = r
    BY DEF RowOf, IsBatch
  <1>4. ASSUME NEW s \in Slots, In(b, s) PROVE RowOf(b, s) \in Rows(b) /\ b[RowOf(b, s)] = s
    BY <1>4 DEF RowOf, In
  <1> QED BY <1>2, <1>3, <1>4 DEF In

\* What a workload consists of.
LEMMA WorkloadFacts ==
    ASSUME work \in Workloads
    PROVE  /\ work.rule \in {"kda", "lightning"}
           /\ \A v \in work.states : v \in Vector
           /\ \A xs \in work.drafts : xs \in Drafts
           /\ \A b \in work.batches : IsBatch(b) /\ DOMAIN b \subseteq Places
           /\ \A c \in Calls(work.calls) : IsCall(c)
  <1>1. /\ work.states \in SUBSET Vector /\ work.drafts \in SUBSET Drafts
        /\ work.rule \in {"kda", "lightning"}
        /\ \A b \in work.batches : IsBatch(b)
        /\ \A c \in Calls(work.calls) : IsCall(c)
    BY WorkloadsAssumption
  <1>2. \A b \in work.batches : DOMAIN b \subseteq Places
    BY DEF Places
  <1> QED BY <1>1, <1>2

\* A draft has tokens.
LEMMA DraftsFacts ==
    ASSUME NEW xs \in Drafts
    PROVE  xs # <<>> /\ xs[1] \in TokenRecord /\ AreTokens(xs, T) /\ T \in Nat /\ T \in 0 .. T
  <1>1. T \in Nat \ {0} /\ 1 \in 1 .. T
    BY KvBufferAssumption
  <1>2. DOMAIN xs = 1 .. T /\ DOMAIN <<>> = {}
    BY DEF Drafts
  <1>3. xs # <<>>
    BY <1>1, <1>2
  <1> QED BY <1>1, <1>3 DEF Drafts, AreTokens

\* The initial states satisfy the invariant.
LEMMA InvInit == Init => Inv
  <1> SUFFICES ASSUME Init PROVE Inv
    OBVIOUS
  <1>1. work \in Workloads
    BY DEF Init
  <1>2. pool \in [Slots -> Vector]
    BY <1>1, WorkloadFacts DEF Init
  <1>3. IsBatch(batch)
    BY DEF Init, IsBatch, Rows
  <1>4. Types
    BY <1>1, <1>2, <1>3 DEF Init, Types
  <1> QED BY <1>4 DEF Init, Inv, BufferHolds, StateIsSerial, OutputsAreSerial

\* A verification: the buffer holds the tokens of the new drafts, and the
\* update the kernel does itself is the one of decoding.
LEMMA VerifyKeeps ==
    ASSUME Inv, NEW b \in work.batches, NEW xs \in [Rows(b) -> work.drafts], NEW update \in BOOLEAN,
           work.rule = "kda" \/ ~update, Verify(b, xs, update)
    PROVE  Inv'
  <1>1. /\ work \in Workloads /\ pool \in [Slots -> Vector] /\ serial = pool
        /\ draft \in [Slots -> Drafts \cup {<<>>}] /\ DOMAIN buffer = Places
        /\ asked \subseteq Calls(work.calls) /\ work' = work /\ asked' = asked /\ batch' = b
    BY DEF Inv, Types, StateIsSerial, Verify
  <1>2. IsBatch(b) /\ DOMAIN b \subseteq Places /\ work.rule \in {"kda", "lightning"}
    BY <1>1, WorkloadFacts
  <1>3. \A r \in Rows(b) : xs[r] \in Drafts /\ pool[b[r]] \in Vector /\ b[r] \in Slots
    BY <1>1, <1>2, WorkloadFacts, Seated
  <1>4. \A s \in Slots : In(b, s) => xs[RowOf(b, s)] \in Drafts /\ RowOf(b, s) \in Rows(b)
                                     /\ b[RowOf(b, s)] = s
    BY <1>2, <1>3, Seated
  <1> DEFINE kept == [r \in Rows(b) |-> Kept(pool[b[r]], xs[r])]
  <1>5. pool' = [s \in Slots |-> IF update /\ In(b, s)
                   THEN Rebuild(pool[s], kept[RowOf(b, s)], T) ELSE pool[s]]
    BY DEF Verify
  <1>6. serial' = [s \in Slots |-> IF update /\ In(b, s)
                     THEN After(serial[s], xs[RowOf(b, s)], T) ELSE serial[s]]
    BY DEF Verify
  <1>7. ASSUME NEW s \in Slots, In(b, s)
        PROVE  /\ Rebuild(pool[s], kept[RowOf(b, s)], T) = After(pool[s], xs[RowOf(b, s)], T)
               /\ After(pool[s], xs[RowOf(b, s)], T) \in Vector
    <2> DEFINE r == RowOf(b, s)
    <2>1. r \in Rows(b) /\ b[r] = s /\ xs[r] \in Drafts /\ pool[s] \in Vector
      BY <1>1, <1>4, <1>7
    <2>2. kept[r] = Kept(pool[s], xs[r])
      BY <2>1
    <2> HIDE DEF r, kept
    <2>3. T \in 0 .. T /\ T \in Nat /\ AreTokens(xs[r], T)
      BY <2>1, DraftsFacts
    <2>4. Rebuild(pool[s], Kept(pool[s], xs[r]), T) = After(pool[s], xs[r], T)
      BY <1>1, <2>1, <2>3, FlushIsSerial
    <2>5. After(pool[s], xs[r], T) \in Vector
      BY <1>1, <2>1, <2>3, AfterFacts
    <2> QED BY <2>2, <2>4, <2>5 DEF r
  <1>8. StateIsSerial' /\ pool' \in [Slots -> Vector]
    <2> HIDE DEF kept
    <2> QED BY <1>1, <1>5, <1>6, <1>7 DEF StateIsSerial
  <1>9. OutputsAreSerial'
    <2>1. /\ out' = [r \in Rows(b) |-> ChunkOutputs(pool[b[r]], xs[r])]
          /\ due' = [r \in Rows(b) |-> Outputs(serial[b[r]], xs[r])]
      BY DEF Verify
    <2>2. \A r \in Rows(b) : ChunkOutputs(pool[b[r]], xs[r]) = Outputs(serial[b[r]], xs[r])
      BY <1>1, <1>3, ChunkIsSerial
    <2> QED BY <2>1, <2>2 DEF OutputsAreSerial
  <1>10. draft' = [s \in Slots |-> IF In(b, s) /\ ~update THEN xs[RowOf(b, s)]
                                   ELSE IF work.rule = "kda" THEN <<>> ELSE draft[s]]
    BY DEF Verify
  <1>11. draft' \in [Slots -> Drafts \cup {<<>>}]
    BY <1>1, <1>4, <1>10
  <1>12. buffer' = [p \in Places |->
            IF \E r \in Rows(b) : Place(b, r) = p
            THEN kept[CHOOSE r \in Rows(b) : Place(b, r) = p] ELSE buffer[p]]
    BY DEF Verify
  <1>13. Places' = Places
    BY <1>1 DEF Places
  <1>14. Types'
    BY <1>1, <1>2, <1>8, <1>11, <1>12, <1>13 DEF Types
  <1>15. ASSUME NEW r \in Rows(b) PROVE buffer'[Place(b, r)] = Kept(pool[b[r]], xs[r])
    <2>1. Place(b, r) \in Places
      BY <1>2, <1>3 DEF Place, Places, Rows
    <2>2. \A q \in Rows(b) : Place(b, q) = Place(b, r) => q = r
      BY <1>2 DEF Place, IsBatch
    <2>3. (CHOOSE q \in Rows(b) : Place(b, q) = Place(b, r)) = r
      BY <2>2
    <2> QED BY <1>12, <2>1, <2>3
  <1>16. ASSUME NEW s \in Slots, draft'[s] # <<>> PROVE HoldsTokens(s)'
    <2>1. CASE In(b, s) /\ ~update
      <3> DEFINE r == RowOf(b, s)
      <3>1. r \in Rows(b) /\ b[r] = s
        BY <1>4, <2>1
      <3>2. draft'[s] = xs[r] /\ pool'[s] = pool[s]
        BY <1>5, <1>10, <2>1
      <3>3. buffer'[Place(b, r)] = Kept(pool'[s], draft'[s])
        BY <1>15, <3>1, <3>2
      <3>4. Kept(pool[s], draft[s])' = Kept(pool'[s], draft'[s])
        BY <1>1 DEF Kept, Updates, Correction, Pair, FromState, DecayRatio, Ratio, Gate
      <3>5. CASE work.rule = "kda"
        <4>1. Place(b, r) = r /\ r \in Rows(b)
          BY <3>1, <3>5 DEF Place
        <4>2. batch'[r] = s /\ buffer'[r] = Kept(pool[s], draft[s])' /\ r \in Rows(batch)'
          BY <1>1, <3>1, <3>3, <3>4, <4>1
        <4> HIDE DEF r, kept
        <4>3. work'.rule = "kda"
          BY <1>1, <3>5
        <4> QED BY <4>2, <4>3 DEF HoldsTokens
      <3>6. CASE work.rule # "kda"
        <4>1. Place(b, r) = s
          BY <3>1, <3>6 DEF Place
        <4>2. buffer'[s] = Kept(pool[s], draft[s])'
          BY <3>3, <3>4, <4>1
        <4> HIDE DEF r, kept
        <4> QED BY <1>1, <3>6, <4>2 DEF HoldsTokens
      <3> QED BY <3>5, <3>6
    <2>2. CASE ~(In(b, s) /\ ~update)
      <3>1. work.rule # "kda" /\ draft'[s] = draft[s] /\ ~update /\ ~In(b, s)
        BY <1>10, <1>16, <2>2
      <3>2. buffer[s] = Kept(pool[s], draft[s])
        BY <1>1, <3>1, <1>16 DEF Inv, BufferHolds, HoldsTokens
      <3>3. s \in Places /\ \A r \in Rows(b) : Place(b, r) # s
        BY <3>1 DEF Place, Places, In
      <3>4. buffer'[s] = buffer[s] /\ pool'[s] = pool[s]
        BY <1>5, <1>12, <3>1, <3>3
      <3>5. Kept(pool[s], draft[s])' = Kept(pool'[s], draft'[s])
        BY <1>1 DEF Kept, Updates, Correction, Pair, FromState, DecayRatio, Ratio, Gate
      <3>6. buffer'[s] = Kept(pool[s], draft[s])'
        BY <3>1, <3>2, <3>4, <3>5
      <3> HIDE DEF kept
      <3> QED BY <1>1, <3>1, <3>6 DEF HoldsTokens
    <2> QED BY <2>1, <2>2
  <1> QED BY <1>8, <1>9, <1>14, <1>16 DEF Inv, BufferHolds

\* A pending draft stays recorded as long as nothing of it changes.
LEMMA KeptStays ==
    ASSUME NEW s \in Slots, work' = work, buffer' = buffer, batch' = batch,
           draft'[s] = draft[s], pool'[s] = pool[s], HoldsTokens(s)
    PROVE  HoldsTokens(s)'
  <1>1. Kept(pool[s], draft[s])' = Kept(pool'[s], draft'[s])
    BY DEF Kept, Updates, Correction, Pair, FromState, DecayRatio, Ratio, Gate
  <1>2. Kept(pool[s], draft[s])' = Kept(pool[s], draft[s])
    BY <1>1
  <1> QED BY <1>2 DEF HoldsTokens

\* A flush: what a row has pending is what its buffer holds.
LEMMA FlushKeeps ==
    ASSUME Inv, NEW b \in work.batches, NEW m \in [Rows(b) -> 0 .. T], Flush(b, m),
           work.rule = "kda" => b = batch
    PROVE  Inv'
  <1>1. /\ work \in Workloads /\ pool \in [Slots -> Vector] /\ serial = pool /\ out = due
        /\ draft \in [Slots -> Drafts \cup {<<>>}] /\ DOMAIN buffer = Places /\ IsBatch(batch)
        /\ asked \subseteq Calls(work.calls)
        /\ work' = work /\ asked' = asked /\ batch' = batch /\ buffer' = buffer
        /\ out' = out /\ due' = due
    BY DEF Inv, Types, StateIsSerial, OutputsAreSerial, Flush
  <1>2. IsBatch(b) /\ work.rule \in {"kda", "lightning"}
    BY <1>1, WorkloadFacts
  <1>3. \A s \in Slots : In(b, s) =>
            RowOf(b, s) \in Rows(b) /\ b[RowOf(b, s)] = s /\ m[RowOf(b, s)] \in 0 .. T
    BY <1>2, Seated
  <1>4. pool' = [s \in Slots |-> IF In(b, s)
                   THEN Flushed(pool[s], buffer[Place(b, RowOf(b, s))], m[RowOf(b, s)])
                   ELSE pool[s]]
    BY DEF Flush
  <1>5. serial' = [s \in Slots |-> IF In(b, s)
                     THEN After(serial[s], draft[s], m[RowOf(b, s)]) ELSE serial[s]]
    BY DEF Flush
  <1>6. draft' = [s \in Slots |-> IF In(b, s) THEN <<>> ELSE draft[s]]
    BY DEF Flush
  <1>7. ASSUME NEW s \in Slots, In(b, s)
        PROVE  LET r == RowOf(b, s)
                   kept == buffer[Place(b, r)]
               IN /\ Flushed(pool[s], kept, m[r]) = After(pool[s], draft[s], m[r])
                  /\ After(pool[s], draft[s], m[r]) \in Vector
    <2> DEFINE r == RowOf(b, s)
               n == m[r]
               kept == buffer[Place(b, r)]
    <2>1. r \in Rows(b) /\ b[r] = s /\ n \in 0 .. T /\ pool[s] \in Vector
      BY <1>1, <1>3, <1>7
    <2>2. draft[s] = <<>> => n = 0
      BY <2>1 DEF Flush
    <2>3. CASE draft[s] = <<>>
      <3> HIDE DEF kept, n, r
      <3>1. Flushed(pool[s], kept, 0) = pool[s] /\ After(pool[s], draft[s], 0) = pool[s]
        BY <1>1, <2>1, FlushedNone, AfterNone
      <3> QED BY <2>1, <2>2, <2>3, <3>1 DEF kept, n, r
    <2>4. CASE draft[s] # <<>>
      <3>1. draft[s] \in Drafts
        BY <1>1, <2>4
      <3>2. kept = Kept(pool[s], draft[s])
        <4>1. HoldsTokens(s)
          BY <2>4 DEF Inv, BufferHolds
        <4>2. CASE work.rule = "kda"
          <5>1. PICK q \in Rows(batch) : batch[q] = s /\ buffer[q] = Kept(pool[s], draft[s])
            BY <4>1, <4>2 DEF HoldsTokens
          <5>2. q = r
            BY <1>2, <2>1, <4>2, <5>1 DEF IsBatch
          <5> QED BY <4>2, <5>1, <5>2 DEF Place
        <4>3. CASE work.rule # "kda"
          BY <2>1, <4>1, <4>3 DEF HoldsTokens, Place
        <4> QED BY <4>2, <4>3
      <3> HIDE DEF kept, n, r
      <3>3. Flushed(pool[s], Kept(pool[s], draft[s]), n) = After(pool[s], draft[s], n)
        BY <1>1, <2>1, <3>1, FlushIsSerial
      <3>4. After(pool[s], draft[s], n) \in Vector
        BY <1>1, <2>1, <3>1, DraftsFacts, AfterFacts
      <3> QED BY <3>2, <3>3, <3>4 DEF kept, n, r
    <2> QED BY <2>3, <2>4
  <1>8. StateIsSerial' /\ pool' \in [Slots -> Vector]
    BY <1>1, <1>4, <1>5, <1>7 DEF StateIsSerial
  <1>9. draft' \in [Slots -> Drafts \cup {<<>>}]
    BY <1>1, <1>6
  <1>10. Places' = Places
    BY <1>1 DEF Places
  <1>11. Types'
    BY <1>1, <1>8, <1>9, <1>10 DEF Types
  <1>12. ASSUME NEW s \in Slots, draft'[s] # <<>> PROVE HoldsTokens(s)'
    <2>1. ~In(b, s) /\ draft'[s] = draft[s] /\ pool'[s] = pool[s] /\ draft[s] # <<>>
      BY <1>4, <1>6, <1>12
    <2> QED BY <1>1, <2>1, KeptStays DEF Inv, BufferHolds
  <1> QED BY <1>1, <1>8, <1>11, <1>12 DEF Inv, BufferHolds, OutputsAreSerial

\* A decoded token: one block updates each state of the batch.
LEMMA DecodeCallKeeps ==
    ASSUME Inv, SplitsEvenly, NEW b \in work.batches, NEW c \in Calls(work.calls),
           NEW xs \in [Rows(b) -> work.drafts], DecodeCall(b, xs, c)
    PROVE  Inv'
  <1>1. /\ work \in Workloads /\ pool \in [Slots -> Vector] /\ serial = pool
        /\ draft \in [Slots -> Drafts \cup {<<>>}] /\ DOMAIN buffer = Places /\ IsBatch(batch)
        /\ work' = work /\ asked' = {c} /\ batch' = batch /\ buffer' = buffer /\ c.N = Len(b)
    BY DEF Inv, Types, StateIsSerial, DecodeCall
  <1>2. IsBatch(b) /\ IsCall(c) /\ c.tiles % Blocks(c) = 0
    BY <1>1, WorkloadFacts DEF SplitsEvenly
  <1> DEFINE l == Dispatch(c)
             Passes(r) == Cardinality(BlocksOf(l, c, r - 1, c.head, c.tile))
             Changed(s) == l # Raises /\ In(b, s)
             X(s) == xs[RowOf(b, s)][1]
  <1>3. \A s \in Slots : In(b, s) =>
            RowOf(b, s) \in Rows(b) /\ b[RowOf(b, s)] = s /\ X(s) \in TokenRecord
    BY <1>1, <1>2, Seated, WorkloadFacts, DraftsFacts
  <1>4. ASSUME l # Raises, NEW r \in Rows(b) PROVE Passes(r) = 1
    <2>1. r - 1 \in 0 .. c.N - 1
      BY <1>1, <1>2, Seated DEF IsBatch
    <2>2. \E n : BlocksOf(l, c, r - 1, c.head, c.tile) = {n}
      BY <1>2, <1>4, <2>1, OneBlockPerTile
    <2> QED BY <2>2, FS_Singleton
  <1>5. pool' = [s \in Slots |-> IF Changed(s)
                   THEN Repeated(pool[s], X(s), Passes(RowOf(b, s))) ELSE pool[s]]
    BY DEF DecodeCall
  <1>6. serial' = [s \in Slots |-> IF Changed(s) THEN Decode(serial[s], X(s)) ELSE serial[s]]
    BY DEF DecodeCall
  <1>7. draft' = [s \in Slots |-> IF Changed(s) THEN <<>> ELSE draft[s]]
    BY DEF DecodeCall
  <1>8. /\ out' = [r \in {q \in Rows(b) : l # Raises} |->
                     IF Passes(r) = 0 THEN Unwritten ELSE Dot(pool'[b[r]], xs[r][1].q)]
        /\ due' = [r \in DOMAIN out' |-> Dot(serial'[b[r]], xs[r][1].q)]
    BY DEF DecodeCall
  <1>9. ASSUME NEW s \in Slots, Changed(s)
        PROVE  /\ Repeated(pool[s], X(s), Passes(RowOf(b, s))) = Decode(pool[s], X(s))
               /\ Decode(pool[s], X(s)) \in Vector
    <2>1. X(s) \in TokenRecord /\ Passes(RowOf(b, s)) = 1 /\ pool[s] \in Vector
      BY <1>1, <1>3, <1>4, <1>9
    <2> HIDE DEF X, Passes, l
    <2> QED BY <1>1, <2>1, RepeatedOnce, StepType
  <1> HIDE DEF X, Passes, l
  <1>10. StateIsSerial' /\ pool' \in [Slots -> Vector]
    <2> HIDE DEF Changed
    <2> QED BY <1>1, <1>5, <1>6, <1>9 DEF StateIsSerial
  <1>11. OutputsAreSerial'
    <2>1. \A r \in {q \in Rows(b) : l # Raises} : Passes(r) # 0
      BY <1>4
    <2>2. pool' = serial'
      BY <1>10 DEF StateIsSerial
    <2> QED BY <1>8, <2>1, <2>2 DEF OutputsAreSerial
  <1>12. draft' \in [Slots -> Drafts \cup {<<>>}]
    BY <1>1, <1>7
  <1>13. Places' = Places /\ asked' \subseteq Calls(work.calls)'
    BY <1>1 DEF Places
  <1>14. Types'
    BY <1>1, <1>10, <1>12, <1>13 DEF Types
  <1>15. ASSUME NEW s \in Slots, draft'[s] # <<>> PROVE HoldsTokens(s)'
    <2>1. draft'[s] = draft[s] /\ pool'[s] = pool[s] /\ draft[s] # <<>>
      BY <1>5, <1>7, <1>15
    <2> QED BY <1>1, <2>1, KeptStays DEF Inv, BufferHolds
  <1> QED BY <1>10, <1>11, <1>14, <1>15 DEF Inv, BufferHolds

\* Every step preserves the invariant.
LEMMA InvNext == ASSUME SplitsEvenly, Inv, [Next]_vars PROVE Inv'
  <1>1. ASSUME NEW b \in work.batches, NEW xs \in [Rows(b) -> work.drafts],
               NEW update \in BOOLEAN, VerifyByRow(b, xs, update)
        PROVE  Inv'
    BY <1>1, VerifyKeeps DEF VerifyByRow
  <1>2. ASSUME NEW b \in work.batches, NEW xs \in [Rows(b) -> work.drafts],
               VerifyBySlot(b, xs)
        PROVE  Inv'
    BY <1>2, VerifyKeeps DEF VerifyBySlot
  <1>3. ASSUME NEW b \in work.batches, NEW c \in Calls(work.calls),
               NEW xs \in [Rows(b) -> work.drafts], DecodeCall(b, xs, c)
        PROVE  Inv'
    BY <1>3, DecodeCallKeeps
  <1>4. ASSUME NEW b \in work.batches, NEW m \in [Rows(b) -> 0 .. T], FlushByRow(b, m)
        PROVE  Inv'
    BY <1>4, FlushKeeps DEF FlushByRow
  <1>5. ASSUME NEW b \in work.batches, NEW m \in [Rows(b) -> 0 .. T], FlushBySlot(b, m)
        PROVE  Inv'
    BY <1>5, FlushKeeps DEF FlushBySlot
  <1>6. CASE UNCHANGED vars
    <2>1. /\ work' = work /\ pool' = pool /\ buffer' = buffer /\ batch' = batch /\ out' = out
          /\ asked' = asked /\ draft' = draft /\ serial' = serial /\ due' = due
      BY <1>6 DEF vars
    <2>2. Types' /\ StateIsSerial' /\ OutputsAreSerial'
      BY <2>1 DEF Inv, Types, StateIsSerial, OutputsAreSerial, Places
    <2>3. BufferHolds'
      BY <2>1, KeptStays DEF Inv, BufferHolds
    <2> QED BY <2>2, <2>3 DEF Inv
  <1> QED BY <1>1, <1>2, <1>3, <1>4, <1>5, <1>6 DEF Next

\* The inductive invariant: until its flush, the tokens of a slot lie in the
\* buffer as the state before them made them, and state and outputs are those
\* of decoding token by token.
THEOREM Invariant == ASSUME SplitsEvenly PROVE Spec => []Inv
  <1>1. Inv /\ [Next]_vars => Inv'
    BY InvNext
  <1> QED BY <1>1, InvInit, PTL DEF Spec

\* StateIsSerial: whatever verifications, flushes by fewer tokens, dropped
\* drafts and decoded tokens there were, in whatever batches, every state of
\* the pool is the one of decoding the accepted tokens one by one (the flush
\* kernels of mtp_kvbuffer.py and la_flush_kvbuffer.py, the decode launches).
THEOREM StatesAreSerial == ASSUME SplitsEvenly PROVE Spec => []StateIsSerial
  <1>1. Inv => StateIsSerial
    BY DEF Inv
  <1> QED BY <1>1, Invariant, PTL

\* OutputsAreSerial: the outputs a verification computes from the chunk, or a
\* decode launch from the state, are those of the serial recurrence.
THEOREM VerifiedOutputs == ASSUME SplitsEvenly PROVE Spec => []OutputsAreSerial
  <1>1. Inv => OutputsAreSerial
    BY DEF Inv
  <1> QED BY <1>1, Invariant, PTL

\* FastIsGeneral: the fast path of the decode entry points launches what their
\* general path would launch.
THEOREM FastPathIsGeneral == ASSUME SplitsEvenly PROVE Spec => []FastIsGeneral
  <1>1. Inv => FastIsGeneral
    <2>1. ASSUME Inv, NEW c \in asked, FastPath(c) # Declines
          PROVE  FastPath(c) = GeneralPath(c)
      <3>1. work \in Workloads /\ c \in Calls(work.calls)
        BY <2>1 DEF Inv, Types
      <3>2. IsCall(c) /\ c.tiles % Blocks(c) = 0
        BY <3>1, WorkloadFacts DEF SplitsEvenly
      <3> QED BY <2>1, <3>2, FastLaunchesTheSame
    <2> QED BY <2>1 DEF FastIsGeneral
  <1> QED BY <1>1, Invariant, PTL

=============================================================================
