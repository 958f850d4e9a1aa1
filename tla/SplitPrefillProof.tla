-------------------------- MODULE SplitPrefillProof --------------------------
(***************************************************************************)
(* Proofs about the splitting backends, for all batches, sizes, head       *)
(* counts and thresholds.  What a call returns, every state before a chunk *)
(* and every last state, is what the serial recurrence returns, however    *)
(* the backend cuts the sequences and in whatever order its blocks run.    *)
(* On SM100 the pieces of a sequence tile it at chunk boundaries, and a    *)
(* batch of which one sequence is split fits on the SMs.  Only forced      *)
(* calls fail for want of pieces, and the gate of the Hopper wrapper       *)
(* agrees with the decision to split.                                      *)
(***************************************************************************)
EXTENDS SplitPrefill, FiniteSetTheorems, SequenceTheorems, WellFoundedInduction, TLAPS

-----------------------------------------------------------------------------
(***************************************************************************)
(* Least and largest elements, induction and sums.                         *)
(***************************************************************************)
Below == {p \in Nat \X Nat : p[1] < p[2]}

LEMMA Least ==
    ASSUME NEW S \in SUBSET Nat, S # {}
    PROVE  \E m \in S : \A y \in S : m <= y
  <1>1. IsWellFoundedOn(Below, Nat)
    <2>1. OpToRel(<, Nat) = Below
      BY DEF OpToRel, Below
    <2> QED BY <2>1, NatLessThanWellFounded
  <1>2. PICK m \in S : \A y \in S : ~(<<y, m>> \in Below)
    BY <1>1, WFMin
  <1>3. ASSUME NEW y \in S PROVE m <= y
    <2>1. y \in Nat /\ m \in Nat
      OBVIOUS
    <2>2. y < m => <<y, m>> \in Below
      BY <2>1 DEF Below
    <2> QED BY <1>2, <2>1, <2>2
  <1> QED BY <1>3

\* Max of a bounded set of naturals.
LEMMA MaxFacts ==
    ASSUME NEW S \in SUBSET Nat, S # {}, NEW B \in Nat, \A x \in S : x <= B
    PROVE  Max(S) \in S /\ \A y \in S : y <= Max(S)
  <1> DEFINE D == {d \in Nat : \E x \in S : d = B - x}
  <1>1. D \in SUBSET Nat /\ D # {}
    <2>1. PICK x \in S : TRUE
      OBVIOUS
    <2>2. B - x \in Nat
      OBVIOUS
    <2> QED BY <2>2
  <1>2. PICK d \in D : \A y \in D : d <= y
    <2> HIDE DEF D
    <2> QED BY <1>1, Least
  <1>3. PICK m \in S : d = B - m
    BY <1>2
  <1>4. ASSUME NEW y \in S PROVE m >= y
    <2>1. B - y \in D
      OBVIOUS
    <2>2. d <= B - y
      BY <1>2, <2>1
    <2> QED BY <1>3, <2>2
  <1>5. Max(S) \in S /\ \A y \in S : Max(S) >= y
    BY <1>4 DEF Max
  <1>6. \A x, y \in Nat : x >= y => y <= x
    OBVIOUS
  <1> QED BY <1>5, <1>6

\* Induction, for a set: what holds of a number is that it is in G.
LEMMA Induction ==
    ASSUME NEW G, 0 \in G, \A n \in Nat : n \in G => n + 1 \in G
    PROVE  Nat \subseteq G
  <1> DEFINE B == {n \in Nat : n \notin G}
  <1>1. SUFFICES ASSUME B # {} PROVE FALSE
    OBVIOUS
  <1>2. PICK m \in B : \A y \in B : m <= y
    <2>1. B \in SUBSET Nat
      OBVIOUS
    <2> HIDE DEF B
    <2> QED BY <1>1, <2>1, Least
  <1>3. m # 0
    OBVIOUS
  <1>4. m - 1 \in Nat /\ m - 1 \notin B
    BY <1>2, <1>3
  <1>5. (m - 1) + 1 \in G
    BY <1>4
  <1> QED BY <1>5

\* Of the subsets of a finite set that are bad one has no bad part.
LEMMA Smallest ==
    ASSUME NEW S, IsFiniteSet(S), NEW B \in SUBSET SUBSET S, B # {}
    PROVE  \E X \in B : \A x \in X : X \ {x} \notin B
  <1> DEFINE sizes == {n \in Nat : \E X \in B : Cardinality(X) = n}
  <1>1. ASSUME NEW X \in B
        PROVE  /\ IsFiniteSet(X) /\ Cardinality(X) \in Nat
               /\ \A x \in X : Cardinality(X \ {x}) = Cardinality(X) - 1
    <2>1. IsFiniteSet(X)
      BY FS_Subset
    <2> QED BY <2>1, FS_CardinalityType, FS_RemoveElement
  <1>2. sizes # {} /\ sizes \in SUBSET Nat
    <2>1. PICK X \in B : TRUE
      OBVIOUS
    <2>2. Cardinality(X) \in sizes
      BY <1>1
    <2> QED BY <2>2
  <1>3. PICK n \in sizes : \A m \in sizes : n <= m
    <2> HIDE DEF sizes
    <2> QED BY <1>2, Least
  <1>4. PICK X \in B : Cardinality(X) = n
    OBVIOUS
  <1>5. ASSUME NEW x \in X, X \ {x} \in B PROVE FALSE
    <2>1. Cardinality(X \ {x}) = n - 1 /\ n \in Nat
      BY <1>1, <1>4
    <2>2. Cardinality(X \ {x}) \in Nat
      BY <1>1, <1>5
    <2>3. n - 1 \in sizes
      BY <1>5, <2>1, <2>2
    <2> QED BY <1>3, <2>1, <2>3
  <1> QED BY <1>5

-----------------------------------------------------------------------------
(* Sums: a table of them over the subsets of a set. *)
Sum(f, S) == FoldFunctionOnSet(LAMBDA x, y : x + y, 0, f, S)
One(X) == CHOOSE x \in X : TRUE
Iterates(it, f, S) ==
    it = [X \in SUBSET S |-> IF X = {} THEN 0 ELSE f[One(X)] + it[X \ {One(X)}]]

\* The fold that makes a sum is such a table.
LEMMA SumIterates ==
    ASSUME NEW f, NEW S
    PROVE  Sum(f, S) = (CHOOSE it : Iterates(it, f, S))[S]
  BY DEF Sum, FoldFunctionOnSet, MapThenFoldSet, Iterates, One

\* A table at one subset.
LEMMA IteratesAt ==
    ASSUME NEW f, NEW S, NEW it, Iterates(it, f, S), NEW X \in SUBSET S
    PROVE  it[X] = IF X = {} THEN 0 ELSE f[One(X)] + it[X \ {One(X)}]
  BY DEF Iterates

\* Two such tables agree where both are defined.
LEMMA IteratesAgree ==
    ASSUME NEW f, NEW S, NEW R, NEW it, NEW jt, Iterates(it, f, S), Iterates(jt, f, R),
           NEW Q \in SUBSET S, Q \in SUBSET R, IsFiniteSet(Q)
    PROVE  it[Q] = jt[Q]
  <1> DEFINE B == {X \in SUBSET Q : it[X] # jt[X]}
  <1>1. SUFFICES ASSUME B # {} PROVE FALSE
    OBVIOUS
  <1>2. PICK X \in B : \A x \in X : X \ {x} \notin B
    <2>1. B \in SUBSET SUBSET Q
      OBVIOUS
    <2> HIDE DEF B
    <2> QED BY <1>1, <2>1, Smallest
  <1> DEFINE c == One(X)
  <1>3. X \in SUBSET S /\ X \in SUBSET R
    OBVIOUS
  <1>4. it[X] = (IF X = {} THEN 0 ELSE f[c] + it[X \ {c}])
    BY <1>3 DEF Iterates
  <1>5. jt[X] = (IF X = {} THEN 0 ELSE f[c] + jt[X \ {c}])
    BY <1>3 DEF Iterates
  <1>6. X # {} => c \in X
    BY DEF One
  <1> HIDE DEF c
  <1>7. X # {} => it[X \ {c}] = jt[X \ {c}]
    BY <1>2, <1>6
  <1> QED BY <1>4, <1>5, <1>7

\* There is one for every finite set.
LEMMA IteratesExist ==
    ASSUME NEW f, NEW S, IsFiniteSet(S)
    PROVE  \E it : Iterates(it, f, S)
  <1> DEFINE B == {X \in SUBSET S : ~ \E it : Iterates(it, f, X)}
  <1>1. SUFFICES ASSUME B # {} PROVE FALSE
    OBVIOUS
  <1>2. PICK X \in B : \A x \in X : X \ {x} \notin B
    <2>1. B \in SUBSET SUBSET S
      OBVIOUS
    <2> HIDE DEF B
    <2> QED BY <1>1, <2>1, Smallest
  <1> DEFINE It(x) == CHOOSE it : Iterates(it, f, X \ {x})
             Out(Y) == CHOOSE x \in X \ Y : TRUE
             g == [Y \in SUBSET X |-> IF Y = {} THEN 0
                     ELSE IF Y = X THEN f[One(X)] + It(One(X))[X \ {One(X)}]
                     ELSE It(Out(Y))[Y]]
  <1>3. ASSUME NEW x \in X PROVE Iterates(It(x), f, X \ {x})
    <2>1. X \ {x} \in SUBSET S
      OBVIOUS
    <2> QED BY <1>2, <2>1
  <1>4. \A Y \in SUBSET X : Y # X => Out(Y) \in X /\ Y \in SUBSET (X \ {Out(Y)})
    OBVIOUS
  <1>5. \A Y \in SUBSET X : Y # {} => One(Y) \in Y
    BY DEF One
  <1>6. \A Y \in SUBSET X : IsFiniteSet(Y)
    BY FS_Subset
  <1>7. Out(X \ {One(X)}) = One(X) \/ X = {}
    BY <1>5
  <1> HIDE DEF It, Out
  <1>8. ASSUME NEW Y \in SUBSET X
        PROVE  g[Y] = IF Y = {} THEN 0 ELSE f[One(Y)] + g[Y \ {One(Y)}]
    <2>1. CASE Y = {}
      BY <2>1
    <2>2. CASE Y # {} /\ Y = X
      <3> DEFINE Z == X \ {One(X)}
      <3>0. One(X) \in X
        BY <1>5, <2>2
      <3>1. g[Z] = It(One(X))[Z]
        <4>1. CASE Z = {}
          <5>1. It(One(X))[Z] = 0
            BY <1>3, <3>0, <4>1 DEF Iterates
          <5> QED BY <4>1, <5>1
        <4>2. CASE Z # {}
          BY <1>7, <3>0, <4>2
        <4> QED BY <4>1, <4>2
      <3> QED BY <2>2, <3>1
    <2>3. CASE Y # {} /\ Y # X
      <3> DEFINE Z == Y \ {One(Y)}
      <3>1. Out(Y) \in X /\ Y \in SUBSET (X \ {Out(Y)}) /\ One(Y) \in Y
        BY <1>4, <1>5, <2>3
      <3>2. g[Y] = It(Out(Y))[Y]
        BY <2>3
      <3>3. It(Out(Y))[Y] = f[One(Y)] + It(Out(Y))[Z]
        BY <1>3, <2>3, <3>1 DEF Iterates
      <3>4. Z # X /\ Z \in SUBSET X
        BY <3>1
      <3>5. g[Z] = It(Out(Y))[Z]
        <4>1. CASE Z = {}
          <5>1. It(Out(Y))[Z] = 0
            BY <1>3, <3>1, <4>1 DEF Iterates
          <5> QED BY <4>1, <5>1
        <4>2. CASE Z # {}
          <5>1. g[Z] = It(Out(Z))[Z]
            BY <3>4, <4>2
          <5>2. Out(Z) \in X /\ Z \in SUBSET (X \ {Out(Z)}) /\ Z \in SUBSET (X \ {Out(Y)})
            BY <1>4, <3>1, <3>4
          <5>3. Iterates(It(Out(Z)), f, X \ {Out(Z)}) /\ Iterates(It(Out(Y)), f, X \ {Out(Y)})
            BY <1>3, <3>1, <5>2
          <5>4. IsFiniteSet(Z)
            BY <1>6, <3>4
          <5> HIDE DEF Z
          <5>5. It(Out(Z))[Z] = It(Out(Y))[Z]
            BY <5>2, <5>3, <5>4, IteratesAgree
          <5> QED BY <5>1, <5>5
        <4> QED BY <4>1, <4>2
      <3> QED BY <2>3, <3>2, <3>3, <3>5
    <2> QED BY <2>1, <2>2, <2>3
  <1>9. DOMAIN g = SUBSET X /\ g = [Y \in SUBSET X |-> g[Y]]
    OBVIOUS
  <1> HIDE DEF g
  <1>10. Iterates(g, f, X)
    BY <1>8, <1>9 DEF Iterates
  <1> QED BY <1>2, <1>10

\* A sum, one element at a time: the chosen one first.
LEMMA SumAt ==
    ASSUME NEW f, NEW S, IsFiniteSet(S)
    PROVE  Sum(f, S) = IF S = {} THEN 0 ELSE f[One(S)] + Sum(f, S \ {One(S)})
  <1> DEFINE It(X) == CHOOSE it : Iterates(it, f, X)
             c == One(S)
             Z == S \ {c}
  <1>1. Sum(f, S) = It(S)[S] /\ Sum(f, Z) = It(Z)[Z]
    BY SumIterates
  <1>2. IsFiniteSet(Z)
    BY FS_Subset
  <1>3. Iterates(It(S), f, S) /\ Iterates(It(Z), f, Z)
    BY <1>2, IteratesExist
  <1> HIDE DEF It
  <1>4. It(S)[S] = IF S = {} THEN 0 ELSE f[c] + It(S)[Z]
    BY <1>3 DEF Iterates
  <1>5. It(S)[Z] = It(Z)[Z]
    <2>1. Z \in SUBSET S /\ Z \in SUBSET Z
      OBVIOUS
    <2> HIDE DEF Z
    <2> QED BY <1>2, <1>3, <2>1, IteratesAgree
  <1> QED BY <1>1, <1>4, <1>5

\* An empty sum is 0.
LEMMA SumEmpty ==
    ASSUME NEW f
    PROVE  Sum(f, {}) = 0
  BY SumAt, FS_EmptySet

\* A sum of integers is an integer.
LEMMA SumType ==
    ASSUME NEW S, IsFiniteSet(S), NEW f, \A x \in S : f[x] \in Int
    PROVE  Sum(f, S) \in Int
  <1> DEFINE B == {X \in SUBSET S : Sum(f, X) \notin Int}
  <1>1. SUFFICES ASSUME B # {} PROVE FALSE
    OBVIOUS
  <1>2. PICK X \in B : \A x \in X : X \ {x} \notin B
    <2>1. B \in SUBSET SUBSET S
      OBVIOUS
    <2> HIDE DEF B
    <2> QED BY <1>1, <2>1, Smallest
  <1> DEFINE c == One(X)
  <1>3. Sum(f, X) = IF X = {} THEN 0 ELSE f[c] + Sum(f, X \ {c})
    <2>1. IsFiniteSet(X)
      BY FS_Subset
    <2> QED BY <2>1, SumAt
  <1>4. X # {} => c \in X
    BY DEF One
  <1> HIDE DEF c
  <1>5. X # {} => Sum(f, X \ {c}) \in Int
    BY <1>2, <1>4
  <1> QED BY <1>3, <1>4, <1>5

\* Any element may be taken out first.
LEMMA SumAny ==
    ASSUME NEW S, IsFiniteSet(S), NEW f, \A x \in S : f[x] \in Int, NEW y \in S
    PROVE  Sum(f, S) = f[y] + Sum(f, S \ {y})
  <1> DEFINE B == {X \in SUBSET S : \E x \in X : Sum(f, X) # f[x] + Sum(f, X \ {x})}
  <1>1. SUFFICES ASSUME B # {} PROVE FALSE
    OBVIOUS
  <1>2. PICK X \in B : \A x \in X : X \ {x} \notin B
    <2>1. B \in SUBSET SUBSET S
      OBVIOUS
    <2> HIDE DEF B
    <2> QED BY <1>1, <2>1, Smallest
  <1>3. PICK x \in X : Sum(f, X) # f[x] + Sum(f, X \ {x})
    OBVIOUS
  <1> DEFINE c == One(X)
  <1>4. Sum(f, X) = f[c] + Sum(f, X \ {c})
    <2>1. IsFiniteSet(X)
      BY FS_Subset
    <2> QED BY <2>1, SumAt
  <1>5. c \in X
    BY DEF One
  <1> HIDE DEF c
  <1>6. x # c
    BY <1>3, <1>4
  <1>7. Sum(f, X \ {c}) = f[x] + Sum(f, (X \ {c}) \ {x})
    BY <1>2, <1>5, <1>6
  <1>8. Sum(f, X \ {x}) = f[c] + Sum(f, (X \ {x}) \ {c})
    BY <1>2, <1>5, <1>6
  <1>9. (X \ {c}) \ {x} = (X \ {x}) \ {c}
    OBVIOUS
  <1>10. /\ f[x] \in Int /\ f[c] \in Int /\ Sum(f, (X \ {c}) \ {x}) \in Int
    <2>1. (X \ {c}) \ {x} \in SUBSET S
      OBVIOUS
    <2>2. IsFiniteSet((X \ {c}) \ {x}) /\ \A z \in (X \ {c}) \ {x} : f[z] \in Int
      BY <2>1, FS_Subset
    <2> QED BY <1>5, <2>2, SumType
  <1> DEFINE r == Sum(f, (X \ {c}) \ {x})
  <1>11. f[c] + (f[x] + r) = f[x] + (f[c] + r)
    <2> HIDE DEF r
    <2> QED BY <1>10 DEF r
  <1>12. Sum(f, X) = f[c] + (f[x] + r) /\ Sum(f, X \ {x}) = f[c] + r
    BY <1>4, <1>7, <1>8, <1>9
  <1> QED BY <1>3, <1>11, <1>12

\* Induction from lo to hi, for a set.
LEMMA UpFrom ==
    ASSUME NEW lo \in Int, NEW hi \in Int, NEW G, lo \in G,
           \A j \in lo .. hi - 1 : j \in G => j + 1 \in G
    PROVE  lo .. hi \subseteq G
  <1> DEFINE steps == {n \in Nat : lo + n <= hi => lo + n \in G}
  <1>1. 0 \in steps
    OBVIOUS
  <1>2. ASSUME NEW n \in Nat, n \in steps PROVE n + 1 \in steps
    <2>1. SUFFICES ASSUME lo + (n + 1) <= hi PROVE lo + (n + 1) \in G
      OBVIOUS
    <2>2. lo + n \in G /\ lo + n \in lo .. hi - 1
      BY <1>2, <2>1
    <2>3. (lo + n) + 1 \in G
      BY <2>2
    <2> QED BY <2>3
  <1>3. Nat \subseteq steps
    <2> HIDE DEF steps
    <2> QED BY <1>1, <1>2, Induction
  <1>4. ASSUME NEW j \in lo .. hi PROVE j \in G
    <2>1. j - lo \in steps
      BY <1>3
    <2> QED BY <2>1
  <1> QED BY <1>4

\* A sum only looks at the elements of its set.
LEMMA SumSame ==
    ASSUME NEW S, IsFiniteSet(S), NEW f, NEW g, \A x \in S : f[x] \in Int /\ g[x] = f[x]
    PROVE  Sum(g, S) = Sum(f, S)
  <1> DEFINE B == {X \in SUBSET S : Sum(g, X) # Sum(f, X)}
  <1>1. SUFFICES ASSUME B # {} PROVE FALSE
    OBVIOUS
  <1>2. PICK X \in B : \A x \in X : X \ {x} \notin B
    <2>1. B \in SUBSET SUBSET S
      OBVIOUS
    <2> HIDE DEF B
    <2> QED BY <1>1, <2>1, Smallest
  <1>3. X # {}
    BY SumEmpty
  <1>4. PICK y \in X : TRUE
    BY <1>3
  <1>5. IsFiniteSet(X) /\ \A x \in X : f[x] \in Int /\ g[x] \in Int /\ g[x] = f[x]
    BY FS_Subset
  <1>6. Sum(f, X) = f[y] + Sum(f, X \ {y}) /\ Sum(g, X) = g[y] + Sum(g, X \ {y})
    BY <1>5, SumAny
  <1>7. Sum(g, X \ {y}) = Sum(f, X \ {y})
    BY <1>2
  <1> QED BY <1>5, <1>6, <1>7

\* The sum of what comes before place i of a sequence, place by place.
LEMMA PrefixSums ==
    ASSUME NEW n \in Nat, NEW f, \A k \in 1..n : f[k] \in Nat,
           NEW P, \A i \in 1..(n + 1) : P[i] = Total([k \in 1..(i - 1) |-> f[k]])
    PROVE  /\ P[1] = 0
           /\ \A i \in 1..n : P[i + 1] = P[i] + f[i]
           /\ \A i \in 1..(n + 1) : P[i] \in Nat
  <1>1. ASSUME NEW i \in 1..(n + 1) PROVE P[i] = Sum(f, 1..(i - 1))
    <2> DEFINE g == [k \in 1..(i - 1) |-> f[k]]
    <2>1. Total(g) = Sum(g, 1..(i - 1))
      BY DEF Total, FoldFunction, Sum
    <2>2. IsFiniteSet(1..(i - 1)) /\ \A x \in 1..(i - 1) : f[x] \in Int /\ g[x] = f[x]
      BY FS_Interval
    <2> HIDE DEF g
    <2>3. Sum(g, 1..(i - 1)) = Sum(f, 1..(i - 1))
      BY <2>2, SumSame
    <2> QED BY <2>1, <2>3 DEF g
  <1>2. P[1] = 0
    <2>1. 1 \in 1..(n + 1) /\ 1..(1 - 1) = {}
      OBVIOUS
    <2> QED BY <1>1, <2>1, SumEmpty
  <1>3. ASSUME NEW i \in 1..n PROVE P[i + 1] = P[i] + f[i]
    <2>1. i \in 1..(n + 1) /\ i + 1 \in 1..(n + 1) /\ (i + 1) - 1 = i
      OBVIOUS
    <2>2. (1..i) \ {i} = 1..(i - 1) /\ i \in 1..i /\ IsFiniteSet(1..i) /\ IsFiniteSet(1..(i - 1))
      BY FS_Interval
    <2>3. \A x \in 1..i : f[x] \in Int
      OBVIOUS
    <2>4. Sum(f, 1..i) = f[i] + Sum(f, 1..(i - 1))
      BY <2>2, <2>3, SumAny
    <2>5. Sum(f, 1..(i - 1)) \in Int /\ f[i] \in Int
      BY <2>2, <2>3, SumType
    <2>6. P[i + 1] = Sum(f, 1..i) /\ P[i] = Sum(f, 1..(i - 1))
      BY <1>1, <2>1
    <2> QED BY <2>4, <2>5, <2>6
  <1>4. \A i \in 1..(n + 1) : P[i] \in Nat
    <2> DEFINE G == {i \in 1..(n + 1) : P[i] \in Nat}
    <2>1. 1 \in G
      BY <1>2
    <2>2. \A j \in 1 .. (n + 1) - 1 : j \in G => j + 1 \in G
      BY <1>3
    <2> HIDE DEF G
    <2>3. 1 .. n + 1 \subseteq G
      <3>1. 1 \in Int /\ n + 1 \in Int
        OBVIOUS
      <3> QED BY <2>1, <2>2, <3>1, UpFrom
    <2> QED BY <2>3 DEF G
  <1> QED BY <1>2, <1>3, <1>4

\* A sum of ones counts them.
LEMMA SumOfOnes ==
    ASSUME NEW S, IsFiniteSet(S), NEW f, \A x \in S : f[x] = 1
    PROVE  Sum(f, S) = Cardinality(S)
  <1> DEFINE B == {X \in SUBSET S : Sum(f, X) # Cardinality(X)}
  <1>1. SUFFICES ASSUME B # {} PROVE FALSE
    OBVIOUS
  <1>2. PICK X \in B : \A x \in X : X \ {x} \notin B
    <2>1. B \in SUBSET SUBSET S
      OBVIOUS
    <2> HIDE DEF B
    <2> QED BY <1>1, <2>1, Smallest
  <1>3. X # {}
    BY SumEmpty, FS_EmptySet
  <1>4. PICK y \in X : TRUE
    BY <1>3
  <1>5. IsFiniteSet(X) /\ \A x \in X : f[x] \in Int /\ f[x] = 1
    BY FS_Subset
  <1>6. Sum(f, X) = 1 + Sum(f, X \ {y})
    BY <1>5, SumAny
  <1>7. Cardinality(X) \in Nat /\ Cardinality(X \ {y}) = Cardinality(X) - 1
    BY <1>5, FS_CardinalityType, FS_RemoveElement
  <1>8. Sum(f, X \ {y}) = Cardinality(X \ {y})
    BY <1>2
  <1> QED BY <1>6, <1>7, <1>8

-----------------------------------------------------------------------------
(***************************************************************************)
(* Sequences end to end.                                                   *)
(***************************************************************************)
\* off[i] is the length of the parts before part i.
Running(off, len, n) ==
    /\ off[1] = 0
    /\ \A i \in 1..n : /\ off[i] \in Nat /\ len[i] \in Nat /\ off[i + 1] \in Nat
                       /\ off[i + 1] = off[i] + len[i]

LEMMA RunningGrows ==
    ASSUME NEW n \in Nat, NEW off, NEW len, Running(off, len, n),
           NEW i \in 1..(n + 1), NEW j \in 1..(n + 1), i <= j
    PROVE  off[i] <= off[j] /\ off[i] \in Nat
  <1> DEFINE G == {k \in i .. n + 1 : off[i] <= off[k]}
  <1>1. \A k \in 1..(n + 1) : off[k] \in Nat
    <2> SUFFICES ASSUME NEW k \in 1..(n + 1) PROVE off[k] \in Nat
      OBVIOUS
    <2>1. CASE k = 1
      BY <2>1 DEF Running
    <2>2. CASE k # 1
      <3>1. k - 1 \in 1..n /\ (k - 1) + 1 = k
        BY <2>2
      <3>2. off[(k - 1) + 1] \in Nat
        BY <3>1 DEF Running
      <3> QED BY <3>1, <3>2
    <2> QED BY <2>1, <2>2
  <1>2. i \in G
    BY <1>1
  <1>3. ASSUME NEW k \in i .. (n + 1) - 1, k \in G PROVE k + 1 \in G
    <2>1. k \in 1..n
      OBVIOUS
    <2>2. off[k + 1] = off[k] + len[k] /\ len[k] \in Nat /\ off[k] \in Nat
      BY <2>1 DEF Running
    <2> QED BY <1>1, <1>3, <2>2
  <1>4. i .. n + 1 \subseteq G
    <2>1. i \in Int /\ n + 1 \in Int
      OBVIOUS
    <2> HIDE DEF G
    <2> QED BY <1>2, <1>3, <2>1, UpFrom
  <1> QED BY <1>1, <1>4

\* Every place lies in one part.
LEMMA Located ==
    ASSUME NEW n \in Nat, NEW off, NEW len, Running(off, len, n), NEW x \in 1..off[n + 1]
    PROVE  /\ \E i \in 1..n : x \in (off[i] + 1)..off[i + 1] /\ x - off[i] \in 1..len[i]
           /\ \A i, j \in 1..n :
                 x \in (off[i] + 1)..off[i + 1] /\ x \in (off[j] + 1)..off[j + 1] => i = j
  <1>0. \A k \in 1..(n + 1) : off[k] \in Nat
    BY RunningGrows
  <1> DEFINE S == {k \in 1..(n + 1) : x <= off[k]}
  <1>1. S \in SUBSET Nat /\ n + 1 \in S
    BY <1>0
  <1>2. PICK m \in S : \A y \in S : m <= y
    <2> HIDE DEF S
    <2> QED BY <1>1, Least
  <1>3. m # 1
    BY <1>0, <1>2 DEF Running
  <1>4. m - 1 \in 1..n /\ (m - 1) + 1 = m /\ m - 1 \notin S
    BY <1>2, <1>3
  <1>5. off[m - 1] \in Nat /\ off[m] = off[m - 1] + len[m - 1] /\ len[m - 1] \in Nat
    BY <1>4 DEF Running
  <1>6. x \in (off[m - 1] + 1)..off[m] /\ x - off[m - 1] \in 1..len[m - 1]
    BY <1>0, <1>2, <1>4, <1>5
  <1>7. ASSUME NEW i \in 1..n, NEW j \in 1..n,
               x \in (off[i] + 1)..off[i + 1], x \in (off[j] + 1)..off[j + 1], i < j
        PROVE  FALSE
    <2>1. off[i + 1] <= off[j] /\ off[i + 1] \in Nat /\ off[j] \in Nat
      <3>1. i + 1 \in 1..(n + 1) /\ j \in 1..(n + 1) /\ i + 1 <= j
        BY <1>7
      <3> QED BY <1>0, <3>1, RunningGrows
    <2> QED BY <1>7, <2>1
  <1>8. ASSUME NEW i \in 1..n, NEW j \in 1..n,
               x \in (off[i] + 1)..off[i + 1], x \in (off[j] + 1)..off[j + 1]
        PROVE  i = j
    BY <1>7, <1>8
  <1> QED BY <1>4, <1>6, <1>8

LEMMA InPart ==
    ASSUME NEW o \in Nat, NEW l \in Nat, NEW t \in Nat, o + l <= t, NEW x \in 1..l
    PROVE  o + x \in 1..t /\ o + x \in (o + 1)..(o + l)
  OBVIOUS

Upto(V, a) == [x \in 1..a |-> V[x]]
Continues(W, V, a, b) == \A x \in 1..b : W[x] = V[a + x]

LEMMA ConcatIs ==
    ASSUME NEW a \in Nat, NEW b \in Nat, NEW V, NEW W, Continues(W, V, a, b)
    PROVE  Upto(V, a) \o Upto(W, b) = Upto(V, a + b)
  <1> USE DEF Upto, Continues
  <1> DEFINE A == [x \in 1..a |-> V[x]]
             B == [x \in 1..b |-> W[x]]
             C == [x \in 1..(a + b) |-> V[x]]
             S == {V[x] : x \in 1..(a + b)}
  <1>1. \A x \in 1..a : x \in 1..(a + b)
    OBVIOUS
  <1>2. \A x \in 1..b : a + x \in 1..(a + b)
    OBVIOUS
  <1>3. A \in Seq(S) /\ Len(A) = a
    BY <1>1
  <1>4. B \in Seq(S) /\ Len(B) = b
    BY <1>2
  <1>5. C \in Seq(S) /\ Len(C) = a + b
    OBVIOUS
  <1>6. A \o B \in Seq(S) /\ Len(A \o B) = a + b
    <2> HIDE DEF A, B, S
    <2> QED BY <1>3, <1>4, ConcatProperties
  <1>7. ASSUME NEW x \in 1..(a + b) PROVE (A \o B)[x] = V[x]
    <2>1. CASE x <= a
      <3>1. x \in 1..a /\ (A \o B)[x] = A[x]
        <4> HIDE DEF A, B, S
        <4> QED BY <1>3, <1>4, <2>1, ConcatProperties
      <3> QED BY <3>1
    <2>2. CASE x > a
      <3>1. x - a \in 1..b /\ a + (x - a) = x
        BY <2>2
      <3>2. (A \o B)[x] = B[x - a]
        <4> HIDE DEF A, B, S
        <4>1. x \in 1 .. Len(A) + Len(B) /\ ~(x <= Len(A)) /\ x - Len(A) = x - a
          BY <1>3, <1>4, <2>2
        <4> QED BY <1>3, <1>4, <4>1, ConcatProperties
      <3>3. B[x - a] = W[x - a] /\ W[x - a] = V[a + (x - a)]
        BY <3>1
      <3> QED BY <3>1, <3>2, <3>3
    <2> QED BY <2>1, <2>2
  <1>8. A \o B = C
    <2>1. \A x \in 1..(a + b) : C[x] = V[x]
      OBVIOUS
    <2> HIDE DEF A, B, C, S
    <2> QED BY <1>5, <1>6, <1>7, <2>1, SeqEqual
  <1> QED BY <1>8

\* FlattenSeq is a recursive function of the parts' number: whatever follows
\* the recursion is it.
Flattens(F, seqs, n) ==
    /\ seqs = [i \in 1..n |-> seqs[i]] /\ F = [i \in 1..n |-> F[i]]
    /\ \A i \in 1..n : F[i] = IF i = 1 THEN seqs[i] ELSE F[i - 1] \o seqs[i]

LEMMA FlattenIs ==
    ASSUME NEW n \in Nat \ {0}, NEW seqs, NEW F, Flattens(F, seqs, n)
    PROVE  FlattenSeq(seqs) = F[n]
  <1> USE DEF Flattens
  <1> DEFINE R(f) == f = [i \in 1..n |-> IF i = 1 THEN seqs[i] ELSE f[i - 1] \o seqs[i]]
             f0 == CHOOSE f : R(f)
  <1>1. Len(seqs) = n
    OBVIOUS
  <1>2. FlattenSeq(seqs) = f0[n]
    BY <1>1 DEF FlattenSeq
  <1>3. R(F)
    OBVIOUS
  <1>4. R(f0)
    <2> HIDE DEF R
    <2> QED BY <1>3
  <1> HIDE DEF f0
  <1> DEFINE G == {i \in 1..n : f0[i] = F[i]}
  <1>5. 1 \in G
    <2>1. 1 \in 1..n
      OBVIOUS
    <2>2. f0[1] = seqs[1] /\ F[1] = seqs[1]
      BY <1>4, <2>1
    <2> QED BY <2>1, <2>2
  <1>6. ASSUME NEW i \in 1 .. n - 1, i \in G PROVE i + 1 \in G
    <2>1. i + 1 \in 1..n /\ i + 1 # 1 /\ (i + 1) - 1 = i
      OBVIOUS
    <2>2. f0[i + 1] = f0[i] \o seqs[i + 1]
      <3> DEFINE j == i + 1
      <3>1. j \in 1..n /\ j # 1 /\ j - 1 = i
        BY <2>1
      <3> HIDE DEF j
      <3>2. f0[j] = IF j = 1 THEN seqs[j] ELSE f0[j - 1] \o seqs[j]
        BY <1>4, <3>1
      <3> QED BY <3>1, <3>2 DEF j
    <2>3. F[i + 1] = F[i] \o seqs[i + 1]
      BY <2>1
    <2> QED BY <1>6, <2>1, <2>2, <2>3
  <1>7. 1 .. n \subseteq G
    <2>1. 1 \in Int /\ n \in Int
      OBVIOUS
    <2> HIDE DEF G
    <2> QED BY <1>5, <1>6, <2>1, UpFrom
  <1>8. n \in G
    BY <1>7
  <1> QED BY <1>2, <1>8

\* n sequences and their lengths.
Parts(seqs, len, n) ==
    /\ seqs = [i \in 1..n |-> seqs[i]]
    /\ \A i \in 1..n : seqs[i] = [x \in 1..len[i] |-> seqs[i][x]]

\* What is where in sequences put end to end.
EndToEnd(F, seqs, off, len, n) ==
    /\ F = [x \in 1..off[n + 1] |-> F[x]]
    /\ \A i \in 1..n : \A x \in 1..len[i] :
          off[i] + x \in 1..off[n + 1] /\ F[off[i] + x] = seqs[i][x]

LEMMA FlattenAt ==
    ASSUME NEW n \in Nat, NEW seqs, NEW off, NEW len,
           Running(off, len, n), Parts(seqs, len, n)
    PROVE  EndToEnd(FlattenSeq(seqs), seqs, off, len, n)
  <1> USE DEF EndToEnd
  <1> USE DEF Parts
  <1>0. \A k \in 1..(n + 1) : off[k] \in Nat
    BY RunningGrows
  <1>1. CASE n = 0
    <2>1. off[n + 1] = 0
      BY <1>1 DEF Running
    <2>2. FlattenSeq(seqs) = seqs
      BY <1>1 DEF FlattenSeq
    <2> QED BY <1>1, <2>1, <2>2
  <1>2. CASE n # 0
    <2> DEFINE In(x) == CHOOSE i \in 1..n : x \in (off[i] + 1)..off[i + 1]
               V == [x \in 1..off[n + 1] |-> seqs[In(x)][x - off[In(x)]]]
               F == [i \in 1..n |-> [x \in 1..off[i + 1] |-> V[x]]]
    <2>1. ASSUME NEW i \in 1..n, NEW x \in 1..len[i]
          PROVE  off[i] + x \in 1..off[n + 1] /\ V[off[i] + x] = seqs[i][x]
      <3>1. /\ off[i] \in Nat /\ off[i + 1] = off[i] + len[i] /\ off[i + 1] <= off[n + 1]
            /\ len[i] \in Nat /\ off[n + 1] \in Nat
        <4>1. i + 1 \in 1..(n + 1) /\ n + 1 \in 1..(n + 1) /\ i + 1 <= n + 1
          OBVIOUS
        <4> QED BY <1>0, <4>1, RunningGrows DEF Running
      <3>2. off[i] + x \in 1..off[n + 1] /\ off[i] + x \in (off[i] + 1)..off[i + 1]
        <4>1. off[i] + len[i] <= off[n + 1]
          BY <3>1
        <4> QED BY <3>1, <4>1, InPart
      <3>3. In(off[i] + x) = i
        <4> HIDE DEF V, F
        <4> QED BY <3>2, Located
      <3>4. (off[i] + x) - off[i] = x
        BY <3>1
      <3>5. V[off[i] + x] = seqs[In(off[i] + x)][(off[i] + x) - off[In(off[i] + x)]]
        BY <3>2
      <3> QED BY <3>2, <3>3, <3>4, <3>5
    <2> HIDE DEF V
    <2>2. ASSUME NEW i \in 1..n
          PROVE  F[i] = IF i = 1 THEN seqs[i] ELSE F[i - 1] \o seqs[i]
      <3>1. off[i] \in Nat /\ len[i] \in Nat /\ off[i + 1] = off[i] + len[i]
        BY DEF Running
      <3>2. CASE i = 1
        <4>1. off[i] = 0 /\ off[i + 1] = len[i]
          BY <3>1, <3>2 DEF Running
        <4>2. \A x \in 1..len[i] : V[x] = seqs[i][x]
          <5>1. \A x \in 1..len[i] : off[i] + x = x
            BY <3>1, <4>1
          <5> QED BY <2>1, <5>1
        <4> QED BY <3>2, <4>1, <4>2
      <3>3. CASE i # 1
        <4>1. i - 1 \in 1..n /\ (i - 1) + 1 = i
          BY <3>3
        <4>2. F[i - 1] = [x \in 1..off[i] |-> V[x]]
          BY <4>1
        <4>3. \A x \in 1..len[i] : seqs[i][x] = V[off[i] + x]
          BY <2>1
        <4>4. [x \in 1..off[i] |-> V[x]] \o [x \in 1..len[i] |-> seqs[i][x]]
                = [x \in 1..(off[i] + len[i]) |-> V[x]]
          <5> DEFINE W == seqs[i]
                     a == off[i]
                     b == len[i]
          <5>1. a \in Nat /\ b \in Nat /\ Continues(W, V, a, b)
            BY <3>1, <4>3 DEF Continues
          <5> HIDE DEF W, a, b
          <5>2. Upto(V, a) \o Upto(W, b) = Upto(V, a + b)
            BY <5>1, ConcatIs
          <5> QED BY <5>2 DEF W, a, b, Upto
        <4> QED BY <3>1, <3>3, <4>2, <4>4
      <3> QED BY <3>2, <3>3
    <2>3. FlattenSeq(seqs) = F[n]
      <3>1. F = [i \in 1..n |-> F[i]] /\ n \in Nat \ {0}
        BY <1>2
      <3> HIDE DEF F
      <3>2. Flattens(F, seqs, n)
        BY <2>2, <3>1 DEF Flattens
      <3> QED BY <3>1, <3>2, FlattenIs
    <2>4. F[n] = [x \in 1..off[n + 1] |-> V[x]]
      BY <1>2
    <2> HIDE DEF F
    <2> DEFINE W == FlattenSeq(seqs)
    <2>5. W = [x \in 1..off[n + 1] |-> V[x]]
      BY <2>3, <2>4
    <2> HIDE DEF W
    <2>6. W = [x \in 1..off[n + 1] |-> W[x]]
      BY <2>5
    <2>7. \A i \in 1..n : \A x \in 1..len[i] :
             off[i] + x \in 1..off[n + 1] /\ W[off[i] + x] = seqs[i][x]
      BY <2>1, <2>5
    <2> QED BY <2>6, <2>7 DEF W
  <1> QED BY <1>1, <1>2

-----------------------------------------------------------------------------
(***************************************************************************)
(* The arithmetic of the SM100 split.                                      *)
(***************************************************************************)
USE SplitAssumption

LEMMA DivFacts ==
    ASSUME NEW a \in Nat, NEW b \in Nat \ {0}
    PROVE  a \div b \in Nat /\ (a \div b) * b <= a /\ a < (a \div b) * b + b
  OBVIOUS

\* Division rounded up.
LEMMA CeilDivFacts ==
    ASSUME NEW a \in Nat, NEW b \in Nat \ {0}
    PROVE  /\ CeilDiv(a, b) \in Nat
           /\ a <= CeilDiv(a, b) * b
           /\ CeilDiv(a, b) * b < a + b
  <1>1. a + b - 1 \in Nat OBVIOUS
  <1> DEFINE q == (a + b - 1) \div b
  <1>2. q \in Nat /\ q * b <= a + b - 1 /\ a + b - 1 < q * b + b
    BY <1>1, DivFacts
  <1>3. CeilDiv(a, b) = q BY DEF CeilDiv
  <1> HIDE DEF q
  <1>4. q * b \in Nat BY <1>2
  <1> DEFINE p == q * b
  <1> HIDE DEF p
  <1> QED BY <1>2, <1>3, <1>4 DEF p

\* A product is monotone in its factors.
LEMMA TimesMono ==
    ASSUME NEW a \in Nat, NEW b \in Nat, NEW c \in Nat, a <= b
    PROVE  a * c <= b * c
  OBVIOUS

LEMMA OneTimes ==
    ASSUME NEW a \in Nat, NEW b \in Nat \ {0}
    PROVE  a <= a * b
  <1>1. 1 * a <= b * a
    BY TimesMono
  <1> QED BY <1>1

\* CeilDiv is the least number of parts of size b that hold a.
LEMMA CeilDivLeast ==
    ASSUME NEW a \in Nat, NEW b \in Nat \ {0}, NEW m \in Nat, a <= m * b
    PROVE  CeilDiv(a, b) <= m
  <1> DEFINE q == CeilDiv(a, b)
  <1>1. q \in Nat /\ q * b < a + b BY CeilDivFacts
  <1> HIDE DEF q
  <1>2. ASSUME m + 1 <= q PROVE FALSE
    <2>1. (m + 1) * b <= q * b BY <1>1, <1>2, TimesMono
    <2>2. (m + 1) * b = m * b + b OBVIOUS
    <2>3. m * b \in Nat /\ q * b \in Nat BY <1>1
    <2> QED BY <1>1, <2>1, <2>2, <2>3
  <1>3. q <= m BY <1>1, <1>2
  <1> QED BY <1>3 DEF q

LEMMA CeilDivPositive ==
    ASSUME NEW a \in Nat \ {0}, NEW b \in Nat \ {0}
    PROVE  CeilDiv(a, b) \in Nat \ {0}
  <1> DEFINE q == CeilDiv(a, b)
  <1>1. q \in Nat /\ a <= q * b BY CeilDivFacts
  <1> HIDE DEF q
  <1>2. q # 0 BY <1>1
  <1> QED BY <1>1, <1>2 DEF q

LEMMA CeilDivExact ==
    ASSUME NEW m \in Nat, NEW b \in Nat \ {0}
    PROVE  CeilDiv(m * b, b) = m
  <1> DEFINE q == CeilDiv(m * b, b)
  <1>0. m * b \in Nat OBVIOUS
  <1>1. q \in Nat /\ m * b <= q * b BY <1>0, CeilDivFacts
  <1>2. q <= m BY <1>0, CeilDivLeast
  <1> HIDE DEF q
  <1>3. ASSUME q + 1 <= m PROVE FALSE
    <2>1. (q + 1) * b <= m * b BY <1>1, <1>3, TimesMono
    <2>2. (q + 1) * b = q * b + b BY <1>1
    <2>3. q * b \in Nat BY <1>1
    <2> QED BY <1>0, <1>1, <2>1, <2>2, <2>3
  <1>4. q = m BY <1>1, <1>2, <1>3
  <1> QED BY <1>4 DEF q

\* How many pieces there are, and that they are long enough together.
LEMMA Enough ==
    ASSUME NEW len \in Nat, NEW ssl \in Nat \ {0}, Splits(len, ssl)
    PROVE  /\ NumSubseqs(len, ssl) \in Nat \ {0}
           /\ NumSubseqs(len, ssl) <= CeilDiv(Chunks(len), Chunks(ssl))
           /\ PieceLen(len, ssl) \in Nat
           /\ \E m \in Nat : PieceLen(len, ssl) = m * BT
           /\ len <= NumSubseqs(len, ssl) * PieceLen(len, ssl)
  <1> DEFINE c == Chunks(len)
             n == NumSubseqs(len, ssl)
             per == CeilDiv(c, n)
             sc == CeilDiv(c, Chunks(ssl))
  <1>1. len \in Nat \ {0} BY DEF Splits
  <1>2. c \in Nat \ {0} /\ Chunks(ssl) \in Nat \ {0} /\ len <= c * BT
    BY <1>1, CeilDivPositive, CeilDivFacts DEF Chunks
  <1> HIDE DEF c
  <1>3. sc \in Nat \ {0} BY <1>2, CeilDivPositive
  <1>4. n = Smaller(MaxSplits, sc) BY DEF NumSubseqs, c
  <1> HIDE DEF n, sc
  <1>5. n \in Nat \ {0} /\ n <= sc BY <1>3, <1>4 DEF Smaller
  <1>6. per \in Nat /\ c <= per * n BY <1>2, <1>5, CeilDivFacts
  <1>7. PieceLen(len, ssl) = per * BT BY DEF PieceLen, n, c
  <1> HIDE DEF per
  <1>8. c * BT <= (per * n) * BT
    <2>1. per * n \in Nat BY <1>5, <1>6
    <2> QED BY <1>2, <1>6, <2>1, TimesMono
  <1>9. (per * n) * BT = n * (per * BT) BY <1>5, <1>6
  <1>10. per * BT \in Nat BY <1>6
  <1>11. len <= n * (per * BT)
    <2>1. c * BT \in Nat /\ n * (per * BT) \in Nat BY <1>2, <1>5, <1>10
    <2> QED BY <1>2, <1>8, <1>9, <2>1
  <1>12. /\ n \in Nat \ {0} /\ n <= sc
         /\ PieceLen(len, ssl) \in Nat
         /\ \E m \in Nat : PieceLen(len, ssl) = m * BT
         /\ len <= n * PieceLen(len, ssl)
    BY <1>5, <1>6, <1>7, <1>10, <1>11
  <1> QED BY <1>12 DEF n, sc, c

\* Where piece j + 1 begins: the end of piece j.
Start(s, e, ssl, j) == IF j = 0 THEN s ELSE Cut(s, e, ssl, j)

\* The pieces of a sequence tile it: they follow each other from its first
\* token to its last, and each begins at a chunk boundary of the sequence or
\* at its end, where only empty pieces begin (prepare_subseq_cu_seqlens).
THEOREM PiecesTile ==
    ASSUME NEW s \in Nat, NEW e \in Nat, s <= e, NEW ssl \in Nat \ {0}
    PROVE  LET n == NumSubseqs(e - s, ssl) IN
           /\ Cut(s, e, ssl, n) = e
           /\ \A j \in 0..(n - 1) :
                 /\ Start(s, e, ssl, j) <= Cut(s, e, ssl, j + 1)
                 /\ \/ \E m \in Nat : Start(s, e, ssl, j) = s + m * BT
                    \/ Start(s, e, ssl, j) = e
  <1> DEFINE n == NumSubseqs(e - s, ssl)
             L == PieceLen(e - s, ssl)
  <1>0. e - s \in Nat OBVIOUS
  <1>1. CASE ~Splits(e - s, ssl)
    <2>1. n = 1 BY <1>1 DEF NumSubseqs
    <2>2. \A j \in Nat : Cut(s, e, ssl, j) = e BY <1>1 DEF Cut
    <2>3. Start(s, e, ssl, 0) = s + 0 * BT BY DEF Start
    <2>4. \A j \in 0..(n - 1) : j = 0 BY <2>1
    <2>5. Start(s, e, ssl, 0) <= Cut(s, e, ssl, 0 + 1) BY <2>2, <2>3
    <2> QED BY <2>1, <2>2, <2>3, <2>4, <2>5
  <1>2. CASE Splits(e - s, ssl)
    <2>1. n \in Nat \ {0} /\ L \in Nat /\ (\E m \in Nat : L = m * BT)
          /\ e - s <= n * L
      BY <1>0, <1>2, Enough
    <2>2. \A j \in Nat : Cut(s, e, ssl, j) = Smaller(s + j * L, e)
      BY <1>2 DEF Cut
    <2> HIDE DEF n, L
    <2>3. Cut(s, e, ssl, n) = e
      <3>1. n * L \in Nat BY <2>1
      <3> QED BY <2>1, <2>2, <3>1 DEF Smaller
    <2>4. \A j \in Nat : Start(s, e, ssl, j) = Smaller(s + j * L, e)
      <3>1. 0 * L = 0 BY <2>1
      <3>2. Smaller(s + 0, e) = s BY DEF Smaller
      <3> QED BY <2>2, <3>1, <3>2 DEF Start
    <2>5. ASSUME NEW j \in 0..(n - 1)
          PROVE  /\ Start(s, e, ssl, j) <= Cut(s, e, ssl, j + 1)
                 /\ \/ \E m \in Nat : Start(s, e, ssl, j) = s + m * BT
                    \/ Start(s, e, ssl, j) = e
      <3>1. j \in Nat /\ j + 1 \in Nat BY <2>1
      <3>2. j * L \in Nat /\ (j + 1) * L \in Nat /\ j * L <= (j + 1) * L
        BY <2>1, <3>1
      <3>3. Start(s, e, ssl, j) <= Cut(s, e, ssl, j + 1)
        BY <2>2, <2>4, <3>1, <3>2 DEF Smaller
      <3>4. PICK m \in Nat : L = m * BT BY <2>1
      <3>5. j * m \in Nat /\ j * L = (j * m) * BT BY <3>1, <3>4
      <3>6. Start(s, e, ssl, j) = s + (j * m) * BT \/ Start(s, e, ssl, j) = e
        BY <2>4, <3>1, <3>2, <3>5 DEF Smaller
      <3> QED BY <3>3, <3>5, <3>6
    <2>6. \A j \in 0..(n - 1) :
             /\ Start(s, e, ssl, j) <= Cut(s, e, ssl, j + 1)
             /\ \/ \E m \in Nat : Start(s, e, ssl, j) = s + m * BT
                \/ Start(s, e, ssl, j) = e
      BY <2>5
    <2> QED BY <2>3, <2>6 DEF n
  <1> QED BY <1>1, <1>2

LEMMA UnitsFact == PerSeqUnits \in Nat \ {0}
  BY DEF PerSeqUnits

\* Either the splits leave room for the other sequences, or there are two.
LEMMA TargetFacts ==
    ASSUME NEW n \in Nat \ {0}
    PROVE  /\ TargetSplits(n) \in Nat \ {0}
           /\ \/ TargetSplits(n) = 2
              \/ (TargetSplits(n) + (n - 1)) * PerSeqUnits <= Sms
  <1> DEFINE p == PerSeqUnits
             rest == Sms - p * (n - 1)
             budget == Larger(rest, p)
             t == budget \div p
  <1>1. p \in Nat \ {0} BY UnitsFact
  <1>2. p * (n - 1) \in Nat BY <1>1
  <1>3. rest \in Int /\ budget \in Nat /\ Larger(n - 1, 0) = n - 1
    BY <1>1, <1>2 DEF Larger
  <1>4. t \in Nat /\ t * p <= budget BY <1>1, <1>3, DivFacts
  <1>5. TargetSplits(n) = Larger(2, t) BY <1>3 DEF TargetSplits
  <1> HIDE DEF t
  <1>6. CASE t <= 2 BY <1>4, <1>5, <1>6 DEF Larger
  <1>7. CASE 3 <= t
    <2>1. TargetSplits(n) = t BY <1>4, <1>5, <1>7 DEF Larger
    <2>2. 3 * p <= t * p BY <1>1, <1>4, <1>7, TimesMono
    <2>3. t * p \in Nat BY <1>1, <1>4
    <2>4. budget = rest
      <3>1. budget # p
        <4> HIDE DEF p, budget
        <4> QED BY <1>1, <1>3, <1>4, <2>2, <2>3
      <3> QED BY <3>1 DEF Larger
    <2>5. (t + (n - 1)) * p = t * p + p * (n - 1)
      <3> HIDE DEF p
      <3> QED BY <1>1, <1>4
    <2>6. t * p + p * (n - 1) <= Sms
      <3>1. t * p <= Sms - p * (n - 1) BY <1>4, <2>4
      <3> QED BY <1>2, <2>3, <3>1
    <2> QED BY <1>4, <1>7, <2>1, <2>5, <2>6
  <1> QED BY <1>4, <1>6, <1>7

\* A batch of n sequences of which only the longest is split, fits on the SMs:
\* its pieces and the other n - 1 sequences have at most a thread block per
\* SM, as the docstring of compute_subseq_len promises.
THEOREM SingleSplitOccupancy ==
    ASSUME NEW len \in Nat \ {0}, NEW n \in Nat \ {0},
           Splits(len, SubseqLen(len, n))
    PROVE  (NumSubseqs(len, SubseqLen(len, n)) + (n - 1)) * PerSeqUnits <= Sms
  <1> DEFINE c == Chunks(len)
             target == TargetSplits(n)
             sc == SubseqChunks(c, n)
             ssl == SubseqLen(len, n)
             k == NumSubseqs(len, ssl)
  <1>1. c \in Nat \ {0} /\ len <= c * BT
    BY CeilDivPositive, CeilDivFacts DEF Chunks
  <1>2. target \in Nat \ {0} /\ (target = 2 \/ (target + (n - 1)) * PerSeqUnits <= Sms)
    BY TargetFacts
  <1>3. ssl = sc * BT
    <2>1. CASE c < ShortSeqChunks
      <3>1. ssl = len BY <2>1 DEF SubseqLen
      <3>2. len >= 3 * len BY <3>1 DEF Splits
      <3> QED BY <3>2
    <2>2. CASE ~(c < ShortSeqChunks) BY <2>2 DEF SubseqLen
    <2> QED BY <2>1, <2>2
  <1> HIDE DEF c, target
  <1>4. CeilDiv(c, target) \in Nat /\ c <= CeilDiv(c, target) * target BY <1>1, <1>2, CeilDivFacts
  <1>5. sc \in Nat \ {0} /\ CeilDiv(c, target) <= sc
    BY <1>4 DEF SubseqChunks, Larger, target
  <1>6. c <= target * sc
    <2>1. CeilDiv(c, target) * target <= sc * target BY <1>2, <1>4, <1>5, TimesMono
    <2>2. sc * target \in Nat /\ sc * target = target * sc /\ CeilDiv(c, target) * target \in Nat
      BY <1>2, <1>4, <1>5
    <2> QED BY <1>1, <1>4, <2>1, <2>2
  <1>7. ssl \in Nat \ {0} BY <1>3, <1>5
  <1>8. Chunks(ssl) = sc BY <1>3, <1>5, CeilDivExact DEF Chunks
  <1>9. k \in Nat /\ k <= CeilDiv(c, sc)
    <2>1. k \in Nat /\ k <= CeilDiv(Chunks(len), Chunks(ssl)) BY <1>7, Enough
    <2> QED BY <2>1, <1>8 DEF c
  <1>10. CeilDiv(c, sc) <= target /\ CeilDiv(c, sc) \in Nat
    BY <1>1, <1>2, <1>5, <1>6, CeilDivLeast, CeilDivFacts
  <1>11. k <= target BY <1>2, <1>9, <1>10
  <1>12. target # 2
    <2> SUFFICES ASSUME target = 2 PROVE FALSE OBVIOUS
    <2>1. c * BT <= (2 * sc) * BT BY <1>1, <1>5, <1>6, TimesMono
    <2>2. (2 * sc) * BT = 2 * (sc * BT) BY <1>5
    <2>3. len >= 3 * (sc * BT) BY <1>3 DEF Splits
    <2>4. sc * BT \in Nat \ {0} /\ c * BT \in Nat BY <1>1, <1>5
    <2> QED BY <1>1, <2>1, <2>2, <2>3, <2>4
  <1> HIDE DEF k, ssl, sc
  <1>13. (k + (n - 1)) * PerSeqUnits <= (target + (n - 1)) * PerSeqUnits
    <2>1. k + (n - 1) \in Nat /\ target + (n - 1) \in Nat /\ k + (n - 1) <= target + (n - 1)
      BY <1>2, <1>9, <1>11
    <2> QED BY <2>1, UnitsFact, TimesMono
  <1>14. (k + (n - 1)) * PerSeqUnits \in Nat /\ (target + (n - 1)) * PerSeqUnits \in Nat
    BY <1>2, <1>9, UnitsFact
  <1>15. (k + (n - 1)) * PerSeqUnits <= Sms
    BY <1>2, <1>12, <1>13, <1>14
  <1> QED BY <1>15 DEF k, ssl

-----------------------------------------------------------------------------
(***************************************************************************)
(* Modes.  What the heuristic of the automatic mode lets through has a     *)
(* sequence of a chunk at least, so its sub-sequences are not empty and    *)
(* the split does not divide by zero.                                      *)
(***************************************************************************)
\* What an SM100 call provides.
LEMMA Sm100Facts ==
    ASSUME call \in Sm100Calls, N # 0
    PROVE  /\ N \in Nat \ {0}
           /\ \E B \in Nat : \A i \in 1..N :
                 /\ SeqLen(cu, i) \in Nat /\ SeqLen(cu, i) <= B
                 /\ ChunkCounts[i] \in Nat /\ ChunkCounts[i] <= B + BT
  <1>1. cu \in Batches
    BY DEF Sm100Calls, cu
  <1>2. /\ cu \in Seq(Nat) /\ Len(cu) >= 1
        /\ \A i, j \in 1..Len(cu) : i <= j => cu[i] <= cu[j]
    BY <1>1, Sm100BatchesAssumption DEF Sm100BatchesAssumption
  <1>3. Len(cu) \in Nat /\ N = Len(cu) - 1 /\ N \in Nat \ {0}
    BY <1>2 DEF N, NumSeqs
  <1>4. \A j \in 1..Len(cu) : cu[j] \in Nat
    BY <1>2
  <1> DEFINE B == cu[N + 1]
  <1>5. B \in Nat
    BY <1>3, <1>4
  <1>6. ASSUME NEW i \in 1..N
        PROVE  /\ SeqLen(cu, i) \in Nat /\ SeqLen(cu, i) <= B
               /\ ChunkCounts[i] \in Nat /\ ChunkCounts[i] <= B + BT
    <2>1. i \in 1..Len(cu) /\ i + 1 \in 1..Len(cu) /\ N + 1 \in 1..Len(cu)
      BY <1>3
    <2>2. cu[i] <= cu[i + 1] /\ cu[i + 1] <= cu[N + 1]
      BY <1>2, <1>3, <2>1
    <2>3. SeqLen(cu, i) \in Nat /\ SeqLen(cu, i) <= B
      BY <1>4, <2>1, <2>2 DEF SeqLen
    <2>4. ChunkCounts[i] = CeilDiv(SeqLen(cu, i), BT)
      BY DEF ChunkCounts, Chunks
    <2>5. /\ ChunkCounts[i] \in Nat
          /\ ChunkCounts[i] * BT < SeqLen(cu, i) + BT
      BY <2>3, <2>4, CeilDivFacts
    <2>6. ChunkCounts[i] <= ChunkCounts[i] * BT
      BY <2>5, OneTimes
    <2>7. ChunkCounts[i] * BT \in Nat
      BY <2>5
    <2> QED BY <1>5, <2>3, <2>5, <2>6, <2>7
  <1> QED BY <1>3, <1>5, <1>6

LEMMA UsedHasLength ==
    ASSUME call \in Sm100Calls, ShouldUse
    PROVE  ~DividesByZero
  <1> DEFINE lens == {SeqLen(cu, i) : i \in 1..N}
             counts == {ChunkCounts[i] : i \in 1..N}
             len == Max(lens)
  <1>1. N \in Nat \ {0} /\ MostChunks >= MinLongSeqChunks
    BY Sm100Facts DEF ShouldUse
  <1>2. PICK B \in Nat : \A i \in 1..N :
                 /\ SeqLen(cu, i) \in Nat /\ SeqLen(cu, i) <= B
                 /\ ChunkCounts[i] \in Nat /\ ChunkCounts[i] <= B + BT
    BY <1>1, Sm100Facts
  <1>3. 1 \in 1..N /\ B + BT \in Nat
    BY <1>1
  <1>4. len \in Nat /\ \A i \in 1..N : SeqLen(cu, i) <= len
    <2>1. lens \in SUBSET Nat /\ lens # {} /\ \A x \in lens : x <= B
      BY <1>2, <1>3
    <2> HIDE DEF lens
    <2>2. len \in lens /\ \A y \in lens : y <= len
      BY <2>1, MaxFacts
    <2> QED BY <2>1, <2>2 DEF lens
  <1>5. PICK k \in 1..N : ChunkCounts[k] >= 1
    <2>1. counts \in SUBSET Nat /\ counts # {} /\ \A x \in counts : x <= B + BT
      BY <1>2, <1>3
    <2>2. MostChunks = Max(counts)
      BY DEF MostChunks
    <2>3. MostChunks \in counts
      <3> HIDE DEF counts
      <3> QED BY <1>3, <2>1, <2>2, MaxFacts
    <2>4. MostChunks \in Nat /\ MostChunks >= 1
      BY <1>1, <2>1, <2>3
    <2> QED BY <2>3, <2>4
  <1>6. len \in Nat \ {0}
    <2>1. ChunkCounts[k] = CeilDiv(SeqLen(cu, k), BT)
      BY DEF ChunkCounts, Chunks
    <2>2. SeqLen(cu, k) \in Nat /\ ChunkCounts[k] * BT < SeqLen(cu, k) + BT
      BY <1>2, <2>1, CeilDivFacts
    <2>3. 1 * BT <= ChunkCounts[k] * BT
      BY <1>2, <1>5, TimesMono
    <2>4. ChunkCounts[k] * BT \in Nat /\ 1 * BT = BT
      BY <1>2
    <2>5. SeqLen(cu, k) > 0
      BY <2>2, <2>3, <2>4
    <2> QED BY <1>4, <2>2, <2>5
  <1>7. Ssl \in Nat \ {0}
    <2>1. Ssl = SubseqLen(len, N)
      BY DEF Ssl
    <2> HIDE DEF len
    <2>2. Chunks(len) \in Nat /\ TargetSplits(N) \in Nat \ {0}
      BY <1>1, <1>6, CeilDivFacts, TargetFacts DEF Chunks
    <2>3. SubseqChunks(Chunks(len), N) \in Nat \ {0}
      <3>1. CeilDiv(Chunks(len), TargetSplits(N)) \in Nat
        BY <2>2, CeilDivFacts
      <3>2. \A x \in Nat : Larger(x, MinSubseqChunks) \in Nat \ {0}
        BY DEF Larger
      <3> QED BY <3>1, <3>2 DEF SubseqChunks
    <2>4. SubseqChunks(Chunks(len), N) * BT \in Nat \ {0}
      BY <2>3
    <2> QED BY <1>6, <2>1, <2>4 DEF SubseqLen
  <1>8. Chunks(Ssl) # 0
    BY <1>7, CeilDivPositive DEF Chunks
  <1> QED BY <1>8 DEF DividesByZero

\* The modes of the calls on their way.
Kept ==
    /\ call \in Sm100Calls \cup Sm90Calls \cup HopperCalls
    /\ pc = "serial" => call.mode # "force"
    /\ pc = "plan" => call.path = "sm100" /\ (call.mode = "force" \/ ShouldUse)
    /\ ModeKept

LEMMA SameCall ==
    ASSUME call' = call
    PROVE  ShouldUse' <=> ShouldUse
  BY DEF ShouldUse, cu, N, MostChunks, ChunkCounts

LEMMA PathOfCall ==
    ASSUME call \in Sm100Calls \cup Sm90Calls \cup HopperCalls
    PROVE  /\ call.path = "sm100" => call \in Sm100Calls
           /\ call.path = "hopper" => call.mode # "force"
  BY DEF Sm100Calls, Sm90Calls, HopperCalls

\* A call that is not split.
LEMMA LeaveKept ==
    ASSUME Kept, call' = call, NEW where,
           Leave(where),
           where = "serial" => call.mode # "force",
           where \in {"NotSplittableError", "ZeroDivisionError"}
              => call.mode = "force"
    PROVE  Kept'
  BY DEF Kept, ModeKept, Leave, Raise

LEMMA DeclinedFits ==
    /\ Declined \in {"serial", "NotSplittableError"}
    /\ NotSplit \in {"serial", "NotSplittableError"}
    /\ Declined = "serial" => call.mode # "force"
    /\ NotSplit = "serial" => call.mode # "force"
    /\ Declined = "NotSplittableError" => call.mode = "force"
    /\ NotSplit = "NotSplittableError" => call.mode = "force"
  BY DEF Declined, NotSplit

\* A step that ends no call in an error and leaves none to the serial kernel.
LEMMA MovesOn ==
    ASSUME Kept, call' = call, pc' \notin {"serial", "plan"},
           \/ outcome' \in {outcome, "cp", "ValueError"}
           \/ outcome' = "serial" /\ pc = "serial"
    PROVE  Kept'
  BY DEF Kept, ModeKept

LEMMA Sm100Kept == Kept /\ Sm100Next => Kept'
  <1> SUFFICES ASSUME Kept, Sm100Next PROVE Kept'
    OBVIOUS
  <1>1. CASE Decide
    <2>1. call' = call
      BY <1>1 DEF Decide
    <2>2. CASE call.mode = "off"
      <3>1. Leave("serial") /\ call.mode # "force"
        BY <1>1, <2>2 DEF Decide
      <3> QED BY <2>1, <3>1, LeaveKept
    <2>3. CASE call.mode # "off" /\ call.misfit # "none"
      <3>1. Leave(Declined)
        BY <1>1, <2>3 DEF Decide
      <3> QED BY <2>1, <3>1, LeaveKept, DeclinedFits
    <2>4. CASE /\ call.mode # "off" /\ call.misfit = "none"
               /\ call.mode = "force" \/ ShouldUse
      <3>1. pc' = "plan" /\ outcome' = outcome /\ call.path = "sm100"
        BY <1>1, <2>4 DEF Decide
      <3> QED BY <2>1, <2>4, <3>1, SameCall DEF Kept, ModeKept
    <2>5. CASE /\ call.mode # "off" /\ call.misfit = "none"
               /\ ~(call.mode = "force" \/ ShouldUse)
      <3>1. Leave("serial") /\ call.mode # "force"
        BY <1>1, <2>5 DEF Decide
      <3> QED BY <2>1, <3>1, LeaveKept
    <2> QED BY <2>2, <2>3, <2>4, <2>5
  <1>2. CASE Plan
    <2>1. call' = call /\ pc = "plan" /\ call.path = "sm100"
      BY <1>2 DEF Plan
    <2>2. CASE DividesByZero
      <3>1. Raise("ZeroDivisionError")
        BY <1>2, <2>2 DEF Plan
      <3>2. call.mode = "force"
        BY <2>1, <2>2, PathOfCall, UsedHasLength DEF Kept
      <3> QED BY <2>1, <3>1, <3>2 DEF Kept, ModeKept, Raise
    <2>3. CASE /\ ~DividesByZero
               /\ Split = {} \/ Total(Counts) * PerSeqUnits > Sms
      <3>1. Leave(NotSplit)
        BY <1>2, <2>3 DEF Plan
      <3> QED BY <2>1, <3>1, LeaveKept, DeclinedFits
    <2>4. CASE /\ ~DividesByZero
               /\ ~(Split = {} \/ Total(Counts) * PerSeqUnits > Sms)
      <3>1. pc' = "prescan" /\ outcome' = outcome
        BY <1>2, <2>4 DEF Plan
      <3> QED BY <2>1, <3>1, MovesOn
    <2> QED BY <2>2, <2>3, <2>4
  <1>3. CASE PreScan
    <2>1. call' = call /\ pc' = "merge" /\ outcome' = outcome
      BY <1>3 DEF PreScan
    <2> QED BY <2>1, MovesOn
  <1>4. ASSUME NEW q \in toMerge, MergeBlock(q) PROVE Kept'
    <2>1. call' = call /\ pc' = pc /\ pc = "merge" /\ outcome' = outcome
      BY <1>4 DEF MergeBlock
    <2> QED BY <2>1, MovesOn
  <1>5. CASE Scatter
    <2>1. call' = call /\ pc' = "fwd" /\ outcome' = outcome
      BY <1>5 DEF Scatter
    <2> QED BY <2>1, MovesOn
  <1>6. CASE FwdPieces
    <2>1. call' = call /\ pc' = "done" /\ outcome' = "cp"
      BY <1>6 DEF FwdPieces
    <2> QED BY <2>1, MovesOn
  <1>7. CASE Serial
    <2>1. call' = call /\ pc' = "done" /\ outcome' = "serial" /\ pc = "serial"
      BY <1>7 DEF Serial
    <2> QED BY <2>1, MovesOn
  <1> QED BY <1>1, <1>2, <1>3, <1>4, <1>5, <1>6, <1>7 DEF Sm100Next

LEMMA Sm90Kept == Kept /\ Sm90Next => Kept'
  <1> SUFFICES ASSUME Kept, Sm90Next PROVE Kept'
    OBVIOUS
  <1>1. CASE PlanSegments
    <2> DEFINE empty == ~call.dense /\ \E i \in 1..N : SeqLen(cu, i) <= 0
               costs == call.mode = "auto" /\ call.split = 0 /\ ~Pays
    <2> HIDE DEF empty, costs
    <2>1. /\ call' = call
          /\ IF empty THEN Raise("ValueError")
             ELSE IF call.mode = "off" THEN Leave("serial")
             ELSE IF Trivial THEN Leave(Declined)
             ELSE IF costs THEN Leave("serial")
             ELSE pc' = "prescan" /\ outcome' = outcome
      BY <1>1 DEF PlanSegments, empty, costs
    <2>2. CASE empty
      <3>1. pc' = "done" /\ outcome' = "ValueError"
        BY <2>1, <2>2 DEF Raise
      <3> QED BY <2>1, <3>1, MovesOn
    <2>3. CASE ~empty /\ call.mode = "off"
      <3>1. Leave("serial")
        BY <2>1, <2>3
      <3> QED BY <2>1, <2>3, <3>1, LeaveKept
    <2>4. CASE ~empty /\ call.mode # "off" /\ Trivial
      <3>1. Leave(Declined)
        BY <2>1, <2>4
      <3> QED BY <2>1, <3>1, LeaveKept, DeclinedFits
    <2>5. CASE ~empty /\ call.mode # "off" /\ ~Trivial /\ costs
      <3>1. Leave("serial") /\ call.mode # "force"
        BY <2>1, <2>5 DEF costs
      <3> QED BY <2>1, <3>1, LeaveKept
    <2>6. CASE ~empty /\ call.mode # "off" /\ ~Trivial /\ ~costs
      <3>1. pc' = "prescan" /\ outcome' = outcome
        BY <2>1, <2>6
      <3> QED BY <2>1, <3>1, MovesOn
    <2> QED BY <2>2, <2>3, <2>4, <2>5, <2>6
  <1>2. CASE ScanSegments
    <2>1. call' = call /\ pc' = "merge" /\ outcome' = outcome
      BY <1>2 DEF ScanSegments
    <2> QED BY <2>1, MovesOn
  <1>3. ASSUME NEW i \in toMerge, MergeSegments(i) PROVE Kept'
    <2>1. call' = call /\ pc' = pc /\ pc = "merge" /\ outcome' = outcome
      BY <1>3 DEF MergeSegments
    <2> QED BY <2>1, MovesOn
  <1>4. CASE RunSegments
    <2>1. call' = call /\ pc' = "done" /\ outcome' = "cp"
      BY <1>4 DEF RunSegments
    <2> QED BY <2>1, MovesOn
  <1>5. CASE RunSerial
    <2>1. call' = call /\ pc' = "done" /\ outcome' = "serial" /\ pc = "serial"
      BY <1>5 DEF RunSerial
    <2> QED BY <2>1, MovesOn
  <1> QED BY <1>1, <1>2, <1>3, <1>4, <1>5 DEF Sm90Next

LEMMA HopperKept == Kept /\ HopperNext => Kept'
  <1> SUFFICES ASSUME Kept, HopperNext PROVE Kept'
    OBVIOUS
  <1>1. CASE DecideHopper
    <2>1. call' = call /\ call.mode # "force"
      BY <1>1, PathOfCall DEF DecideHopper, Kept
    <2>2. Leave("serial") \/ (pc' = "prescan" /\ outcome' = outcome)
      BY <1>1 DEF DecideHopper
    <2> QED BY <2>1, <2>2, LeaveKept, MovesOn
  <1>2. CASE ScanTile
    <2>1. call' = call /\ outcome' = outcome /\ pc' \in {"fwd", "prescan"}
      BY <1>2 DEF ScanTile
    <2> QED BY <2>1, MovesOn
  <1>3. CASE RunPieces
    <2>1. call' = call /\ pc' = "done" /\ outcome' = "cp"
      BY <1>3 DEF RunPieces
    <2> QED BY <2>1, MovesOn
  <1>4. CASE RunWhole
    <2>1. call' = call /\ pc' = "done" /\ outcome' = "serial" /\ pc = "serial"
      BY <1>4 DEF RunWhole
    <2> QED BY <2>1, MovesOn
  <1> QED BY <1>1, <1>2, <1>3, <1>4 DEF HopperNext

\* Only a forced call fails for want of pieces, and no forced call falls back
\* to the serial kernel (ModeKept), on every backend; in particular the
\* heuristic of should_use_intracard_cp keeps the split from dividing by zero.
THEOREM ModeKeptAlways == Spec => []ModeKept
  <1>1. Init => Kept
    BY DEF Init, Begin, Kept, ModeKept
  <1>2. Kept /\ [Next]_vars => Kept'
    <2> SUFFICES ASSUME Kept, [Next]_vars PROVE Kept'
      OBVIOUS
    <2>1. CASE UNCHANGED vars \/ Done
      <3>1. call' = call /\ pc' = pc /\ outcome' = outcome
        BY <2>1 DEF vars, Done
      <3> QED BY <3>1, SameCall DEF Kept, ModeKept
    <2> QED BY <2>1, Sm100Kept, Sm90Kept, HopperKept DEF Next
  <1>3. Kept => ModeKept
    BY DEF Kept
  <1> QED BY <1>1, <1>2, <1>3, PTL DEF Spec

-----------------------------------------------------------------------------
(***************************************************************************)
(* The gate of the Hopper wrapper.                                         *)
(***************************************************************************)

\* What a Hopper call provides.
LEMMA CallFacts ==
    ASSUME call \in HopperCalls
    PROVE  /\ H \in Nat \ {0} /\ N \in Nat \ {0} /\ T \in Nat
           /\ \A i \in 1..N : SeqLen(cu, i) \in Nat /\ SeqLen(cu, i) <= T
  <1>1. cu \in HopperBatches /\ H \in HeadCounts
    BY DEF HopperCalls, cu, H
  <1>2. /\ cu \in Seq(Nat) /\ Len(cu) >= 2 /\ H \in Nat \ {0}
        /\ \A i, j \in 1..Len(cu) : i <= j => cu[i] <= cu[j]
    BY <1>1, BatchesAssumption DEF BatchesAssumption
  <1>3. /\ Len(cu) \in Nat /\ N = Len(cu) - 1 /\ N \in Nat \ {0} /\ T \in Nat
        /\ \A j \in 1..Len(cu) : cu[j] \in Nat
    <2>1. \A j \in 1..Len(cu) : cu[j] \in Nat
      BY <1>2
    <2>2. Len(cu) \in Nat /\ N = Len(cu) - 1 /\ N + 1 = Len(cu)
      BY <1>2 DEF N, NumSeqs
    <2> QED
      BY <1>2, <2>1, <2>2 DEF T
  <1>4. ASSUME NEW i \in 1..N
        PROVE  SeqLen(cu, i) \in Nat /\ SeqLen(cu, i) <= T
    <2>1. i \in 1..Len(cu) /\ i + 1 \in 1..Len(cu) /\ N + 1 \in 1..Len(cu)
      BY <1>3
    <2>2. cu[i] <= cu[i + 1] /\ cu[i + 1] <= cu[N + 1]
      BY <1>2, <1>3, <2>1
    <2> QED
      BY <1>3, <2>1, <2>2 DEF SeqLen, T
  <1> QED
    BY <1>2, <1>3, <1>4

\* Whatever the tables would split, the gate lets through.
LEMMA FiresWhenUsed ==
    ASSUME call \in HopperCalls, UseCp
    PROVE  CpWouldFire
  <1> DEFINE L == Limits
  <1>1. /\ L.grid < 2 * (L.fewHeads + 1) /\ L.manyTokens <= L.dominantLen
        /\ L.grid \in Nat /\ L.manyTokens \in Nat /\ L.fewHeads \in Nat
        /\ L.dominantHeads \in Nat /\ L.dominantLen \in Nat
    BY LimitsAssumption DEF LimitsAssumption
  <1>2. CASE N = 1
    BY <1>2 DEF UseCp, CpWouldFire
  <1>3. CASE N > 1 /\ N * H <= L.grid
    <2>1. N * H >= 2 * H
      <3>1. \A n, m \in Nat : n >= 2 => n * m >= 2 * m
        OBVIOUS
      <3> QED
        BY <1>3, <3>1, CallFacts
    <2>2. H <= L.fewHeads
      BY <1>1, <1>3, <2>1, CallFacts
    <2>3. T >= L.manyTokens
      BY <1>1, <1>3, <2>2, CallFacts DEF UseCp
    <2> QED
      BY <1>3, <2>3 DEF CpWouldFire
  <1>4. CASE N > 1 /\ N * H > L.grid
    <2>1. Dominant
      BY <1>1, <1>4, CallFacts DEF UseCp
    <2>2. PICK i \in 1..N : SeqLen(cu, i) >= L.dominantLen
      BY <2>1 DEF Dominant
    <2>3. T >= L.manyTokens
      BY <1>1, <2>2, CallFacts
    <2> QED
      BY <1>4, <2>1, <2>3 DEF CpWouldFire, Dominant
  <1>5. N = 1 \/ (N > 1 /\ (N * H <= L.grid \/ N * H > L.grid))
    BY <1>1, CallFacts
  <1> QED
    BY <1>2, <1>3, <1>4, <1>5

-----------------------------------------------------------------------------
\* A Hopper call that takes the serial kernel was refused by the gate or by
\* the decision.
Refused ==
    /\ call \in Sm100Calls \cup Sm90Calls \cup HopperCalls
    /\ call.path = "hopper" /\ call.mode = "auto" /\ (pc = "serial" \/ outcome = "serial")
          => ~(CpWouldFire /\ UseCp)

LEMMA Paths ==
    ASSUME call \in Sm100Calls \cup Sm90Calls \cup HopperCalls, call.path = "hopper"
    PROVE  call \in HopperCalls
  BY DEF Sm100Calls, Sm90Calls, HopperCalls

LEMMA SameDecision ==
    ASSUME call' = call
    PROVE  (UseCp' <=> UseCp) /\ (CpWouldFire' <=> CpWouldFire)
  BY DEF UseCp, CpWouldFire, Dominant, Owners, PieceCount, Local, LocalChunks,
         MostChunks, ChunkCounts, cu, N, H, T

LEMMA Sm100Steps == Sm100Next => call' = call /\ call.path = "sm100"
  BY DEF Sm100Next, Decide, Plan, PreScan, MergeBlock, Scatter, FwdPieces, Serial

LEMMA Sm90Steps == Sm90Next => call' = call /\ call.path = "sm90"
  BY DEF Sm90Next, PlanSegments, ScanSegments, MergeSegments, RunSegments, RunSerial

LEMMA RefusedStep == Refused /\ [Next]_vars => Refused'
  <1> SUFFICES ASSUME Refused, [Next]_vars PROVE Refused'
    OBVIOUS
  <1>1. CASE Sm100Next
    BY <1>1, Sm100Steps DEF Refused, Sm100Calls, Sm90Calls, HopperCalls
  <1>2. CASE Sm90Next
    BY <1>2, Sm90Steps DEF Refused, Sm100Calls, Sm90Calls, HopperCalls
  <1>3. CASE DecideHopper
    <2>1. call' = call
      BY <1>3 DEF DecideHopper
    <2>2. CASE call.mode = "auto" /\ CpWouldFire /\ UseCp
      <3>1. pc' = "prescan" /\ outcome' = outcome /\ pc = "decide"
        BY <1>3, <2>2 DEF DecideHopper
      <3> QED
        BY <2>1, <2>2, <3>1, SameDecision DEF Refused
    <2>3. CASE ~(call.mode = "auto" /\ CpWouldFire /\ UseCp)
      BY <2>1, <2>3, SameDecision DEF Refused
    <2> QED
      BY <2>2, <2>3
  <1>4. CASE ScanTile
    <2>1. call' = call /\ outcome' = outcome /\ pc' # "serial"
      BY <1>4 DEF ScanTile
    <2> QED
      BY <2>1, SameDecision DEF Refused
  <1>5. CASE RunPieces
    <2>1. call' = call /\ outcome' = "cp" /\ pc' = "done"
      BY <1>5 DEF RunPieces
    <2> QED
      BY <2>1, SameDecision DEF Refused
  <1>6. CASE RunWhole
    <2>1. call' = call /\ pc = "serial"
      BY <1>6 DEF RunWhole
    <2> QED
      BY <2>1, SameDecision DEF Refused
  <1>7. CASE UNCHANGED vars
    <2>1. call' = call /\ pc' = pc /\ outcome' = outcome
      BY <1>7 DEF vars
    <2> QED
      BY <2>1, SameDecision DEF Refused
  <1> QED
    BY <1>1, <1>2, <1>3, <1>4, <1>5, <1>6, <1>7 DEF Next, HopperNext, Done

\* For every batch and head count, a call of the automatic mode that reaches
\* the serial kernel is one the tables would not split: the wrapper's gate and
\* _calc_cp_seqs, which restate each other's thresholds, never disagree to the
\* call's cost.
THEOREM GateNeverCosts == Spec => []GateMatches
  <1>1. Init => Refused
    BY DEF Init, Begin, Refused
  <1>2. Refused => GateMatches
    BY Paths, FiresWhenUsed DEF Refused, GateMatches
  <1> QED
    BY <1>1, <1>2, RefusedStep, PTL DEF Spec

-----------------------------------------------------------------------------
(***************************************************************************)
(* One SM100 call.                                                         *)
(***************************************************************************)

LEMMA BatchFacts ==
    ASSUME call \in Sm100Calls
    PROVE  /\ N \in Nat /\ Len(cu) = N + 1 /\ cu \in Seq(Nat) /\ cu[1] = 0
           /\ \A i \in 1..(N + 1) : cu[i] \in Nat
           /\ \A i, j \in 1..(N + 1) : i <= j => cu[i] <= cu[j]
           /\ \A i \in 1..N : /\ cu[i] \in Nat /\ cu[i + 1] \in Nat /\ cu[i] <= cu[i + 1]
                              /\ SeqLen(cu, i) \in Nat
  <1>1. cu \in Batches
    BY DEF Sm100Calls, cu
  <1>2. /\ cu \in Seq(Nat) /\ Len(cu) >= 1 /\ cu[1] = 0
        /\ \A i, j \in 1..Len(cu) : i <= j => cu[i] <= cu[j]
    BY <1>1, Sm100BatchesAssumption DEF Sm100BatchesAssumption
  <1>3. Len(cu) \in Nat /\ N = Len(cu) - 1 /\ N \in Nat
    BY <1>2 DEF N, NumSeqs
  <1>4. \A j \in 1..Len(cu) : cu[j] \in Nat
    BY <1>2
  <1>5. \A i \in 1..N : i \in 1..Len(cu) /\ i + 1 \in 1..Len(cu) /\ i <= i + 1
    BY <1>3
  <1>6. \A i \in 1..N : cu[i] \in Nat /\ cu[i + 1] \in Nat /\ cu[i] <= cu[i + 1]
    BY <1>2, <1>4, <1>5
  <1>7. \A i \in 1..N : SeqLen(cu, i) \in Nat
    BY <1>6 DEF SeqLen
  <1> QED BY <1>2, <1>3, <1>4, <1>6, <1>7

\* The length from which a batch is cut comes from its longest sequence.
LEMMA SslFacts ==
    ASSUME call \in Sm100Calls, N # 0
    PROVE  \E k \in 1..N : /\ \A i \in 1..N : SeqLen(cu, i) <= SeqLen(cu, k)
                           /\ Ssl = SubseqLen(SeqLen(cu, k), N)
                           /\ Ssl \in Nat
  <1> DEFINE lens == {SeqLen(cu, i) : i \in 1..N}
  <1>1. N \in Nat \ {0}
    BY Sm100Facts
  <1>2. PICK B \in Nat : \A i \in 1..N : SeqLen(cu, i) \in Nat /\ SeqLen(cu, i) <= B
    BY Sm100Facts
  <1>3. Max(lens) \in lens /\ \A x \in lens : x <= Max(lens)
    <2>1. lens \in SUBSET Nat /\ lens # {} /\ \A x \in lens : x <= B
      BY <1>1, <1>2
    <2> HIDE DEF lens
    <2> QED BY <2>1, MaxFacts
  <1>4. PICK k \in 1..N : Max(lens) = SeqLen(cu, k)
    BY <1>3
  <1>5. \A i \in 1..N : SeqLen(cu, i) <= SeqLen(cu, k)
    BY <1>3, <1>4
  <1>6. Ssl = SubseqLen(SeqLen(cu, k), N)
    BY <1>4 DEF Ssl
  <1>7. SubseqLen(SeqLen(cu, k), N) \in Nat
    <2> DEFINE c == Chunks(SeqLen(cu, k))
    <2>1. c \in Nat /\ TargetSplits(N) \in Nat \ {0}
      BY <1>1, <1>2, CeilDivFacts, TargetFacts DEF Chunks
    <2> HIDE DEF c
    <2>2. SubseqChunks(c, N) \in Nat
      BY <2>1, CeilDivFacts DEF SubseqChunks, Larger
    <2>3. SubseqChunks(c, N) * BT \in Nat
      BY <2>2
    <2> QED BY <1>2, <2>3 DEF SubseqLen, c
  <1> QED BY <1>5, <1>6, <1>7

\* What is cut is not empty, and as no sub-sequence has no chunk, nor is a
\* sub-sequence.
LEMMA SplitFacts ==
    ASSUME call \in Sm100Calls, Split # {}, ~DividesByZero
    PROVE  N \in Nat \ {0} /\ Ssl \in Nat \ {0}
  <1>1. N \in Nat /\ N # 0
    BY BatchFacts DEF Split
  <1>2. Ssl \in Nat
    BY <1>1, SslFacts
  <1>3. Ssl # 0
    <2>1. CeilDiv(0, BT) = 0
      <3>1. 0 * BT = 0
        OBVIOUS
      <3>2. CeilDiv(0 * BT, BT) = 0
        BY CeilDivExact
      <3> QED BY <3>1, <3>2
    <2> QED BY <2>1 DEF DividesByZero, Chunks
  <1> QED BY <1>1, <1>2, <1>3

LEMMA OneSplitFits ==
    ASSUME call \in Sm100Calls, Cardinality(Split) = 1, ~DividesByZero
    PROVE  Split # {} /\ ~(Total(Counts) * PerSeqUnits > Sms)
  <1>1. N \in Nat /\ IsFiniteSet(1..N) /\ IsFiniteSet(Split)
    <2>1. N \in Nat /\ IsFiniteSet(1..N)
      BY BatchFacts, FS_Interval
    <2>2. Split \subseteq 1..N
      BY DEF Split
    <2> QED BY <2>1, <2>2, FS_Subset
  <1>2. PICK s : Split = {s}
    BY <1>1, FS_Singleton
  <1>3. s \in 1..N /\ Splits(SeqLen(cu, s), Ssl) /\ N # 0
    BY <1>2 DEF Split
  <1>4. Ssl \in Nat \ {0} /\ N \in Nat \ {0}
    BY <1>2, SplitFacts
  <1>5. PICK k \in 1..N : /\ \A i \in 1..N : SeqLen(cu, i) <= SeqLen(cu, k)
                          /\ Ssl = SubseqLen(SeqLen(cu, k), N)
    BY <1>3, SslFacts
  <1>6. \A i \in 1..N : SeqLen(cu, i) \in Nat
    BY BatchFacts
  <1>7. k = s
    <2>1. SeqLen(cu, k) >= 3 * Ssl
      <3>1. SeqLen(cu, s) >= 3 * Ssl
        BY <1>3 DEF Splits
      <3> QED BY <1>3, <1>4, <1>5, <1>6, <3>1
    <2>2. k \in Split
      BY <2>1 DEF Split, Splits
    <2> QED BY <1>2, <2>2
  <1>8. SeqLen(cu, s) \in Nat \ {0}
    BY <1>3, <1>4, <1>6 DEF Splits
  <1> DEFINE c == NumSubseqs(SeqLen(cu, s), Ssl)
  <1>9. (c + (N - 1)) * PerSeqUnits <= Sms
    BY <1>3, <1>4, <1>5, <1>7, <1>8, SingleSplitOccupancy
  <1>10. c \in Nat
    BY <1>3, <1>4, <1>8, Enough
  <1>11. Counts[s] = c /\ \A i \in (1..N) \ {s} : Counts[i] = 1
    <2>1. \A i \in (1..N) \ {s} : ~Splits(SeqLen(cu, i), Ssl)
      BY <1>2 DEF Split
    <2> QED BY <1>3, <2>1 DEF Counts, NumSubseqs
  <1> HIDE DEF c
  <1>12. Total(Counts) = Sum(Counts, 1..N)
    <2>1. DOMAIN Counts = 1..N
      BY DEF Counts
    <2> QED BY <2>1 DEF Total, FoldFunction, Sum
  <1>13. Sum(Counts, 1..N) = Counts[s] + Sum(Counts, (1..N) \ {s})
    <2>1. \A i \in 1..N : Counts[i] \in Int
      BY <1>10, <1>11
    <2> QED BY <1>1, <1>3, <2>1, SumAny
  <1>14. Sum(Counts, (1..N) \ {s}) = N - 1
    <2>1. Cardinality(1..N) = N
      BY <1>4, FS_Interval
    <2>2. IsFiniteSet((1..N) \ {s}) /\ Cardinality((1..N) \ {s}) = N - 1
      <3>1. IsFiniteSet((1..N) \ {s})
        BY <1>1, FS_Subset
      <3>2. Cardinality((1..N) \ {s}) = Cardinality(1..N) - 1
        BY <1>1, <1>3, FS_RemoveElement
      <3> QED BY <2>1, <3>1, <3>2
    <2> QED BY <1>11, <2>2, SumOfOnes
  <1>15. Total(Counts) = c + (N - 1)
    BY <1>11, <1>12, <1>13, <1>14
  <1>16. ~((c + (N - 1)) * PerSeqUnits > Sms)
    <2>1. (c + (N - 1)) * PerSeqUnits \in Nat
      BY <1>4, <1>10, UnitsFact
    <2> QED BY <1>9, <2>1
  <1> QED BY <1>2, <1>15, <1>16

\* The calls refused for want of room were not such.
Fits ==
    /\ call \in Sm100Calls \cup Sm90Calls \cup HopperCalls
    /\ SingleSplitFits

LEMMA SameSplit ==
    ASSUME call' = call
    PROVE  Split' = Split /\ (DividesByZero' <=> DividesByZero)
  BY DEF Split, DividesByZero, Ssl, cu, N

LEMMA FitsStep == Fits /\ [Next]_vars => Fits'
  <1> SUFFICES ASSUME Fits, [Next]_vars PROVE Fits'
    OBVIOUS
  <1>1. ASSUME call' = call,
               outcome' # "NotSplittableError" \/ call.path # "sm100" \/ outcome' = outcome
        PROVE  Fits'
    BY <1>1, SameSplit DEF Fits, SingleSplitFits
  <1>2. CASE Sm100Next
    <2>1. CASE Decide
      <3>1. call' = call
        BY <2>1 DEF Decide
      <3>2. outcome' = "NotSplittableError" => call.misfit # "none" \/ outcome' = outcome
        BY <2>1 DEF Decide, Leave, Raise
      <3> QED BY <3>1, <3>2, SameSplit DEF Fits, SingleSplitFits
    <2>2. CASE Plan
      <3>1. call' = call /\ call.path = "sm100" /\ call \in Sm100Calls
        BY <2>2, PathOfCall DEF Plan, Fits
      <3>2. CASE DividesByZero
        BY <1>1, <2>2, <3>1, <3>2 DEF Plan, Raise
      <3>3. CASE ~DividesByZero /\ (Split = {} \/ Total(Counts) * PerSeqUnits > Sms)
        <4>1. Cardinality(Split) # 1
          <5>1. SUFFICES ASSUME Cardinality(Split) = 1 PROVE FALSE
            OBVIOUS
          <5>2. Split # {} /\ ~(Total(Counts) * PerSeqUnits > Sms)
            BY <3>1, <3>3, <5>1, OneSplitFits
          <5> QED BY <3>3, <5>2
        <4> QED BY <3>1, <4>1, SameSplit DEF Fits, SingleSplitFits
      <3>4. CASE ~DividesByZero /\ ~(Split = {} \/ Total(Counts) * PerSeqUnits > Sms)
        BY <1>1, <2>2, <3>1, <3>4 DEF Plan
      <3> QED BY <3>2, <3>3, <3>4
    <2>3. CASE PreScan
      BY <1>1, <2>3 DEF PreScan
    <2>4. ASSUME NEW q \in toMerge, MergeBlock(q) PROVE Fits'
      BY <1>1, <2>4 DEF MergeBlock
    <2>5. CASE Scatter
      BY <1>1, <2>5 DEF Scatter
    <2>6. CASE FwdPieces
      BY <1>1, <2>6 DEF FwdPieces
    <2>7. CASE Serial
      BY <1>1, <2>7 DEF Serial
    <2> QED BY <1>2, <2>1, <2>2, <2>3, <2>4, <2>5, <2>6, <2>7 DEF Sm100Next
  <1>3. CASE Sm90Next
    BY <1>1, <1>3, Sm90Steps
  <1>4. CASE HopperNext
    BY <1>1, <1>4 DEF HopperNext, DecideHopper, ScanTile, RunPieces, RunWhole
  <1>5. CASE Done \/ UNCHANGED vars
    BY <1>1, <1>5 DEF Done, vars
  <1> QED BY <1>2, <1>3, <1>4, <1>5 DEF Next

\* A batch of which one sequence is split is never refused for occupancy, for
\* any lengths, heads and SMs: the promise of compute_subseq_len's docstring.
THEOREM SingleSplitAlwaysFits == Spec => []SingleSplitFits
  <1>1. Init => Fits
    BY DEF Init, Begin, Fits, SingleSplitFits
  <1>2. Fits => SingleSplitFits
    BY DEF Fits
  <1> QED BY <1>1, <1>2, FitsStep, PTL DEF Spec

-----------------------------------------------------------------------------
(***************************************************************************)
(* The recurrence along part of a sequence.                                *)
(***************************************************************************)
Batch ==
    /\ N \in Nat
    /\ \A i \in 1..(N + 1) : cu[i] \in Nat
    /\ \A i, j \in 1..(N + 1) : i <= j => cu[i] <= cu[j]

\* Token t of sequence i, or its end, where a piece may begin or end.
AtChunk(i, t) == \E m \in Nat : t = cu[i] + m * BT
Boundary(i, t) == t \in cu[i]..cu[i + 1] /\ (AtChunk(i, t) \/ t = cu[i + 1])

LEMMA ModMultiple ==
    ASSUME NEW m \in Nat, NEW b \in Nat \ {0}
    PROVE  (m * b) % b = 0
  OBVIOUS

\* The chunk at token a of sequence i takes its state from a to the next chunk.
LEMMA AdvanceStep ==
    ASSUME Batch, NEW i \in 1..N, NEW a \in Nat, cu[i] <= a, a < cu[i + 1], AtChunk(i, a)
    PROVE  Advance(After(i, a), a, Smaller(a + BT, cu[i + 1]))
             = After(i, Smaller(a + BT, cu[i + 1]))
  <1> DEFINE b == Smaller(a + BT, cu[i + 1])
             here == {k \in 1..N :
                        /\ cu[k] <= a /\ a < cu[k + 1] /\ (a - cu[k]) % BT = 0
                        /\ b = Smaller(a + BT, cu[k + 1]) /\ After(i, a) = After(k, a)}
  <1>1. (a - cu[i]) % BT = 0
    <2>1. PICK m \in Nat : a = cu[i] + m * BT
      BY DEF AtChunk
    <2>2. m * BT \in Nat /\ cu[i] \in Nat
      BY <2>1 DEF Batch
    <2>3. a - cu[i] = m * BT
      BY <2>1, <2>2
    <2> QED BY <2>3, ModMultiple
  <1>2. i \in here
    BY <1>1
  <1>3. ASSUME NEW k \in here PROVE k = i
    <2>1. /\ k \in 1..N /\ cu[k] <= a /\ a < cu[k + 1]
          /\ cu[k] \in Nat /\ cu[k + 1] \in Nat /\ cu[i] \in Nat /\ cu[i + 1] \in Nat
      BY DEF Batch
    <2>2. ~(k < i)
      <3>1. k < i => cu[k + 1] <= cu[i]
        BY DEF Batch
      <3> QED BY <2>1, <3>1
    <2>3. ~(i < k)
      <3>1. i < k => cu[i + 1] <= cu[k]
        BY <2>1 DEF Batch
      <3> QED BY <2>1, <3>1
    <2> QED BY <2>1, <2>2, <2>3 DEF Batch
  <1>4. here # {} /\ (CHOOSE k \in here : TRUE) = i
    BY <1>2, <1>3
  <1>5. Advance(After(i, a), a, b)
          = IF here = {} THEN Bad ELSE After(CHOOSE k \in here : TRUE, b)
    BY DEF Advance
  <1> HIDE DEF here
  <1> QED BY <1>4, <1>5

\* Along is a recursive function; whatever follows the recursion is it.
Follows(A, ranges, st, n) ==
    /\ A = [x \in 1..(n + 1) |-> A[x]]
    /\ A[1] = st
    /\ \A x \in 1..n : A[x + 1] = Advance(A[x], ranges[x][1], ranges[x][2])

LEMMA AlongIs ==
    ASSUME NEW n \in Nat, NEW ranges, Len(ranges) = n, NEW st, NEW A, Follows(A, ranges, st, n)
    PROVE  Along(ranges, st) = A
  <1> DEFINE Step1(f, x) == IF x = 1 THEN st
                            ELSE Advance(f[x - 1], ranges[x - 1][1], ranges[x - 1][2])
             R(f) == f = [x \in 1..(n + 1) |-> Step1(f, x)]
             f0 == CHOOSE f : R(f)
  <1>1. Along(ranges, st) = f0
    BY DEF Along
  <1>2. R(A)
    <2>1. \A x \in 1..(n + 1) : A[x] = Step1(A, x)
      <3> SUFFICES ASSUME NEW x \in 1..(n + 1) PROVE A[x] = Step1(A, x)
        OBVIOUS
      <3>1. CASE x = 1
        BY <3>1 DEF Follows
      <3>2. CASE x # 1
        <4>1. x - 1 \in 1..n /\ (x - 1) + 1 = x
          BY <3>2
        <4>2. A[(x - 1) + 1] = Advance(A[x - 1], ranges[x - 1][1], ranges[x - 1][2])
          BY <4>1 DEF Follows
        <4> QED BY <3>2, <4>1, <4>2
      <3> QED BY <3>1, <3>2
    <2>2. A = [x \in 1..(n + 1) |-> A[x]]
      BY DEF Follows
    <2> HIDE DEF Step1
    <2> QED BY <2>1, <2>2
  <1>3. R(f0)
    <2> HIDE DEF R
    <2> QED BY <1>2
  <1> HIDE DEF f0
  <1> DEFINE G == {x \in 1..(n + 1) : f0[x] = A[x]}
  <1>4. 1 \in G
    <2>1. 1 \in 1..(n + 1)
      OBVIOUS
    <2>2. f0[1] = Step1(f0, 1)
      BY <1>3, <2>1
    <2> QED BY <2>1, <2>2 DEF Follows
  <1>5. ASSUME NEW x \in 1 .. (n + 1) - 1, x \in G PROVE x + 1 \in G
    <2>1. x + 1 \in 1..(n + 1) /\ x + 1 # 1 /\ (x + 1) - 1 = x /\ x \in 1..n
      OBVIOUS
    <2>2. f0[x + 1] = Step1(f0, x + 1)
      BY <1>3, <2>1
    <2>3. f0[x + 1] = Advance(f0[x], ranges[x][1], ranges[x][2])
      BY <2>1, <2>2
    <2>4. A[x + 1] = Advance(A[x], ranges[x][1], ranges[x][2])
      BY <2>1 DEF Follows
    <2> QED BY <1>5, <2>1, <2>3, <2>4
  <1>6. 1 .. n + 1 \subseteq G
    <2>1. 1 \in Int /\ n + 1 \in Int
      OBVIOUS
    <2> HIDE DEF G
    <2> QED BY <1>4, <1>5, <2>1, UpFrom
  <1>7. \A x \in 1..(n + 1) : f0[x] = A[x]
    BY <1>6
  <1>8. f0 = [x \in 1..(n + 1) |-> f0[x]] /\ A = [x \in 1..(n + 1) |-> A[x]]
    <2>1. f0 = [x \in 1..(n + 1) |-> f0[x]]
      BY <1>3
    <2> QED BY <2>1 DEF Follows
  <1> QED BY <1>1, <1>7, <1>8

LEMMA CeilDivShift ==
    ASSUME NEW m \in Nat, NEW d \in Nat, NEW b \in Nat \ {0}
    PROVE  CeilDiv(m * b + d, b) = m + CeilDiv(d, b)
  <1> DEFINE q == CeilDiv(d, b)
             r == CeilDiv(m * b + d, b)
  <1>1. m * b \in Nat /\ m * b + d \in Nat
    OBVIOUS
  <1>2. q \in Nat /\ d <= q * b
    BY CeilDivFacts
  <1>3. r \in Nat /\ m * b + d <= r * b
    BY <1>1, CeilDivFacts
  <1>4. r <= m + q
    <2>1. (m + q) * b = m * b + q * b /\ q * b \in Nat
      BY <1>2
    <2>2. m * b + d <= (m + q) * b
      <3> HIDE DEF q
      <3> QED BY <1>1, <1>2, <2>1
    <2> QED BY <1>1, <1>2, <2>2, CeilDivLeast
  <1>5. r - m \in Nat
    <2> SUFFICES ASSUME r + 1 <= m PROVE FALSE
      BY <1>3
    <2>1. (r + 1) * b <= m * b
      BY <1>3, TimesMono
    <2>2. (r + 1) * b = r * b + b /\ r * b \in Nat
      BY <1>3
    <2> HIDE DEF r
    <2> QED BY <1>1, <1>3, <2>1, <2>2
  <1>6. q <= r - m
    <2>1. (r - m) * b = r * b - m * b /\ r * b \in Nat
      BY <1>3
    <2>2. d <= (r - m) * b
      <3> HIDE DEF r
      <3> QED BY <1>1, <1>3, <2>1
    <2> QED BY <1>5, <2>2, CeilDivLeast
  <1> HIDE DEF q, r
  <1>7. r = m + q
    BY <1>2, <1>3, <1>4, <1>5, <1>6
  <1> QED BY <1>7 DEF q, r

\* The chunks of a part of a sequence: they begin inside it.
LEMMA ChunkStarts ==
    ASSUME NEW d \in Nat, NEW x \in 1..Chunks(d)
    PROVE  (x - 1) * BT \in Nat /\ x * BT = (x - 1) * BT + BT /\ (x - 1) * BT < d
  <1> DEFINE q == Chunks(d)
  <1>1. q \in Nat /\ q * BT < d + BT
    BY CeilDivFacts DEF Chunks
  <1> HIDE DEF q
  <1>2. x \in Nat /\ x <= q /\ x - 1 \in Nat
    BY <1>1 DEF q
  <1>3. x * BT <= q * BT
    BY <1>1, <1>2, TimesMono
  <1>4. x * BT = (x - 1) * BT + BT /\ (x - 1) * BT \in Nat /\ q * BT \in Nat
    BY <1>1, <1>2
  <1> QED BY <1>1, <1>3, <1>4

LEMMA ChunksEnough ==
    ASSUME NEW d \in Nat
    PROVE  Chunks(d) \in Nat /\ Chunks(d) * BT \in Nat /\ d <= Chunks(d) * BT
  <1> DEFINE q == CeilDiv(d, BT)
  <1>1. q \in Nat /\ d <= q * BT
    BY CeilDivFacts
  <1> HIDE DEF q
  <1>2. q * BT \in Nat
    BY <1>1
  <1> QED BY <1>1, <1>2 DEF q, Chunks

LEMMA ChunksOfNone == Chunks(0) = 0
  <1>1. 0 * BT = 0
    OBVIOUS
  <1>2. CeilDiv(0 * BT, BT) = 0
    BY CeilDivExact
  <1> QED BY <1>1, <1>2 DEF Chunks

\* The states along a part of a sequence that begins at a chunk, or is empty,
\* and ends where a chunk does.
LEMMA TraceIs ==
    ASSUME Batch, NEW i \in 1..N, NEW s, NEW e, Boundary(i, s), Boundary(i, e), s <= e
    PROVE  Trace(s, e, After(i, s))
             = [x \in 1..(Chunks(e - s) + 1) |-> After(i, Smaller(s + (x - 1) * BT, e))]
  <1> DEFINE n == Chunks(e - s)
             A == [x \in 1..(n + 1) |-> After(i, Smaller(s + (x - 1) * BT, e))]
             ranges == ChunkRanges(s, e)
  <1>1. /\ s \in Nat /\ e \in Nat /\ e - s \in Nat
        /\ cu[i] \in Nat /\ cu[i + 1] \in Nat
        /\ cu[i] <= s /\ e <= cu[i + 1]
    BY DEF Batch, Boundary
  <1>2. n \in Nat
    BY <1>1, ChunksEnough
  <1>3. Len(ranges) = n /\ ranges = [c \in 1..n |-> <<s + (c - 1) * BT, Smaller(s + c * BT, e)>>]
    BY <1>2 DEF ChunkRanges
  <1>4. A[1] = After(i, s)
    <2>1. 1 \in 1..(n + 1) /\ s + (1 - 1) * BT = s
      BY <1>1, <1>2
    <2>2. Smaller(s, e) = s
      BY <1>1 DEF Smaller
    <2> QED BY <2>1, <2>2
  <1>5. ASSUME NEW x \in 1..n
        PROVE  A[x + 1] = Advance(A[x], ranges[x][1], ranges[x][2])
    <2> DEFINE a == s + (x - 1) * BT
               b == Smaller(s + x * BT, e)
    <2>1. (x - 1) * BT \in Nat /\ x * BT = (x - 1) * BT + BT /\ (x - 1) * BT < e - s
      BY <1>1, ChunkStarts
    <2>2. x \in 1..(n + 1) /\ x + 1 \in 1..(n + 1) /\ (x + 1) - 1 = x
      BY <1>2
    <2>3. ranges[x][1] = a /\ ranges[x][2] = b
      BY <1>3
    <2>4. a \in Nat /\ cu[i] <= a /\ a < e /\ a < cu[i + 1]
      BY <1>1, <2>1
    <2>5. A[x] = After(i, a)
      <3>1. Smaller(a, e) = a
        BY <2>4 DEF Smaller
      <3> QED BY <2>2, <3>1
    <2>6. A[x + 1] = After(i, b)
      BY <2>2
    <2>7. PICK k \in Nat : s = cu[i] + k * BT
      <3>1. s # cu[i + 1]
        BY <1>1, <2>1
      <3> QED BY <3>1 DEF Boundary, AtChunk
    <2>8. AtChunk(i, a)
      <3>1. k + (x - 1) \in Nat /\ k * BT \in Nat
        BY <2>2, <2>7
      <3>2. (k + (x - 1)) * BT = k * BT + (x - 1) * BT
        BY <2>7
      <3>3. a = cu[i] + (k + (x - 1)) * BT
        BY <1>1, <2>1, <2>7, <3>1, <3>2
      <3> QED BY <3>1, <3>3 DEF AtChunk
    <2>9. b = Smaller(a + BT, cu[i + 1])
      <3>1. s + x * BT = a + BT
        BY <1>1, <2>1
      <3>2. CASE e = cu[i + 1]
        BY <3>1, <3>2
      <3>3. CASE e # cu[i + 1]
        <4>1. PICK m \in Nat : e = cu[i] + m * BT
          BY <3>3 DEF Boundary, AtChunk
        <4>2. k * BT \in Nat /\ m * BT \in Nat
          BY <2>7, <4>1
        <4>3. m - k \in Nat
          <5> SUFFICES ASSUME m + 1 <= k PROVE FALSE
            BY <2>7, <4>1
          <5>1. (m + 1) * BT <= k * BT
            BY <2>7, <4>1, TimesMono
          <5>2. (m + 1) * BT = m * BT + BT
            BY <4>1
          <5> QED BY <1>1, <2>7, <4>1, <4>2, <5>1, <5>2
        <4>4. (m - k) * BT = m * BT - k * BT
          BY <2>7, <4>1
        <4>5. e - s = (m - k) * BT
          BY <1>1, <2>7, <4>1, <4>2, <4>4
        <4>6. n = m - k
          BY <4>3, <4>5, CeilDivExact DEF Chunks
        <4>7. x * BT <= n * BT
          BY <1>2, TimesMono
        <4>8. a + BT <= e
          <5>1. x * BT <= e - s /\ x * BT \in Nat
            BY <2>1, <4>5, <4>6, <4>7
          <5> QED BY <1>1, <3>1, <5>1
        <4> HIDE DEF a, n, A, ranges
        <4>9. Smaller(a + BT, e) = a + BT /\ Smaller(a + BT, cu[i + 1]) = a + BT
          BY <1>1, <2>4, <4>8 DEF Smaller
        <4> QED BY <3>1, <4>9
      <3> QED BY <3>2, <3>3
    <2> HIDE DEF a, b, A, ranges
    <2> QED BY <2>3, <2>4, <2>5, <2>6, <2>8, <2>9, AdvanceStep
  <1>6. A = [x \in 1..(n + 1) |-> A[x]]
    OBVIOUS
  <1> HIDE DEF A, n, ranges
  <1>7. Follows(A, ranges, After(i, s), n)
    BY <1>4, <1>5, <1>6 DEF Follows
  <1>8. Along(ranges, After(i, s)) = A
    BY <1>2, <1>3, <1>7, AlongIs
  <1> QED BY <1>8 DEF Trace, A, n, ranges

\* Its rows and its last state.
LEMMA PartIs ==
    ASSUME Batch, NEW i \in 1..N, NEW s, NEW e, Boundary(i, s), Boundary(i, e), s <= e
    PROVE  /\ Front(Trace(s, e, After(i, s)))
                = [x \in 1..Chunks(e - s) |-> After(i, s + (x - 1) * BT)]
           /\ Last(Trace(s, e, After(i, s))) = After(i, e)
  <1> DEFINE n == Chunks(e - s)
             t == Trace(s, e, After(i, s))
  <1>1. /\ s \in Nat /\ e \in Nat /\ e - s \in Nat
    BY DEF Batch, Boundary
  <1>2. n \in Nat /\ n * BT \in Nat /\ e - s <= n * BT
    BY <1>1, ChunksEnough
  <1>3. t = [x \in 1..(n + 1) |-> After(i, Smaller(s + (x - 1) * BT, e))]
    BY TraceIs
  <1> HIDE DEF t
  <1>4. Len(t) = n + 1
    BY <1>2, <1>3
  <1>5. Last(t) = After(i, e)
    <2>1. Last(t) = After(i, Smaller(s + ((n + 1) - 1) * BT, e))
      BY <1>2, <1>3, <1>4 DEF Last
    <2>2. ((n + 1) - 1) = n
      BY <1>2
    <2>3. Smaller(s + n * BT, e) = e
      <3> HIDE DEF n
      <3> QED BY <1>1, <1>2 DEF Smaller
    <2> QED BY <2>1, <2>2, <2>3
  <1>6. Front(t) = [x \in 1..n |-> t[x]]
    <2>1. Front(t) = SubSeq(t, 1, (n + 1) - 1)
      BY <1>4 DEF Front
    <2>2. (n + 1) - 1 = n
      BY <1>2
    <2>3. SubSeq(t, 1, n) = [x \in 1..n |-> t[x]]
      <3> HIDE DEF n
      <3> QED BY <1>2
    <2> QED BY <2>1, <2>2, <2>3
  <1>7. ASSUME NEW x \in 1..n PROVE t[x] = After(i, s + (x - 1) * BT)
    <2>1. (x - 1) * BT \in Nat /\ (x - 1) * BT < e - s
      BY <1>1, ChunkStarts
    <2>2. Smaller(s + (x - 1) * BT, e) = s + (x - 1) * BT
      BY <1>1, <2>1 DEF Smaller
    <2>3. x \in 1..(n + 1)
      BY <1>2
    <2> QED BY <1>3, <2>2, <2>3
  <1>8. Front(t) = [x \in 1..n |-> After(i, s + (x - 1) * BT)]
    BY <1>6, <1>7
  <1> QED BY <1>5, <1>8 DEF t

\* The serial kernel is the serial recurrence.
LEMMA WholeIs ==
    ASSUME Batch
    PROVE  FwdRows(cu, InitialStates) = SerialRows /\ FwdFinal(cu, InitialStates) = SerialFinal
  <1>1. NumSeqs(cu) = N
    BY DEF N
  <1>2. ASSUME NEW i \in 1..N
        PROVE  /\ Front(Trace(cu[i], cu[i + 1], InitialStates[i]))
                    = [c \in 1..Chunks(SeqLen(cu, i)) |-> After(i, cu[i] + (c - 1) * BT)]
               /\ Last(Trace(cu[i], cu[i + 1], InitialStates[i])) = After(i, cu[i + 1])
    <2>1. cu[i] \in Nat /\ cu[i + 1] \in Nat /\ cu[i] <= cu[i + 1]
      BY DEF Batch
    <2>2. Boundary(i, cu[i]) /\ Boundary(i, cu[i + 1])
      <3>1. cu[i] = cu[i] + 0 * BT
        BY <2>1
      <3>2. AtChunk(i, cu[i])
        BY <3>1 DEF AtChunk
      <3> QED BY <2>1, <3>2 DEF Boundary
    <2>3. InitialStates[i] = After(i, cu[i])
      BY DEF InitialStates
    <2> DEFINE s == cu[i]
               e == cu[i + 1]
    <2>4. Boundary(i, s) /\ Boundary(i, e) /\ s <= e
      BY <2>1, <2>2
    <2> HIDE DEF s, e
    <2>5. /\ Front(Trace(s, e, After(i, s)))
                = [x \in 1..Chunks(e - s) |-> After(i, s + (x - 1) * BT)]
          /\ Last(Trace(s, e, After(i, s))) = After(i, e)
      BY <2>4, PartIs
    <2> QED BY <2>3, <2>5 DEF s, e, SeqLen
  <1>3. [p \in 1..N |-> Front(Trace(cu[p], cu[p + 1], InitialStates[p]))]
          = [i \in 1..N |-> [c \in 1..Chunks(SeqLen(cu, i)) |-> After(i, cu[i] + (c - 1) * BT)]]
    BY <1>2
  <1>4. [p \in 1..N |-> Last(Trace(cu[p], cu[p + 1], InitialStates[p]))]
          = [i \in 1..N |-> After(i, cu[i + 1])]
    BY <1>2
  <1> QED BY <1>1, <1>3, <1>4 DEF FwdRows, FwdFinal, SerialRows, SerialFinal

\* The chunks up to a boundary and from there.
LEMMA ChunksJoin ==
    ASSUME Batch, NEW i \in 1..N, NEW s, NEW e, Boundary(i, s), Boundary(i, e), s <= e
    PROVE  /\ Chunks(s - cu[i]) \in Nat /\ Chunks(e - s) \in Nat
           /\ Chunks(e - cu[i]) = Chunks(s - cu[i]) + Chunks(e - s)
           /\ s < e => s = cu[i] + Chunks(s - cu[i]) * BT
  <1>1. /\ s \in Nat /\ e \in Nat /\ e - s \in Nat /\ s - cu[i] \in Nat
        /\ cu[i] \in Nat /\ cu[i + 1] \in Nat
        /\ cu[i] <= s /\ e <= cu[i + 1]
    BY DEF Batch, Boundary
  <1>2. Chunks(s - cu[i]) \in Nat /\ Chunks(e - s) \in Nat
    BY <1>1, ChunksEnough
  <1>3. CASE s = e
    <2>1. e - s = 0
      BY <1>1, <1>3
    <2> QED BY <1>1, <1>2, <1>3, <2>1, ChunksOfNone
  <1>4. CASE s # e
    <2>1. s < e /\ s # cu[i + 1]
      BY <1>1, <1>4
    <2>2. PICK m \in Nat : s = cu[i] + m * BT
      BY <2>1 DEF Boundary, AtChunk
    <2>3. m * BT \in Nat
      BY <2>2
    <2>4. s - cu[i] = m * BT /\ e - cu[i] = m * BT + (e - s)
      BY <1>1, <2>2, <2>3
    <2>5. Chunks(s - cu[i]) = m
      BY <2>4, CeilDivExact DEF Chunks
    <2>6. Chunks(e - cu[i]) = m + Chunks(e - s)
      BY <1>1, <2>4, CeilDivShift DEF Chunks
    <2> QED BY <1>2, <2>2, <2>5, <2>6
  <1> QED BY <1>2, <1>3, <1>4

\* The rows of the sequences before one, in the layout of the batch.
SeqChunks == [i \in 1..N |-> Chunks(SeqLen(cu, i))]
SeqOff(i) == Total([k \in 1..(i - 1) |-> SeqChunks[k]])
SeqOffs == [i \in 1..(N + 1) |-> SeqOff(i)]

LEMMA SeqOffsRun ==
    ASSUME Batch
    PROVE  /\ Running(SeqOffs, SeqChunks, N)
           /\ \A i \in 1..(N + 1) : SeqOffs[i] = SeqOff(i) /\ SeqOff(i) \in Nat
           /\ \A i \in 1..N : SeqOff(i + 1) = SeqOff(i) + SeqChunks[i]
           /\ SeqOff(1) = 0
  <1>1. N \in Nat /\ \A k \in 1..N : SeqChunks[k] \in Nat
    <2> SUFFICES ASSUME NEW k \in 1..N PROVE SeqChunks[k] \in Nat
      BY DEF Batch
    <2>1. SeqLen(cu, k) \in Nat
      BY DEF Batch, SeqLen
    <2> QED BY <2>1, ChunksEnough DEF SeqChunks
  <1>2. \A i \in 1..(N + 1) : SeqOffs[i] = Total([k \in 1..(i - 1) |-> SeqChunks[k]])
    BY DEF SeqOffs, SeqOff
  <1>3. /\ SeqOffs[1] = 0
        /\ \A i \in 1..N : SeqOffs[i + 1] = SeqOffs[i] + SeqChunks[i]
        /\ \A i \in 1..(N + 1) : SeqOffs[i] \in Nat
    BY <1>1, <1>2, PrefixSums
  <1>4. \A i \in 1..(N + 1) : SeqOffs[i] = SeqOff(i)
    BY DEF SeqOffs
  <1>5. \A i \in 1..N : i \in 1..(N + 1) /\ i + 1 \in 1..(N + 1)
    BY <1>1
  <1>6. 1 \in 1..(N + 1)
    BY <1>1
  <1> QED BY <1>1, <1>3, <1>4, <1>5, <1>6 DEF Running

-----------------------------------------------------------------------------
(***************************************************************************)
(* Layouts: sequence i is cut into K[i] pieces, the pieces of all          *)
(* sequences follow one another, and piece p holds the tokens L[p] up to   *)
(* L[p + 1] - 1.                                                           *)
(***************************************************************************)
Off(K, i) == Total([k \in 1..(i - 1) |-> K[k]])
Offs(K) == [i \in 1..(N + 1) |-> Off(K, i)]
Parted(K) == N \in Nat \ {0} /\ \A i \in 1..N : K[i] \in Nat \ {0}

LEMMA OffsRun ==
    ASSUME N \in Nat, NEW K, \A i \in 1..N : K[i] \in Nat
    PROVE  /\ Running(Offs(K), K, N)
           /\ \A i \in 1..(N + 1) : Offs(K)[i] = Off(K, i) /\ Off(K, i) \in Nat
           /\ Off(K, 1) = 0
           /\ \A i \in 1..N : Off(K, i + 1) = Off(K, i) + K[i]
  <1>2. \A i \in 1..(N + 1) : Offs(K)[i] = Total([k \in 1..(i - 1) |-> K[k]])
    BY DEF Offs, Off
  <1>3. /\ Offs(K)[1] = 0
        /\ \A i \in 1..N : Offs(K)[i + 1] = Offs(K)[i] + K[i]
        /\ \A i \in 1..(N + 1) : Offs(K)[i] \in Nat
    BY <1>2, PrefixSums
  <1>4. \A i \in 1..(N + 1) : Offs(K)[i] = Off(K, i)
    BY DEF Offs
  <1>5. \A i \in 1..N : i \in 1..(N + 1) /\ i + 1 \in 1..(N + 1) /\ 1 \in 1..(N + 1)
    OBVIOUS
  <1>6. 1 \in 1..(N + 1)
    OBVIOUS
  <1> QED BY <1>3, <1>4, <1>5, <1>6 DEF Running

\* Every piece is one of a sequence's.
LEMMA PlaceOf ==
    ASSUME NEW K, Parted(K)
    PROVE  /\ Off(K, N + 1) \in Nat \ {0}
           /\ \A i \in 1..N : \A j \in 1..K[i] : Off(K, i) + j \in 1..Off(K, N + 1)
           /\ \A p \in 1..Off(K, N + 1) : \E i \in 1..N : \E j \in 1..K[i] : p = Off(K, i) + j
           /\ \A i, k \in 1..N : \A j \in 1..K[i], l \in 1..K[k] :
                 Off(K, i) + j = Off(K, k) + l => i = k /\ j = l
  <1>1. /\ N \in Nat \ {0} /\ Running(Offs(K), K, N)
        /\ \A i \in 1..(N + 1) : Offs(K)[i] = Off(K, i) /\ Off(K, i) \in Nat
        /\ \A i \in 1..N : Off(K, i + 1) = Off(K, i) + K[i] /\ K[i] \in Nat \ {0}
    BY OffsRun DEF Parted
  <1>2. \A i \in 1..N : i \in 1..(N + 1) /\ i + 1 \in 1..(N + 1)
    BY <1>1
  <1>3. Offs(K)[N + 1] = Off(K, N + 1) /\ N + 1 \in 1..(N + 1)
    BY <1>1
  <1>4. \A i \in 1..N : Off(K, i) + K[i] <= Off(K, N + 1)
    <2> SUFFICES ASSUME NEW i \in 1..N PROVE Off(K, i) + K[i] <= Off(K, N + 1)
      OBVIOUS
    <2>1. i + 1 \in 1..(N + 1) /\ i + 1 <= N + 1
      BY <1>1
    <2>2. Offs(K)[i + 1] <= Offs(K)[N + 1]
      BY <1>1, <1>3, <2>1, RunningGrows
    <2> QED BY <1>1, <1>2, <1>3, <2>2
  <1>5. Off(K, N + 1) \in Nat \ {0}
    <2>1. N \in 1..N
      BY <1>1
    <2> QED BY <1>1, <1>4, <2>1
  <1>6. ASSUME NEW i \in 1..N, NEW j \in 1..K[i]
        PROVE  Off(K, i) + j \in 1..Off(K, N + 1) /\ Off(K, i) + j \in (Offs(K)[i] + 1)..Offs(K)[i + 1]
    <2>1. Off(K, i) \in Nat /\ K[i] \in Nat /\ Off(K, N + 1) \in Nat
      BY <1>1, <1>2, <1>5
    <2> QED BY <1>1, <1>2, <1>4, <2>1, InPart
  <1>7. ASSUME NEW p \in 1..Off(K, N + 1)
        PROVE  \E i \in 1..N : \E j \in 1..K[i] : p = Off(K, i) + j
    <2>1. PICK i \in 1..N : p - Offs(K)[i] \in 1..K[i]
      BY <1>1, <1>3, Located
    <2>2. Offs(K)[i] = Off(K, i) /\ Off(K, i) \in Nat
      BY <1>1, <1>2
    <2>3. p = Off(K, i) + (p - Off(K, i))
      BY <1>5, <2>2
    <2> QED BY <2>1, <2>2, <2>3
  <1>8. ASSUME NEW i \in 1..N, NEW k \in 1..N, NEW j \in 1..K[i], NEW l \in 1..K[k],
               Off(K, i) + j = Off(K, k) + l
        PROVE  i = k /\ j = l
    <2> DEFINE x == Off(K, i) + j
    <2>1. x \in 1..Offs(K)[N + 1] /\ x \in (Offs(K)[i] + 1)..Offs(K)[i + 1]
          /\ x \in (Offs(K)[k] + 1)..Offs(K)[k + 1]
      BY <1>3, <1>6, <1>8
    <2> HIDE DEF x
    <2>2. i = k
      BY <1>1, <2>1, Located
    <2>3. Off(K, i) \in Nat
      BY <1>1, <1>2
    <2> QED BY <1>8, <2>2, <2>3
  <1> QED BY <1>5, <1>6, <1>7, <1>8
\* The pieces lie in their sequences, one after another, cut at chunks.
InOrder(L, K, i, j) ==
    LET p == Off(K, i) + j
    IN  Boundary(i, L[p]) /\ Boundary(i, L[p + 1]) /\ L[p] <= L[p + 1]
Layout(L, K) ==
    /\ Batch /\ Parted(K)
    /\ \A i \in 1..N : \A j \in 1..K[i] : InOrder(L, K, i, j)
    /\ \A i \in 1..N : L[Off(K, i) + 1] = cu[i] /\ L[Off(K, i + 1) + 1] = cu[i + 1]

\* The sequence of a piece, its chunks, and the chunks before it.
Own(K, p) == CHOOSE i \in 1..N : \E j \in 1..K[i] : p = Off(K, i) + j
PieceChunks(L, K) == [p \in 1..Off(K, N + 1) |-> Chunks(L[p + 1] - L[p])]
PieceOffs(L, K) ==
    [p \in 1..(Off(K, N + 1) + 1) |->
        IF p = Off(K, N + 1) + 1 THEN SeqOff(N + 1)
        ELSE SeqOff(Own(K, p)) + Chunks(L[p] - cu[Own(K, p)])]

LEMMA LayoutFacts ==
    ASSUME NEW L, NEW K, Layout(L, K)
    PROVE  /\ Batch /\ Parted(K) /\ N \in Nat \ {0} /\ Off(K, N + 1) \in Nat \ {0}
           /\ \A i \in 1..N : K[i] \in Nat \ {0} /\ Off(K, i) \in Nat
           /\ \A i \in 1..N : Off(K, i + 1) = Off(K, i) + K[i]
           /\ Off(K, 1) = 0
  <1>1. N \in Nat \ {0} /\ Batch /\ Parted(K) /\ \A i \in 1..N : K[i] \in Nat \ {0}
    BY DEF Layout, Parted
  <1>2. \A i \in 1..N : i \in 1..(N + 1)
    BY <1>1
  <1> QED BY <1>1, <1>2, PlaceOf, OffsRun

LEMMA PieceOffsAre ==
    ASSUME NEW L, NEW K, Layout(L, K), NEW i \in 1..N, NEW j \in 1..K[i]
    PROVE  LET p == Off(K, i) + j IN
           /\ p \in 1..Off(K, N + 1)
           /\ PieceOffs(L, K)[p] = SeqOff(i) + Chunks(L[p] - cu[i])
           /\ PieceChunks(L, K)[p] = Chunks(L[p + 1] - L[p])
           /\ PieceOffs(L, K)[p + 1] = SeqOff(i) + Chunks(L[p + 1] - cu[i])
  <1> DEFINE p == Off(K, i) + j
             n == Off(K, N + 1)
  <1>1. /\ Batch /\ Parted(K) /\ N \in Nat \ {0} /\ K[i] \in Nat \ {0} /\ n \in Nat
        /\ Off(K, i) \in Nat /\ Off(K, i + 1) = Off(K, i) + K[i]
    BY LayoutFacts
  <1> HIDE DEF n
  <1>2. ASSUME NEW k \in 1..N, NEW l \in 1..K[k]
        PROVE  /\ Off(K, k) + l \in 1..n
               /\ PieceOffs(L, K)[Off(K, k) + l] = SeqOff(k) + Chunks(L[Off(K, k) + l] - cu[k])
    <2> DEFINE r == Off(K, k) + l
    <2>1. r \in 1..n
      BY <1>1, PlaceOf DEF n
    <2>2. Own(K, r) = k
      <3>1. \A o \in 1..N : (\E m \in 1..K[o] : r = Off(K, o) + m) => o = k
        BY <1>1, PlaceOf
      <3>2. \E m \in 1..K[k] : r = Off(K, k) + m
        OBVIOUS
      <3> HIDE DEF r
      <3> QED BY <3>1, <3>2 DEF Own
    <2> HIDE DEF r
    <2>3. r \in 1..(n + 1) /\ r # n + 1
      BY <1>1, <2>1
    <2>4. PieceOffs(L, K)[r] = SeqOff(k) + Chunks(L[r] - cu[k])
      BY <2>2, <2>3 DEF PieceOffs, n
    <2> QED BY <2>1, <2>4 DEF r
  <1>3. p \in 1..n /\ PieceOffs(L, K)[p] = SeqOff(i) + Chunks(L[p] - cu[i])
    BY <1>2
  <1>4. PieceChunks(L, K)[p] = Chunks(L[p + 1] - L[p])
    BY <1>3 DEF PieceChunks, n
  <1>5. PieceOffs(L, K)[p + 1] = SeqOff(i) + Chunks(L[p + 1] - cu[i])
    <2>1. CASE j # K[i]
      <3>1. j + 1 \in 1..K[i] /\ Off(K, i) + (j + 1) = p + 1
        BY <1>1, <2>1
      <3> QED BY <1>2, <3>1
    <2>2. CASE j = K[i]
      <3>1. Off(K, i + 1) = p
        BY <1>1, <2>2
      <3>2. L[p + 1] = cu[i + 1]
        BY <3>1 DEF Layout
      <3>3. SeqOff(i + 1) = SeqOff(i) + Chunks(L[p + 1] - cu[i])
        <4>1. SeqChunks[i] = Chunks(cu[i + 1] - cu[i])
          BY DEF SeqChunks, SeqLen
        <4> QED BY <1>1, <3>2, <4>1, SeqOffsRun
      <3>4. CASE i = N
        <4>1. p + 1 = n + 1 /\ n + 1 \in 1..(n + 1)
          BY <1>1, <3>1, <3>4 DEF n
        <4>2. PieceOffs(L, K)[n + 1] = SeqOff(N + 1)
          BY <1>1, <4>1 DEF PieceOffs, n
        <4> QED BY <3>3, <3>4, <4>1, <4>2
      <3>5. CASE i # N
        <4>1. i + 1 \in 1..N
          BY <1>1, <3>5
        <4>2. 1 \in 1..K[i + 1]
          BY <1>1, <4>1 DEF Parted
        <4>3. cu[i + 1] \in Nat /\ cu[i + 1] - cu[i + 1] = 0
          BY <1>1, <4>1 DEF Batch
        <4>4. PieceOffs(L, K)[p + 1] = SeqOff(i + 1) + Chunks(cu[i + 1] - cu[i + 1])
          BY <1>2, <3>1, <3>2, <4>1, <4>2
        <4>5. SeqOff(i + 1) \in Nat
          <5>1. i + 1 \in 1..(N + 1)
            BY <1>1
          <5> QED BY <1>1, <5>1, SeqOffsRun
        <4> QED BY <3>3, <4>3, <4>4, <4>5, ChunksOfNone
      <3> QED BY <3>4, <3>5
    <2> QED BY <2>1, <2>2
  <1> QED BY <1>3, <1>4, <1>5 DEF n

LEMMA PieceOffsRun ==
    ASSUME NEW L, NEW K, Layout(L, K)
    PROVE  /\ Running(PieceOffs(L, K), PieceChunks(L, K), Off(K, N + 1))
           /\ PieceOffs(L, K)[Off(K, N + 1) + 1] = SeqOffs[N + 1]
  <1> DEFINE n == Off(K, N + 1)
             O == PieceOffs(L, K)
             C == PieceChunks(L, K)
  <1>1. /\ Batch /\ Parted(K) /\ N \in Nat \ {0} /\ n \in Nat \ {0}
        /\ \A i \in 1..N : K[i] \in Nat \ {0}
        /\ \A i \in 1..(N + 1) : SeqOff(i) \in Nat /\ SeqOffs[i] = SeqOff(i)
        /\ SeqOff(1) = 0 /\ Off(K, 1) = 0
    BY LayoutFacts, SeqOffsRun
  <1>2. O[1] = 0
    <2>1. 1 \in 1..N /\ 1 \in 1..K[1] /\ Off(K, 1) + 1 = 1
      BY <1>1
    <2>2. L[1] = cu[1] /\ cu[1] - cu[1] = 0
      <3>1. cu[1] \in Nat
        BY <1>1 DEF Batch
      <3> QED BY <2>1, <3>1 DEF Layout
    <2>3. O[1] = SeqOff(1) + Chunks(L[1] - cu[1])
      BY <2>1, PieceOffsAre
    <2> QED BY <1>1, <2>2, <2>3, ChunksOfNone
  <1>3. ASSUME NEW p \in 1..n
        PROVE  O[p] \in Nat /\ C[p] \in Nat /\ O[p + 1] \in Nat /\ O[p + 1] = O[p] + C[p]
    <2>1. PICK i \in 1..N : \E j \in 1..K[i] : p = Off(K, i) + j
      BY <1>1, PlaceOf
    <2>2. PICK j \in 1..K[i] : p = Off(K, i) + j
      BY <2>1
    <2> DEFINE s == L[p]
               e == L[p + 1]
    <2>3. Boundary(i, s) /\ Boundary(i, e) /\ s <= e
      BY <2>2 DEF Layout, InOrder
    <2>4. /\ O[p] = SeqOff(i) + Chunks(s - cu[i])
          /\ C[p] = Chunks(e - s)
          /\ O[p + 1] = SeqOff(i) + Chunks(e - cu[i])
      BY <2>2, PieceOffsAre
    <2> HIDE DEF s, e, O, C
    <2>5. /\ Chunks(s - cu[i]) \in Nat /\ Chunks(e - s) \in Nat
          /\ Chunks(e - cu[i]) = Chunks(s - cu[i]) + Chunks(e - s)
      BY <1>1, <2>3, ChunksJoin
    <2>6. SeqOff(i) \in Nat
      BY <1>1
    <2> QED BY <2>4, <2>5, <2>6
  <1>4. O[n + 1] = SeqOffs[N + 1]
    <2>1. n + 1 \in 1..(n + 1) /\ N + 1 \in 1..(N + 1)
      BY <1>1
    <2>2. O[n + 1] = SeqOff(N + 1)
      BY <2>1 DEF PieceOffs
    <2> QED BY <1>1, <2>1, <2>2
  <1> HIDE DEF O, C, n
  <1>5. Running(O, C, n)
    BY <1>2, <1>3 DEF Running
  <1> QED BY <1>4, <1>5 DEF O, C, n

LEMMA Distribute ==
    ASSUME NEW a \in Nat, NEW b \in Nat
    PROVE  (a + b) * BT = a * BT + b * BT /\ a * BT \in Nat /\ b * BT \in Nat
  OBVIOUS

\* rows[p]: the serial states before the chunks of piece p.
Rowed(rows, L, K) ==
    /\ rows = [p \in 1..Off(K, N + 1) |-> rows[p]]
    /\ \A i \in 1..N : \A j \in 1..K[i] :
          rows[Off(K, i) + j]
             = [x \in 1..Chunks(L[Off(K, i) + j + 1] - L[Off(K, i) + j])
                  |-> After(i, L[Off(K, i) + j] + (x - 1) * BT)]

\* The rows of the pieces, one after another, are those of the sequences.
LEMMA RowsJoin ==
    ASSUME NEW L, NEW K, Layout(L, K), NEW pieces, Rowed(pieces, L, K)
    PROVE  FlattenSeq(pieces) = SerialRows
  <1> DEFINE seqs == [i \in 1..N |->
                        [c \in 1..Chunks(SeqLen(cu, i)) |-> After(i, cu[i] + (c - 1) * BT)]]
             F == FlattenSeq(pieces)
             S == FlattenSeq(seqs)
  <1>1. SerialRows = S
    BY DEF SerialRows
  <1>2. /\ Batch /\ Parted(K) /\ N \in Nat /\ Off(K, N + 1) \in Nat
        /\ Running(SeqOffs, SeqChunks, N) /\ Running(PieceOffs(L, K), PieceChunks(L, K), Off(K, N + 1))
        /\ PieceOffs(L, K)[Off(K, N + 1) + 1] = SeqOffs[N + 1]
        /\ \A i \in 1..(N + 1) : SeqOffs[i] = SeqOff(i) /\ SeqOff(i) \in Nat
    BY LayoutFacts, PlaceOf, SeqOffsRun, PieceOffsRun
  <1>3. ASSUME NEW i \in 1..N, NEW j \in 1..K[i]
        PROVE  LET p == Off(K, i) + j IN
               /\ p \in 1..Off(K, N + 1)
               /\ pieces[p] = [x \in 1..PieceChunks(L, K)[p] |-> After(i, L[Off(K, i) + j] + (x - 1) * BT)]
    <2> DEFINE p == Off(K, i) + j
    <2>1. p \in 1..Off(K, N + 1) /\ PieceChunks(L, K)[p] = Chunks(L[Off(K, i) + j + 1] - L[Off(K, i) + j])
      BY PieceOffsAre
    <2>2. pieces[p] = [x \in 1..Chunks(L[Off(K, i) + j + 1] - L[Off(K, i) + j]) |-> After(i, L[Off(K, i) + j] + (x - 1) * BT)]
      BY DEF Rowed
    <2> QED BY <2>1, <2>2
  <1>4. Parts(pieces, PieceChunks(L, K), Off(K, N + 1))
    <2>1. pieces = [p \in 1..Off(K, N + 1) |-> pieces[p]]
      BY DEF Rowed
    <2>2. ASSUME NEW p \in 1..Off(K, N + 1)
          PROVE  pieces[p] = [x \in 1..PieceChunks(L, K)[p] |-> pieces[p][x]]
      <3>1. PICK i \in 1..N : \E j \in 1..K[i] : p = Off(K, i) + j
        BY <1>2, PlaceOf
      <3>2. PICK j \in 1..K[i] : p = Off(K, i) + j
        BY <3>1
      <3>3. pieces[p] = [x \in 1..PieceChunks(L, K)[p] |-> After(i, L[Off(K, i) + j] + (x - 1) * BT)]
        BY <1>3, <3>2
      <3> QED BY <3>3
    <2> QED BY <2>1, <2>2 DEF Parts
  <1>5. Parts(seqs, SeqChunks, N)
    <2>1. \A i \in 1..N : SeqChunks[i] = Chunks(SeqLen(cu, i))
      BY DEF SeqChunks
    <2> QED BY <2>1 DEF Parts
  <1>6. ASSUME NEW i \in 1..N, NEW c \in 1..SeqChunks[i]
        PROVE  seqs[i][c] = After(i, cu[i] + (c - 1) * BT)
    BY DEF SeqChunks
  <1> HIDE DEF seqs
  <1>7. EndToEnd(F, pieces, PieceOffs(L, K), PieceChunks(L, K), Off(K, N + 1))
    BY <1>2, <1>4, FlattenAt
  <1>8. EndToEnd(S, seqs, SeqOffs, SeqChunks, N)
    BY <1>2, <1>5, FlattenAt
  <1> HIDE DEF F, S
  <1> DEFINE n == SeqOffs[N + 1]
  <1>9. F = [y \in 1..n |-> F[y]] /\ S = [y \in 1..n |-> S[y]]
    BY <1>2, <1>7, <1>8 DEF EndToEnd
  <1>10. ASSUME NEW y \in 1..n PROVE F[y] = S[y]
    <2>1. y \in 1..PieceOffs(L, K)[Off(K, N + 1) + 1]
      BY <1>2
    <2>2. PICK p \in 1..Off(K, N + 1) : y - PieceOffs(L, K)[p] \in 1..PieceChunks(L, K)[p]
      <3>1. \E p \in 1..Off(K, N + 1) : /\ y \in (PieceOffs(L, K)[p] + 1)..PieceOffs(L, K)[p + 1]
                                 /\ y - PieceOffs(L, K)[p] \in 1..PieceChunks(L, K)[p]
        <4>1. Off(K, N + 1) \in Nat /\ Running(PieceOffs(L, K), PieceChunks(L, K), Off(K, N + 1))
          BY <1>2
        <4> QED BY <2>1, <4>1, Located
      <3> QED BY <3>1
    <2>3. PICK i \in 1..N : \E j \in 1..K[i] : p = Off(K, i) + j
      BY <1>2, PlaceOf
    <2>4. PICK j \in 1..K[i] : p = Off(K, i) + j
      BY <2>3
    <2> DEFINE s == L[Off(K, i) + j]
               e == L[Off(K, i) + j + 1]
               m == Chunks(s - cu[i])
               x == y - PieceOffs(L, K)[p]
    <2>5. /\ PieceOffs(L, K)[p] = SeqOff(i) + m /\ PieceChunks(L, K)[p] = Chunks(e - s)
          /\ pieces[p] = [z \in 1..PieceChunks(L, K)[p] |-> After(i, s + (z - 1) * BT)]
      <3>1. pieces[p] = [z \in 1..PieceChunks(L, K)[p] |-> After(i, s + (z - 1) * BT)]
        BY <1>3, <2>4
      <3>2. PieceOffs(L, K)[p] = SeqOff(i) + m /\ PieceChunks(L, K)[p] = Chunks(e - s)
        BY <2>4, PieceOffsAre
      <3> QED BY <3>1, <3>2
    <2>6. Boundary(i, s) /\ Boundary(i, e) /\ s <= e /\ Boundary(i, cu[i + 1])
      <3>1. cu[i + 1] \in cu[i]..cu[i + 1]
        BY <1>2 DEF Batch
      <3>2. Boundary(i, s) /\ Boundary(i, e) /\ s <= e
        BY <2>4 DEF Layout, InOrder
      <3> HIDE DEF s, e
      <3> QED BY <3>1, <3>2 DEF Boundary
    <2>7. /\ cu[i] \in Nat /\ cu[i + 1] \in Nat /\ s \in Nat /\ e \in Nat
          /\ e <= cu[i + 1] /\ SeqOff(i) \in Nat /\ SeqOffs[i] = SeqOff(i)
      <3>1. i \in 1..(N + 1) /\ i + 1 \in 1..(N + 1)
        BY <1>2
      <3> HIDE DEF s, e
      <3> QED BY <1>2, <2>6, <3>1 DEF Batch, Boundary
    <2>8. SeqChunks[i] = Chunks(cu[i + 1] - cu[i])
      BY DEF SeqChunks, SeqLen
    <2>9. x \in 1..Chunks(e - s)
      BY <2>2, <2>5
    <2> HIDE DEF s, e
    <2>10. /\ m \in Nat /\ Chunks(e - s) \in Nat
           /\ Chunks(e - cu[i]) = m + Chunks(e - s)
           /\ s < e => s = cu[i] + m * BT
      BY <1>2, <2>6, ChunksJoin
    <2>11. /\ Chunks(cu[i + 1] - e) \in Nat
           /\ SeqChunks[i] = Chunks(e - cu[i]) + Chunks(cu[i + 1] - e)
      <3> DEFINE f == cu[i + 1]
      <3>1. Boundary(i, e) /\ Boundary(i, f) /\ e <= f
        BY <2>6, <2>7
      <3> HIDE DEF f
      <3>2. Chunks(f - e) \in Nat /\ Chunks(f - cu[i]) = Chunks(e - cu[i]) + Chunks(f - e)
        BY <1>2, <3>1, ChunksJoin
      <3> QED BY <2>8, <3>2 DEF f
    <2>12. s < e
      <3> SUFFICES ASSUME s = e PROVE FALSE
        BY <2>6, <2>7
      <3>1. e - s = 0
        BY <2>7
      <3> QED BY <2>9, <3>1, ChunksOfNone
    <2> DEFINE c == m + x
    <2> HIDE DEF m
    <2>13. x \in Nat \ {0} /\ c \in 1..SeqChunks[i] /\ y = SeqOff(i) + c
      <3>1. y \in Int /\ PieceOffs(L, K)[p] = SeqOff(i) + m /\ PieceOffs(L, K)[p] \in Nat
        BY <2>5, <2>7, <2>10
      <3>2. x = y - PieceOffs(L, K)[p] /\ x \in Nat \ {0} /\ x <= Chunks(e - s)
        BY <2>9, <2>10
      <3> HIDE DEF x
      <3>3. c \in Nat \ {0} /\ c <= Chunks(e - cu[i])
        BY <2>10, <3>2
      <3>4. c \in 1..SeqChunks[i]
        <4> HIDE DEF c
        <4> QED BY <2>10, <2>11, <3>3
      <3>5. y = SeqOff(i) + c
        BY <2>7, <2>10, <3>1, <3>2
      <3> QED BY <3>2, <3>4, <3>5
    <2>14. F[y] = After(i, s + (x - 1) * BT)
      <3>1. x \in 1..PieceChunks(L, K)[p] /\ y = PieceOffs(L, K)[p] + x
        BY <2>2, <2>5, <2>7, <2>10, <2>13
      <3>2. F[PieceOffs(L, K)[p] + x] = pieces[p][x]
        <4> HIDE DEF x
        <4> QED BY <1>7, <3>1 DEF EndToEnd
      <3>3. pieces[p][x] = After(i, s + (x - 1) * BT)
        <4> HIDE DEF x
        <4> QED BY <2>5, <3>1
      <3> QED BY <3>1, <3>2, <3>3
    <2> HIDE DEF x
    <2>15. S[y] = After(i, cu[i] + (c - 1) * BT)
      <3>1. S[SeqOffs[i] + c] = seqs[i][c]
        <4> HIDE DEF c
        <4> QED BY <1>8, <2>13 DEF EndToEnd
      <3>2. seqs[i][c] = After(i, cu[i] + (c - 1) * BT)
        <4> HIDE DEF c
        <4> QED BY <1>6, <2>13
      <3> QED BY <2>7, <2>13, <3>1, <3>2
    <2>16. s + (x - 1) * BT = cu[i] + (c - 1) * BT
      <3>1. c - 1 = m + (x - 1) /\ x - 1 \in Nat
        BY <2>10, <2>13
      <3>2. (m + (x - 1)) * BT = m * BT + (x - 1) * BT
        BY <2>10, <3>1, Distribute
      <3>3. m * BT \in Nat /\ (x - 1) * BT \in Nat /\ s = cu[i] + m * BT
        BY <2>10, <2>12, <3>1, Distribute
      <3> QED BY <2>7, <3>1, <3>2, <3>3
    <2> QED BY <2>14, <2>15, <2>16
  <1>11. F = S
    BY <1>9, <1>10
  <1> QED BY <1>1, <1>11 DEF F

\* Every piece is given the state of the tokens before it.
Given(inits, L, K) ==
    \A i \in 1..N : \A j \in 1..K[i] : inits[Off(K, i) + j] = After(i, L[Off(K, i) + j])

\* t are the states of sequence i before the chunks of tokens s .. e - 1 and
\* after the last.
Passes(t, i, s, e) ==
    /\ Front(t) = [x \in 1..Chunks(e - s) |-> After(i, s + (x - 1) * BT)]
    /\ Last(t) = After(i, e)

\* The kernel then runs through the states of the serial recurrence.
LEMMA PieceIs ==
    ASSUME NEW L, NEW K, Layout(L, K), NEW inits, Given(inits, L, K),
           NEW i \in 1..N, NEW j \in 1..K[i]
    PROVE  Passes(Trace(L[Off(K, i) + j], L[Off(K, i) + j + 1], inits[Off(K, i) + j]), i,
                  L[Off(K, i) + j], L[Off(K, i) + j + 1])
  <1> DEFINE p == Off(K, i) + j
             s == L[p]
             e == L[p + 1]
  <1>1. inits[p] = After(i, s)
    BY DEF Given
  <1>2. Boundary(i, s) /\ Boundary(i, e) /\ s <= e /\ Batch
    BY DEF Layout, InOrder
  <1> HIDE DEF p, s, e
  <1>3. /\ Front(Trace(s, e, After(i, s)))
             = [x \in 1..Chunks(e - s) |-> After(i, s + (x - 1) * BT)]
        /\ Last(Trace(s, e, After(i, s))) = After(i, e)
    BY <1>2, PartIs
  <1> QED BY <1>1, <1>3 DEF p, s, e, Passes

LEMMA GivenJoins ==
    ASSUME NEW L, NEW K, Layout(L, K), NumSeqs(L) = Off(K, N + 1),
           NEW inits, Given(inits, L, K)
    PROVE  /\ FwdRows(L, inits) = SerialRows
           /\ \A i \in 1..N : \A j \in 1..K[i] :
                 FwdFinal(L, inits)[Off(K, i) + j] = After(i, L[Off(K, i) + j + 1])
  <1> DEFINE rows == [p \in 1..Off(K, N + 1) |-> Front(Trace(L[p], L[p + 1], inits[p]))]
             fins == [p \in 1..Off(K, N + 1) |-> Last(Trace(L[p], L[p + 1], inits[p]))]
  <1>1. FwdRows(L, inits) = FlattenSeq(rows) /\ FwdFinal(L, inits) = fins
    BY DEF FwdRows, FwdFinal
  <1>2. \A i \in 1..N : \A j \in 1..K[i] : Off(K, i) + j \in 1..Off(K, N + 1)
    BY PlaceOf, LayoutFacts
  <1>3. ASSUME NEW i \in 1..N, NEW j \in 1..K[i]
        PROVE  LET p == Off(K, i) + j
               IN  /\ rows[p] = [x \in 1..Chunks(L[p + 1] - L[p]) |-> After(i, L[p] + (x - 1) * BT)]
                   /\ fins[p] = After(i, L[p + 1])
    <2> DEFINE p == Off(K, i) + j
    <2>1. p \in 1..Off(K, N + 1)
      BY <1>2
    <2>2. /\ rows[p] = Front(Trace(L[p], L[p + 1], inits[p]))
          /\ fins[p] = Last(Trace(L[p], L[p + 1], inits[p]))
      BY <2>1
    <2> HIDE DEF rows, fins
    <2>3. Passes(Trace(L[p], L[p + 1], inits[p]), i, L[p], L[p + 1])
      BY PieceIs
    <2> HIDE DEF p
    <2>4. /\ rows[p] = [x \in 1..Chunks(L[p + 1] - L[p]) |-> After(i, L[p] + (x - 1) * BT)]
          /\ fins[p] = After(i, L[p + 1])
      BY <2>2, <2>3 DEF Passes
    <2> QED BY <2>4 DEF p
  <1>4. rows = [p \in 1..Off(K, N + 1) |-> rows[p]]
    OBVIOUS
  <1> HIDE DEF rows, fins
  <1>5. Rowed(rows, L, K)
    BY <1>3, <1>4 DEF Rowed
  <1>6. FlattenSeq(rows) = SerialRows
    BY <1>5, RowsJoin
  <1> QED BY <1>1, <1>3, <1>6

-----------------------------------------------------------------------------
(***************************************************************************)
(* The tables of the split.                                                *)
(***************************************************************************)
Ascending(s) == \A q, r \in DOMAIN s : q < r => s[q] < s[r]

\* A finite set of naturals has a largest element.
LEMMA Largest ==
    ASSUME NEW X, IsFiniteSet(X), X \subseteq Nat, X # {}
    PROVE  \E m \in X : \A y \in X : y <= m
  <1> DEFINE B == {Y \in SUBSET X : Y # {} /\ ~ \E m \in Y : \A y \in Y : y <= m}
  <1>1. SUFFICES ASSUME B # {} PROVE FALSE
    OBVIOUS
  <1>2. PICK Y \in B : \A x \in Y : Y \ {x} \notin B
    <2>1. B \in SUBSET SUBSET X
      OBVIOUS
    <2> HIDE DEF B
    <2> QED BY <1>1, <2>1, Smallest
  <1>3. PICK x \in Y : TRUE
    OBVIOUS
  <1>4. x \in Nat
    OBVIOUS
  <1>5. CASE Y \ {x} = {}
    <2>1. \A y \in Y : y <= x
      BY <1>4, <1>5
    <2> QED BY <2>1
  <1>6. CASE Y \ {x} # {}
    <2>1. PICK m \in Y \ {x} : \A y \in Y \ {x} : y <= m
      BY <1>2, <1>6
    <2>2. m \in Nat
      OBVIOUS
    <2>3. CASE x <= m
      <3>1. \A y \in Y : y <= m
        BY <2>1, <2>3
      <3> QED BY <3>1
    <2>4. CASE m <= x
      <3>1. \A y \in Y : y \in Nat
        OBVIOUS
      <3>2. \A y \in Y : y <= x
        BY <1>4, <2>1, <2>2, <2>4, <3>1
      <3> QED BY <3>2
    <2> QED BY <1>4, <2>2, <2>3, <2>4
  <1> QED BY <1>5, <1>6

\* A finite set of naturals can be listed in ascending order.
LEMMA Listing ==
    ASSUME NEW S, IsFiniteSet(S), S \subseteq Nat
    PROVE  \E s \in [1..Cardinality(S) -> S] : Ascending(s)
  <1> DEFINE B == {X \in SUBSET S : ~ \E s \in [1..Cardinality(X) -> X] : Ascending(s)}
  <1>1. SUFFICES ASSUME B # {} PROVE FALSE
    OBVIOUS
  <1>2. PICK X \in B : \A x \in X : X \ {x} \notin B
    <2>1. B \in SUBSET SUBSET S
      OBVIOUS
    <2> HIDE DEF B
    <2> QED BY <1>1, <2>1, Smallest
  <1>3. IsFiniteSet(X) /\ X \subseteq Nat
    BY FS_Subset
  <1>4. CASE X = {}
    <2> DEFINE s == [k \in 1..0 |-> 0]
    <2>1. Cardinality(X) = 0
      BY <1>4, FS_EmptySet
    <2>2. s \in [1..0 -> X] /\ Ascending(s)
      BY DEF Ascending
    <2> QED BY <2>1, <2>2
  <1>5. CASE X # {}
    <2>1. PICK m \in X : \A y \in X : y <= m
      BY <1>3, <1>5, Largest
    <2> DEFINE c == Cardinality(X)
    <2>2. c \in Nat \ {0} /\ Cardinality(X \ {m}) = c - 1
      <3>1. c \in Nat /\ Cardinality(X \ {m}) = c - 1
        BY <1>3, FS_CardinalityType, FS_RemoveElement
      <3>2. Cardinality(X \ {m}) \in Nat
        BY <1>3, FS_CardinalityType, FS_Subset
      <3> QED BY <3>1, <3>2
    <2>3. PICK r \in [1..(c - 1) -> X \ {m}] : Ascending(r)
      <3>1. X \ {m} \in SUBSET S /\ X \ {m} \notin B
        BY <1>2
      <3> QED BY <2>2, <3>1
    <2> DEFINE s == [k \in 1..c |-> IF k = c THEN m ELSE r[k]]
    <2> HIDE DEF c
    <2>4. \A k \in 1..c : k # c => k \in 1..(c - 1)
      BY <2>2
    <2>5. s \in [1..c -> X]
      BY <2>4
    <2>6. ASSUME NEW k \in 1..c, NEW l \in 1..c, k < l PROVE s[k] < s[l]
      <3>1. k \in 1..(c - 1) /\ r[k] \in X \ {m} /\ k # c
        BY <2>2, <2>6
      <3>2. CASE l = c
        <4>1. r[k] < m
          <5>1. r[k] \in Nat /\ m \in Nat /\ r[k] # m /\ r[k] <= m
            BY <1>3, <2>1, <3>1
          <5> QED BY <5>1
        <4> QED BY <3>1, <3>2, <4>1
      <3>3. CASE l # c
        <4>1. l \in 1..(c - 1) /\ r[k] < r[l]
          BY <2>3, <2>4, <2>6, <3>1, <3>3 DEF Ascending
        <4> QED BY <3>1, <3>3, <4>1
      <3> QED BY <3>2, <3>3
    <2>7. Ascending(s)
      BY <2>6 DEF Ascending
    <2> QED BY <2>5, <2>7 DEF c
  <1> QED BY <1>4, <1>5

\* SplitIds lists the split sequences, each once.
LEMMA Listed ==
    ASSUME Batch
    PROVE  /\ Split \subseteq 1..N /\ Cardinality(Split) \in Nat
           /\ SplitIds \in [1..Cardinality(Split) -> Split]
           /\ \A q, r \in 1..Cardinality(Split) : SplitIds[q] = SplitIds[r] => q = r
           /\ \A i \in Split : \E q \in 1..Cardinality(Split) : SplitIds[q] = i
  <1> DEFINE c == Cardinality(Split)
  <1>1. Split \subseteq 1..N
    BY DEF Split
  <1>2. IsFiniteSet(Split) /\ c \in Nat /\ Split \subseteq Nat
    <2>1. N \in Nat /\ IsFiniteSet(1..N)
      BY FS_Interval DEF Batch
    <2>2. IsFiniteSet(Split)
      BY <1>1, <2>1, FS_Subset
    <2>3. Split \subseteq Nat
      BY <1>1, <2>1
    <2> QED BY <2>2, <2>3, FS_CardinalityType
  <1>3. SplitIds \in [1..c -> Split] /\ Ascending(SplitIds)
    <2>1. \E s \in [1..c -> Split] : Ascending(s)
      BY <1>2, Listing
    <2>2. SplitIds = CHOOSE s \in [1..c -> Split] : Ascending(s)
      BY DEF SplitIds, Ascending
    <2> QED BY <2>1, <2>2
  <1> HIDE DEF c
  <1>4. ASSUME NEW q \in 1..c, NEW r \in 1..c, SplitIds[q] = SplitIds[r] PROVE q = r
    <2>1. SplitIds[q] \in Nat /\ SplitIds[r] \in Nat
      BY <1>2, <1>3
    <2>2. ~(q < r) /\ ~(r < q)
      BY <1>2, <1>3, <1>4, <2>1 DEF Ascending
    <2> QED BY <1>2, <2>2
  <1>5. SplitIds \in Injection(1..c, Split)
    BY <1>3, <1>4 DEF Injection, IsInjective
  <1>6. SplitIds \in Surjection(1..c, Split)
    <2>1. Cardinality(1..c) = c
      BY <1>2, FS_Interval
    <2> QED BY <1>2, <1>5, <2>1, FS_Injection DEF c
  <1>7. \A i \in Split : \E q \in 1..c : SplitIds[q] = i
    BY <1>6 DEF Surjection
  <1> QED BY <1>1, <1>2, <1>3, <1>4, <1>7 DEF c

Cuttable == call \in Sm100Calls /\ Split # {} /\ ~DividesByZero

\* The pieces of sequence i: piece j holds the tokens From(i, j) .. To(i, j) - 1.
From(i, j) == Start(cu[i], cu[i + 1], Ssl, j - 1)
To(i, j) == Cut(cu[i], cu[i + 1], Ssl, j)
Befores == [i \in 1..(N + 1) |-> Before(i)]

LEMMA CuttableFacts ==
    ASSUME Cuttable
    PROVE  /\ Batch /\ N \in Nat \ {0} /\ Ssl \in Nat \ {0} /\ cu[1] = 0
           /\ \A i \in 1..N : Counts[i] = NumSubseqs(SeqLen(cu, i), Ssl)
           /\ \A i \in 1..N : Counts[i] \in Nat \ {0} /\ (Counts[i] # 1 => i \in Split)
  <1>1. Batch /\ N \in Nat \ {0} /\ Ssl \in Nat \ {0} /\ cu[1] = 0
    BY BatchFacts, SplitFacts DEF Cuttable, Batch
  <1>2. \A i \in 1..N : Counts[i] = NumSubseqs(SeqLen(cu, i), Ssl)
    BY DEF Counts
  <1>3. ASSUME NEW i \in 1..N PROVE Counts[i] \in Nat \ {0} /\ (Counts[i] # 1 => i \in Split)
    <2>1. SeqLen(cu, i) \in Nat
      BY BatchFacts DEF Cuttable
    <2>2. CASE Splits(SeqLen(cu, i), Ssl)
      <3>1. i \in Split
        BY <2>2 DEF Split
      <3> QED BY <1>1, <1>2, <2>1, <2>2, <3>1, Enough
    <2>3. CASE ~Splits(SeqLen(cu, i), Ssl)
      BY <1>2, <2>3 DEF NumSubseqs
    <2> QED BY <2>2, <2>3
  <1> QED BY <1>1, <1>2, <1>3

\* The pieces of a sequence in its tokens.
LEMMA PieceFacts ==
    ASSUME Cuttable, NEW i \in 1..N, NEW j \in 1..Counts[i]
    PROVE  /\ Boundary(i, From(i, j)) /\ Boundary(i, To(i, j)) /\ From(i, j) <= To(i, j)
           /\ j = 1 => From(i, j) = cu[i]
           /\ j # 1 => From(i, j) = To(i, j - 1)
           /\ j = Counts[i] => To(i, j) = cu[i + 1]
  <1> DEFINE s == cu[i]
             e == cu[i + 1]
             n == NumSubseqs(e - s, Ssl)
  <1>1. /\ s \in Nat /\ e \in Nat /\ s <= e /\ Ssl \in Nat \ {0} /\ n = Counts[i]
        /\ n \in Nat \ {0}
    BY CuttableFacts DEF Batch, SeqLen
  <1>2. /\ Cut(s, e, Ssl, n) = e
        /\ \A k \in 0..(n - 1) :
              /\ Start(s, e, Ssl, k) <= Cut(s, e, Ssl, k + 1)
              /\ \/ \E m \in Nat : Start(s, e, Ssl, k) = s + m * BT
                 \/ Start(s, e, Ssl, k) = e
    <2> HIDE DEF s, e, n
    <2> QED BY <1>1, PiecesTile DEF n
  <1>3. From(i, j) = Start(s, e, Ssl, j - 1) /\ To(i, j) = Cut(s, e, Ssl, j)
    BY DEF From, To
  <1> HIDE DEF n
  <1>4. j - 1 \in 0..(n - 1) /\ (j - 1) + 1 = j
    BY <1>1
  <1>5. ASSUME NEW k \in 0..n, k \in 0..(n - 1) \/ k = n
        PROVE  Cut(s, e, Ssl, k) <= e /\ Cut(s, e, Ssl, k) \in Int
    <2>1. Cut(s, e, Ssl, k) = e \/ Cut(s, e, Ssl, k) < e
      <3> DEFINE x == s + k * PieceLen(e - s, Ssl)
      <3>1. Cut(s, e, Ssl, k) = IF Splits(e - s, Ssl) THEN Smaller(x, e) ELSE e
        BY DEF Cut
      <3> HIDE DEF x
      <3> QED BY <3>1 DEF Smaller
    <2>2. Cut(s, e, Ssl, k) \in Int
      <3>1. CASE Splits(e - s, Ssl)
        <4>1. PieceLen(e - s, Ssl) \in Nat
          <5>1. e - s \in Nat
            BY <1>1
          <5> HIDE DEF s, e
          <5> QED BY <1>1, <3>1, <5>1, Enough
        <4>2. s + k * PieceLen(e - s, Ssl) \in Int
          <5>1. k \in Nat
            BY <1>1
          <5>2. k * PieceLen(e - s, Ssl) \in Nat
            BY <4>1, <5>1
          <5> QED BY <1>1, <5>2
        <4> QED BY <1>1, <4>2 DEF Cut, Smaller
      <3>2. CASE ~Splits(e - s, Ssl)
        BY <1>1, <3>2 DEF Cut
      <3> QED BY <3>1, <3>2
    <2> QED BY <1>1, <2>1, <2>2
  <1>6. \A k \in 0..n : k # 0 => Start(s, e, Ssl, k) = Cut(s, e, Ssl, k)
    BY DEF Start
  <1>7. Start(s, e, Ssl, 0) = s
    BY DEF Start
  <1>8. ASSUME NEW k \in 0..(n - 1) PROVE Boundary(i, Start(s, e, Ssl, k))
    <2> DEFINE t == Start(s, e, Ssl, k)
    <2>1. CASE \E m \in Nat : t = s + m * BT
      <3>1. PICK m \in Nat : t = s + m * BT
        BY <2>1
      <3>2. m * BT \in Nat
        BY <3>1
      <3>3. t <= e
        BY <1>1, <1>5, <1>6, <1>7
      <3>4. t \in s..e
        <4> HIDE DEF t
        <4> QED BY <1>1, <3>1, <3>2, <3>3
      <3> QED BY <3>1, <3>4 DEF Boundary, AtChunk
    <2>2. CASE t = e
      <3>1. e \in s..e
        BY <1>1
      <3> QED BY <2>2, <3>1 DEF Boundary
    <2> QED BY <1>2, <2>1, <2>2
  <1>9. Boundary(i, From(i, j)) /\ From(i, j) <= To(i, j)
    BY <1>2, <1>3, <1>4, <1>8
  <1>10. Boundary(i, To(i, j))
    <2>1. CASE j = n
      <3>1. e \in s..e
        BY <1>1
      <3> QED BY <1>2, <1>3, <2>1, <3>1 DEF Boundary
    <2>2. CASE j # n
      <3>1. j \in 0..(n - 1) /\ j # 0 /\ j \in 0..n
        BY <1>1, <2>2
      <3>2. Start(s, e, Ssl, j) = Cut(s, e, Ssl, j)
        BY <1>6, <3>1
      <3> QED BY <1>3, <1>8, <3>1, <3>2
    <2> QED BY <2>1, <2>2
  <1>11. j = 1 => From(i, j) = cu[i]
    BY <1>3, <1>7
  <1>12. j # 1 => From(i, j) = To(i, j - 1)
    <2>1. j # 1 => j - 1 \in 0..n /\ j - 1 # 0
      BY <1>1
    <2> QED BY <1>3, <1>6, <2>1 DEF To
  <1>13. j = Counts[i] => To(i, j) = cu[i + 1]
    BY <1>1, <1>2, <1>3
  <1> QED BY <1>9, <1>10, <1>11, <1>12, <1>13

\* The pieces of the sequences before one another.
LEMMA BeforesRun ==
    ASSUME Cuttable
    PROVE  /\ Running(Befores, Counts, N)
           /\ \A i \in 1..(N + 1) : Befores[i] = Before(i) /\ Before(i) \in Nat
           /\ Before(1) = 0
           /\ \A i \in 1..N : Before(i + 1) = Before(i) + Counts[i]
  <1>1. N \in Nat /\ \A k \in 1..N : Counts[k] \in Nat
    BY CuttableFacts
  <1>2. Befores = Offs(Counts) /\ \A i : Before(i) = Off(Counts, i)
    BY DEF Befores, Offs, Before, Off
  <1> QED BY <1>1, <1>2, OffsRun

Pieces == Before(N + 1)

\* Every piece is one of a sequence's.
LEMMA PieceOf ==
    ASSUME Cuttable
    PROVE  /\ Pieces \in Nat \ {0}
           /\ \A i \in 1..N : \A j \in 1..Counts[i] : Before(i) + j \in 1..Pieces
           /\ \A p \in 1..Pieces : \E i \in 1..N : \E j \in 1..Counts[i] : p = Before(i) + j
           /\ \A i, k \in 1..N : \A j \in 1..Counts[i], l \in 1..Counts[k] :
                 Before(i) + j = Before(k) + l => i = k /\ j = l
  <1>1. Parted(Counts)
    BY CuttableFacts DEF Parted
  <1>2. Pieces = Off(Counts, N + 1) /\ \A i : Before(i) = Off(Counts, i)
    BY DEF Pieces, Before, Off
  <1> QED BY <1>1, <1>2, PlaceOf

\* The layout of the pieces: piece j of sequence i is piece Before(i) + j.
LEMMA BoundariesAre ==
    ASSUME Cuttable
    PROVE  /\ NumSeqs(Boundaries) = Pieces
           /\ \A i \in 1..N : \A j \in 1..Counts[i] :
                 /\ Boundaries[Before(i) + j] = From(i, j)
                 /\ Boundaries[Before(i) + j + 1] = To(i, j)
  <1> DEFINE parts == [i \in 1..N |-> [j \in 1..Counts[i] |-> Cut(cu[i], cu[i + 1], Ssl, j)]]
             F == FlattenSeq(parts)
             V == [x \in 1..(Pieces + 1) |-> IF x = 1 THEN 0 ELSE F[x - 1]]
  <1>1. /\ N \in Nat \ {0} /\ Running(Befores, Counts, N) /\ cu[1] = 0
        /\ \A i \in 1..(N + 1) : Befores[i] = Before(i) /\ Before(i) \in Nat
        /\ \A i \in 1..N : Before(i + 1) = Before(i) + Counts[i] /\ Counts[i] \in Nat \ {0}
        /\ Pieces \in Nat
    BY BeforesRun, CuttableFacts, PieceOf
  <1>2. \A i \in 1..N : i \in 1..(N + 1) /\ i + 1 \in 1..(N + 1)
    BY <1>1
  <1>3. Befores[N + 1] = Pieces
    BY <1>1 DEF Pieces
  <1>4. /\ F = [x \in 1..Pieces |-> F[x]]
        /\ \A i \in 1..N : \A j \in 1..Counts[i] : F[Before(i) + j] = To(i, j)
    <2>2. Parts(parts, Counts, N)
      BY DEF Parts
    <2>3. \A i \in 1..N : \A j \in 1..Counts[i] : parts[i][j] = To(i, j)
      BY DEF To
    <2> HIDE DEF parts
    <2>4. EndToEnd(F, parts, Befores, Counts, N)
      BY <1>1, <2>2, FlattenAt
    <2> HIDE DEF F
    <2>5. F = [x \in 1..Befores[N + 1] |-> F[x]]
      BY <2>4 DEF EndToEnd
    <2>6. \A i \in 1..N : \A j \in 1..Counts[i] : F[Befores[i] + j] = parts[i][j]
      BY <2>4 DEF EndToEnd
    <2>7. F = [x \in 1..Pieces |-> F[x]]
      BY <1>3, <2>5
    <2>8. \A i \in 1..N : Befores[i] = Before(i)
      BY <1>1, <1>2
    <2>9. \A i \in 1..N : \A j \in 1..Counts[i] : F[Before(i) + j] = To(i, j)
      BY <2>3, <2>6, <2>8
    <2> QED BY <2>7, <2>9
  <1>5. Boundaries = <<0>> \o F
    BY DEF Boundaries
  <1> HIDE DEF F
  <1>6. <<0>> \o F = V
    <2>1. Upto(V, 1) = <<0>>
      <3>1. V[1] = 0
        BY <1>1
      <3> QED BY <3>1 DEF Upto
    <2>2. Continues(F, V, 1, Pieces)
      <3> SUFFICES ASSUME NEW x \in 1..Pieces PROVE F[x] = V[1 + x]
        BY DEF Continues
      <3>1. 1 + x \in 1..(Pieces + 1) /\ 1 + x # 1 /\ (1 + x) - 1 = x
        BY <1>1
      <3> QED BY <3>1
    <2>3. Upto(V, 1 + Pieces) = V
      BY <1>1 DEF Upto
    <2>4. Upto(F, Pieces) = F
      BY <1>4 DEF Upto
    <2> HIDE DEF V
    <2>5. 1 \in Nat
      OBVIOUS
    <2>6. Upto(V, 1) \o Upto(F, Pieces) = Upto(V, 1 + Pieces)
      BY <1>1, <2>2, <2>5, ConcatIs
    <2> QED BY <2>1, <2>3, <2>4, <2>6
  <1>7. Len(V) = Pieces + 1
    BY <1>1
  <1>8. NumSeqs(Boundaries) = Pieces
    <2> HIDE DEF V
    <2> QED BY <1>1, <1>5, <1>6, <1>7 DEF NumSeqs
  <1>9. \A p \in 1..Pieces : V[p + 1] = F[p]
    BY <1>1
  <1>10. ASSUME NEW i \in 1..N, NEW j \in 1..Counts[i]
         PROVE  V[Before(i) + j + 1] = To(i, j)
    BY <1>4, <1>9, PieceOf
  <1>11. ASSUME NEW i \in 1..N, NEW j \in 1..Counts[i]
         PROVE  V[Before(i) + j] = From(i, j)
    <2>0. Before(i) \in Nat /\ Counts[i] \in Nat \ {0}
      BY <1>1, <1>2
    <2>1. CASE j # 1
      <3>1. j - 1 \in 1..Counts[i] /\ Before(i) + (j - 1) + 1 = Before(i) + j
        BY <2>0, <2>1
      <3>2. V[Before(i) + (j - 1) + 1] = To(i, j - 1)
        BY <1>10, <3>1
      <3>3. From(i, j) = To(i, j - 1)
        BY <2>1, PieceFacts
      <3> QED BY <3>1, <3>2, <3>3
    <2>2. CASE j = 1 /\ i = 1
      <3>1. Before(1) = 0
        BY BeforesRun
      <3>2. From(1, 1) = 0
        BY <1>1, <2>2, PieceFacts
      <3>3. V[1] = 0 /\ 0 + 1 = 1
        BY <1>1
      <3> QED BY <2>2, <3>1, <3>2, <3>3
    <2>3. CASE j = 1 /\ i # 1
      <3>1. i - 1 \in 1..N /\ (i - 1) + 1 = i /\ i - 1 \in 1..(N + 1)
        BY <1>1, <2>3
      <3> DEFINE c == Counts[i - 1]
      <3>2. c \in 1..c /\ Before(i) = Before(i - 1) + c /\ c \in Nat /\ Before(i - 1) \in Nat
        BY <1>1, <3>1
      <3>3. To(i - 1, c) = cu[i]
        BY <3>1, <3>2, PieceFacts
      <3>4. V[Before(i - 1) + c + 1] = To(i - 1, c)
        BY <1>10, <3>1, <3>2
      <3>5. From(i, 1) = cu[i]
        BY <2>3, PieceFacts
      <3> QED BY <2>3, <3>2, <3>3, <3>4, <3>5
    <2> QED BY <2>1, <2>2, <2>3
  <1> HIDE DEF V
  <1> QED BY <1>5, <1>6, <1>8, <1>10, <1>11

LEMMA SplitLayout ==
    ASSUME Cuttable
    PROVE  /\ Layout(Boundaries, Counts) /\ NumSeqs(Boundaries) = Off(Counts, N + 1)
           /\ \A i : Before(i) = Off(Counts, i)
  <1>1. Batch /\ Parted(Counts) /\ N \in Nat \ {0} /\ \A i \in 1..N : Counts[i] \in Nat \ {0}
    BY CuttableFacts DEF Parted
  <1>2. Pieces = Off(Counts, N + 1) /\ \A i : Before(i) = Off(Counts, i)
    BY DEF Pieces, Before, Off
  <1>3. NumSeqs(Boundaries) = Off(Counts, N + 1)
    BY <1>2, BoundariesAre
  <1>4. ASSUME NEW i \in 1..N, NEW j \in 1..Counts[i]
        PROVE  InOrder(Boundaries, Counts, i, j)
    BY <1>2, BoundariesAre, PieceFacts DEF InOrder
  <1>5. ASSUME NEW i \in 1..N
        PROVE  /\ Boundaries[Off(Counts, i) + 1] = cu[i]
               /\ Boundaries[Off(Counts, i + 1) + 1] = cu[i + 1]
    <2>1. 1 \in 1..Counts[i] /\ Counts[i] \in 1..Counts[i]
      BY <1>1
    <2>2. Boundaries[Before(i) + 1] = From(i, 1) /\ From(i, 1) = cu[i]
      BY <2>1, BoundariesAre, PieceFacts
    <2>3. /\ Boundaries[Before(i) + Counts[i] + 1] = To(i, Counts[i])
          /\ To(i, Counts[i]) = cu[i + 1]
      BY <2>1, BoundariesAre, PieceFacts
    <2>4. Before(i + 1) = Before(i) + Counts[i]
      BY BeforesRun
    <2> QED BY <1>2, <2>2, <2>3, <2>4
  <1> QED BY <1>1, <1>2, <1>3, <1>4, <1>5 DEF Layout

\* The split sequences, and the rows of the merge kernel's output before one.
NumSplit == Cardinality(Split)
Carried == [q \in 1..NumSplit |-> Counts[SplitIds[q]] - 1]
Row(q) == Total([r \in 1..(q - 1) |-> Carried[r]])
Rows == [q \in 1..(NumSplit + 1) |-> Row(q)]

LEMMA RowsRun ==
    ASSUME Cuttable
    PROVE  /\ NumSplit \in Nat /\ Running(Rows, Carried, NumSplit)
           /\ \A q \in 1..(NumSplit + 1) : Rows[q] = Row(q) /\ Row(q) \in Nat
           /\ \A q \in 1..NumSplit : SplitIds[q] \in Split /\ SplitIds[q] \in 1..N
           /\ \A q \in 1..NumSplit : Carried[q] = Counts[SplitIds[q]] - 1 /\ Carried[q] \in Nat
  <1>1. /\ NumSplit \in Nat /\ DOMAIN SplitIds = 1..NumSplit
        /\ \A q \in 1..NumSplit : SplitIds[q] \in Split /\ SplitIds[q] \in 1..N
    BY CuttableFacts, Listed DEF NumSplit
  <1>2. \A q \in 1..NumSplit : Carried[q] = Counts[SplitIds[q]] - 1 /\ Carried[q] \in Nat
    <2> SUFFICES ASSUME NEW q \in 1..NumSplit
                 PROVE  Carried[q] = Counts[SplitIds[q]] - 1 /\ Carried[q] \in Nat
      OBVIOUS
    <2>1. Counts[SplitIds[q]] \in Nat \ {0}
      BY <1>1, CuttableFacts
    <2>2. Carried[q] = Counts[SplitIds[q]] - 1
      BY DEF Carried
    <2> QED BY <2>1, <2>2
  <1>3. \A q \in 1..(NumSplit + 1) : Rows[q] = Total([k \in 1..(q - 1) |-> Carried[k]])
    BY DEF Rows, Row
  <1>4. /\ Rows[1] = 0
        /\ \A q \in 1..NumSplit : Rows[q + 1] = Rows[q] + Carried[q]
        /\ \A q \in 1..(NumSplit + 1) : Rows[q] \in Nat
    BY <1>1, <1>2, <1>3, PrefixSums
  <1>5. \A q \in 1..(NumSplit + 1) : Rows[q] = Row(q)
    BY DEF Rows
  <1>6. \A q \in 1..NumSplit : q \in 1..(NumSplit + 1) /\ q + 1 \in 1..(NumSplit + 1)
    BY <1>1
  <1> QED BY <1>1, <1>2, <1>4, <1>5, <1>6 DEF Running

\* The index tables.
LEMMA IndicesAre ==
    ASSUME Cuttable
    PROVE  /\ Indices.ids = SplitIds /\ DOMAIN Indices.ids = 1..NumSplit
           /\ \A q \in 1..NumSplit :
                 /\ Indices.starts[q] = Before(SplitIds[q]) + 1
                 /\ Indices.counts[q] = Counts[SplitIds[q]]
                 /\ Indices.offsets[q] = Row(q)
                 /\ \A j \in 1..(Counts[SplitIds[q]] - 1) :
                       /\ Row(q) + j \in DOMAIN Indices.nonFirst
                       /\ Indices.nonFirst[Row(q) + j] = Before(SplitIds[q]) + 1 + j
           /\ \A x \in DOMAIN Indices.nonFirst : \E q \in 1..NumSplit :
                 \E j \in 1..(Counts[SplitIds[q]] - 1) : x = Row(q) + j
           /\ \A q, r \in 1..NumSplit : \A j \in 1..(Counts[SplitIds[q]] - 1) :
                 (Row(q) + j) - Row(r) \in 1..(Counts[SplitIds[r]] - 1) => q = r
           /\ \A i \in 1..N : /\ Indices.firsts[i] = Before(i) + 1
                              /\ Indices.lasts[i] = Before(i + 1)
  <1> DEFINE counts == [q \in 1..NumSplit |-> Counts[SplitIds[q]]]
             parts == [q \in 1..NumSplit |-> [j \in 1..(counts[q] - 1) |-> Starts[q] + j]]
             F == FlattenSeq(parts)
  <1>1. /\ NumSplit \in Nat /\ Running(Rows, Carried, NumSplit) /\ DOMAIN SplitIds = 1..NumSplit
        /\ \A q \in 1..(NumSplit + 1) : Rows[q] = Row(q) /\ Row(q) \in Nat
        /\ \A q \in 1..NumSplit : SplitIds[q] \in 1..N
        /\ \A q \in 1..NumSplit : Carried[q] = Counts[SplitIds[q]] - 1 /\ Carried[q] \in Nat
    BY RowsRun, Listed, CuttableFacts DEF NumSplit
  <1>2. \A q \in 1..NumSplit : /\ Starts[q] = Before(SplitIds[q]) + 1 /\ Starts[q] \in Nat
                           /\ counts[q] - 1 = Carried[q]
    <2> SUFFICES ASSUME NEW q \in 1..NumSplit
                 PROVE  /\ Starts[q] = Before(SplitIds[q]) + 1 /\ Starts[q] \in Nat
                        /\ counts[q] - 1 = Carried[q]
      OBVIOUS
    <2>1. Starts[q] = Before(SplitIds[q]) + 1
      BY <1>1 DEF Starts
    <2>2. SplitIds[q] \in 1..(N + 1)
      BY <1>1, CuttableFacts
    <2>3. Before(SplitIds[q]) \in Nat
      BY <2>2, BeforesRun
    <2> QED BY <1>1, <2>1, <2>3
  <1>3. /\ Indices.starts = Starts /\ Indices.counts = counts /\ Indices.ids = SplitIds
        /\ Indices.offsets = [q \in 1..NumSplit |-> Total([r \in 1..(q - 1) |-> counts[r] - 1])]
        /\ Indices.nonFirst = F
        /\ Indices.firsts = [i \in 1..N |-> Before(i) + 1]
        /\ Indices.lasts = [i \in 1..N |-> Before(i + 1)]
    <2> DEFINE D == DOMAIN SplitIds
               C == [q \in D |-> Counts[SplitIds[q]]]
    <2>1. D = 1..NumSplit
      BY <1>1
    <2>2. /\ Indices.starts = Starts /\ Indices.counts = C /\ Indices.ids = SplitIds
          /\ Indices.firsts = [i \in 1..N |-> Before(i) + 1]
          /\ Indices.lasts = [i \in 1..N |-> Before(i + 1)]
      BY DEF Indices
    <2>3. Indices.offsets = [q \in D |-> Total([r \in 1..(q - 1) |-> C[r] - 1])]
      BY DEF Indices
    <2>4. Indices.nonFirst = FlattenSeq([q \in D |-> [j \in 1..(C[q] - 1) |-> Starts[q] + j]])
      BY DEF Indices
    <2> HIDE DEF D
    <2>5. C = counts
      BY <2>1
    <2> HIDE DEF C, counts
    <2> QED BY <2>1, <2>2, <2>3, <2>4, <2>5
  <1>4. Parts(parts, Carried, NumSplit)
    <2>1. \A q \in 1..NumSplit : parts[q] = [j \in 1..Carried[q] |-> Starts[q] + j]
      BY <1>2
    <2> HIDE DEF counts
    <2> QED BY <2>1 DEF Parts
  <1>5. \A q \in 1..NumSplit : \A j \in 1..Carried[q] : parts[q][j] = Before(SplitIds[q]) + 1 + j
    BY <1>2
  <1> HIDE DEF parts
  <1>6. EndToEnd(F, parts, Rows, Carried, NumSplit)
    BY <1>1, <1>4, FlattenAt
  <1> HIDE DEF F
  <1>7. DOMAIN F = 1..Rows[NumSplit + 1]
    BY <1>6 DEF EndToEnd
  <1>8. \A q \in 1..NumSplit : \A j \in 1..Carried[q] :
           Rows[q] + j \in 1..Rows[NumSplit + 1] /\ F[Rows[q] + j] = parts[q][j]
    BY <1>6 DEF EndToEnd
  <1>9. \A q \in 1..NumSplit : q \in 1..(NumSplit + 1) /\ q + 1 \in 1..(NumSplit + 1)
    BY <1>1
  <1>10. \A q \in 1..NumSplit : Indices.offsets[q] = Row(q)
    <2> SUFFICES ASSUME NEW q \in 1..NumSplit PROVE Indices.offsets[q] = Row(q)
      OBVIOUS
    <2>1. \A r \in 1..(q - 1) : r \in 1..NumSplit
      BY <1>1
    <2>2. \A r \in 1..(q - 1) : counts[r] - 1 = Carried[r]
      BY <1>2, <2>1
    <2>3. [r \in 1..(q - 1) |-> counts[r] - 1] = [r \in 1..(q - 1) |-> Carried[r]]
      BY <2>2
    <2> HIDE DEF counts
    <2> QED BY <1>3, <2>3 DEF Row
  <1>11. ASSUME NEW q \in 1..NumSplit, NEW j \in 1..(Counts[SplitIds[q]] - 1)
         PROVE  Row(q) + j \in DOMAIN F /\ F[Row(q) + j] = Before(SplitIds[q]) + 1 + j
    <2>1. j \in 1..Carried[q] /\ Rows[q] = Row(q)
      BY <1>1, <1>9
    <2> QED BY <1>5, <1>7, <1>8, <2>1
  <1>12. ASSUME NEW x \in DOMAIN F
         PROVE  \E q \in 1..NumSplit : \E j \in 1..(Counts[SplitIds[q]] - 1) : x = Row(q) + j
    <2>1. x \in 1..Rows[NumSplit + 1]
      BY <1>7
    <2>2. PICK q \in 1..NumSplit : x - Rows[q] \in 1..Carried[q]
      <3>1. \E i \in 1..NumSplit : x \in (Rows[i] + 1)..Rows[i + 1] /\ x - Rows[i] \in 1..Carried[i]
        <4>1. NumSplit \in Nat /\ Running(Rows, Carried, NumSplit)
          BY <1>1
        <4> QED BY <2>1, <4>1, Located
      <3> QED BY <3>1
    <2>3. Rows[q] = Row(q) /\ Row(q) \in Nat /\ x \in Int
      BY <1>1, <1>9, <2>1
    <2>4. x = Row(q) + (x - Row(q)) /\ x - Row(q) \in 1..(Counts[SplitIds[q]] - 1)
      BY <1>1, <2>2, <2>3
    <2> QED BY <2>4
  <1>13. ASSUME NEW q \in 1..NumSplit, NEW r \in 1..NumSplit,
                NEW j \in 1..(Counts[SplitIds[q]] - 1),
                (Row(q) + j) - Row(r) \in 1..(Counts[SplitIds[r]] - 1)
         PROVE  q = r
    <2> DEFINE x == Row(q) + j
    <2>1. /\ j \in 1..Carried[q] /\ Rows[q] = Row(q) /\ Row(q) \in Nat
          /\ Rows[r] = Row(r) /\ Row(r) \in Nat
          /\ Rows[q + 1] = Rows[q] + Carried[q] /\ Rows[r + 1] = Rows[r] + Carried[r]
          /\ Carried[q] \in Nat /\ Carried[r] \in Nat
      BY <1>1, <1>9 DEF Running
    <2>2. x \in 1..Rows[NumSplit + 1]
      BY <1>7, <1>11
    <2>3. x \in (Rows[q] + 1)..Rows[q + 1]
      BY <2>1
    <2>4. x - Row(r) \in 1..Carried[r]
      <3>1. Carried[r] = Counts[SplitIds[r]] - 1
        BY <1>1
      <3>2. (Row(q) + j) - Row(r) \in 1..(Counts[SplitIds[r]] - 1)
        BY <1>13
      <3> QED BY <3>1, <3>2
    <2>5. x \in (Rows[r] + 1)..Rows[r + 1]
      BY <2>1, <2>4
    <2>6. NumSplit \in Nat /\ Running(Rows, Carried, NumSplit)
      BY <1>1
    <2> HIDE DEF x
    <2> QED BY <2>2, <2>3, <2>5, <2>6, Located
  <1>14. \A q \in 1..NumSplit : Indices.counts[q] = Counts[SplitIds[q]]
    BY <1>3
  <1>15. /\ \A q \in 1..NumSplit : Indices.starts[q] = Before(SplitIds[q]) + 1
         /\ \A i \in 1..N : Indices.firsts[i] = Before(i) + 1 /\ Indices.lasts[i] = Before(i + 1)
    <2>1. \A q \in 1..NumSplit : Indices.starts[q] = Before(SplitIds[q]) + 1
      BY <1>2, <1>3
    <2>2. \A i \in 1..N : Indices.firsts[i] = Before(i) + 1 /\ Indices.lasts[i] = Before(i + 1)
      BY <1>3
    <2> QED BY <2>1, <2>2
  <1> HIDE DEF counts
  <1>16. ASSUME NEW q \in 1..NumSplit, NEW j \in 1..(Counts[SplitIds[q]] - 1)
         PROVE  /\ Row(q) + j \in DOMAIN Indices.nonFirst
                /\ Indices.nonFirst[Row(q) + j] = Before(SplitIds[q]) + 1 + j
    BY <1>3, <1>11
  <1>17. ASSUME NEW x \in DOMAIN Indices.nonFirst
         PROVE  \E q \in 1..NumSplit : \E j \in 1..(Counts[SplitIds[q]] - 1) : x = Row(q) + j
    BY <1>3, <1>12
  <1>18. Indices.ids = SplitIds /\ DOMAIN Indices.ids = 1..NumSplit
    BY <1>1, <1>3
  <1> QED BY <1>10, <1>13, <1>14, <1>15, <1>16, <1>17, <1>18

\* Every piece is given the state of the tokens before it.
Fed(inits) == \A i \in 1..N : \A j \in 1..Counts[i] : inits[Before(i) + j] = After(i, From(i, j))

LEMMA SplitJoins ==
    ASSUME Cuttable, NEW inits, Fed(inits)
    PROVE  /\ FwdRows(Boundaries, inits) = SerialRows
           /\ \A i \in 1..N : FwdFinal(Boundaries, inits)[Before(i + 1)] = After(i, cu[i + 1])
  <1>1. Given(inits, Boundaries, Counts)
    BY SplitLayout, BoundariesAre DEF Fed, Given
  <1>2. /\ FwdRows(Boundaries, inits) = SerialRows
        /\ \A i \in 1..N : \A j \in 1..Counts[i] :
              FwdFinal(Boundaries, inits)[Off(Counts, i) + j]
                = After(i, Boundaries[Off(Counts, i) + j + 1])
    BY <1>1, SplitLayout, GivenJoins
  <1>3. ASSUME NEW i \in 1..N
        PROVE  FwdFinal(Boundaries, inits)[Before(i + 1)] = After(i, cu[i + 1])
    <2>1. Counts[i] \in 1..Counts[i] /\ Off(Counts, i) + Counts[i] = Off(Counts, i + 1)
      <3>1. Counts[i] \in Nat \ {0}
        BY CuttableFacts
      <3>2. Before(i + 1) = Before(i) + Counts[i]
        BY BeforesRun
      <3> QED BY <3>1, <3>2, SplitLayout
    <2>2. Boundaries[Off(Counts, i + 1) + 1] = cu[i + 1]
      BY SplitLayout DEF Layout
    <2> QED BY <1>2, <2>1, <2>2, SplitLayout
  <1> QED BY <1>2, <1>3

\* What the merge block of split sequence q leaves in m, its output.
MergedRight(m, q) ==
    \A j \in 1..(Counts[SplitIds[q]] - 1) :
        m[Row(q) + j] = After(SplitIds[q], From(SplitIds[q], j + 1))

Tables == Cuttable /\ cut = Boundaries /\ tabs = Indices
Scanned == hm = [p \in 1..Pieces |-> <<Boundaries[p], Boundaries[p + 1]>>]
Merging ==
    /\ Tables /\ Scanned
    /\ toMerge \subseteq 1..NumSplit
    /\ \E m : /\ merged = m
              /\ m = [x \in DOMAIN Indices.nonFirst |-> m[x]]
              /\ \A q \in 1..NumSplit : q \notin toMerge => MergedRight(m, q)
OnItsWay ==
    /\ call \in Sm100Calls \cup Sm90Calls \cup HopperCalls
    /\ call.path = "sm100" =>
          /\ pc = "prescan" => Tables
          /\ pc = "merge" => Merging
          /\ pc = "fwd" => Tables /\ \E f : first = f /\ Fed(f)
          /\ CpIsSerial

-----------------------------------------------------------------------------
LEMMA SameCounts ==
    ASSUME call' = call
    PROVE  N' = N /\ cu' = cu /\ Ssl' = Ssl /\ Counts' = Counts /\ SplitIds' = SplitIds
           /\ (Cuttable' <=> Cuttable)
  BY DEF N, cu, Ssl, Counts, SplitIds, Cuttable, Split, DividesByZero

LEMMA SameTables ==
    ASSUME call' = call
    PROVE  /\ Boundaries' = Boundaries /\ Indices' = Indices
           /\ Pieces' = Pieces /\ NumSplit' = NumSplit
  BY SameCounts DEF Boundaries, Indices, Starts, Before, Pieces, NumSplit, Split, cu, N, Ssl

LEMMA SameStates ==
    ASSUME call' = call, NEW f, NEW q
    PROVE  /\ Fed(f)' <=> Fed(f)
           /\ MergedRight(f, q)' <=> MergedRight(f, q)
  <1>1. Fed(f)' <=> Fed(f)
    BY SameCounts DEF Fed, Before, From, After
  <1>2. Carried' = Carried
    BY SameCounts, SameTables DEF Carried
  <1>3. Row(q)' = Row(q)
    BY <1>2 DEF Row
  <1>4. MergedRight(f, q)' <=> MergedRight(f, q)
    BY <1>3, SameCounts DEF MergedRight, From, After
  <1> QED BY <1>1, <1>4

LEMMA SameSerial ==
    ASSUME call' = call
    PROVE  SerialRows' = SerialRows /\ SerialFinal' = SerialFinal
  BY DEF SerialRows, SerialFinal, cu, N, After

\* The merge block carries the state from piece to piece.
LEMMA CarryIs ==
    ASSUME Tables, Scanned, NEW q \in 1..NumSplit, NEW x \in 1..Counts[SplitIds[q]]
    PROVE  Carry(q)[x] = After(SplitIds[q], From(SplitIds[q], x))
  <1> DEFINE i == SplitIds[q]
             n == Counts[i]
             row(y) == hm[tabs.starts[q] + y - 1]
             Step1(f, y) == IF y = 1 THEN InitialStates[tabs.ids[q]]
                            ELSE Last(Trace(row(y - 1)[1], row(y - 1)[2], f[y - 1]))
             R(f) == f = [y \in 1..(tabs.counts[q] + 1) |-> Step1(f, y)]
             A == [y \in 1..(n + 1) |-> IF y = 1 THEN After(i, cu[i]) ELSE After(i, To(i, y - 1))]
             f0 == CHOOSE f : R(f)
  <1>1. Carry(q) = f0
    BY DEF Carry
  <1>2. /\ Cuttable /\ Batch /\ i \in 1..N /\ n \in Nat \ {0}
        /\ tabs.ids[q] = i /\ tabs.counts[q] = n /\ tabs.starts[q] = Before(i) + 1
        /\ Before(i) \in Nat /\ Pieces \in Nat
    <2>1. Cuttable /\ tabs = Indices
      BY DEF Tables
    <2>2. i \in 1..N /\ Batch /\ n \in Nat \ {0}
      BY <2>1, RowsRun, CuttableFacts
    <2>3. Before(i) \in Nat
      <3>1. i \in 1..(N + 1)
        BY <2>1, <2>2, CuttableFacts
      <3> QED BY <2>1, <3>1, BeforesRun
    <2>4. Pieces \in Nat
      BY <2>1, PieceOf
    <2>5. tabs.ids[q] = i /\ tabs.counts[q] = n /\ tabs.starts[q] = Before(i) + 1
      BY <2>1, IndicesAre
    <2> QED BY <2>1, <2>2, <2>3, <2>4, <2>5
  <1> HIDE DEF i, n
  <1>3. ASSUME NEW y \in 1..n
        PROVE  row(y) = <<From(i, y), To(i, y)>>
    <2> DEFINE p == Before(i) + y
    <2>1. p \in 1..Pieces /\ Boundaries[p] = From(i, y) /\ Boundaries[p + 1] = To(i, y)
      BY <1>2, PieceOf, BoundariesAre DEF n
    <2>2. (Before(i) + 1) + y - 1 = p
      BY <1>2
    <2>3. hm[p] = <<Boundaries[p], Boundaries[p + 1]>>
      BY <2>1 DEF Scanned
    <2> QED BY <1>2, <2>1, <2>2, <2>3
  <1>4. ASSUME NEW y \in 1..n
        PROVE  /\ A[y] = After(i, From(i, y))
               /\ Last(Trace(From(i, y), To(i, y), After(i, From(i, y)))) = After(i, To(i, y))
    <2>1. y \in 1..(n + 1)
      BY <1>2
    <2>2. /\ y = 1 => From(i, y) = cu[i]
          /\ y # 1 => From(i, y) = To(i, y - 1)
          /\ Boundary(i, From(i, y)) /\ Boundary(i, To(i, y)) /\ From(i, y) <= To(i, y)
      BY <1>2, PieceFacts DEF n
    <2>3. A[y] = After(i, From(i, y))
      BY <2>1, <2>2
    <2> DEFINE s == From(i, y)
               e == To(i, y)
    <2>4. Boundary(i, s) /\ Boundary(i, e) /\ s <= e
      BY <2>2
    <2> HIDE DEF s, e
    <2>5. Last(Trace(s, e, After(i, s))) = After(i, e)
      BY <1>2, <2>4, PartIs
    <2> QED BY <2>3, <2>5 DEF s, e
  <1>5. R(A)
    <2>1. ASSUME NEW y \in 1..(n + 1) PROVE A[y] = Step1(A, y)
      <3>1. CASE y = 1
        <4>1. InitialStates[i] = After(i, cu[i])
          BY <1>2 DEF InitialStates
        <4>2. A[1] = After(i, cu[i])
          BY <1>2
        <4> HIDE DEF A
        <4> QED BY <1>2, <3>1, <4>1, <4>2
      <3>2. CASE y # 1
        <4>1. y - 1 \in 1..n
          BY <1>2, <3>2
        <4>2. A[y] = After(i, To(i, y - 1))
          BY <3>2
        <4>3. row(y - 1) = <<From(i, y - 1), To(i, y - 1)>>
          BY <1>3, <4>1
        <4>4. A[y - 1] = After(i, From(i, y - 1))
          BY <1>4, <4>1
        <4>5. Last(Trace(From(i, y - 1), To(i, y - 1), After(i, From(i, y - 1))))
                  = After(i, To(i, y - 1))
          BY <1>4, <4>1
        <4> HIDE DEF A, row
        <4>6. Step1(A, y) = Last(Trace(row(y - 1)[1], row(y - 1)[2], A[y - 1]))
          BY <3>2
        <4> QED BY <4>2, <4>3, <4>4, <4>5, <4>6
      <3> QED BY <3>1, <3>2
    <2>2. A = [y \in 1..(n + 1) |-> A[y]]
      OBVIOUS
    <2> HIDE DEF A, Step1
    <2> QED BY <1>2, <2>1, <2>2
  <1> HIDE DEF A
  <1>6. R(f0)
    <2> HIDE DEF R
    <2> QED BY <1>5
  <1> HIDE DEF f0
  <1> DEFINE G == {y \in 1..(n + 1) : f0[y] = A[y]}
  <1>7. R(f0) => \A y \in 1..(n + 1) : f0[y] = Step1(f0, y)
    <2> HIDE DEF Step1
    <2> QED BY <1>2
  <1>8. R(A) => \A y \in 1..(n + 1) : A[y] = Step1(A, y)
    <2> HIDE DEF Step1
    <2> QED BY <1>2
  <1> HIDE DEF R
  <1>9. 1 \in G
    <2>1. 1 \in 1..(n + 1)
      BY <1>2
    <2>2. f0[1] = Step1(f0, 1) /\ A[1] = Step1(A, 1)
      BY <1>5, <1>6, <1>7, <1>8, <2>1
    <2>3. Step1(f0, 1) = InitialStates[tabs.ids[q]] /\ Step1(A, 1) = InitialStates[tabs.ids[q]]
      OBVIOUS
    <2> HIDE DEF Step1
    <2> QED BY <2>1, <2>2, <2>3
  <1>10. ASSUME NEW y \in 1 .. (n + 1) - 1, y \in G PROVE y + 1 \in G
    <2>1. y + 1 \in 1..(n + 1) /\ y + 1 # 1 /\ (y + 1) - 1 = y
      BY <1>2
    <2>2. f0[y + 1] = Step1(f0, y + 1) /\ A[y + 1] = Step1(A, y + 1)
      BY <1>5, <1>6, <1>7, <1>8, <2>1
    <2>3. f0[y] = A[y]
      BY <1>10
    <2>4. Step1(f0, y + 1) = Step1(A, y + 1)
      <3> HIDE DEF row
      <3> QED BY <2>1, <2>3
    <2> HIDE DEF Step1
    <2> QED BY <2>1, <2>2, <2>4
  <1>11. 1 .. n + 1 \subseteq G
    <2>1. 1 \in Int /\ n + 1 \in Int
      BY <1>2
    <2> HIDE DEF G
    <2> QED BY <1>9, <1>10, <2>1, UpFrom
  <1>12. x \in 1..n /\ x \in 1..(n + 1)
    BY <1>2 DEF n, i
  <1>13. f0[x] = A[x]
    BY <1>11, <1>12
  <1> QED BY <1>1, <1>4, <1>12, <1>13 DEF i

LEMMA TablesKept ==
    ASSUME call' = call, cut' = cut, tabs' = tabs, Tables
    PROVE  Tables'
  BY SameCounts, SameTables DEF Tables

LEMMA ScannedKept ==
    ASSUME call' = call, hm' = hm, Scanned
    PROVE  Scanned'
  BY SameTables DEF Scanned

\* One merge block more: its rows, and no others.
LEMMA MergeStep ==
    ASSUME Merging, NEW q \in toMerge, MergeBlock(q)
    PROVE  Merging'
  <1>1. /\ Tables /\ Scanned /\ toMerge \subseteq 1..NumSplit
        /\ Cuttable /\ tabs = Indices
    BY DEF Merging, Tables
  <1>2. PICK m : /\ merged = m
                 /\ m = [x \in DOMAIN Indices.nonFirst |-> m[x]]
                 /\ \A r \in 1..NumSplit : r \notin toMerge => MergedRight(m, r)
    BY DEF Merging
  <1>3. call' = call /\ cut' = cut /\ tabs' = tabs /\ hm' = hm /\ toMerge' = toMerge \ {q}
    BY DEF MergeBlock
  <1>4. q \in 1..NumSplit
    BY <1>1
  <1> DEFINE M == [x \in DOMAIN Indices.nonFirst |->
                     IF x - Row(q) \in 1..(Counts[SplitIds[q]] - 1)
                     THEN Carry(q)[x - Row(q) + 1] ELSE m[x]]
  <1>5. merged' = M
    <2>1. DOMAIN merged = DOMAIN Indices.nonFirst
      BY <1>2
    <2>2. tabs.offsets[q] = Row(q) /\ tabs.counts[q] = Counts[SplitIds[q]]
      BY <1>1, <1>4, IndicesAre
    <2>3. merged' = [x \in DOMAIN merged |->
                       IF x - tabs.offsets[q] \in 1..(tabs.counts[q] - 1)
                       THEN Carry(q)[x - tabs.offsets[q] + 1] ELSE merged[x]]
      BY DEF MergeBlock
    <2> QED BY <1>2, <2>1, <2>2, <2>3
  <1>6. \A r \in 1..NumSplit : /\ Row(r) \in Nat /\ SplitIds[r] \in 1..N
                               /\ Counts[SplitIds[r]] \in Nat \ {0}
    <2>1. \A r \in 1..NumSplit : r \in 1..(NumSplit + 1)
      BY <1>1, RowsRun
    <2>2. \A r \in 1..NumSplit : SplitIds[r] \in 1..N
      BY <1>1, RowsRun
    <2> QED BY <1>1, <2>1, <2>2, RowsRun, CuttableFacts
  <1>7. ASSUME NEW r \in 1..NumSplit, NEW j \in 1..(Counts[SplitIds[r]] - 1)
        PROVE  Row(r) + j \in DOMAIN Indices.nonFirst
    BY <1>1, IndicesAre
  <1>8. MergedRight(M, q)
    <2> SUFFICES ASSUME NEW j \in 1..(Counts[SplitIds[q]] - 1)
                 PROVE  M[Row(q) + j] = After(SplitIds[q], From(SplitIds[q], j + 1))
      BY DEF MergedRight
    <2>1. Row(q) \in Nat /\ Counts[SplitIds[q]] \in Nat \ {0}
      BY <1>4, <1>6
    <2>2. (Row(q) + j) - Row(q) = j /\ j + 1 \in 1..Counts[SplitIds[q]]
      BY <2>1
    <2>3. M[Row(q) + j] = Carry(q)[j + 1]
      BY <1>4, <1>7, <2>2
    <2> QED BY <1>1, <1>4, <2>2, <2>3, CarryIs
  <1>9. ASSUME NEW r \in 1..NumSplit, r # q, MergedRight(m, r) PROVE MergedRight(M, r)
    <2> SUFFICES ASSUME NEW j \in 1..(Counts[SplitIds[r]] - 1)
                 PROVE  M[Row(r) + j] = After(SplitIds[r], From(SplitIds[r], j + 1))
      BY DEF MergedRight
    <2>1. (Row(r) + j) - Row(q) \notin 1..(Counts[SplitIds[q]] - 1)
      BY <1>1, <1>4, <1>9, IndicesAre
    <2>2. M[Row(r) + j] = m[Row(r) + j]
      BY <1>7, <2>1
    <2> QED BY <1>9, <2>2 DEF MergedRight
  <1>10. M = [x \in DOMAIN Indices.nonFirst |-> M[x]]
    OBVIOUS
  <1> HIDE DEF M
  <1>11. \A r \in 1..NumSplit : r \notin toMerge' => MergedRight(M, r)
    BY <1>2, <1>3, <1>8, <1>9
  <1>12. PICK w : merged' = w
    OBVIOUS
  <1>13. /\ w = [x \in DOMAIN Indices.nonFirst |-> w[x]]
         /\ \A r \in 1..NumSplit : r \notin toMerge' => MergedRight(w, r)
    BY <1>5, <1>10, <1>11, <1>12
  <1>14. \A r : MergedRight(w, r)' <=> MergedRight(w, r)
    BY <1>3, SameStates
  <1>15. Indices' = Indices /\ NumSplit' = NumSplit
    BY <1>3, SameTables
  <1>16. Tables' /\ Scanned'
    BY <1>1, <1>3, TablesKept, ScannedKept
  <1>17. (toMerge \subseteq 1..NumSplit)'
    BY <1>1, <1>3, <1>15
  <1> QED BY <1>12, <1>13, <1>14, <1>15, <1>16, <1>17 DEF Merging

LEMMA MaxOne ==
    ASSUME NEW n \in Int
    PROVE  Max({n}) = n
  BY DEF Max

\* Once every block has merged, each piece gets the state before it.
LEMMA ScatterStep ==
    ASSUME Merging, Scatter
    PROVE  Fed(first')
  <1>1. /\ Tables /\ Cuttable /\ tabs = Indices /\ cut = Boundaries /\ toMerge = {}
    BY DEF Merging, Tables, Scatter
  <1>2. PICK m : /\ merged = m
                 /\ m = [x \in DOMAIN Indices.nonFirst |-> m[x]]
                 /\ \A r \in 1..NumSplit : MergedRight(m, r)
    BY <1>1 DEF Merging
  <1>3. /\ N \in Nat \ {0} /\ Batch /\ NumSeqs(cut) = Pieces /\ Pieces \in Nat
        /\ \A i \in 1..N : Counts[i] \in Nat \ {0} /\ (Counts[i] # 1 => i \in Split)
        /\ \A i \in 1..N : Before(i) \in Nat
        /\ \A i \in 1..N : tabs.firsts[i] = Before(i) + 1
    <2>1. \A i \in 1..N : i \in 1..(N + 1)
      BY <1>1, CuttableFacts
    <2>2. \A i \in 1..N : Before(i) \in Nat
      BY <1>1, <2>1, BeforesRun
    <2>3. \A i \in 1..N : tabs.firsts[i] = Before(i) + 1
      BY <1>1, IndicesAre
    <2> QED BY <1>1, <2>2, <2>3, CuttableFacts, PieceOf, BoundariesAre
  <1> DEFINE given(p) == {i \in 1..N : tabs.firsts[i] = p}
             carried(p) == {k \in DOMAIN merged : tabs.nonFirst[k] = p}
             got(p) == IF carried(p) # {} THEN merged[Max(carried(p))]
                       ELSE IF call.hasH0 /\ given(p) # {} THEN InitialStates[Max(given(p))]
                       ELSE Zero
  <1>4. first' = [p \in 1..Pieces |-> got(p)]
    <2>1. first' = [p \in 1..NumSeqs(cut) |-> got(p)]
      BY DEF Scatter
    <2> HIDE DEF got
    <2> QED BY <1>3, <2>1
  <1>5. ASSUME NEW k \in DOMAIN merged
        PROVE  \E q \in 1..NumSplit : \E j \in 1..(Counts[SplitIds[q]] - 1) :
                  /\ k = Row(q) + j
                  /\ tabs.nonFirst[k] = Before(SplitIds[q]) + (j + 1)
                  /\ j + 1 \in 1..Counts[SplitIds[q]] /\ j + 1 # 1
                  /\ SplitIds[q] \in 1..N
    <2>1. k \in DOMAIN Indices.nonFirst
      BY <1>2
    <2>2. PICK q \in 1..NumSplit : \E j \in 1..(Counts[SplitIds[q]] - 1) : k = Row(q) + j
      BY <1>1, <2>1, IndicesAre
    <2>3. PICK j \in 1..(Counts[SplitIds[q]] - 1) : k = Row(q) + j
      BY <2>2
    <2>4. Indices.nonFirst[Row(q) + j] = Before(SplitIds[q]) + 1 + j
      BY <1>1, IndicesAre
    <2>5. SplitIds[q] \in 1..N
      BY <1>1, RowsRun
    <2>6. /\ Before(SplitIds[q]) + 1 + j = Before(SplitIds[q]) + (j + 1)
          /\ j + 1 \in 1..Counts[SplitIds[q]] /\ j + 1 # 1
      BY <1>3, <2>5
    <2> QED BY <1>1, <2>3, <2>4, <2>5, <2>6
  <1>6. ASSUME NEW i \in 1..N, NEW j \in 1..Counts[i]
        PROVE  got(Before(i) + j) = After(i, From(i, j))
    <2> DEFINE p == Before(i) + j
    <2>1. CASE j = 1
      <3>1. carried(p) = {}
        <4> SUFFICES ASSUME NEW k \in DOMAIN merged, tabs.nonFirst[k] = p PROVE FALSE
          OBVIOUS
        <4>0. PICK q \in 1..NumSplit : \E l \in 1..(Counts[SplitIds[q]] - 1) :
                  /\ tabs.nonFirst[k] = Before(SplitIds[q]) + (l + 1)
                  /\ l + 1 \in 1..Counts[SplitIds[q]] /\ l + 1 # 1
                  /\ SplitIds[q] \in 1..N
          BY <1>5
        <4>1. PICK l \in 1..(Counts[SplitIds[q]] - 1) :
                  /\ tabs.nonFirst[k] = Before(SplitIds[q]) + (l + 1)
                  /\ l + 1 \in 1..Counts[SplitIds[q]] /\ l + 1 # 1
                  /\ SplitIds[q] \in 1..N
          BY <4>0
        <4>2. Before(SplitIds[q]) + (l + 1) = Before(i) + j
          BY <4>1
        <4>3. l + 1 = j
          BY <1>1, <4>1, <4>2, PieceOf
        <4> QED BY <2>1, <4>1, <4>3
      <3>2. given(p) = {i}
        <4>1. \A k \in 1..N : tabs.firsts[k] = p => k = i
          <5> SUFFICES ASSUME NEW k \in 1..N, tabs.firsts[k] = p PROVE k = i
            OBVIOUS
          <5>1. Before(k) + 1 = Before(i) + j /\ 1 \in 1..Counts[k]
            BY <1>3
          <5> QED BY <1>1, <5>1, PieceOf
        <4>2. tabs.firsts[i] = p
          BY <1>3, <2>1
        <4> QED BY <4>1, <4>2
      <3>3. From(i, j) = cu[i]
        BY <1>1, <2>1, PieceFacts
      <3>4. InitialStates[i] = After(i, cu[i]) /\ Max({i}) = i
        BY <1>3, MaxOne DEF InitialStates
      <3> HIDE DEF p, carried, given
      <3>5. got(p) = IF call.hasH0 THEN InitialStates[i] ELSE Zero
        BY <3>1, <3>2, <3>4
      <3>6. ~call.hasH0 => After(i, cu[i]) = Zero
        BY DEF After
      <3> HIDE DEF got
      <3>7. got(p) = After(i, From(i, j))
        BY <3>3, <3>4, <3>5, <3>6
      <3> QED BY <3>7 DEF p
    <2>2. CASE j # 1
      <3>1. i \in Split
        BY <1>3, <2>2
      <3>2. PICK q \in 1..NumSplit : SplitIds[q] = i
        BY <1>3, <3>1, Listed DEF NumSplit
      <3>3. j - 1 \in 1..(Counts[SplitIds[q]] - 1) /\ (j - 1) + 1 = j
        BY <1>3, <2>2, <3>2
      <3> DEFINE x == Row(q) + (j - 1)
      <3>4. x \in DOMAIN Indices.nonFirst /\ Indices.nonFirst[x] = Before(i) + 1 + (j - 1)
        BY <1>1, <3>2, <3>3, IndicesAre
      <3>5. x \in DOMAIN merged /\ tabs.nonFirst[x] = p
        <4>1. Before(i) + 1 + (j - 1) = p
          BY <1>3
        <4> QED BY <1>1, <1>2, <3>4, <4>1
      <3>6. ASSUME NEW k \in DOMAIN merged, tabs.nonFirst[k] = p PROVE k = x
        <4>0. PICK r \in 1..NumSplit : \E l \in 1..(Counts[SplitIds[r]] - 1) :
                  /\ k = Row(r) + l
                  /\ tabs.nonFirst[k] = Before(SplitIds[r]) + (l + 1)
                  /\ l + 1 \in 1..Counts[SplitIds[r]]
                  /\ SplitIds[r] \in 1..N
          BY <1>5
        <4>1. PICK l \in 1..(Counts[SplitIds[r]] - 1) :
                  /\ k = Row(r) + l
                  /\ tabs.nonFirst[k] = Before(SplitIds[r]) + (l + 1)
                  /\ l + 1 \in 1..Counts[SplitIds[r]]
                  /\ SplitIds[r] \in 1..N
          BY <4>0
        <4>2. Before(SplitIds[r]) + (l + 1) = Before(i) + j
          BY <3>6, <4>1
        <4>3. SplitIds[r] = i /\ l + 1 = j
          BY <1>1, <4>1, <4>2, PieceOf
        <4>4. r = q
          BY <1>3, <3>2, <4>3, Listed DEF NumSplit
        <4>5. l = j - 1
          BY <1>3, <4>1, <4>3
        <4> QED BY <4>1, <4>4, <4>5
      <3>7. carried(p) = {x}
        <4> HIDE DEF x, p
        <4> QED BY <3>5, <3>6
      <3>8. x \in Int
        <4>1. q \in 1..(NumSplit + 1)
          BY <1>1, RowsRun
        <4>2. Row(q) \in Nat
          BY <1>1, <4>1, RowsRun
        <4> QED BY <3>3, <4>2
      <3>9. merged[x] = After(i, From(i, j))
        <4>1. m[x] = After(SplitIds[q], From(SplitIds[q], (j - 1) + 1))
          BY <1>2, <3>3 DEF MergedRight
        <4> QED BY <1>2, <3>2, <3>3, <4>1
      <3>10. Max(carried(p)) = x
        <4> HIDE DEF x, p, carried
        <4> QED BY <3>7, <3>8, MaxOne
      <3> HIDE DEF x, carried, given
      <3>11. got(p) = merged[x]
        BY <3>7, <3>10
      <3> HIDE DEF got
      <3> QED BY <3>9, <3>11
    <2> QED BY <2>1, <2>2
  <1> HIDE DEF got
  <1> QED BY <1>1, <1>4, <1>6, PieceOf DEF Fed

\* The calls end with the serial recurrence's states.
LEMMA FwdStep ==
    ASSUME Tables, NEW f, first = f, Fed(f), FwdPieces
    PROVE  CpIsSerial'
  <1>1. call' = call /\ Cuttable /\ cut = Boundaries /\ tabs = Indices
    BY DEF Tables, FwdPieces
  <1>2. h' = SerialRows
    BY <1>1, SplitJoins DEF FwdPieces
  <1>3. last' = IF call.outputFinal THEN SerialFinal ELSE <<>>
    <2>1. [i \in 1..N |-> FwdFinal(cut, first)[tabs.lasts[i]]] = SerialFinal
      <3>1. \A i \in 1..N : tabs.lasts[i] = Before(i + 1)
        BY <1>1, IndicesAre
      <3>2. \A i \in 1..N : FwdFinal(cut, first)[tabs.lasts[i]] = After(i, cu[i + 1])
        BY <1>1, <3>1, SplitJoins
      <3> QED BY <3>2 DEF SerialFinal
    <2> QED BY <2>1 DEF FwdPieces
  <1> QED BY <1>1, <1>2, <1>3, SameSerial DEF CpIsSerial

LEMMA SerialStep ==
    ASSUME call \in Sm100Calls, Serial
    PROVE  CpIsSerial'
  <1>1. call' = call /\ Batch
    BY BatchFacts DEF Serial, Batch
  <1>2. h' = SerialRows /\ last' = IF call.outputFinal THEN SerialFinal ELSE <<>>
    BY <1>1, WholeIs DEF Serial
  <1> QED BY <1>1, <1>2, SameSerial DEF CpIsSerial

\* A step that ends no call with states.
LEMMA SerialKept ==
    ASSUME CpIsSerial, call' = call,
           \/ outcome' \notin {"cp", "serial"}
           \/ outcome' = outcome /\ h' = h /\ last' = last
    PROVE  CpIsSerial'
  BY SameSerial DEF CpIsSerial

LEMMA OnItsWayStep == OnItsWay /\ [Next]_vars => OnItsWay'
  <1> SUFFICES ASSUME OnItsWay, [Next]_vars PROVE OnItsWay'
    OBVIOUS
  <1>1. CASE UNCHANGED vars \/ Done
    <2>1. UNCHANGED <<call, pc, outcome, cut, tabs, hm, merged, toMerge, first, h, last>>
      BY <1>1 DEF vars, Done
    <2>2. call.path = "sm100" => CpIsSerial'
      BY <2>1, SerialKept DEF OnItsWay
    <2>3. Merging => Merging'
      <3> SUFFICES ASSUME Merging PROVE Merging'
        OBVIOUS
      <3>1. Tables' /\ Scanned'
        BY <2>1, TablesKept, ScannedKept DEF Merging
      <3>2. PICK m : /\ merged = m
                     /\ m = [x \in DOMAIN Indices.nonFirst |-> m[x]]
                     /\ \A q \in 1..NumSplit : q \notin toMerge => MergedRight(m, q)
        BY DEF Merging
      <3>3. \A q : MergedRight(m, q)' <=> MergedRight(m, q)
        BY <2>1, SameStates
      <3>4. Indices' = Indices /\ NumSplit' = NumSplit
        BY <2>1, SameTables
      <3>5. (toMerge \subseteq 1..NumSplit)'
        BY <2>1, <3>4 DEF Merging
      <3> QED BY <2>1, <3>1, <3>2, <3>3, <3>4, <3>5 DEF Merging
    <2>4. ASSUME NEW f, first = f, Fed(f) PROVE (first = f /\ Fed(f))'
      BY <2>1, <2>4, SameStates
    <2>5. Tables => Tables'
      BY <2>1, TablesKept
    <2> QED BY <2>1, <2>2, <2>3, <2>4, <2>5 DEF OnItsWay
  <1>2. CASE Sm90Next \/ HopperNext
    <2>1. call' = call /\ call.path # "sm100"
      BY <1>2, Sm90Steps DEF HopperNext, DecideHopper, ScanTile, RunPieces, RunWhole
    <2> QED BY <2>1 DEF OnItsWay
  <1>3. CASE Sm100Next
    <2>0. /\ call' = call /\ call.path = "sm100" /\ call \in Sm100Calls /\ CpIsSerial
          /\ pc = "prescan" => Tables
          /\ pc = "merge" => Merging
          /\ pc = "fwd" => Tables /\ \E f : first = f /\ Fed(f)
      BY <1>3, Sm100Steps, PathOfCall DEF OnItsWay
    <2>1. ASSUME pc' \notin {"prescan", "merge", "fwd"}, CpIsSerial' PROVE OnItsWay'
      BY <2>0, <2>1 DEF OnItsWay
    <2>2. CASE Decide
      <3>1. /\ pc' \notin {"prescan", "merge", "fwd"} /\ h' = h /\ last' = last
            /\ outcome' = outcome \/ outcome' \notin {"cp", "serial"}
        BY <2>2, DeclinedFits DEF Decide, Leave, Raise
      <3>2. CpIsSerial'
        BY <2>0, <3>1, SerialKept
      <3> QED BY <2>1, <3>1, <3>2
    <2>3. CASE Plan
      <3>1. /\ h' = h /\ last' = last
            /\ outcome' = outcome \/ outcome' \notin {"cp", "serial"}
        BY <2>3, DeclinedFits DEF Plan, Leave, Raise
      <3>2. CpIsSerial'
        BY <2>0, <3>1, SerialKept
      <3>3. CASE DividesByZero \/ Split = {} \/ Total(Counts) * PerSeqUnits > Sms
        <4>1. pc' \notin {"prescan", "merge", "fwd"}
          BY <2>3, <3>3, DeclinedFits DEF Plan, Leave, Raise
        <4> QED BY <2>1, <3>2, <4>1
      <3>4. CASE ~(DividesByZero \/ Split = {} \/ Total(Counts) * PerSeqUnits > Sms)
        <4>1. pc' = "prescan" /\ cut' = Boundaries /\ tabs' = Indices
          BY <2>3, <3>4 DEF Plan
        <4>2. Tables'
          BY <2>0, <3>4, <4>1, SameCounts, SameTables DEF Tables, Cuttable
        <4> QED BY <2>0, <3>2, <4>1, <4>2 DEF OnItsWay
      <3> QED BY <3>3, <3>4
    <2>4. CASE PreScan
      <3>1. /\ pc = "prescan" /\ pc' = "merge" /\ cut' = cut /\ tabs' = tabs
            /\ hm' = [p \in 1..NumSeqs(cut) |-> <<cut[p], cut[p + 1]>>]
            /\ merged' = [x \in DOMAIN tabs.nonFirst |-> Bad]
            /\ toMerge' = DOMAIN tabs.ids
            /\ outcome' = outcome /\ h' = h /\ last' = last
        BY <2>4 DEF PreScan
      <3>2. Tables /\ Tables' /\ Cuttable /\ cut = Boundaries /\ tabs = Indices
        BY <2>0, <3>1, TablesKept DEF Tables
      <3>3. Scanned'
        BY <2>0, <3>1, <3>2, BoundariesAre, SameTables DEF Scanned
      <3>4. toMerge' = 1..NumSplit
        BY <3>1, <3>2, IndicesAre
      <3>5. PICK w : merged' = w
        OBVIOUS
      <3>6. w = [x \in DOMAIN Indices.nonFirst |-> w[x]]
        BY <3>1, <3>2, <3>5
      <3>7. Indices' = Indices /\ NumSplit' = NumSplit
        BY <2>0, SameTables
      <3>8. Merging'
        BY <3>2, <3>3, <3>4, <3>5, <3>6, <3>7 DEF Merging
      <3>9. CpIsSerial'
        BY <2>0, <3>1, SerialKept
      <3> QED BY <2>0, <3>1, <3>8, <3>9 DEF OnItsWay
    <2>5. ASSUME NEW q \in toMerge, MergeBlock(q) PROVE OnItsWay'
      <3>1. pc = "merge" /\ pc' = "merge" /\ outcome' = outcome /\ h' = h /\ last' = last
        BY <2>5 DEF MergeBlock
      <3>2. Merging'
        BY <2>0, <2>5, <3>1, MergeStep
      <3>3. CpIsSerial'
        BY <2>0, <3>1, SerialKept
      <3> QED BY <2>0, <3>1, <3>2, <3>3 DEF OnItsWay
    <2>6. CASE Scatter
      <3>1. /\ pc = "merge" /\ pc' = "fwd" /\ cut' = cut /\ tabs' = tabs
            /\ outcome' = outcome /\ h' = h /\ last' = last
        BY <2>6 DEF Scatter
      <3>2. Merging /\ Fed(first')
        BY <2>0, <2>6, <3>1, ScatterStep
      <3>3. Tables'
        BY <2>0, <3>1, <3>2, TablesKept DEF Merging
      <3>4. PICK f : first' = f
        OBVIOUS
      <3>5. Fed(f)
        BY <3>2, <3>4
      <3>6. Fed(f)'
        BY <2>0, <3>5, SameStates
      <3>7. CpIsSerial'
        BY <2>0, <3>1, SerialKept
      <3> QED BY <2>0, <3>1, <3>3, <3>4, <3>6, <3>7 DEF OnItsWay
    <2>7. CASE FwdPieces
      <3>1. pc = "fwd" /\ pc' = "done"
        BY <2>7 DEF FwdPieces
      <3>2. PICK f : first = f /\ Fed(f)
        BY <2>0, <3>1
      <3>3. CpIsSerial'
        BY <2>0, <2>7, <3>1, <3>2, FwdStep
      <3> QED BY <2>1, <3>1, <3>3
    <2>8. CASE Serial
      <3>1. pc' = "done"
        BY <2>8 DEF Serial
      <3> QED BY <2>0, <2>1, <2>8, <3>1, SerialStep
    <2> QED BY <1>3, <2>2, <2>3, <2>4, <2>5, <2>6, <2>7, <2>8 DEF Sm100Next
  <1> QED BY <1>1, <1>2, <1>3 DEF Next

\* Whatever an SM100 call splits, and in whatever order the blocks of the
\* merge kernel run, it returns the states of the serial recurrence (CpIsSerial).
THEOREM Sm100CpIsSerial == Spec => [](call.path = "sm100" => CpIsSerial)
  <1>1. Init => OnItsWay
    BY DEF Init, Begin, OnItsWay, CpIsSerial
  <1>2. OnItsWay => (call.path = "sm100" => CpIsSerial)
    BY DEF OnItsWay
  <1> QED BY <1>1, <1>2, OnItsWayStep, PTL DEF Spec

-----------------------------------------------------------------------------
(***************************************************************************)
(* One Hopper call: where its sequences are cut.                           *)
(***************************************************************************)
USE TilesAssumption DEF TilesAssumption

LEMMA HopperBatch ==
    ASSUME call \in HopperCalls
    PROVE  /\ Batch /\ N \in Nat \ {0} /\ H \in Nat \ {0} /\ cu[1] = 0
           /\ \A i \in 1..N : cu[i] < cu[i + 1]
           /\ T = cu[N + 1] /\ T \in Nat \ {0}
           /\ \A i \in 1..(N + 1) : cu[i] \in Nat /\ cu[i] <= T
  <1>1. cu \in HopperBatches
    BY DEF HopperCalls, cu
  <1>2. /\ cu \in Seq(Nat) /\ Len(cu) >= 2
        /\ \A i, j \in 1..Len(cu) : i <= j => cu[i] <= cu[j]
    BY <1>1, BatchesAssumption DEF BatchesAssumption
  <1>3. cu[1] = 0 /\ \A i \in 1..N : cu[i] < cu[i + 1]
    BY <1>1, NonEmptyAssumption DEF NonEmptyAssumption, N
  <1>4. Len(cu) = N + 1 /\ N \in Nat \ {0} /\ H \in Nat \ {0}
    BY <1>2, CallFacts DEF N, NumSeqs
  <1>5. \A i \in 1..(N + 1) : cu[i] \in Nat
    BY <1>2, <1>4
  <1>6. Batch
    BY <1>2, <1>4, <1>5 DEF Batch
  <1>7. T = cu[N + 1]
    BY DEF T
  <1>8. N + 1 \in 1..(N + 1) /\ N \in 1..N /\ N \in 1..(N + 1)
    BY <1>4
  <1>9. T \in Nat \ {0}
    BY <1>3, <1>5, <1>7, <1>8
  <1>10. \A i \in 1..(N + 1) : cu[i] <= T
    BY <1>4, <1>6, <1>7, <1>8 DEF Batch
  <1> QED BY <1>3, <1>4, <1>5, <1>6, <1>7, <1>9, <1>10

\* The powers of two up to one.
Doubles(F, n) ==
    /\ F = [k \in 0..n |-> F[k]] /\ F[0] = 1
    /\ \A k \in 1..n : F[k] = 2 * F[k - 1]

LEMMA DoublesExist ==
    ASSUME NEW n \in Nat
    PROVE  \E F : Doubles(F, n)
  <1> DEFINE G == {k \in Nat : \E F : Doubles(F, k)}
  <1>1. 0 \in G
    <2> DEFINE F == [k \in 0..0 |-> 1]
    <2>1. Doubles(F, 0)
      BY DEF Doubles
    <2> QED BY <2>1
  <1>2. ASSUME NEW k \in Nat, k \in G PROVE k + 1 \in G
    <2>1. PICK F : Doubles(F, k)
      BY <1>2
    <2> DEFINE W == [l \in 0..(k + 1) |-> IF l = k + 1 THEN 2 * F[k] ELSE F[l]]
    <2>2. W[0] = 1
      BY <2>1 DEF Doubles
    <2>3. ASSUME NEW l \in 1..(k + 1) PROVE W[l] = 2 * W[l - 1]
      <3>1. l - 1 \in 0..(k + 1) /\ l - 1 # k + 1 /\ l \in 0..(k + 1)
        OBVIOUS
      <3>2. W[l - 1] = F[l - 1]
        BY <3>1
      <3>3. CASE l = k + 1
        <4>1. W[l] = 2 * F[k] /\ l - 1 = k
          BY <3>1, <3>3
        <4> QED BY <3>2, <4>1
      <3>4. CASE l # k + 1
        <4>1. l \in 1..k /\ W[l] = F[l]
          BY <3>1, <3>4
        <4> QED BY <2>1, <3>2, <4>1 DEF Doubles
      <3> QED BY <3>3, <3>4
    <2>4. W = [l \in 0..(k + 1) |-> W[l]]
      OBVIOUS
    <2> HIDE DEF W
    <2>5. Doubles(W, k + 1)
      BY <2>2, <2>3, <2>4 DEF Doubles
    <2> QED BY <2>5
  <1>3. Nat \subseteq G
    <2> HIDE DEF G
    <2> QED BY <1>1, <1>2, Induction
  <1> QED BY <1>3

LEMMA DoublesPositive ==
    ASSUME NEW n \in Nat, NEW F, Doubles(F, n), NEW k \in 0..n
    PROVE  F[k] \in Nat \ {0}
  <1> DEFINE G == {l \in 0..n : F[l] \in Nat \ {0}}
  <1>1. 0 \in G
    BY DEF Doubles
  <1>2. ASSUME NEW l \in 0 .. n - 1, l \in G PROVE l + 1 \in G
    <2>1. l + 1 \in 1..n /\ (l + 1) - 1 = l /\ F[l] \in Nat \ {0} /\ l + 1 \in 0..n
      BY <1>2
    <2>2. F[l + 1] = 2 * F[l]
      BY <2>1 DEF Doubles
    <2> QED BY <2>1, <2>2
  <1>3. 0 .. n \subseteq G
    <2> HIDE DEF G
    <2> QED BY <1>1, <1>2, UpFrom
  <1> QED BY <1>3

\* The chunks of the batch.
LEMMA TotalNat ==
    ASSUME N \in Nat, NEW K, K = [k \in 1..N |-> K[k]], \A i \in 1..N : K[i] \in Nat
    PROVE  Total(K) \in Nat /\ Total(K) = Off(K, N + 1)
  <1>1. N + 1 \in 1..(N + 1) /\ (N + 1) - 1 = N
    OBVIOUS
  <1>2. Off(K, N + 1) \in Nat
    BY <1>1, OffsRun
  <1>3. Off(K, N + 1) = Total([k \in 1..N |-> K[k]])
    BY <1>1 DEF Off
  <1>4. Off(K, N + 1) = Total(K)
    BY <1>3
  <1> QED BY <1>2, <1>4

LEMMA TotalCounts ==
    ASSUME N \in Nat, \A i \in 1..N : ChunkCounts[i] \in Nat
    PROVE  Total(ChunkCounts) \in Nat
  <1>1. ChunkCounts = [k \in 1..N |-> ChunkCounts[k]]
    BY DEF ChunkCounts
  <1> QED BY <1>1, TotalNat

LEMMA ChunkCountsAre ==
    ASSUME Batch
    PROVE  \A i \in 1..N : ChunkCounts[i] = Chunks(cu[i + 1] - cu[i]) /\ ChunkCounts[i] \in Nat
  <1> SUFFICES ASSUME NEW i \in 1..N
               PROVE  ChunkCounts[i] = Chunks(cu[i + 1] - cu[i]) /\ ChunkCounts[i] \in Nat
    OBVIOUS
  <1>1. cu[i + 1] - cu[i] \in Nat
    <2>1. i \in 1..(N + 1) /\ i + 1 \in 1..(N + 1) /\ i <= i + 1
      BY DEF Batch
    <2> QED BY <2>1 DEF Batch
  <1>2. ChunkCounts[i] = Chunks(cu[i + 1] - cu[i])
    BY DEF ChunkCounts, SeqLen
  <1> QED BY <1>1, <1>2, ChunksEnough

\* A piece has a chunk at least.
LEMMA LocalFacts ==
    ASSUME call \in HopperCalls
    PROVE  LocalChunks \in Nat \ {0} /\ Local \in Nat \ {0} /\ BT <= Local
           /\ Local = LocalChunks * BT
  <1> DEFINE share == Larger(1, Total(ChunkCounts) \div Larger(1, Sms \div H))
             Step1(f, k) == IF k = 0 THEN 1 ELSE 2 * f[k - 1]
             R(f) == f = [k \in 0..share |-> Step1(f, k)]
             power == CHOOSE f : R(f)
             near == {k \in 0..share :
                        power[k] < 2 * share /\ power[k] * power[k] <= 2 * share * share}
  <1>1. LocalChunks = Larger(power[Max(near)], MinLocalChunks)
    BY DEF LocalChunks
  <1>2. share \in Nat \ {0}
    <2>1. H \in Nat \ {0} /\ Total(ChunkCounts) \in Nat
      BY HopperBatch, ChunkCountsAre, TotalCounts
    <2> DEFINE d == Larger(1, Sms \div H)
    <2>2. d \in Nat \ {0}
      <3>1. Sms \div H \in Nat
        BY <2>1, DivFacts
      <3> QED BY <3>1 DEF Larger
    <2> HIDE DEF d
    <2>3. Total(ChunkCounts) \div d \in Nat
      BY <2>1, <2>2, DivFacts
    <2> QED BY <2>3 DEF Larger, d
  <1> HIDE DEF share
  <1>3. PICK F : Doubles(F, share)
    BY <1>2, DoublesExist
  <1>4. R(F)
    <2>1. ASSUME NEW k \in 0..share PROVE F[k] = Step1(F, k)
      <3>1. CASE k = 0
        BY <1>3, <3>1 DEF Doubles
      <3>2. CASE k # 0
        <4>1. k \in 1..share
          BY <1>2, <3>2
        <4> QED BY <1>3, <3>2, <4>1 DEF Doubles
      <3> QED BY <3>1, <3>2
    <2>2. F = [k \in 0..share |-> F[k]]
      BY <1>3 DEF Doubles
    <2> HIDE DEF Step1
    <2> QED BY <2>1, <2>2
  <1>5. R(power)
    <2> HIDE DEF R
    <2> QED BY <1>4
  <1> HIDE DEF power
  <1>6. Doubles(power, share)
    <2>1. power = [k \in 0..share |-> Step1(power, k)]
      BY <1>5
    <2>2. \A k \in 0..share : power[k] = Step1(power, k)
      BY <2>1
    <2>3. power[0] = 1
      BY <1>2, <2>2
    <2>4. \A k \in 1..share : power[k] = 2 * power[k - 1]
      <3> SUFFICES ASSUME NEW k \in 1..share PROVE power[k] = 2 * power[k - 1]
        OBVIOUS
      <3>1. k \in 0..share /\ k # 0
        BY <1>2
      <3> QED BY <2>2, <3>1
    <2>5. power = [k \in 0..share |-> power[k]]
      BY <2>1
    <2> QED BY <2>3, <2>4, <2>5 DEF Doubles
  <1>7. 0 \in near
    <2>1. power[0] = 1
      BY <1>6 DEF Doubles
    <2>2. 1 < 2 * share
      BY <1>2
    <2>3. 1 <= 2 * share * share
      <3>1. share <= share * share
        BY <1>2, OneTimes
      <3>2. share * share \in Nat /\ 2 * share * share = 2 * (share * share)
        BY <1>2
      <3> QED BY <1>2, <3>1, <3>2
    <2>4. 0 \in 0..share
      BY <1>2
    <2> QED BY <2>1, <2>2, <2>3, <2>4
  <1>8. near \in SUBSET Nat /\ \A k \in near : k <= share
    BY <1>2
  <1>9. near \subseteq 0..share
    OBVIOUS
  <1> HIDE DEF near
  <1>10. Max(near) \in 0..share
    BY <1>2, <1>7, <1>8, <1>9, MaxFacts
  <1>11. power[Max(near)] \in Nat \ {0}
    BY <1>2, <1>6, <1>10, DoublesPositive
  <1>12. LocalChunks \in Nat \ {0}
    <2>1. MinLocalChunks \in Nat \ {0}
      OBVIOUS
    <2> QED BY <1>1, <1>11, <2>1 DEF Larger
  <1>13. Local = LocalChunks * BT
    BY DEF Local
  <1> HIDE DEF power, near
  <1>14. BT <= BT * LocalChunks /\ BT * LocalChunks = LocalChunks * BT /\ LocalChunks * BT \in Nat
    BY <1>12, OneTimes
  <1> QED BY <1>12, <1>13, <1>14

\* A sequence is cut inside.
LEMMA PieceCountFacts ==
    ASSUME call \in HopperCalls, NEW i \in 1..N
    PROVE  PieceCount(i) \in Nat \ {0} /\ (PieceCount(i) - 1) * Local < cu[i + 1] - cu[i]
  <1> DEFINE len == cu[i + 1] - cu[i]
             d == len - Local - BT
             q == CeilDiv(d, Local)
  <1>1. /\ len \in Nat \ {0} /\ ChunkCounts[i] = Chunks(len) /\ SeqLen(cu, i) = len
        /\ LocalChunks \in Nat \ {0} /\ Local \in Nat \ {0} /\ BT <= Local /\ Local = LocalChunks * BT
    <2>1. Batch /\ cu[i] < cu[i + 1] /\ i \in 1..(N + 1) /\ i + 1 \in 1..(N + 1)
      BY HopperBatch
    <2> QED BY <2>1, ChunkCountsAre, LocalFacts DEF Batch, SeqLen
  <1>2. PieceCount(i) = IF Chunks(len) > LocalChunks THEN 1 + Larger(0, q) ELSE 1
    BY <1>1 DEF PieceCount
  <1> HIDE DEF len
  <1>3. CASE ~(Chunks(len) > LocalChunks)
    <2>1. PieceCount(i) = 1 /\ (1 - 1) * Local = 0
      BY <1>1, <1>2, <1>3
    <2> QED BY <1>1, <2>1 DEF len
  <1>4. CASE Chunks(len) > LocalChunks
    <2>1. len > Local
      <3> SUFFICES ASSUME len <= LocalChunks * BT PROVE FALSE
        BY <1>1
      <3>1. Chunks(len) <= LocalChunks
        BY <1>1, CeilDivLeast DEF Chunks
      <3>2. Chunks(len) \in Nat
        BY <1>1, ChunksEnough
      <3> QED BY <1>1, <1>4, <3>1, <3>2
    <2>2. d + Local - 1 \in Nat
      BY <1>1, <2>1
    <2>3. q \in Nat /\ q * Local <= d + Local - 1
      <3> DEFINE y == d + Local - 1
      <3>1. q = y \div Local /\ y \in Nat
        BY <2>2 DEF CeilDiv
      <3> HIDE DEF y, q
      <3>2. y \div Local \in Nat /\ (y \div Local) * Local <= y
        BY <1>1, <3>1, DivFacts
      <3> QED BY <3>1, <3>2 DEF y
    <2> HIDE DEF q
    <2>4. PieceCount(i) = 1 + q
      BY <1>2, <1>4, <2>3 DEF Larger
    <2>5. q * Local \in Nat /\ q * Local < len
      BY <1>1, <2>3
    <2>6. (1 + q) - 1 = q
      BY <2>3
    <2> QED BY <2>3, <2>4, <2>5, <2>6 DEF len
  <1> QED BY <1>3, <1>4

PieceCounts == [i \in 1..N |-> PieceCount(i)]
Begins(i, j) == cu[i] + (j - 1) * Local
Ends(i, j) == IF j = PieceCounts[i] THEN cu[i + 1] ELSE cu[i] + j * Local

LEMMA PieceCountsAre ==
    ASSUME call \in HopperCalls
    PROVE  /\ Parted(PieceCounts)
           /\ \A i \in 1..N : PieceCounts[i] = PieceCount(i) /\ PieceCounts[i] \in Nat \ {0}
  <1>1. \A i \in 1..N : PieceCounts[i] = PieceCount(i)
    BY DEF PieceCounts
  <1>2. \A i \in 1..N : PieceCounts[i] \in Nat \ {0}
    BY <1>1, PieceCountFacts
  <1> QED BY <1>1, <1>2, HopperBatch DEF Parted

\* The pieces of a sequence: none is empty.
LEMMA PieceLies ==
    ASSUME call \in HopperCalls, NEW i \in 1..N, NEW j \in 1..PieceCounts[i]
    PROVE  /\ Begins(i, j) \in Nat /\ Ends(i, j) \in Nat
           /\ cu[i] <= Begins(i, j) /\ Begins(i, j) < Ends(i, j) /\ Ends(i, j) <= cu[i + 1]
           /\ AtChunk(i, Begins(i, j)) /\ Boundary(i, Begins(i, j)) /\ Boundary(i, Ends(i, j))
           /\ j = 1 => Begins(i, j) = cu[i]
           /\ j # PieceCounts[i] => Ends(i, j) = Begins(i, j + 1)
  <1> DEFINE K == PieceCounts[i]
  <1>1. /\ cu[i] \in Nat /\ cu[i + 1] \in Nat /\ cu[i] < cu[i + 1]
        /\ K \in Nat \ {0} /\ (K - 1) * Local < cu[i + 1] - cu[i]
        /\ LocalChunks \in Nat \ {0} /\ Local \in Nat \ {0} /\ Local = LocalChunks * BT
        /\ BT \in Nat \ {0}
    <2>1. i \in 1..(N + 1) /\ i + 1 \in 1..(N + 1)
      BY HopperBatch
    <2> QED BY <2>1, HopperBatch, PieceCountsAre, PieceCountFacts, LocalFacts
  <1> HIDE DEF K
  <1>2. j \in 1..K
    BY DEF K
  <1>3. ASSUME NEW k \in 0..(K - 1)
        PROVE  /\ k * Local \in Nat /\ k * Local < cu[i + 1] - cu[i]
               /\ AtChunk(i, cu[i] + k * Local)
    <2>1. k \in Nat /\ K - 1 \in Nat /\ k <= K - 1
      BY <1>1
    <2>2. k * Local <= (K - 1) * Local /\ k * Local \in Nat /\ (K - 1) * Local \in Nat
      BY <1>1, <2>1, TimesMono
    <2>3. k * Local = (k * LocalChunks) * BT /\ k * LocalChunks \in Nat
      BY <1>1, <2>1
    <2> HIDE DEF Local
    <2>4. AtChunk(i, cu[i] + k * Local)
      BY <2>3 DEF AtChunk
    <2> QED BY <1>1, <2>2, <2>4
  <1>4. j - 1 \in 0..(K - 1) /\ j - 1 \in Nat /\ j \in Nat
    BY <1>1, <1>2
  <1>5. /\ Begins(i, j) \in Nat /\ cu[i] <= Begins(i, j) /\ Begins(i, j) < cu[i + 1]
        /\ AtChunk(i, Begins(i, j))
    <2> DEFINE t == (j - 1) * Local
    <2>1. t \in Nat /\ t < cu[i + 1] - cu[i] /\ AtChunk(i, cu[i] + t) /\ Begins(i, j) = cu[i] + t
      BY <1>3, <1>4 DEF Begins
    <2> HIDE DEF t
    <2> QED BY <1>1, <2>1
  <1>6. Boundary(i, Begins(i, j))
    BY <1>1, <1>5 DEF Boundary
  <1>7. j = 1 => Begins(i, j) = cu[i]
    <2>1. (1 - 1) * Local = 0
      BY <1>1
    <2> QED BY <1>1, <2>1 DEF Begins
  <1>8. CASE j = K
    <2>1. Ends(i, j) = cu[i + 1]
      BY <1>8 DEF Ends, K
    <2>2. Boundary(i, cu[i + 1])
      BY <1>1 DEF Boundary
    <2> QED BY <1>1, <1>5, <1>6, <1>7, <1>8, <2>1, <2>2 DEF K
  <1>9. CASE j # K
    <2>1. Ends(i, j) = cu[i] + j * Local
      BY <1>9 DEF Ends, K
    <2>2. j \in 0..(K - 1)
      BY <1>1, <1>2, <1>9
    <2>3. j * Local = (j - 1) * Local + Local /\ (j - 1) * Local \in Nat
      BY <1>1, <1>4
    <2> DEFINE t == j * Local
    <2>4. t \in Nat /\ t < cu[i + 1] - cu[i] /\ AtChunk(i, cu[i] + t)
      BY <1>3, <2>2
    <2>5. Begins(i, j) < cu[i] + t
      BY <1>1, <2>3 DEF Begins
    <2> HIDE DEF t
    <2>6. Boundary(i, cu[i] + t)
      BY <1>1, <2>4 DEF Boundary
    <2>7. Begins(i, j + 1) = cu[i] + t
      <3>1. (j + 1) - 1 = j
        BY <1>4
      <3> QED BY <3>1 DEF Begins, t
    <2> QED BY <1>1, <1>5, <1>6, <1>7, <2>1, <2>4, <2>5, <2>6, <2>7 DEF t
  <1> QED BY <1>8, <1>9

\* One more at the end.
LEMMA EndsWith ==
    ASSUME NEW n \in Nat, NEW F, F = [x \in 1..n |-> F[x]], NEW t
    PROVE  F \o <<t>> = [x \in 1..(n + 1) |-> IF x = n + 1 THEN t ELSE F[x]]
  <1> DEFINE V == [x \in 1..(n + 1) |-> IF x = n + 1 THEN t ELSE F[x]]
             W == <<t>>
  <1>1. Upto(V, n) = F
    <2>1. \A x \in 1..n : V[x] = F[x]
      OBVIOUS
    <2> HIDE DEF V
    <2> QED BY <2>1 DEF Upto
  <1>2. Upto(W, 1) = W
    BY DEF Upto
  <1>3. Continues(W, V, n, 1)
    <2>1. V[n + 1] = t /\ W[1] = t
      OBVIOUS
    <2> HIDE DEF V, W
    <2> QED BY <2>1 DEF Continues
  <1>4. Upto(V, n + 1) = V
    BY DEF Upto
  <1> HIDE DEF V, W
  <1>5. PICK b \in Nat : b = 1
    OBVIOUS
  <1>6. Upto(V, n) \o Upto(W, b) = Upto(V, n + b)
    <2>1. Continues(W, V, n, b)
      BY <1>3, <1>5
    <2> QED BY <2>1, ConcatIs
  <1> QED BY <1>1, <1>2, <1>4, <1>5, <1>6 DEF V, W

LEMMA CutsAre ==
    ASSUME call \in HopperCalls
    PROVE  /\ NumSeqs(Cuts) = Off(PieceCounts, N + 1)
           /\ \A i \in 1..N : \A j \in 1..PieceCounts[i] :
                 /\ Cuts[Off(PieceCounts, i) + j] = Begins(i, j)
                 /\ Cuts[Off(PieceCounts, i) + j + 1] = Ends(i, j)
           /\ \A i \in 1..N : /\ Cuts[Off(PieceCounts, i) + 1] = cu[i]
                              /\ Cuts[Off(PieceCounts, i + 1) + 1] = cu[i + 1]
  <1> DEFINE K == PieceCounts
             n == Off(K, N + 1)
             parts == [i \in 1..N |-> [j \in 1..PieceCount(i) |-> cu[i] + (j - 1) * Local]]
             F == FlattenSeq(parts)
             V == [x \in 1..(n + 1) |-> IF x = n + 1 THEN T ELSE F[x]]
  <1>1. /\ N \in Nat \ {0} /\ Parted(K) /\ n \in Nat \ {0} /\ Running(Offs(K), K, N)
        /\ \A i \in 1..N : /\ K[i] \in Nat \ {0} /\ K[i] = PieceCount(i)
                           /\ Off(K, i) \in Nat /\ Offs(K)[i] = Off(K, i)
                           /\ Off(K, i + 1) = Off(K, i) + K[i]
        /\ Offs(K)[N + 1] = n
    <2>1. N \in Nat \ {0} /\ Parted(K) /\ \A i \in 1..N : K[i] \in Nat \ {0} /\ K[i] = PieceCount(i)
      BY PieceCountsAre, HopperBatch
    <2>2. \A i \in 1..N : i \in 1..(N + 1)
      BY <2>1
    <2>3. N + 1 \in 1..(N + 1)
      BY <2>1
    <2> HIDE DEF K
    <2>4. n \in Nat \ {0}
      BY <2>1, PlaceOf DEF n
    <2>5. /\ Running(Offs(K), K, N)
          /\ \A i \in 1..(N + 1) : Offs(K)[i] = Off(K, i) /\ Off(K, i) \in Nat
          /\ \A i \in 1..N : Off(K, i + 1) = Off(K, i) + K[i]
      BY <2>1, OffsRun
    <2> QED BY <2>1, <2>2, <2>3, <2>4, <2>5 DEF n
  <1>2. Cuts = F \o <<T>>
    BY DEF Cuts
  <1> HIDE DEF n
  <1>3. /\ F = [x \in 1..n |-> F[x]]
        /\ \A i \in 1..N : \A j \in 1..K[i] : F[Off(K, i) + j] = Begins(i, j)
    <2>1. Parts(parts, K, N)
      BY <1>1 DEF Parts
    <2>2. \A i \in 1..N : \A j \in 1..K[i] : parts[i][j] = Begins(i, j)
      BY <1>1 DEF Begins
    <2> HIDE DEF parts
    <2>3. EndToEnd(F, parts, Offs(K), K, N)
      BY <1>1, <2>1, FlattenAt
    <2> HIDE DEF F
    <2>4. F = [x \in 1..n |-> F[x]]
      BY <1>1, <2>3 DEF EndToEnd
    <2>5. \A i \in 1..N : \A j \in 1..K[i] : F[Offs(K)[i] + j] = parts[i][j]
      BY <2>3 DEF EndToEnd
    <2>6. \A i \in 1..N : \A j \in 1..K[i] : F[Off(K, i) + j] = Begins(i, j)
      <3> HIDE DEF K
      <3> QED BY <1>1, <2>2, <2>5
    <2> QED BY <2>4, <2>6
  <1> HIDE DEF F
  <1>4. Cuts = V
    <2>1. PICK G : G = F
      OBVIOUS
    <2>2. G = [x \in 1..n |-> G[x]]
      BY <1>3, <2>1
    <2>3. PICK t : t = T
      OBVIOUS
    <2>4. n \in Nat
      BY <1>1
    <2>5. G \o <<t>> = [x \in 1..(n + 1) |-> IF x = n + 1 THEN t ELSE G[x]]
      BY <2>2, <2>4, EndsWith
    <2> QED BY <1>2, <2>1, <2>3, <2>5
  <1>5. Len(V) = n + 1
    BY <1>1
  <1>6. NumSeqs(Cuts) = n
    <2> HIDE DEF V
    <2> QED BY <1>1, <1>4, <1>5 DEF NumSeqs
  <1>7. \A p \in 1..n : V[p] = F[p]
    BY <1>1
  <1>8. V[n + 1] = cu[N + 1]
    BY <1>1 DEF T
  <1> HIDE DEF V
  <1>9. ASSUME NEW i \in 1..N, NEW j \in 1..K[i]
        PROVE  V[Off(K, i) + j] = Begins(i, j)
    <2>1. Off(K, i) + j \in 1..n
      <3> HIDE DEF K
      <3> QED BY <1>1, PlaceOf DEF n
    <2> QED BY <1>3, <1>7, <2>1
  <1>10. ASSUME NEW i \in 1..N
         PROVE  V[Off(K, i) + 1] = cu[i] /\ V[Off(K, i + 1) + 1] = cu[i + 1]
    <2>1. ASSUME NEW k \in 1..N PROVE V[Off(K, k) + 1] = cu[k]
      <3>1. 1 \in 1..K[k]
        BY <1>1
      <3> QED BY <1>9, <3>1, PieceLies
    <2>2. CASE i = N
      BY <1>8, <2>1, <2>2 DEF n
    <2>3. CASE i # N
      <3>1. i + 1 \in 1..N
        BY <1>1, <2>3
      <3> QED BY <2>1, <3>1
    <2> QED BY <2>1, <2>2, <2>3
  <1>11. ASSUME NEW i \in 1..N, NEW j \in 1..K[i]
         PROVE  V[Off(K, i) + j + 1] = Ends(i, j)
    <2>1. CASE j = K[i]
      <3>1. Off(K, i) + j + 1 = Off(K, i + 1) + 1
        BY <1>1, <2>1
      <3> QED BY <1>10, <2>1, <3>1 DEF Ends
    <2>2. CASE j # K[i]
      <3>1. j + 1 \in 1..K[i] /\ Off(K, i) + j + 1 = Off(K, i) + (j + 1)
        BY <1>1, <2>2
      <3> QED BY <1>9, <2>2, <3>1, PieceLies
    <2> QED BY <2>1, <2>2
  <1> QED BY <1>4, <1>6, <1>9, <1>10, <1>11 DEF n

LEMMA HopperLayout ==
    ASSUME call \in HopperCalls
    PROVE  Layout(Cuts, PieceCounts)
  <1>1. ASSUME NEW i \in 1..N, NEW j \in 1..PieceCounts[i]
        PROVE  InOrder(Cuts, PieceCounts, i, j)
    <2> DEFINE p == Off(PieceCounts, i) + j
    <2>1. Cuts[p] = Begins(i, j) /\ Cuts[p + 1] = Ends(i, j)
      BY CutsAre
    <2>2. /\ Boundary(i, Begins(i, j)) /\ Boundary(i, Ends(i, j))
          /\ Begins(i, j) <= Ends(i, j)
      BY PieceLies
    <2> HIDE DEF p
    <2>3. Boundary(i, Cuts[p]) /\ Boundary(i, Cuts[p + 1]) /\ Cuts[p] <= Cuts[p + 1]
      BY <2>1, <2>2
    <2> QED BY <2>3 DEF p, InOrder
  <1> QED BY <1>1, CutsAre, PieceCountsAre, HopperBatch DEF Layout

\* Whose a piece is.
LEMMA OwnersAre ==
    ASSUME call \in HopperCalls
    PROVE  /\ DOMAIN Owners = 1..Off(PieceCounts, N + 1)
           /\ \A i \in 1..N : \A j \in 1..PieceCounts[i] : Owners[Off(PieceCounts, i) + j] = i
  <1> DEFINE K == PieceCounts
             parts == [i \in 1..N |-> [j \in 1..PieceCount(i) |-> i]]
             F == FlattenSeq(parts)
  <1>1. /\ N \in Nat /\ Running(Offs(K), K, N)
        /\ \A i \in 1..N : K[i] = PieceCount(i) /\ Offs(K)[i] = Off(K, i)
        /\ Offs(K)[N + 1] = Off(K, N + 1)
    <2>1. N \in Nat \ {0} /\ \A i \in 1..N : K[i] \in Nat \ {0} /\ K[i] = PieceCount(i)
      BY PieceCountsAre, HopperBatch
    <2>2. N + 1 \in 1..(N + 1) /\ \A i \in 1..N : i \in 1..(N + 1)
      BY <2>1
    <2> HIDE DEF K
    <2> QED BY <2>1, <2>2, OffsRun
  <1>2. Owners = F
    BY DEF Owners
  <1>3. Parts(parts, K, N)
    BY <1>1 DEF Parts
  <1>4. \A i \in 1..N : \A j \in 1..K[i] : parts[i][j] = i
    BY <1>1
  <1> HIDE DEF parts
  <1>5. EndToEnd(F, parts, Offs(K), K, N)
    BY <1>1, <1>3, FlattenAt
  <1> HIDE DEF F
  <1>6. F = [x \in 1..Off(K, N + 1) |-> F[x]]
    BY <1>1, <1>5 DEF EndToEnd
  <1>7. \A i \in 1..N : \A j \in 1..K[i] : F[Off(K, i) + j] = i
    <2> HIDE DEF K
    <2>1. \A i \in 1..N : \A j \in 1..K[i] : F[Offs(K)[i] + j] = parts[i][j]
      BY <1>5 DEF EndToEnd
    <2> QED BY <1>1, <1>4, <2>1
  <1> HIDE DEF K
  <1> QED BY <1>2, <1>6, <1>7 DEF K

-----------------------------------------------------------------------------
(***************************************************************************)
(* The boundary pass: sequences and pieces begin with chunks of the packed *)
(* tokens.                                                                 *)
(***************************************************************************)
Aligned(t) == \E m \in Nat : t = m * BT

LEMMA TimesLess ==
    ASSUME NEW a \in Nat, NEW b \in Nat
    PROVE  /\ a * BT \in Nat /\ b * BT \in Nat
           /\ a * BT < b * BT <=> a < b
           /\ a * BT <= b * BT <=> a <= b
           /\ a * BT = b * BT <=> a = b
           /\ a < b => (a + 1) * BT <= b * BT /\ (a + 1) * BT = a * BT + BT
  <1>1. a * BT \in Nat /\ b * BT \in Nat /\ BT \in Nat \ {0}
    OBVIOUS
  <1>2. ASSUME NEW c \in Nat, NEW d \in Nat, c < d
        PROVE  (c + 1) * BT <= d * BT /\ (c + 1) * BT = c * BT + BT
    <2>1. c + 1 \in Nat /\ c + 1 <= d /\ BT \in Nat
      BY <1>2
    <2>2. (c + 1) * BT <= d * BT
      BY <2>1, TimesMono
    <2>3. (c + 1) * BT = c * BT + BT
      OBVIOUS
    <2> QED BY <2>2, <2>3
  <1>3. CASE a < b
    BY <1>1, <1>2, <1>3
  <1>4. CASE b < a
    BY <1>1, <1>2, <1>4
  <1>5. CASE a = b
    BY <1>1, <1>5
  <1> QED BY <1>3, <1>4, <1>5

LEMMA NoRest ==
    ASSUME NEW d \in Nat, NEW b \in Nat \ {0}, d % b = 0
    PROVE  d = (d \div b) * b
  OBVIOUS

LEMMA WholeChunks ==
    ASSUME NEW d \in Nat, d % BT = 0
    PROVE  Aligned(d)
  <1>1. d \div BT \in Nat
    BY DivFacts
  <1>2. d = (d \div BT) * BT
    BY NoRest
  <1> QED BY <1>1, <1>2 DEF Aligned

LEMMA AlignedSum ==
    ASSUME NEW a, NEW b, Aligned(a), Aligned(b)
    PROVE  Aligned(a + b) /\ a \in Nat /\ b \in Nat
  <1>1. PICK m \in Nat : a = m * BT
    BY DEF Aligned
  <1>2. PICK k \in Nat : b = k * BT
    BY DEF Aligned
  <1>3. (m + k) * BT = m * BT + k * BT /\ m + k \in Nat /\ a \in Nat /\ b \in Nat
    BY <1>1, <1>2, Distribute
  <1>4. a + b = (m + k) * BT
    BY <1>1, <1>2, <1>3
  <1> QED BY <1>3, <1>4 DEF Aligned

LEMMA AlignedDiv ==
    ASSUME NEW a \in Nat, Aligned(a)
    PROVE  a \div BT \in Nat /\ a = (a \div BT) * BT /\ CeilDiv(a, BT) = a \div BT
  <1>1. PICK m \in Nat : a = m * BT
    BY DEF Aligned
  <1>2. a \div BT \in Nat /\ (a \div BT) * BT <= a /\ a < (a \div BT) * BT + BT
    BY DivFacts
  <1> DEFINE d == a \div BT
  <1> HIDE DEF d
  <1>3. d \in Nat /\ d * BT <= m * BT /\ m * BT < d * BT + BT /\ d * BT \in Nat /\ m * BT \in Nat
    BY <1>1, <1>2 DEF d
  <1>4. d <= m
    BY <1>3, TimesLess
  <1>5. ~(d < m)
    BY <1>3, TimesLess
  <1>6. d = m
    BY <1>3, <1>4, <1>5
  <1>7. CeilDiv(m * BT, BT) = m
    BY CeilDivExact
  <1> QED BY <1>1, <1>3, <1>6, <1>7 DEF d

\* What is split begins its sequences with chunks.
LEMMA AlignedStarts ==
    ASSUME call \in HopperCalls, UseCp
    PROVE  \A i \in 1..N : Aligned(cu[i])
  <1>1. N \in Nat \ {0} /\ cu[1] = 0 /\ \A i \in 1..N : cu[i] \in Nat /\ cu[i + 1] \in Nat /\ cu[i] < cu[i + 1]
    <2>1. \A i \in 1..N : i \in 1..(N + 1) /\ i + 1 \in 1..(N + 1)
      BY HopperBatch
    <2> QED BY <2>1, HopperBatch
  <1> DEFINE G == {i \in 1..N : Aligned(cu[i])}
  <1>2. 1 \in G
    <2>1. 0 = 0 * BT
      OBVIOUS
    <2> QED BY <1>1, <2>1 DEF Aligned
  <1>3. ASSUME NEW i \in 1 .. N - 1, i \in G PROVE i + 1 \in G
    <2>1. i \in 1..N /\ i + 1 \in 1..N /\ N > 1 /\ Aligned(cu[i])
      BY <1>1, <1>3
    <2>2. SeqLen(cu, i) % BT = 0
      BY <2>1 DEF UseCp
    <2>3. SeqLen(cu, i) = cu[i + 1] - cu[i] /\ cu[i + 1] - cu[i] \in Nat
      BY <1>1, <2>1 DEF SeqLen
    <2>4. Aligned(cu[i + 1] - cu[i])
      BY <2>2, <2>3, WholeChunks
    <2>5. Aligned(cu[i] + (cu[i + 1] - cu[i]))
      BY <2>1, <2>4, AlignedSum
    <2>6. cu[i] + (cu[i + 1] - cu[i]) = cu[i + 1]
      BY <1>1, <2>1
    <2> QED BY <2>1, <2>5, <2>6
  <1>4. 1 .. N \subseteq G
    <2>1. 1 \in Int /\ N \in Int
      BY <1>1
    <2> HIDE DEF G
    <2> QED BY <1>2, <1>3, <2>1, UpFrom
  <1> QED BY <1>4

\* Which sequence holds a token.
Holds(i, t) == cu[i] <= t /\ t < cu[i + 1]

LEMMA Holder ==
    ASSUME call \in HopperCalls, NEW t \in Nat, t < T
    PROVE  /\ \E i \in 1..N : Holds(i, t)
           /\ \A i, k \in 1..N : Holds(i, t) /\ Holds(k, t) => i = k
  <1> DEFINE lens == [i \in 1..N |-> cu[i + 1] - cu[i]]
  <1>1. /\ N \in Nat /\ cu[1] = 0 /\ T = cu[N + 1] /\ T \in Nat
        /\ \A i \in 1..N : cu[i] \in Nat /\ cu[i + 1] \in Nat /\ cu[i] < cu[i + 1]
    <2>1. \A i \in 1..N : i \in 1..(N + 1) /\ i + 1 \in 1..(N + 1)
      BY HopperBatch
    <2> QED BY <2>1, HopperBatch
  <1>2. Running(cu, lens, N)
    <2>1. \A i \in 1..N : lens[i] = cu[i + 1] - cu[i]
      OBVIOUS
    <2> HIDE DEF lens
    <2> QED BY <1>1, <2>1 DEF Running
  <1> HIDE DEF lens
  <1>3. t + 1 \in 1..cu[N + 1]
    BY <1>1
  <1>4. /\ \E i \in 1..N : t + 1 \in (cu[i] + 1)..cu[i + 1] /\ (t + 1) - cu[i] \in 1..lens[i]
        /\ \A i, j \in 1..N :
              t + 1 \in (cu[i] + 1)..cu[i + 1] /\ t + 1 \in (cu[j] + 1)..cu[j + 1] => i = j
    BY <1>1, <1>2, <1>3, Located
  <1>5. \A i \in 1..N : Holds(i, t) <=> t + 1 \in (cu[i] + 1)..cu[i + 1]
    BY <1>1 DEF Holds
  <1> QED BY <1>4, <1>5

\* Which piece does.
Covers(p, t) == Cuts[p] <= t /\ t < Cuts[p + 1]

LEMMA CutsRun ==
    ASSUME call \in HopperCalls
    PROVE  /\ Off(PieceCounts, N + 1) \in Nat \ {0}
           /\ \A p \in 1..Off(PieceCounts, N + 1) :
                 /\ Cuts[p] \in Nat /\ Cuts[p + 1] \in Nat /\ Cuts[p] < Cuts[p + 1]
                 /\ UseCp => Aligned(Cuts[p])
           /\ \A t \in Nat : t < T =>
                 /\ \E p \in 1..Off(PieceCounts, N + 1) : Covers(p, t)
                 /\ \A p, q \in 1..Off(PieceCounts, N + 1) : Covers(p, t) /\ Covers(q, t) => p = q
  <1> DEFINE K == PieceCounts
             n == Off(PieceCounts, N + 1)
             lens == [p \in 1..n |-> Cuts[p + 1] - Cuts[p]]
  <1>1. n \in Nat \ {0} /\ N \in Nat \ {0} /\ T \in Nat /\ T = cu[N + 1] /\ cu[1] = 0
    BY PieceCountsAre, PlaceOf, HopperBatch
  <1>2. ASSUME NEW p \in 1..n
        PROVE  /\ Cuts[p] \in Nat /\ Cuts[p + 1] \in Nat /\ Cuts[p] < Cuts[p + 1]
               /\ UseCp => Aligned(Cuts[p])
    <2>1. PICK i \in 1..N : \E j \in 1..PieceCounts[i] : p = Off(PieceCounts, i) + j
      BY PieceCountsAre, PlaceOf
    <2>2. PICK j \in 1..PieceCounts[i] : p = Off(PieceCounts, i) + j
      BY <2>1
    <2>3. Cuts[p] = Begins(i, j) /\ Cuts[p + 1] = Ends(i, j)
      BY <2>2, CutsAre
    <2>4. Begins(i, j) \in Nat /\ Ends(i, j) \in Nat /\ Begins(i, j) < Ends(i, j) /\ AtChunk(i, Begins(i, j))
      BY PieceLies
    <2>5. ASSUME UseCp PROVE Aligned(Begins(i, j))
      <3>1. PICK m \in Nat : Begins(i, j) = cu[i] + m * BT
        BY <2>4 DEF AtChunk
      <3>2. Aligned(cu[i]) /\ Aligned(m * BT)
        BY <2>5, AlignedStarts DEF Aligned
      <3> QED BY <3>1, <3>2, AlignedSum
    <2> QED BY <2>3, <2>4, <2>5
  <1>3. Cuts[1] = 0
    <2>1. 1 \in 1..N /\ Off(PieceCounts, 1) + 1 = 1
      <3>1. Off(PieceCounts, 1) = 0
        BY HopperLayout, LayoutFacts
      <3> QED BY <1>1, <3>1
    <2> QED BY <1>1, <2>1, CutsAre
  <1>4. Cuts[n + 1] = T
    <2>1. N \in 1..N
      BY <1>1
    <2> QED BY <1>1, <2>1, CutsAre
  <1> HIDE DEF n
  <1>5. Running(Cuts, lens, n)
    <2>1. \A p \in 1..n : lens[p] = Cuts[p + 1] - Cuts[p]
      OBVIOUS
    <2> HIDE DEF lens
    <2> QED BY <1>1, <1>2, <1>3, <2>1 DEF Running
  <1> HIDE DEF lens
  <1>6. ASSUME NEW t \in Nat, t < T
        PROVE  /\ \E p \in 1..n : Covers(p, t)
               /\ \A p, q \in 1..n : Covers(p, t) /\ Covers(q, t) => p = q
    <2>1. PICK C : C = Cuts
      OBVIOUS
    <2>2. Running(C, lens, n) /\ t + 1 \in 1..C[n + 1] /\ n \in Nat
      BY <1>1, <1>4, <1>5, <1>6, <2>1
    <2>3. /\ \E p \in 1..n : t + 1 \in (C[p] + 1)..C[p + 1] /\ (t + 1) - C[p] \in 1..lens[p]
          /\ \A p, q \in 1..n :
                t + 1 \in (C[p] + 1)..C[p + 1] /\ t + 1 \in (C[q] + 1)..C[q + 1] => p = q
      BY <2>2, Located
    <2>4. \A p \in 1..n : Covers(p, t) <=> t + 1 \in (C[p] + 1)..C[p + 1]
      BY <1>2, <2>1 DEF Covers
    <2> QED BY <2>3, <2>4
  <1> QED BY <1>1, <1>2, <1>6 DEF n

\* The tables of the pass: the sequence and the piece of a chunk.
Cutting == call \in HopperCalls /\ UseCp /\ cut = Cuts /\ tabs = Owners
SeqAt(c) == CHOOSE i \in 1..N : Holds(i, c * BT)

LEMMA SeqAtIs ==
    ASSUME call \in HopperCalls, NEW c \in Nat, c * BT < T
    PROVE  /\ SeqAt(c) \in 1..N /\ Holds(SeqAt(c), c * BT)
           /\ \A i \in 1..N : Holds(i, c * BT) => i = SeqAt(c)
  <1>1. c * BT \in Nat
    OBVIOUS
  <1>2. \E i \in 1..N : Holds(i, c * BT)
    BY <1>1, Holder
  <1>3. SeqAt(c) \in 1..N /\ Holds(SeqAt(c), c * BT)
    BY <1>2 DEF SeqAt
  <1> QED BY <1>1, <1>3, Holder

LEMMA RawSeqIs ==
    ASSUME Cutting, NEW c \in Nat, c * BT < T
    PROVE  RawSeq(c) = SeqAt(c)
  <1> DEFINE n == Off(PieceCounts, N + 1)
             S == {q \in DOMAIN tabs : cut[q] \div BT <= c /\ c < CeilDiv(cut[q + 1], BT)}
  <1>1. call \in HopperCalls /\ UseCp /\ cut = Cuts /\ tabs = Owners /\ DOMAIN tabs = 1..n
    BY OwnersAre DEF Cutting
  <1>2. c * BT \in Nat /\ n \in Nat \ {0}
    BY <1>1, CutsRun
  <1>3. PICK p \in 1..n : Covers(p, c * BT)
    BY <1>1, <1>2, CutsRun
  <1>4. ASSUME NEW q \in 1..n
        PROVE  cut[q] \div BT <= c /\ c < CeilDiv(cut[q + 1], BT) <=> Covers(q, c * BT)
    <2> DEFINE a == Cuts[q]
               b == Cuts[q + 1]
    <2>1. a \in Nat /\ b \in Nat /\ Aligned(a)
      BY <1>1, CutsRun
    <2>2. Covers(q, c * BT) <=> a <= c * BT /\ c * BT < b
      BY DEF Covers
    <2> HIDE DEF a, b
    <2>3. a \div BT \in Nat /\ a = (a \div BT) * BT
      BY <2>1, AlignedDiv
    <2>4. a \div BT <= c <=> a <= c * BT
      <3> DEFINE m == a \div BT
      <3>1. m \in Nat /\ a = m * BT
        BY <2>3
      <3> HIDE DEF m
      <3> QED BY <3>1, TimesLess DEF m
    <2>5. c < CeilDiv(b, BT) <=> c * BT < b
      <3> DEFINE m == CeilDiv(b, BT)
      <3>1. m \in Nat /\ b <= m * BT
        BY <2>1, CeilDivFacts
      <3>2. b <= c * BT => m <= c
        BY <2>1, CeilDivLeast
      <3> HIDE DEF m
      <3>3. m <= c => m * BT <= c * BT
        BY <3>1, TimesLess
      <3> QED BY <1>2, <2>1, <3>1, <3>2, <3>3, TimesLess DEF m
    <2> QED BY <1>1, <2>2, <2>4, <2>5 DEF a, b
  <1>5. S = {p}
    <2>1. \A q \in 1..n : q \in S <=> Covers(q, c * BT)
      BY <1>1, <1>4
    <2>2. S \subseteq 1..n
      BY <1>1
    <2> HIDE DEF S
    <2>3. \A q \in 1..n : Covers(q, c * BT) => q = p
      BY <1>1, <1>2, <1>3, CutsRun
    <2> QED BY <1>3, <2>1, <2>2, <2>3
  <1>6. RawSeq(c) = tabs[p]
    <2>1. RawSeq(c) = tabs[Max(S)]
      BY DEF RawSeq
    <2> HIDE DEF S
    <2>2. Max({p}) = p
      BY MaxOne
    <2> QED BY <1>5, <2>1, <2>2
  <1>7. PICK i \in 1..N : \E j \in 1..PieceCounts[i] : p = Off(PieceCounts, i) + j
    BY <1>1, PieceCountsAre, PlaceOf
  <1>8. PICK j \in 1..PieceCounts[i] : p = Off(PieceCounts, i) + j
    BY <1>7
  <1>9. tabs[p] = i
    BY <1>1, <1>8, OwnersAre
  <1>10. Holds(i, c * BT)
    <2>1. Begins(i, j) <= c * BT /\ c * BT < Ends(i, j)
      BY <1>1, <1>3, <1>8, CutsAre DEF Covers
    <2>2. /\ Begins(i, j) \in Nat /\ Ends(i, j) \in Nat
          /\ cu[i] <= Begins(i, j) /\ Ends(i, j) <= cu[i + 1]
      BY <1>1, PieceLies
    <2>3. cu[i] \in Nat /\ cu[i + 1] \in Nat
      <3>1. i \in 1..(N + 1) /\ i + 1 \in 1..(N + 1)
        BY <1>1, HopperBatch
      <3> QED BY <1>1, <3>1, HopperBatch
    <2> QED BY <1>2, <2>1, <2>2, <2>3 DEF Holds
  <1> QED BY <1>1, <1>6, <1>9, <1>10, SeqAtIs

LEMMA SlotMapIs ==
    ASSUME Cutting, NEW c \in Nat, c * BT < T, NEW p \in 1..Off(PieceCounts, N + 1)
    PROVE  SlotMap[c] = p <=> Cuts[p] = c * BT
  <1> DEFINE n == Off(PieceCounts, N + 1)
             X == {q \in DOMAIN tabs : cut[q] \div BT = c}
             S == {0} \cup X
  <1>1. /\ call \in HopperCalls /\ UseCp /\ cut = Cuts /\ tabs = Owners /\ DOMAIN tabs = 1..n
        /\ n \in Nat \ {0} /\ T \in Nat
    BY OwnersAre, CutsRun, HopperBatch DEF Cutting
  <1>2. c \in 0..(Chunks(T) - 1)
    <2>1. Chunks(T) \in Nat /\ T <= Chunks(T) * BT /\ Chunks(T) * BT \in Nat
      BY <1>1, ChunksEnough
    <2> DEFINE m == Chunks(T)
    <2> HIDE DEF m
    <2>2. m \in Nat /\ c * BT < m * BT
      <3>1. c * BT \in Nat
        OBVIOUS
      <3> QED BY <1>1, <2>1, <3>1 DEF m
    <2>3. c < m
      BY <2>2, TimesLess
    <2> QED BY <2>2, <2>3 DEF m
  <1>3. SlotMap[c] = Max(S)
    BY <1>2 DEF SlotMap
  <1>4. \A q \in 1..n : q \in X <=> Cuts[q] = c * BT
    <2> SUFFICES ASSUME NEW q \in 1..n PROVE Cuts[q] \div BT = c <=> Cuts[q] = c * BT
      BY <1>1
    <2> DEFINE a == Cuts[q]
               m == a \div BT
    <2>1. a \in Nat /\ Aligned(a)
      BY <1>1, CutsRun
    <2> HIDE DEF a
    <2>2. m \in Nat /\ a = m * BT
      BY <2>1, AlignedDiv
    <2> HIDE DEF m
    <2>3. m = c <=> a = c * BT
      BY <2>2, TimesLess
    <2> QED BY <2>3 DEF a, m
  <1>5. X \subseteq 1..n
    BY <1>1
  <1> HIDE DEF X
  <1>6. S \in SUBSET Nat /\ S # {} /\ \A x \in S : x <= n
    BY <1>1, <1>5
  <1>7. Max(S) \in S /\ \A y \in S : y <= Max(S)
    <2> HIDE DEF S
    <2> QED BY <1>1, <1>6, MaxFacts
  <1>8. ASSUME Max(S) = p PROVE Cuts[p] = c * BT
    <2>1. p # 0 /\ p \in S
      BY <1>7, <1>8
    <2> QED BY <1>4, <2>1
  <1>9. ASSUME Cuts[p] = c * BT PROVE Max(S) = p
    <2>1. p \in S
      BY <1>4, <1>9
    <2>2. p <= Max(S)
      BY <1>7, <2>1
    <2>3. Max(S) # 0 /\ Max(S) \in X
      <3>1. Max(S) # 0
        BY <2>2
      <3> QED BY <1>7, <3>1
    <2> DEFINE q == Max(S)
    <2> HIDE DEF S, q
    <2>4. q \in 1..n /\ Cuts[q] = c * BT
      BY <1>4, <1>5, <2>3 DEF q
    <2>5. Covers(p, c * BT) /\ Covers(q, c * BT) /\ c * BT \in Nat
      <3>1. Cuts[p] < Cuts[p + 1] /\ Cuts[q] < Cuts[q + 1] /\ Cuts[p] \in Nat
        BY <1>1, <2>4, CutsRun
      <3> QED BY <1>9, <2>4, <3>1 DEF Covers
    <2>6. p = q
      BY <1>1, <2>4, <2>5, CutsRun
    <2> QED BY <2>6 DEF q
  <1> QED BY <1>3, <1>8, <1>9

\* A preprocess tile: where it begins and ends, and its chunks.
Chunk0(k) == (k * PreprocessTile) \div BT
TileEnd(k) == Smaller(k * PreprocessTile + PreprocessTile, T)
TileChunks(k) == CeilDiv(TileEnd(k), BT) - Chunk0(k)
Whole(e) == e \in Nat /\ e <= T /\ (e = T \/ Aligned(e))

LEMMA TileFacts ==
    ASSUME call \in HopperCalls, NEW k \in Nat, k * PreprocessTile < T
    PROVE  /\ Chunk0(k) \in Nat /\ k * PreprocessTile \in Nat
           /\ k * PreprocessTile = Chunk0(k) * BT
           /\ Whole(TileEnd(k)) /\ k * PreprocessTile < TileEnd(k)
           /\ TileEnd(k) # T => TileEnd(k) = (k + 1) * PreprocessTile
           /\ TileChunks(k) \in Nat \ {0}
           /\ \A x \in 1..TileChunks(k) : (Chunk0(k) + x - 1) * BT < TileEnd(k)
           /\ \A c \in Nat : Chunk0(k) <= c /\ c * BT < TileEnd(k)
                 => c - Chunk0(k) + 1 \in 1..TileChunks(k)
           /\ TileEnd(k) # T => /\ (Chunk0(k) + TileChunks(k)) * BT = TileEnd(k)
                                /\ Chunk0(k) + TileChunks(k) = Chunk0(k + 1)
  <1> DEFINE P == PreprocessTile
             s == k * P
             e == TileEnd(k)
             c0 == Chunk0(k)
             n == CeilDiv(e, BT)
  <1>1. P \in Nat \ {0} /\ P % BT = 0 /\ T \in Nat \ {0} /\ BT \in Nat \ {0}
    BY HopperBatch
  <1>2. PICK u \in Nat : P = u * BT
    BY <1>1, WholeChunks DEF Aligned
  <1> HIDE DEF P
  <1>3. ASSUME NEW l \in Nat
        PROVE  l * P \in Nat /\ Aligned(l * P) /\ (l + 1) * P = l * P + P
    <2>1. l * P = (l * u) * BT /\ l * u \in Nat
      BY <1>1, <1>2
    <2>2. (l + 1) * P = l * P + P /\ l * P \in Nat
      BY <1>1
    <2> QED BY <2>1, <2>2 DEF Aligned
  <1>4. s \in Nat /\ Aligned(s) /\ (k + 1) * P = s + P /\ Aligned((k + 1) * P) /\ s < T
    <2>1. k + 1 \in Nat
      OBVIOUS
    <2> QED BY <1>3, <2>1 DEF P
  <1>5. c0 = s \div BT
    BY DEF Chunk0, P
  <1> HIDE DEF s
  <1>6. c0 \in Nat /\ s = c0 * BT
    BY <1>4, <1>5, AlignedDiv
  <1>7. e = IF s + P < T THEN s + P ELSE T
    BY DEF TileEnd, Smaller, P, s
  <1> HIDE DEF e, c0
  <1>8. e \in Nat \ {0} /\ s < e /\ e <= T /\ (e = T \/ e = s + P)
    BY <1>1, <1>4, <1>7
  <1>9. Whole(e) /\ (e # T => e = (k + 1) * P)
    BY <1>4, <1>8 DEF Whole
  <1>10. n \in Nat /\ e <= n * BT /\ n * BT < e + BT
    BY <1>8, CeilDivFacts
  <1> HIDE DEF n
  <1>11. c0 * BT \in Nat /\ n * BT \in Nat /\ c0 * BT < n * BT
    BY <1>4, <1>6, <1>8, <1>10
  <1>12. c0 < n
    BY <1>6, <1>10, <1>11, TimesLess
  <1>13. \A x \in 1..(n - c0) : (c0 + x - 1) * BT < e
    <2> SUFFICES ASSUME NEW x \in 1..(n - c0) PROVE (c0 + x - 1) * BT < e
      OBVIOUS
    <2> DEFINE c == c0 + x - 1
    <2>1. c \in Nat /\ c + 1 <= n
      BY <1>6, <1>10, <1>12
    <2> HIDE DEF c
    <2>2. (c + 1) * BT <= n * BT /\ (c + 1) * BT = c * BT + BT /\ c * BT \in Nat
      <3>1. c < n
        BY <1>10, <2>1
      <3> QED BY <1>10, <2>1, <3>1, TimesLess
    <2>3. c * BT < e
      BY <1>1, <1>8, <1>10, <1>11, <2>2
    <2> QED BY <2>3 DEF c
  <1>14. \A c \in Nat : c0 <= c /\ c * BT < e => c - c0 + 1 \in 1..(n - c0)
    <2> SUFFICES ASSUME NEW c \in Nat, c0 <= c, c * BT < e PROVE c - c0 + 1 \in 1..(n - c0)
      OBVIOUS
    <2>1. c * BT < n * BT
      <3>1. c * BT \in Nat
        OBVIOUS
      <3> QED BY <1>8, <1>10, <1>11, <3>1
    <2>2. c < n
      BY <1>10, <2>1, TimesLess
    <2> QED BY <1>6, <1>10, <2>2
  <1>15. ASSUME e # T
         PROVE  (c0 + (n - c0)) * BT = e /\ c0 + (n - c0) = Chunk0(k + 1)
    <2>1. e = (k + 1) * P /\ Aligned(e)
      BY <1>4, <1>9, <1>15
    <2>2. n = e \div BT /\ e = (e \div BT) * BT
      BY <1>8, <2>1, AlignedDiv DEF n
    <2>3. Chunk0(k + 1) = e \div BT
      BY <2>1 DEF Chunk0, P
    <2>4. c0 + (n - c0) = n
      BY <1>6, <1>10
    <2> QED BY <2>2, <2>3, <2>4
  <1>16. TileChunks(k) = n - c0
    BY DEF TileChunks, n, e, c0
  <1>17. n - c0 \in Nat \ {0}
    BY <1>6, <1>10, <1>12
  <1> QED BY <1>4, <1>6, <1>8, <1>9, <1>13, <1>14, <1>15, <1>16, <1>17 DEF e, c0, s, P

\* The chunk at c takes the state of its sequence to the next one, or the end.
LEMMA NextChunk ==
    ASSUME call \in HopperCalls, UseCp, NEW c \in Nat, NEW e, Whole(e), c * BT < e
    PROVE  Advance(After(SeqAt(c), c * BT), c * BT, Smaller((c + 1) * BT, e))
             = After(SeqAt(c), Smaller((c + 1) * BT, e))
  <1> DEFINE i == SeqAt(c)
             a == c * BT
             b == (c + 1) * BT
  <1>1. /\ i \in 1..N /\ Holds(i, a) /\ Batch /\ N \in Nat \ {0} /\ T \in Nat /\ e \in Nat
        /\ cu[i] \in Nat /\ cu[i + 1] \in Nat /\ cu[i + 1] <= T /\ T = cu[N + 1] /\ a \in Nat
    <2>1. a \in Nat
      OBVIOUS
    <2>2. Batch /\ N \in Nat \ {0} /\ T \in Nat /\ T = cu[N + 1] /\ e \in Nat /\ e <= T
      BY HopperBatch DEF Whole
    <2>3. a < T
      BY <2>1, <2>2
    <2>4. i \in 1..N /\ Holds(i, a)
      BY <2>3, SeqAtIs
    <2> HIDE DEF i
    <2>5. i \in 1..(N + 1) /\ i + 1 \in 1..(N + 1)
      BY <2>2, <2>4
    <2> QED BY <2>1, <2>2, <2>4, <2>5, HopperBatch
  <1>2. b = a + BT /\ b \in Nat
    OBVIOUS
  <1>3. \A t \in Nat : Aligned(t) /\ a < t => b <= t
    <2> SUFFICES ASSUME NEW t \in Nat, Aligned(t), a < t PROVE b <= t
      OBVIOUS
    <2>1. PICK m \in Nat : t = m * BT
      BY DEF Aligned
    <2>2. c < m
      BY <2>1, TimesLess
    <2> QED BY <2>1, <2>2, TimesLess
  <1>4. AtChunk(i, a)
    <2>1. PICK m \in Nat : cu[i] = m * BT
      BY <1>1, AlignedStarts DEF Aligned
    <2>2. m * BT <= c * BT
      BY <1>1, <2>1 DEF Holds
    <2>3. m <= c
      BY <2>2, TimesLess
    <2>4. c - m \in Nat /\ m + (c - m) = c
      BY <2>3
    <2>5. (m + (c - m)) * BT = m * BT + (c - m) * BT
      BY <2>4, Distribute
    <2>6. a = cu[i] + (c - m) * BT
      BY <2>1, <2>4, <2>5
    <2> HIDE DEF i, a
    <2> QED BY <2>4, <2>6 DEF AtChunk
  <1>5. i # N => Aligned(cu[i + 1])
    <2>1. i # N => i + 1 \in 1..N
      BY <1>1
    <2> QED BY <2>1, AlignedStarts
  <1>6. a < cu[i + 1] /\ cu[i] <= a
    BY <1>1 DEF Holds
  <1> HIDE DEF a, b
  <1>7. Smaller(b, e) = Smaller(a + BT, cu[i + 1])
    <2>1. i # N => b <= cu[i + 1]
      BY <1>1, <1>3, <1>5, <1>6
    <2>2. i = N => cu[i + 1] = T
      BY <1>1
    <2>3. e = T \/ b <= e
      BY <1>1, <1>3 DEF Whole, a
    <2>4. e <= T
      BY DEF Whole
    <2> HIDE DEF i
    <2> QED BY <1>1, <1>2, <2>1, <2>2, <2>3, <2>4 DEF Smaller
  <1>8. Advance(After(i, a), a, Smaller(a + BT, cu[i + 1])) = After(i, Smaller(a + BT, cu[i + 1]))
    <2> HIDE DEF i
    <2> QED BY <1>1, <1>4, <1>6, AdvanceStep
  <1> QED BY <1>7, <1>8 DEF a, b, i

\* Where the sequence changes, one begins.
LEMMA Fresh ==
    ASSUME call \in HopperCalls, UseCp, NEW c \in Nat, c * BT < T,
           c = 0 \/ SeqAt(c) # SeqAt(c - 1)
    PROVE  cu[SeqAt(c)] = c * BT
  <1> DEFINE i == SeqAt(c)
  <1>1. i \in 1..N /\ Holds(i, c * BT) /\ N \in Nat \ {0}
    BY SeqAtIs, HopperBatch
  <1>2. PICK m \in Nat : cu[i] = m * BT
    BY <1>1, AlignedStarts DEF Aligned
  <1>3. m * BT <= c * BT
    BY <1>1, <1>2 DEF Holds
  <1>4. m <= c
    BY <1>3, TimesLess
  <1>5. m = c
    <2> SUFFICES ASSUME m < c PROVE FALSE
      BY <1>4
    <2> DEFINE d == c - 1
    <2>1. d \in Nat /\ m <= d /\ d < c /\ c # 0
      OBVIOUS
    <2>2. SeqAt(c) # SeqAt(d)
      BY <2>1
    <2> HIDE DEF d
    <2>3. m * BT <= d * BT /\ d * BT < c * BT /\ d * BT \in Nat /\ c * BT \in Nat
      BY <2>1, TimesLess
    <2>4. d * BT < T
      BY <2>3, HopperBatch
    <2>5. cu[i + 1] \in Nat
      <3>1. i + 1 \in 1..(N + 1)
        BY <1>1
      <3> QED BY <3>1, HopperBatch
    <2> HIDE DEF i
    <2>6. Holds(i, d * BT)
      BY <1>1, <1>2, <2>3, <2>5 DEF Holds
    <2>7. i = SeqAt(d)
      BY <1>1, <2>1, <2>4, <2>6, SeqAtIs
    <2> QED BY <2>2, <2>7 DEF i
  <1> QED BY <1>2, <1>5

\* The pass before tile k: every piece that begins before it has its state.
Found(m, t) ==
    /\ m = [p \in 1..Off(PieceCounts, N + 1) |-> m[p]]
    /\ \A i \in 1..N : \A j \in 1..PieceCounts[i] :
          Begins(i, j) < t => m[Off(PieceCounts, i) + j] = After(i, Begins(i, j))
OnTile(w, k) ==
    /\ k \in Nat /\ k * PreprocessTile < T
    /\ w.tile = k
    /\ k > 0 => w.exit = After(SeqAt(Chunk0(k) - 1), k * PreprocessTile)

\* The state a tile starts from is that of the tokens before it.
LEMMA EntryIs ==
    ASSUME Cutting, NEW k, OnTile(hm, k)
    PROVE  EntryState(Chunk0(k)) = After(SeqAt(Chunk0(k)), k * PreprocessTile)
  <1> DEFINE c0 == Chunk0(k)
             s == k * PreprocessTile
  <1>1. /\ call \in HopperCalls /\ UseCp /\ k \in Nat /\ s < T /\ hm.tile = k
        /\ k > 0 => hm.exit = After(SeqAt(c0 - 1), s)
    BY DEF Cutting, OnTile
  <1>2. c0 \in Nat /\ s = c0 * BT /\ s \in Nat
    BY <1>1, TileFacts
  <1>3. k = 0 => c0 = 0
    <2> SUFFICES ASSUME k = 0 PROVE c0 = 0
      OBVIOUS
    <2>1. s = 0
      BY <1>1
    <2> HIDE DEF s, c0
    <2>2. c0 * BT = 0 * BT
      BY <1>2, <2>1
    <2> QED BY <1>2, <2>2, TimesLess
  <1>4. k > 0 => c0 > 0
    <2> SUFFICES ASSUME k > 0, c0 = 0 PROVE FALSE
      BY <1>2
    <2>1. s > 0
      BY <1>1
    <2> QED BY <1>2, <2>1
  <1> HIDE DEF s, c0
  <1>5. SeqAt(c0) \in 1..N /\ N \in Nat \ {0} /\ RawSeq(c0) = SeqAt(c0)
    BY <1>1, <1>2, SeqAtIs, RawSeqIs, HopperBatch
  <1>6. ASSUME k > 0
        PROVE  SeqAt(c0 - 1) \in 1..N /\ RawSeq(c0 - 1) = SeqAt(c0 - 1)
    <2> DEFINE d == c0 - 1
    <2>1. d \in Nat /\ d < c0
      BY <1>2, <1>4, <1>6
    <2> HIDE DEF d
    <2>2. d * BT < c0 * BT /\ d * BT \in Nat
      BY <1>2, <2>1, TimesLess
    <2>3. d * BT < T
      BY <1>1, <1>2, <2>2, HopperBatch
    <2> QED BY <1>1, <2>1, <2>3, SeqAtIs, RawSeqIs DEF d
  <1>7. ASSUME c0 = 0 \/ SeqAt(c0) # SeqAt(c0 - 1)
        PROVE  InitialStates[SeqAt(c0)] = After(SeqAt(c0), s)
    <2>1. cu[SeqAt(c0)] = c0 * BT
      BY <1>1, <1>2, <1>7, Fresh
    <2>2. InitialStates[SeqAt(c0)] = After(SeqAt(c0), cu[SeqAt(c0)])
      BY <1>5 DEF InitialStates
    <2> QED BY <1>2, <2>1, <2>2
  <1>8. CASE N = 1
    <2>1. SeqAt(c0) = 1
      BY <1>5, <1>8
    <2>2. EntryState(c0) = IF hm.tile = 0 THEN InitialStates[1] ELSE hm.exit
      BY <1>8 DEF EntryState
    <2>3. CASE k = 0
      BY <1>1, <1>3, <1>7, <2>1, <2>2, <2>3 DEF s, c0
    <2>4. CASE k > 0
      <3>1. SeqAt(c0 - 1) = 1
        BY <1>6, <1>8, <2>4
      <3>2. hm.exit = After(1, s) /\ hm.tile # 0
        BY <1>1, <2>4, <3>1 DEF s, c0
      <3> QED BY <2>1, <2>2, <3>2 DEF s, c0
    <2> QED BY <1>1, <2>3, <2>4 DEF s, c0
  <1>9. CASE N # 1
    <2>1. EntryState(c0) = IF hm.tile > 0 /\ RawSeq(c0) = RawSeq(c0 - 1) THEN hm.exit
                           ELSE InitialStates[RawSeq(c0)]
      BY <1>9 DEF EntryState
    <2>2. CASE k > 0 /\ SeqAt(c0) = SeqAt(c0 - 1)
      <3>1. RawSeq(c0) = RawSeq(c0 - 1)
        BY <1>5, <1>6, <2>2
      <3>2. hm.exit = After(SeqAt(c0 - 1), s) /\ hm.tile > 0
        BY <1>1, <2>2 DEF s, c0
      <3> QED BY <2>1, <2>2, <3>1, <3>2 DEF s, c0
    <2>3. CASE k > 0 /\ SeqAt(c0) # SeqAt(c0 - 1)
      <3>1. RawSeq(c0) # RawSeq(c0 - 1)
        BY <1>5, <1>6, <2>3
      <3> QED BY <1>5, <1>7, <2>1, <2>3, <3>1 DEF s, c0
    <2>4. CASE k = 0
      <3>1. ~(hm.tile > 0)
        BY <1>1, <2>4
      <3> QED BY <1>3, <1>5, <1>7, <2>1, <2>4, <3>1 DEF s, c0
    <2> QED BY <1>1, <2>2, <2>3, <2>4
  <1> QED BY <1>8, <1>9 DEF s, c0

\* One tile more.
LEMMA ScanStep ==
    ASSUME Cutting, NEW k, OnTile(hm, k), NEW m, merged = m, Found(m, k * PreprocessTile),
           ScanTile
    PROVE  /\ call' = call /\ cut' = cut /\ tabs' = tabs /\ outcome' = outcome
           /\ h' = h /\ last' = last
           /\ Found(merged', TileEnd(k))
           /\ \/ pc' = "fwd" /\ TileEnd(k) = T
              \/ pc' = pc /\ TileEnd(k) # T /\ OnTile(hm', k + 1)
  <1> DEFINE c0 == Chunk0(k)
             s  == hm.tile * PreprocessTile
             e  == Smaller(s + PreprocessTile, T)
             d0 == s \div BT
             chunk == [x \in 1..(CeilDiv(e, BT) - d0) |-> d0 + x - 1]
             enter(st, c) == IF N > 1 /\ c > d0 /\ RawSeq(c) # RawSeq(c - 1)
                             THEN InitialStates[RawSeq(c)] ELSE st
             after(st, c) == Advance(enter(st, c), c * BT, Smaller((c + 1) * BT, e))
             Step1(f, x) == IF x = 1 THEN EntryState(d0) ELSE after(f[x - 1], chunk[x - 1])
             R(f) == f = [x \in 1..(Len(chunk) + 1) |-> Step1(f, x)]
             states == CHOOSE f : R(f)
             hit(p) == \E x \in DOMAIN chunk : SlotMap[chunk[x]] = p
             at(p) == CHOOSE x \in DOMAIN chunk : SlotMap[chunk[x]] = p
  <1>1. /\ merged' = [p \in DOMAIN merged |->
                        IF hit(p) THEN enter(states[at(p)], chunk[at(p)]) ELSE merged[p]]
        /\ IF e = T THEN pc' = "fwd" /\ UNCHANGED hm
           ELSE hm' = [tile |-> hm.tile + 1, exit |-> Last(states)] /\ UNCHANGED pc
        /\ UNCHANGED <<call, outcome, cut, tabs, toMerge, first, h, last>>
    BY DEF ScanTile
  <1> DEFINE nx == TileChunks(k)
             E == TileEnd(k)
             S == k * PreprocessTile
             K == PieceCounts
             n == Off(PieceCounts, N + 1)
  <1>2. /\ call \in HopperCalls /\ UseCp /\ k \in Nat /\ S < T /\ hm.tile = k
        /\ cut = Cuts /\ tabs = Owners /\ N \in Nat \ {0}
    BY HopperBatch DEF Cutting, OnTile
  <1>3. /\ c0 \in Nat /\ S = c0 * BT /\ S \in Nat /\ Whole(E) /\ S < E /\ nx \in Nat \ {0}
        /\ E # T => E = (k + 1) * PreprocessTile
        /\ \A x \in 1..nx : (c0 + x - 1) * BT < E
        /\ \A c \in Nat : c0 <= c /\ c * BT < E => c - c0 + 1 \in 1..nx
        /\ E # T => (c0 + nx) * BT = E /\ c0 + nx = Chunk0(k + 1)
    BY <1>2, TileFacts
  <1>4. s = S /\ e = E /\ d0 = c0 /\ CeilDiv(e, BT) - d0 = nx
    BY <1>2 DEF TileEnd, TileChunks, Chunk0
  <1> HIDE DEF s, e, d0, c0, nx, E, S, n
  <1>5. chunk = [x \in 1..nx |-> c0 + x - 1] /\ Len(chunk) = nx /\ DOMAIN chunk = 1..nx
    BY <1>3, <1>4
  <1>6. \A x \in 1..nx : chunk[x] = c0 + x - 1 /\ chunk[x] \in Nat /\ chunk[x] * BT < E
    <2>1. \A x \in 1..nx : chunk[x] = c0 + x - 1
      BY <1>5
    <2>2. \A x \in 1..nx : c0 + x - 1 \in Nat
      BY <1>3
    <2> QED BY <1>3, <2>1, <2>2
  <1> HIDE DEF chunk
  <1>7. E <= T /\ E \in Nat /\ T \in Nat
    BY <1>2, <1>3, HopperBatch DEF Whole
  <1>8. ASSUME NEW c \in Nat, c * BT < E
        PROVE  SeqAt(c) \in 1..N /\ RawSeq(c) = SeqAt(c) /\ c * BT < T
    <2>1. c * BT < T /\ c * BT \in Nat
      BY <1>7, <1>8
    <2> QED BY <1>2, <2>1, SeqAtIs, RawSeqIs
  <1>9. ASSUME NEW c \in Nat, c0 < c, c * BT < E
        PROVE  enter(After(SeqAt(c - 1), c * BT), c) = After(SeqAt(c), c * BT)
    <2> DEFINE d == c - 1
    <2>1. d \in Nat /\ d < c
      BY <1>3, <1>9
    <2> HIDE DEF d
    <2>2. d * BT < c * BT /\ d * BT \in Nat /\ c * BT \in Nat
      BY <2>1, TimesLess
    <2>3. d * BT < E
      BY <1>7, <1>9, <2>2
    <2>4. /\ SeqAt(c) \in 1..N /\ RawSeq(c) = SeqAt(c) /\ c * BT < T
          /\ SeqAt(d) \in 1..N /\ RawSeq(d) = SeqAt(d)
      BY <1>8, <1>9, <2>1, <2>3
    <2>5. c > d0
      BY <1>3, <1>4, <1>9
    <2>6. CASE SeqAt(c) = SeqAt(d)
      <3>1. RawSeq(c) = RawSeq(c - 1)
        BY <2>4, <2>6 DEF d
      <3>2. enter(After(SeqAt(c - 1), c * BT), c) = After(SeqAt(c - 1), c * BT)
        BY <3>1
      <3> QED BY <2>6, <3>2 DEF d
    <2>7. CASE SeqAt(c) # SeqAt(d)
      <3>1. N > 1
        BY <1>2, <2>4, <2>7
      <3>2. RawSeq(c) # RawSeq(c - 1)
        BY <2>4, <2>7 DEF d
      <3>3. enter(After(SeqAt(c - 1), c * BT), c) = InitialStates[SeqAt(c)]
        BY <2>4, <2>5, <3>1, <3>2
      <3>4. cu[SeqAt(c)] = c * BT
        BY <1>2, <2>4, <2>7, Fresh DEF d
      <3>5. InitialStates[SeqAt(c)] = After(SeqAt(c), cu[SeqAt(c)])
        BY <2>4 DEF InitialStates
      <3> QED BY <3>3, <3>4, <3>5
    <2> QED BY <2>6, <2>7
  <1> DEFINE A == [x \in 1..(nx + 1) |->
                     IF x = 1 THEN EntryState(d0)
                     ELSE After(SeqAt(c0 + x - 2), Smaller((c0 + x - 1) * BT, e))]
  <1>10. ASSUME NEW x \in 1..nx
         PROVE  /\ enter(A[x], chunk[x]) = After(SeqAt(chunk[x]), chunk[x] * BT)
                /\ after(A[x], chunk[x]) = A[x + 1]
    <2> DEFINE c == chunk[x]
    <2>1. c = c0 + x - 1 /\ c \in Nat /\ c * BT < E /\ c * BT \in Nat
      BY <1>6
    <2>2. x \in 1..(nx + 1) /\ x + 1 \in 1..(nx + 1)
      BY <1>3
    <2> HIDE DEF c
    <2>3. enter(A[x], c) = After(SeqAt(c), c * BT)
      <3>1. CASE x = 1
        <4>1. c = c0
          BY <1>3, <2>1, <3>1
        <4>2. A[1] = EntryState(d0)
          BY <1>3
        <4>3. EntryState(c0) = After(SeqAt(c0), c0 * BT)
          BY <1>3, EntryIs DEF c0, S
        <4>4. ~(c > d0)
          BY <1>3, <1>4, <4>1
        <4> HIDE DEF A
        <4>5. enter(A[x], c) = A[x]
          BY <4>4
        <4>6. enter(A[x], c) = After(SeqAt(c), c * BT)
          BY <1>4, <3>1, <4>1, <4>2, <4>3, <4>5
        <4> HIDE DEF enter
        <4> QED BY <4>6
      <3>2. CASE x # 1
        <4>1. c0 + x - 2 = c - 1 /\ c0 < c
          BY <1>3, <2>1, <3>2
        <4>2. A[x] = After(SeqAt(c - 1), Smaller(c * BT, e))
          BY <2>1, <2>2, <3>2, <4>1
        <4>3. Smaller(c * BT, e) = c * BT
          BY <1>4, <2>1 DEF Smaller
        <4> HIDE DEF A, enter
        <4>4. enter(After(SeqAt(c - 1), c * BT), c) = After(SeqAt(c), c * BT)
          BY <1>9, <2>1, <4>1
        <4>5. A[x] = After(SeqAt(c - 1), c * BT)
          BY <4>2, <4>3
        <4>6. enter(A[x], c) = After(SeqAt(c), c * BT)
          BY <4>4, <4>5
        <4> QED BY <4>6
      <3> QED BY <3>1, <3>2
    <2>4. A[x + 1] = After(SeqAt(c), Smaller((c + 1) * BT, e))
      <3>1. x + 1 # 1 /\ c0 + (x + 1) - 2 = c /\ c0 + (x + 1) - 1 = c + 1
        BY <1>3, <2>1
      <3> QED BY <2>2, <3>1
    <2> HIDE DEF A, enter
    <2>5. Advance(After(SeqAt(c), c * BT), c * BT, Smaller((c + 1) * BT, e))
            = After(SeqAt(c), Smaller((c + 1) * BT, e))
      BY <1>2, <1>3, <1>4, <2>1, NextChunk
    <2>6. after(A[x], c) = Advance(After(SeqAt(c), c * BT), c * BT, Smaller((c + 1) * BT, e))
      BY <2>3
    <2> HIDE DEF after
    <2> QED BY <2>3, <2>4, <2>5, <2>6 DEF c
  <1>11. A = [x \in 1..(nx + 1) |-> A[x]] /\ A[1] = EntryState(d0)
    BY <1>3
  <1>12. nx # 0 => A[nx + 1] = After(SeqAt(c0 + nx - 1), Smaller((c0 + nx) * BT, e))
    <2>1. nx + 1 \in 1..(nx + 1) /\ nx + 1 # 1 /\ c0 + (nx + 1) - 2 = c0 + nx - 1
          /\ c0 + (nx + 1) - 1 = c0 + nx
      BY <1>3
    <2> QED BY <2>1
  <1> HIDE DEF A, enter
  <1>13. \A x \in 1..(nx + 1) : A[x] = Step1(A, x)
    <2> SUFFICES ASSUME NEW x \in 1..(nx + 1) PROVE A[x] = Step1(A, x)
      OBVIOUS
    <2>1. CASE x = 1
      <3> HIDE DEF after
      <3> QED BY <1>11, <2>1
    <2>2. CASE x # 1
      <3>1. x - 1 \in 1..nx /\ (x - 1) + 1 = x
        BY <1>3, <2>2
      <3>2. after(A[x - 1], chunk[x - 1]) = A[x]
        BY <1>10, <3>1
      <3> HIDE DEF after
      <3> QED BY <2>2, <3>2
    <2> QED BY <2>1, <2>2
  <1> HIDE DEF after
  <1>14. R(A)
    <2> HIDE DEF Step1
    <2> QED BY <1>5, <1>11, <1>13
  <1>15. R(states)
    <2> HIDE DEF R
    <2> QED BY <1>14
  <1> HIDE DEF states
  <1>16. DOMAIN states = 1..(nx + 1) /\ \A x \in 1..(nx + 1) : states[x] = Step1(states, x)
    <2> HIDE DEF Step1
    <2> QED BY <1>5, <1>15
  <1> DEFINE G == {x \in 1..(nx + 1) : states[x] = A[x]}
  <1>17. 1 \in G
    <2>1. 1 \in 1..(nx + 1)
      BY <1>3
    <2>2. states[1] = Step1(states, 1)
      BY <1>16, <2>1
    <2> QED BY <1>11, <2>1, <2>2
  <1>18. ASSUME NEW x \in 1 .. (nx + 1) - 1, x \in G PROVE x + 1 \in G
    <2>1. x + 1 \in 1..(nx + 1) /\ x + 1 # 1 /\ (x + 1) - 1 = x
      BY <1>3
    <2>2. states[x + 1] = Step1(states, x + 1) /\ A[x + 1] = Step1(A, x + 1)
      <3> HIDE DEF Step1
      <3> QED BY <1>13, <1>16, <2>1
    <2>3. states[x] = A[x]
      BY <1>18
    <2>4. Step1(states, x + 1) = Step1(A, x + 1)
      BY <2>1, <2>3
    <2> HIDE DEF Step1
    <2> QED BY <2>1, <2>2, <2>4
  <1>19. 1 .. nx + 1 \subseteq G
    <2>1. 1 \in Int /\ nx + 1 \in Int
      BY <1>3
    <2> HIDE DEF G
    <2> QED BY <1>17, <1>18, <2>1, UpFrom
  <1>20. \A x \in 1..(nx + 1) : states[x] = A[x]
    BY <1>19
  <1> HIDE DEF G, R, Step1
  <1>21. ASSUME NEW x \in 1..nx
         PROVE  enter(states[x], chunk[x]) = After(SeqAt(chunk[x]), chunk[x] * BT)
    <2>1. states[x] = A[x]
      BY <1>3, <1>20
    <2> QED BY <1>10, <2>1
  <1>22. DOMAIN merged = 1..n /\ n \in Nat \ {0}
    BY <1>2, CutsRun DEF Found, n
  <1>23. ASSUME NEW i \in 1..N, NEW j \in 1..K[i], Begins(i, j) < E
         PROVE  merged'[Off(K, i) + j] = After(i, Begins(i, j))
    <2> DEFINE p == Off(K, i) + j
               b == Begins(i, j)
    <2>1. p \in 1..n /\ Cuts[p] = b
      BY <1>2, CutsAre, PieceCountsAre, PlaceOf DEF n
    <2>2. b \in Nat /\ Aligned(b) /\ Holds(i, b)
      <3>1. b \in Nat /\ cu[i] <= b /\ b < Ends(i, j) /\ Ends(i, j) <= cu[i + 1] /\ Ends(i, j) \in Nat
        BY <1>2, PieceLies
      <3>2. cu[i + 1] \in Nat
        <4>1. i + 1 \in 1..(N + 1)
          BY <1>2
        <4> QED BY <1>2, <4>1, HopperBatch
      <3>3. Aligned(b)
        BY <1>2, <2>1, CutsRun DEF n
      <3> HIDE DEF b
      <3> QED BY <3>1, <3>2, <3>3 DEF Holds
    <2>3. PICK c \in Nat : b = c * BT
      BY <2>2 DEF Aligned
    <2> HIDE DEF p, b
    <2>4. b < E
      BY <1>23 DEF b
    <2>5. SeqAt(c) = i /\ c * BT < T
      BY <1>2, <1>8, <2>2, <2>3, <2>4, SeqAtIs
    <2>6. \A x \in 1..nx : SlotMap[chunk[x]] = p <=> chunk[x] = c
      <3> SUFFICES ASSUME NEW x \in 1..nx PROVE SlotMap[chunk[x]] = p <=> chunk[x] = c
        OBVIOUS
      <3> DEFINE y == chunk[x]
      <3>1. y \in Nat /\ y * BT < T
        BY <1>6, <1>8
      <3> HIDE DEF y
      <3>2. SlotMap[y] = p <=> Cuts[p] = y * BT
        BY <2>1, <3>1, SlotMapIs DEF n
      <3>3. y * BT = c * BT <=> y = c
        BY <3>1, TimesLess
      <3> QED BY <2>1, <2>3, <3>2, <3>3 DEF y
    <2>7. merged'[p] = IF hit(p) THEN enter(states[at(p)], chunk[at(p)]) ELSE merged[p]
      <3> HIDE DEF hit, at
      <3> QED BY <1>1, <1>22, <2>1
    <2>8. CASE b < S
      <3>1. c < c0
        BY <1>3, <2>3, <2>8, TimesLess
      <3>2. ~hit(p)
        <4>1. \A x \in 1..nx : chunk[x] # c
          BY <1>3, <1>6, <3>1
        <4> QED BY <1>5, <2>6, <4>1
      <3>3. m[p] = After(i, b)
        BY <2>8 DEF Found, S, b, p
      <3> HIDE DEF hit, at
      <3> QED BY <2>7, <3>2, <3>3 DEF p, b
    <2>9. CASE ~(b < S)
      <3>1. c0 <= c
        <4>1. S <= b
          BY <1>3, <2>2, <2>9
        <4> QED BY <1>3, <2>3, <4>1, TimesLess
      <3>2. c - c0 + 1 \in 1..nx
        BY <1>3, <2>3, <2>4, <3>1
      <3>3. chunk[c - c0 + 1] = c
        <4>1. chunk[c - c0 + 1] = c0 + (c - c0 + 1) - 1
          BY <1>6, <3>2
        <4> QED BY <1>3, <4>1
      <3>4. \E x \in DOMAIN chunk : SlotMap[chunk[x]] = p
        BY <1>5, <2>6, <3>2, <3>3
      <3>5. hit(p) /\ at(p) \in DOMAIN chunk /\ SlotMap[chunk[at(p)]] = p
        BY <3>4
      <3> DEFINE x == at(p)
      <3> HIDE DEF hit, x
      <3>6. x \in 1..nx /\ chunk[x] = c
        BY <1>5, <2>6, <3>5 DEF x
      <3>7. enter(states[x], chunk[x]) = After(SeqAt(c), c * BT)
        BY <1>21, <3>6
      <3>8. merged'[p] = enter(states[x], chunk[x])
        BY <2>7, <3>5 DEF x
      <3> QED BY <2>3, <2>5, <3>7, <3>8 DEF p, b
    <2> QED BY <2>8, <2>9
  <1>24. PICK M : merged' = M
    OBVIOUS
  <1>25. M = [p \in 1..n |-> M[p]]
    BY <1>1, <1>22, <1>24
  <1>26. Found(merged', E)
    <2>1. Found(M, E)
      BY <1>23, <1>24, <1>25 DEF Found, n
    <2> QED BY <1>24, <2>1
  <1>27. CASE e = T
    BY <1>1, <1>4, <1>26, <1>27 DEF E
  <1>28. CASE e # T
    <2>1. hm' = [tile |-> hm.tile + 1, exit |-> Last(states)] /\ pc' = pc
      BY <1>1, <1>28
    <2>2. Last(states) = After(SeqAt(Chunk0(k + 1) - 1), (k + 1) * PreprocessTile)
      <3>1. Len(states) = nx + 1
        <4>1. nx + 1 \in Nat
          BY <1>3
        <4> QED BY <1>16, <4>1
      <3>2. Last(states) = states[nx + 1]
        BY <3>1 DEF Last
      <3>3. states[nx + 1] = A[nx + 1]
        BY <1>3, <1>20
      <3>4. A[nx + 1] = After(SeqAt(c0 + nx - 1), Smaller((c0 + nx) * BT, e))
        BY <1>3, <1>12
      <3>5. c0 + nx = Chunk0(k + 1) /\ (c0 + nx) * BT = e /\ e = (k + 1) * PreprocessTile
        BY <1>3, <1>4, <1>28
      <3>6. Smaller((c0 + nx) * BT, e) = e
        BY <3>5 DEF Smaller
      <3>7. c0 + nx - 1 = Chunk0(k + 1) - 1
        <4>1. c0 \in Nat /\ nx \in Nat
          BY <1>3
        <4>2. c0 + nx = Chunk0(k + 1)
          BY <3>5
        <4> QED BY <4>1, <4>2
      <3> QED BY <3>2, <3>3, <3>4, <3>5, <3>6, <3>7
    <2>3. hm'.tile = k + 1 /\ hm'.exit = Last(states)
      BY <1>2, <2>1
    <2>4. (k + 1) * PreprocessTile < T
      BY <1>3, <1>4, <1>7, <1>28
    <2>5. OnTile(hm', k + 1)
      BY <1>2, <2>2, <2>3, <2>4 DEF OnTile
    <2> QED BY <1>1, <1>4, <1>26, <1>28, <2>1, <2>5 DEF E
  <1> QED BY <1>27, <1>28

\* The kernel on the pieces, and on the sequences.
LEMMA RunPiecesStep ==
    ASSUME Cutting, NEW m, merged = m, Found(m, T), RunPieces
    PROVE  call' = call /\ CpIsSerial'
  <1> DEFINE K == PieceCounts
             n == Off(PieceCounts, N + 1)
  <1>1. /\ call \in HopperCalls /\ UseCp /\ cut = Cuts /\ tabs = Owners /\ call' = call
        /\ Layout(Cuts, K) /\ NumSeqs(Cuts) = n /\ DOMAIN tabs = 1..n
    BY HopperLayout, CutsAre, OwnersAre DEF Cutting, RunPieces
  <1>2. \A i \in 1..N : cu[i] \in Nat /\ cu[i + 1] \in Nat /\ cu[i + 1] <= T /\ N \in Nat \ {0} /\ T \in Nat
    <2>1. \A i \in 1..N : i \in 1..(N + 1) /\ i + 1 \in 1..(N + 1)
      BY <1>1, HopperBatch
    <2> QED BY <1>1, <2>1, HopperBatch
  <1>3. Given(m, Cuts, K)
    <2> SUFFICES ASSUME NEW i \in 1..N, NEW j \in 1..K[i]
                 PROVE  m[Off(K, i) + j] = After(i, Cuts[Off(K, i) + j])
      BY DEF Given
    <2>1. Cuts[Off(K, i) + j] = Begins(i, j)
      BY <1>1, CutsAre
    <2>2. Begins(i, j) \in Nat /\ Ends(i, j) \in Nat /\ Begins(i, j) < Ends(i, j) /\ Ends(i, j) <= cu[i + 1]
      BY <1>1, PieceLies
    <2>3. Begins(i, j) < T
      BY <1>2, <2>2
    <2> QED BY <2>1, <2>3 DEF Found
  <1>4. /\ FwdRows(Cuts, m) = SerialRows
        /\ \A i \in 1..N : \A j \in 1..K[i] :
              FwdFinal(Cuts, m)[Off(K, i) + j] = After(i, Cuts[Off(K, i) + j + 1])
    BY <1>1, <1>3, GivenJoins
  <1>5. h' = SerialRows
    BY <1>1, <1>4 DEF RunPieces
  <1> DEFINE ends(i) == {p \in DOMAIN tabs : tabs[p] = i /\ cut[p + 1] = cu[i + 1]}
  <1>6. ASSUME NEW i \in 1..N
        PROVE  ends(i) # {} /\ FwdFinal(cut, merged)[Max(ends(i))] = After(i, cu[i + 1])
    <2> DEFINE p == Off(K, i) + K[i]
    <2>1. K[i] \in Nat \ {0} /\ K[i] \in 1..K[i]
      BY <1>1, PieceCountsAre
    <2>2. /\ p \in 1..n /\ tabs[p] = i /\ Cuts[p + 1] = cu[i + 1]
      <3>1. p \in 1..n
        BY <1>1, <2>1, PieceCountsAre, PlaceOf
      <3>2. tabs[p] = i
        BY <1>1, <2>1, OwnersAre
      <3>3. Cuts[p + 1] = Ends(i, K[i])
        BY <1>1, <2>1, CutsAre
      <3>4. Ends(i, K[i]) = cu[i + 1]
        BY DEF Ends
      <3> QED BY <3>1, <3>2, <3>3, <3>4
    <2>3. ASSUME NEW q \in 1..n, tabs[q] = i, Cuts[q + 1] = cu[i + 1] PROVE q = p
      <3>1. PICK k \in 1..N : \E j \in 1..K[k] : q = Off(K, k) + j
        BY <1>1, PieceCountsAre, PlaceOf
      <3>2. PICK j \in 1..K[k] : q = Off(K, k) + j
        BY <3>1
      <3>3. k = i
        BY <1>1, <2>3, <3>2, OwnersAre
      <3>4. Cuts[q + 1] = Ends(i, j)
        BY <1>1, <3>2, <3>3, CutsAre
      <3>5. j = K[i]
        <4> SUFFICES ASSUME j # K[i] PROVE FALSE
          OBVIOUS
        <4>1. j \in 1..K[i] /\ j + 1 \in 1..K[i]
          BY <2>1, <3>2, <3>3
        <4>2. /\ Ends(i, j) = Begins(i, j + 1)
              /\ Begins(i, j + 1) < Ends(i, j + 1) /\ Ends(i, j + 1) <= cu[i + 1]
              /\ Begins(i, j + 1) \in Nat /\ Ends(i, j + 1) \in Nat
          BY <1>1, <4>1, PieceLies
        <4> QED BY <1>2, <2>3, <3>4, <4>2
      <3> QED BY <3>2, <3>3, <3>5
    <2>4. ends(i) = {p}
      <3>1. p \in ends(i)
        BY <1>1, <2>2
      <3>2. \A q \in ends(i) : q = p
        BY <1>1, <2>3
      <3> HIDE DEF ends, p
      <3> QED BY <3>1, <3>2
    <2>5. p \in Int
      BY <2>2
    <2>6. FwdFinal(Cuts, m)[p] = After(i, Cuts[p + 1])
      BY <1>4, <2>1
    <2> HIDE DEF ends, p
    <2>7. Max(ends(i)) = p
      BY <2>4, <2>5, MaxOne
    <2> QED BY <1>1, <2>2, <2>4, <2>6, <2>7
  <1>7. last' = IF call.outputFinal
                THEN [i \in 1..N |-> IF ends(i) = {} THEN Bad
                                     ELSE FwdFinal(cut, merged)[Max(ends(i))]]
                ELSE <<>>
    BY DEF RunPieces
  <1> HIDE DEF ends
  <1>8. last' = IF call.outputFinal THEN SerialFinal ELSE <<>>
    <2>1. \A i \in 1..N : (IF ends(i) = {} THEN Bad ELSE FwdFinal(cut, merged)[Max(ends(i))])
                            = After(i, cu[i + 1])
      BY <1>6
    <2> DEFINE got(i) == IF ends(i) = {} THEN Bad ELSE FwdFinal(cut, merged)[Max(ends(i))]
    <2>2. last' = IF call.outputFinal THEN [i \in 1..N |-> got(i)] ELSE <<>>
      BY <1>7
    <2>3. \A i \in 1..N : got(i) = After(i, cu[i + 1])
      BY <2>1
    <2> HIDE DEF got
    <2> QED BY <2>2, <2>3 DEF SerialFinal
  <1> QED BY <1>1, <1>5, <1>8, SameSerial DEF CpIsSerial

LEMMA RunWholeStep ==
    ASSUME call \in HopperCalls, RunWhole
    PROVE  CpIsSerial'
  <1>1. call' = call /\ Batch
    BY HopperBatch DEF RunWhole
  <1>2. h' = SerialRows /\ last' = IF call.outputFinal THEN SerialFinal ELSE <<>>
    BY <1>1, WholeIs DEF RunWhole
  <1> QED BY <1>1, <1>2, SameSerial DEF CpIsSerial

\* A Hopper call on its way.
Scanning == Cutting /\ \E m, k : merged = m /\ Found(m, k * PreprocessTile) /\ OnTile(hm, k)
Ready == Cutting /\ \E m : merged = m /\ Found(m, T)
OnHopper ==
    /\ call \in Sm100Calls \cup Sm90Calls \cup HopperCalls
    /\ call.path = "hopper" =>
          /\ pc = "prescan" => Scanning
          /\ pc = "fwd" => Ready
          /\ CpIsSerial

LEMMA SameHopper ==
    ASSUME call' = call
    PROVE  /\ Cuts' = Cuts /\ Owners' = Owners /\ (UseCp' <=> UseCp) /\ T' = T
           /\ \A m, t : Found(m, t)' <=> Found(m, t)
           /\ \A w, k : OnTile(w, k)' <=> OnTile(w, k)
  <1>1. N' = N /\ cu' = cu /\ T' = T /\ H' = H
    BY DEF N, cu, T, H
  <1>2. ChunkCounts' = ChunkCounts
    BY <1>1 DEF ChunkCounts
  <1>3. LocalChunks' = LocalChunks
    BY <1>1, <1>2 DEF LocalChunks
  <1>4. Local' = Local
    BY <1>3 DEF Local
  <1>5. \A i : PieceCount(i)' = PieceCount(i)
    BY <1>1, <1>2, <1>3, <1>4 DEF PieceCount
  <1>6. PieceCounts' = PieceCounts
    BY <1>1, <1>5 DEF PieceCounts
  <1>7. Cuts' = Cuts /\ Owners' = Owners
    BY <1>1, <1>4, <1>5 DEF Cuts, Owners
  <1>8. \A m, t : Found(m, t)' <=> Found(m, t)
    BY <1>1, <1>4, <1>6 DEF Found, Off, Begins, After
  <1>9. \A c : SeqAt(c)' = SeqAt(c)
    BY <1>1 DEF SeqAt, Holds
  <1>10. \A w, k : OnTile(w, k)' <=> OnTile(w, k)
    BY <1>1, <1>9 DEF OnTile, After
  <1> QED BY <1>1, <1>7, <1>8, <1>10, SameDecision

LEMMA CuttingKept ==
    ASSUME Cutting, call' = call, cut' = cut, tabs' = tabs
    PROVE  Cutting'
  BY SameHopper DEF Cutting

LEMMA OnHopperStep == OnHopper /\ [Next]_vars => OnHopper'
  <1> SUFFICES ASSUME OnHopper, [Next]_vars PROVE OnHopper'
    OBVIOUS
  <1>1. CASE UNCHANGED vars \/ Done
    <2>1. UNCHANGED <<call, pc, outcome, cut, tabs, hm, merged, toMerge, first, h, last>>
      BY <1>1 DEF vars, Done
    <2>2. call.path = "hopper" => CpIsSerial'
      BY <2>1, SerialKept DEF OnHopper
    <2>3. Scanning => Scanning'
      <3> SUFFICES ASSUME Scanning PROVE Scanning'
        OBVIOUS
      <3>1. PICK m, k : merged = m /\ Found(m, k * PreprocessTile) /\ OnTile(hm, k)
        BY DEF Scanning
      <3>2. PICK w : hm = w
        OBVIOUS
      <3>3. Found(m, k * PreprocessTile)' /\ OnTile(w, k)'
        BY <2>1, <3>1, <3>2, SameHopper
      <3>4. OnTile(hm, k)'
        BY <2>1, <3>2, <3>3 DEF OnTile
      <3> QED BY <2>1, <3>1, <3>3, <3>4, CuttingKept DEF Scanning
    <2>4. Ready => Ready'
      <3> SUFFICES ASSUME Ready PROVE Ready'
        OBVIOUS
      <3>1. PICK m : merged = m /\ Found(m, T)
        BY DEF Ready
      <3>2. PICK t : t = T
        OBVIOUS
      <3>3. Found(m, t)' /\ T' = t
        BY <2>1, <3>1, <3>2, SameHopper
      <3>4. Found(m, T)'
        BY <3>3 DEF Found
      <3> QED BY <2>1, <3>1, <3>4, CuttingKept DEF Ready
    <2> QED BY <2>1, <2>2, <2>3, <2>4 DEF OnHopper
  <1>2. CASE Sm100Next \/ Sm90Next
    <2>1. call' = call /\ call.path # "hopper"
      BY <1>2, Sm90Steps, Sm100Steps
    <2> QED BY <2>1 DEF OnHopper
  <1>3. CASE HopperNext
    <2>1. /\ call' = call /\ call.path = "hopper" /\ call \in HopperCalls /\ CpIsSerial
          /\ pc = "prescan" => Scanning
          /\ pc = "fwd" => Ready
      BY <1>3, Paths DEF OnHopper, HopperNext, DecideHopper, ScanTile, RunPieces, RunWhole
    <2>2. CASE DecideHopper
      <3>1. /\ h' = h /\ last' = last
            /\ outcome' = outcome \/ outcome' \notin {"cp", "serial"}
        BY <2>2 DEF DecideHopper, Leave
      <3>2. CpIsSerial'
        BY <2>1, <3>1, SerialKept
      <3>3. CASE ~(call.mode = "auto" /\ CpWouldFire /\ UseCp)
        <4>1. pc' = "serial"
          BY <2>2, <3>3 DEF DecideHopper, Leave
        <4> QED BY <2>1, <3>2, <4>1 DEF OnHopper
      <3>4. CASE call.mode = "auto" /\ CpWouldFire /\ UseCp
        <4>1. /\ pc' = "prescan" /\ cut' = Cuts /\ tabs' = Owners
              /\ hm' = [tile |-> 0, exit |-> Bad]
              /\ merged' = [p \in DOMAIN Owners |-> Bad]
          BY <2>2, <3>4 DEF DecideHopper
        <4>2. Cutting'
          BY <2>1, <3>4, <4>1, SameHopper DEF Cutting
        <4>3. PICK w : hm' = w
          OBVIOUS
        <4>4. PICK m : merged' = m
          OBVIOUS
        <4>5. 0 * PreprocessTile = 0 /\ T \in Nat \ {0}
          BY <2>1, HopperBatch
        <4>6. OnTile(w, 0)
          <5>1. w.tile = 0
            BY <4>1, <4>3
          <5> QED BY <4>5, <5>1 DEF OnTile
        <4>7. Found(m, 0 * PreprocessTile)
          <5>1. m = [p \in 1..Off(PieceCounts, N + 1) |-> m[p]]
            BY <2>1, <4>1, <4>4, OwnersAre
          <5>2. ASSUME NEW i \in 1..N, NEW j \in 1..PieceCounts[i] PROVE ~(Begins(i, j) < 0)
            BY <2>1, PieceLies
          <5> QED BY <4>5, <5>1, <5>2 DEF Found
        <4>8. OnTile(w, 0)' /\ Found(m, 0 * PreprocessTile)'
          BY <2>1, <4>6, <4>7, SameHopper
        <4>9. OnTile(hm, 0)'
          BY <4>3, <4>8 DEF OnTile
        <4>10. Scanning'
          BY <4>2, <4>4, <4>8, <4>9 DEF Scanning
        <4> QED BY <2>1, <3>2, <4>1, <4>10 DEF OnHopper
      <3> QED BY <3>3, <3>4
    <2>3. CASE ScanTile
      <3>1. pc = "prescan" /\ Scanning
        BY <2>1, <2>3 DEF ScanTile
      <3>2. PICK m, k : merged = m /\ Found(m, k * PreprocessTile) /\ OnTile(hm, k)
        BY <3>1 DEF Scanning
      <3>3. /\ cut' = cut /\ tabs' = tabs /\ outcome' = outcome /\ h' = h /\ last' = last
            /\ Found(merged', TileEnd(k))
            /\ \/ pc' = "fwd" /\ TileEnd(k) = T
               \/ pc' = pc /\ TileEnd(k) # T /\ OnTile(hm', k + 1)
        BY <2>3, <3>1, <3>2, ScanStep DEF Scanning
      <3>4. Cutting' /\ CpIsSerial'
        BY <2>1, <3>1, <3>3, CuttingKept, SerialKept DEF Scanning
      <3>5. PICK M : merged' = M
        OBVIOUS
      <3>6. CASE pc' = "fwd" /\ TileEnd(k) = T
        <4>1. PICK t : t = T
          OBVIOUS
        <4>2. Found(M, t)
          BY <3>3, <3>5, <3>6, <4>1
        <4>3. Found(M, t)' /\ T' = t
          BY <2>1, <4>1, <4>2, SameHopper
        <4>4. Found(M, T)'
          BY <4>3 DEF Found
        <4>5. Ready'
          BY <3>4, <3>5, <4>4 DEF Ready
        <4> QED BY <2>1, <3>4, <3>6, <4>5 DEF OnHopper
      <3>7. CASE pc' = pc /\ TileEnd(k) # T /\ OnTile(hm', k + 1)
        <4>1. TileEnd(k) = (k + 1) * PreprocessTile
          BY <2>1, <3>2, <3>7, TileFacts DEF OnTile
        <4>2. Found(M, (k + 1) * PreprocessTile)
          BY <3>3, <3>5, <4>1
        <4>3. PICK w : hm' = w
          OBVIOUS
        <4>4. OnTile(w, k + 1)
          BY <3>7, <4>3
        <4>5. Found(M, (k + 1) * PreprocessTile)' /\ OnTile(w, k + 1)'
          BY <2>1, <4>2, <4>4, SameHopper
        <4>6. OnTile(hm, k + 1)'
          BY <4>3, <4>5 DEF OnTile
        <4>7. Scanning'
          BY <3>4, <3>5, <4>5, <4>6 DEF Scanning
        <4> QED BY <2>1, <3>1, <3>4, <3>7, <4>7 DEF OnHopper
      <3> QED BY <3>3, <3>6, <3>7
    <2>4. CASE RunPieces
      <3>1. pc = "fwd" /\ pc' = "done"
        BY <2>4 DEF RunPieces
      <3>2. PICK m : merged = m /\ Found(m, T)
        BY <2>1, <3>1 DEF Ready
      <3>3. CpIsSerial'
        BY <2>1, <2>4, <3>1, <3>2, RunPiecesStep DEF Ready
      <3> QED BY <2>1, <3>1, <3>3 DEF OnHopper
    <2>5. CASE RunWhole
      <3>1. pc' = "done"
        BY <2>5 DEF RunWhole
      <3> QED BY <2>1, <2>5, <3>1, RunWholeStep DEF OnHopper
    <2> QED BY <1>3, <2>2, <2>3, <2>4, <2>5 DEF HopperNext
  <1> QED BY <1>1, <1>2, <1>3 DEF Next

\* Wherever its tables cut, and however many preprocess tiles the boundary
\* pass takes, a Hopper call returns the states of the serial recurrence
\* (CpIsSerial).
THEOREM HopperCpIsSerial == Spec => [](call.path = "hopper" => CpIsSerial)
  <1>1. Init => OnHopper
    BY DEF Init, Begin, OnHopper, CpIsSerial
  <1>2. OnHopper => (call.path = "hopper" => CpIsSerial)
    BY DEF OnHopper
  <1> QED BY <1>1, <1>2, OnHopperStep, PTL DEF Spec

HIDE TilesAssumption DEF TilesAssumption

-----------------------------------------------------------------------------
(***************************************************************************)
(* One SM90 call: tiles, and runs of tiles.                                *)
(***************************************************************************)
\* Calls with empty sequences end in an error.
Sm90Going == call \in Sm90Calls /\ \A i \in 1..N : SeqLen(cu, i) > 0

LEMMA Sm90Batch ==
    ASSUME call \in Sm90Calls
    PROVE  /\ Batch /\ N \in Nat \ {0} /\ cu[1] = 0 /\ Len(cu) = N + 1
           /\ \A i \in 1..N : /\ cu[i] \in Nat /\ cu[i + 1] \in Nat /\ cu[i] <= cu[i + 1]
                              /\ SeqLen(cu, i) = cu[i + 1] - cu[i]
           /\ call.dense => EqualLengths(cu) /\ SeqLen(cu, 1) > 0
           /\ call.split \in ManualSplits \cup {0}
  <1>1. /\ cu \in Sm90Batches /\ call.split \in ManualSplits \cup {0}
        /\ call.dense => EqualLengths(cu) /\ SeqLen(cu, 1) > 0
    BY DEF Sm90Calls, cu
  <1>2. /\ cu \in Seq(Nat) /\ Len(cu) >= 2 /\ cu[1] = 0
        /\ \A i, j \in 1..Len(cu) : i <= j => cu[i] <= cu[j]
    BY <1>1, Sm90BatchesAssumption DEF Sm90BatchesAssumption
  <1>3. Len(cu) \in Nat /\ \A j \in 1..Len(cu) : cu[j] \in Nat
    BY <1>2
  <1>4. Len(cu) = N + 1 /\ N \in Nat \ {0}
    BY <1>2, <1>3 DEF N, NumSeqs
  <1>5. Batch
    BY <1>2, <1>3, <1>4 DEF Batch
  <1>6. \A i \in 1..N : /\ cu[i] \in Nat /\ cu[i + 1] \in Nat /\ cu[i] <= cu[i + 1]
                        /\ SeqLen(cu, i) = cu[i + 1] - cu[i]
    <2> SUFFICES ASSUME NEW i \in 1..N
                 PROVE  /\ cu[i] \in Nat /\ cu[i + 1] \in Nat /\ cu[i] <= cu[i + 1]
                        /\ SeqLen(cu, i) = cu[i + 1] - cu[i]
      OBVIOUS
    <2>1. i \in 1..Len(cu) /\ i + 1 \in 1..Len(cu) /\ i <= i + 1
      BY <1>4
    <2> QED BY <1>2, <1>3, <2>1 DEF SeqLen
  <1> QED BY <1>1, <1>2, <1>4, <1>5, <1>6

\* The tiles of the sequences, counted through the batch.
LEMMA TileCounts ==
    ASSUME Sm90Going
    PROVE  /\ ChunkCounts = SeqChunks /\ N \in Nat \ {0} /\ Batch
           /\ \A i \in 1..N : /\ SeqChunks[i] = Chunks(cu[i + 1] - cu[i])
                              /\ SeqChunks[i] \in Nat \ {0}
                              /\ cu[i] \in Nat /\ cu[i + 1] \in Nat /\ cu[i] < cu[i + 1]
                              /\ SeqOff(i) \in Nat /\ SeqOff(i + 1) = SeqOff(i) + SeqChunks[i]
           /\ SeqOff(1) = 0
  <1>1. call \in Sm90Calls /\ \A i \in 1..N : SeqLen(cu, i) > 0
    BY DEF Sm90Going
  <1>2. ChunkCounts = SeqChunks
    BY DEF ChunkCounts, SeqChunks
  <1>3. Batch /\ N \in Nat \ {0}
    BY <1>1, Sm90Batch
  <1>4. ASSUME NEW i \in 1..N
        PROVE  /\ SeqChunks[i] = Chunks(cu[i + 1] - cu[i])
               /\ SeqChunks[i] \in Nat \ {0}
               /\ cu[i] \in Nat /\ cu[i + 1] \in Nat /\ cu[i] < cu[i + 1]
    <2>1. /\ cu[i] \in Nat /\ cu[i + 1] \in Nat /\ SeqLen(cu, i) = cu[i + 1] - cu[i]
          /\ SeqLen(cu, i) > 0
      BY <1>1, Sm90Batch
    <2>2. SeqChunks[i] = Chunks(cu[i + 1] - cu[i])
      BY <2>1 DEF SeqChunks
    <2> DEFINE d == cu[i + 1] - cu[i]
    <2>3. d \in Nat \ {0}
      BY <2>1
    <2> HIDE DEF d
    <2>4. Chunks(d) \in Nat \ {0}
      BY <2>3, CeilDivPositive DEF Chunks
    <2> QED BY <2>1, <2>2, <2>4 DEF d
  <1>5. \A i \in 1..N : i \in 1..(N + 1)
    BY <1>3
  <1>6. /\ \A i \in 1..(N + 1) : SeqOff(i) \in Nat
        /\ \A i \in 1..N : SeqOff(i + 1) = SeqOff(i) + SeqChunks[i]
        /\ SeqOff(1) = 0
    BY <1>3, SeqOffsRun
  <1> QED BY <1>2, <1>3, <1>4, <1>5, <1>6

\* Tile c of sequence i, counting from 1.
TileFrom(i, c) == cu[i] + (c - 1) * BT
TileTo(i, c) == Smaller(cu[i] + c * BT, cu[i + 1])

LEMMA TileArith ==
    ASSUME Sm90Going, NEW i \in 1..N, NEW c \in 1..SeqChunks[i]
    PROVE  /\ (c - 1) * BT \in Nat /\ c * BT = (c - 1) * BT + BT
           /\ TileFrom(i, c) \in Nat /\ TileFrom(i, c) < cu[i + 1]
           /\ TileTo(i, c) = Smaller(TileFrom(i, c) + BT, cu[i + 1])
  <1> DEFINE d == cu[i + 1] - cu[i]
  <1>1. d \in Nat /\ SeqChunks[i] = Chunks(d) /\ cu[i] \in Nat /\ cu[i + 1] \in Nat
    BY TileCounts
  <1> HIDE DEF d
  <1>2. (c - 1) * BT \in Nat /\ c * BT = (c - 1) * BT + BT /\ (c - 1) * BT < d
    BY <1>1, ChunkStarts
  <1>3. cu[i] + c * BT = (cu[i] + (c - 1) * BT) + BT
    BY <1>1, <1>2
  <1> QED BY <1>1, <1>2, <1>3 DEF d, TileFrom, TileTo

LEMMA DenseTile ==
    ASSUME Sm90Going, call.dense, NEW i \in 1..N, NEW c \in 1..SeqChunks[i]
    PROVE  TileRange(SeqOff(i) + c - 1) = <<TileFrom(i, c), TileTo(i, c)>>
  <1> DEFINE q == SeqChunks[1]
             t == SeqOff(i) + c - 1
  <1>1. /\ N \in Nat \ {0} /\ 1 \in 1..N /\ q \in Nat \ {0} /\ EqualLengths(cu) /\ ChunkCounts = SeqChunks
    BY TileCounts, Sm90Batch DEF Sm90Going
  <1>2. \A k \in 1..N : SeqChunks[k] = q
    <2>1. \A k \in 1..N : SeqLen(cu, k) = SeqLen(cu, 1)
      BY <1>1 DEF EqualLengths, N
    <2> QED BY <1>1, <2>1 DEF SeqChunks
  <1> HIDE DEF q
  <1> DEFINE G == {k \in 1..N : SeqOff(k) = (k - 1) * q}
  <1>3. 1 .. N \subseteq G
    <2>1. 1 \in G
      <3>1. (1 - 1) * q = 0
        BY <1>1
      <3> QED BY <1>1, <3>1, TileCounts
    <2>2. ASSUME NEW k \in 1 .. N - 1, k \in G PROVE k + 1 \in G
      <3>1. k \in 1..N /\ k + 1 \in 1..N /\ (k + 1) - 1 = (k - 1) + 1 /\ k - 1 \in Nat
        BY <1>1
      <3>2. SeqOff(k + 1) = SeqOff(k) + q /\ SeqOff(k) = (k - 1) * q
        BY <1>2, <2>2, <3>1, TileCounts
      <3>3. ((k - 1) + 1) * q = (k - 1) * q + q
        BY <1>1, <3>1
      <3> QED BY <3>1, <3>2, <3>3
    <2>3. 1 \in Int /\ N \in Int
      BY <1>1
    <2> HIDE DEF G
    <2> QED BY <2>1, <2>2, <2>3, UpFrom
  <1>4. SeqOff(i) = (i - 1) * q /\ i - 1 \in Nat /\ c \in 1..q
    BY <1>2, <1>3
  <1>5. t = (i - 1) * q + (c - 1) /\ c - 1 \in 0..(q - 1)
    <2>1. (i - 1) * q \in Nat
      BY <1>1, <1>4
    <2> QED BY <1>1, <1>4, <2>1
  <1> HIDE DEF t
  <1>6. t \div q = i - 1 /\ t % q = c - 1
    <2>1. ASSUME NEW m \in Nat, NEW r \in 0..(q - 1)
          PROVE  (m * q + r) \div q = m /\ (m * q + r) % q = r
      BY <1>1
    <2> QED BY <1>4, <1>5, <2>1
  <1>7. TileRange(t) = LET s == cu[t \div q + 1] + (t % q) * BT
                       IN  <<s, Smaller(s + BT, cu[t \div q + 2])>>
    BY <1>1, <1>2 DEF TileRange
  <1>8. (i - 1) + 1 = i /\ (i - 1) + 2 = i + 1
    OBVIOUS
  <1>9. TileRange(t) = <<cu[i] + (c - 1) * BT, Smaller((cu[i] + (c - 1) * BT) + BT, cu[i + 1])>>
    BY <1>6, <1>7, <1>8
  <1> QED BY <1>9, TileArith DEF TileFrom, t

LEMMA PaddedTile ==
    ASSUME Sm90Going, ~call.dense, NeedsPadding, NEW i \in 1..N, NEW c \in 1..SeqChunks[i]
    PROVE  TileRange(SeqOff(i) + c - 1) = <<TileFrom(i, c), TileTo(i, c)>>
  <1> DEFINE from == [k \in 1..N |-> [b \in 1..ChunkCounts[k] |-> cu[k] + (b - 1) * BT]]
             lens == [k \in 1..N |-> [b \in 1..ChunkCounts[k] |-> Smaller(BT, SeqLen(cu, k) - (b - 1) * BT)]]
             S == FlattenSeq(from)
             W == FlattenSeq(lens)
             t == SeqOff(i) + c - 1
  <1>1. ChunkCounts = SeqChunks /\ N \in Nat \ {0} /\ Running(SeqOffs, SeqChunks, N) /\ SeqOffs[i] = SeqOff(i)
        /\ SeqOff(i) \in Nat
    <2>1. Batch /\ N \in Nat \ {0} /\ i \in 1..(N + 1)
      BY TileCounts
    <2> QED BY <2>1, TileCounts, SeqOffsRun
  <1>2. TileRange(t) = <<S[t + 1], S[t + 1] + W[t + 1]>>
    BY DEF TileRange, TileStarts, TileLens
  <1>3. t + 1 = SeqOffs[i] + c
    BY <1>1
  <1>4. Parts(from, SeqChunks, N) /\ Parts(lens, SeqChunks, N)
    BY <1>1 DEF Parts
  <1>5. from[i][c] = TileFrom(i, c) /\ lens[i][c] = Smaller(BT, SeqLen(cu, i) - (c - 1) * BT)
    BY <1>1 DEF TileFrom
  <1> HIDE DEF from, lens, t
  <1>6. S[SeqOffs[i] + c] = from[i][c] /\ W[SeqOffs[i] + c] = lens[i][c]
    <2>1. EndToEnd(S, from, SeqOffs, SeqChunks, N) /\ EndToEnd(W, lens, SeqOffs, SeqChunks, N)
      BY <1>1, <1>4, FlattenAt
    <2> HIDE DEF S, W
    <2> QED BY <2>1 DEF EndToEnd
  <1> HIDE DEF S, W
  <1>7. SeqLen(cu, i) = cu[i + 1] - cu[i] /\ cu[i] \in Nat /\ cu[i + 1] \in Nat
    BY Sm90Batch DEF Sm90Going
  <1>8. TileFrom(i, c) + Smaller(BT, SeqLen(cu, i) - (c - 1) * BT) = TileTo(i, c)
    BY <1>7, TileArith DEF TileFrom, Smaller
  <1> QED BY <1>2, <1>3, <1>5, <1>6, <1>8 DEF t

\* Without padding the batch is its tiles.
LEMMA PackedStarts ==
    ASSUME Sm90Going, ~NeedsPadding
    PROVE  \A i \in 1..(N + 1) : cu[i] = SeqOff(i) * BT /\ SeqOff(i) \in Nat
  <1>1. N \in Nat \ {0} /\ Batch /\ cu[1] = 0 /\ SeqOff(1) = 0
    BY TileCounts, Sm90Batch DEF Sm90Going
  <1>2. \A i \in 1..(N + 1) : SeqOff(i) \in Nat
    BY <1>1, SeqOffsRun
  <1> DEFINE G == {i \in 1..(N + 1) : cu[i] = SeqOff(i) * BT}
  <1>3. 1 \in G
    <2>1. 0 * BT = 0 /\ 1 \in 1..(N + 1)
      BY <1>1
    <2> QED BY <1>1, <2>1
  <1>4. ASSUME NEW i \in 1 .. (N + 1) - 1, i \in G PROVE i + 1 \in G
    <2>1. i \in 1..N /\ i \in 1..(N + 1) /\ i + 1 \in 1..(N + 1)
      BY <1>1
    <2> DEFINE d == cu[i + 1] - cu[i]
    <2>2. /\ cu[i] = SeqOff(i) * BT /\ SeqOff(i) \in Nat /\ SeqChunks[i] = Chunks(d)
          /\ SeqOff(i + 1) = SeqOff(i) + SeqChunks[i] /\ cu[i] \in Nat /\ cu[i + 1] \in Nat
          /\ d \in Nat
      BY <1>4, <2>1, TileCounts
    <2>3. d % BT = 0
      BY <2>1, Sm90Batch DEF Sm90Going, NeedsPadding
    <2> HIDE DEF d
    <2>4. Aligned(d)
      BY <2>2, <2>3, WholeChunks
    <2>5. d \div BT \in Nat /\ d = (d \div BT) * BT /\ Chunks(d) = d \div BT
      BY <2>2, <2>4, AlignedDiv DEF Chunks
    <2>6. d = Chunks(d) * BT /\ Chunks(d) \in Nat
      BY <2>5
    <2>7. (SeqOff(i) + Chunks(d)) * BT = SeqOff(i) * BT + Chunks(d) * BT
      BY <2>2, <2>6, Distribute
    <2>8. cu[i + 1] = cu[i] + d
      BY <2>2 DEF d
    <2> QED BY <2>1, <2>2, <2>6, <2>7, <2>8
  <1>5. 1 .. N + 1 \subseteq G
    <2>1. 1 \in Int /\ N + 1 \in Int
      BY <1>1
    <2> HIDE DEF G
    <2> QED BY <1>3, <1>4, <2>1, UpFrom
  <1> QED BY <1>2, <1>5

LEMMA PackedTile ==
    ASSUME Sm90Going, ~call.dense, ~NeedsPadding, NEW i \in 1..N, NEW c \in 1..SeqChunks[i]
    PROVE  TileRange(SeqOff(i) + c - 1) = <<TileFrom(i, c), TileTo(i, c)>>
  <1> DEFINE t == SeqOff(i) + c - 1
             o == SeqOff(i)
  <1>1. /\ N \in Nat \ {0} /\ i \in 1..(N + 1) /\ i + 1 \in 1..(N + 1)
        /\ SeqOff(i + 1) = SeqOff(i) + SeqChunks[i] /\ SeqChunks[i] \in Nat
    BY TileCounts
  <1>2. o \in Nat /\ cu[i] = o * BT /\ cu[i + 1] = SeqOff(i + 1) * BT /\ SeqOff(i + 1) \in Nat
    BY <1>1, PackedStarts
  <1>3. TileRange(t) = <<t * BT, (t + 1) * BT>>
    BY DEF TileRange
  <1> HIDE DEF o
  <1>4. t = o + (c - 1) /\ t + 1 = o + c /\ c - 1 \in Nat /\ c \in Nat /\ o + c <= SeqOff(i + 1)
    BY <1>1, <1>2 DEF o
  <1> HIDE DEF t
  <1>5. t * BT = cu[i] + (c - 1) * BT /\ (t + 1) * BT = cu[i] + c * BT
    <2>1. (o + (c - 1)) * BT = o * BT + (c - 1) * BT
      BY <1>2, <1>4, Distribute
    <2>2. (o + c) * BT = o * BT + c * BT
      BY <1>2, <1>4, Distribute
    <2> QED BY <1>2, <1>4, <2>1, <2>2
  <1>6. (t + 1) * BT <= cu[i + 1] /\ (t + 1) * BT \in Nat /\ cu[i + 1] \in Nat
    <2> DEFINE a == t + 1
               b == SeqOff(i + 1)
    <2>1. a \in Nat /\ b \in Nat /\ a <= b
      BY <1>2, <1>4
    <2> HIDE DEF a, b
    <2>2. a * BT <= b * BT /\ a * BT \in Nat /\ b * BT \in Nat
      BY <2>1, TimesLess
    <2> QED BY <1>2, <2>2 DEF a, b
  <1>7. TileTo(i, c) = (t + 1) * BT
    BY <1>5, <1>6 DEF TileTo, Smaller
  <1> QED BY <1>3, <1>5, <1>7 DEF TileFrom, t

LEMMA TileIs ==
    ASSUME Sm90Going, NEW i \in 1..N, NEW c \in 1..SeqChunks[i]
    PROVE  TileRange(SeqOff(i) + c - 1) = <<TileFrom(i, c), TileTo(i, c)>>
  BY DenseTile, PaddedTile, PackedTile

\* The tiles from s to e, of a run that begins and ends where they do.
Runs(layout, p, i, s, e) ==
    /\ layout[p] = SeqOff(i) + Chunks(s - cu[i])
    /\ layout[p + 1] = SeqOff(i) + Chunks(e - cu[i])

LEMMA RunIs ==
    ASSUME Sm90Going, NEW i \in 1..N, NEW s, NEW e, Boundary(i, s), Boundary(i, e), s <= e,
           NEW layout, NEW p, Runs(layout, p, i, s, e)
    PROVE  RunRanges(layout, p) = ChunkRanges(s, e)
  <1> DEFINE m == Chunks(s - cu[i])
             d == Chunks(e - s)
             a == layout[p]
             z == layout[p + 1]
  <1>1. /\ Batch /\ N \in Nat \ {0} /\ SeqOff(i) \in Nat /\ SeqChunks[i] = Chunks(cu[i + 1] - cu[i])
        /\ cu[i] \in Nat /\ cu[i + 1] \in Nat /\ s \in Nat /\ e \in Nat
        /\ cu[i] <= s /\ s <= cu[i + 1] /\ e <= cu[i + 1]
    BY TileCounts DEF Boundary
  <1>2. /\ m \in Nat /\ d \in Nat /\ Chunks(e - cu[i]) = m + d
        /\ s < e => s = cu[i] + m * BT
    BY <1>1, ChunksJoin
  <1>3. d # 0 => s < e
    <2> SUFFICES ASSUME s = e PROVE d = 0
      BY <1>1
    <2>1. e - s = 0
      BY <1>1
    <2> QED BY <2>1, ChunksOfNone
  <1>4. m + d <= SeqChunks[i]
    <2> DEFINE f == cu[i + 1]
    <2>1. Boundary(i, f) /\ e <= f
      BY <1>1 DEF Boundary
    <2> HIDE DEF f
    <2>2. Chunks(f - e) \in Nat /\ Chunks(f - cu[i]) = Chunks(e - cu[i]) + Chunks(f - e)
      BY <1>1, <2>1, ChunksJoin
    <2> QED BY <1>1, <1>2, <2>2 DEF f
  <1>5. a = SeqOff(i) + m /\ z = SeqOff(i) + (m + d)
    BY <1>2 DEF Runs
  <1>6. d # 0 => s = cu[i] + m * BT
    BY <1>2, <1>3
  <1> HIDE DEF m, d, a, z
  <1>7. ASSUME NEW x \in 1..d
        PROVE  TileRange(a + x - 1) = <<s + (x - 1) * BT, Smaller(s + x * BT, e)>>
    <2> DEFINE c == m + x
    <2>1. c \in 1..SeqChunks[i] /\ SeqChunks[i] \in Nat
      BY <1>2, <1>4, TileCounts
    <2>2. a + x - 1 = SeqOff(i) + c - 1
      BY <1>1, <1>2, <1>5
    <2>3. c - 1 = m + (x - 1) /\ x - 1 \in Nat /\ x \in Nat
      BY <1>2
    <2>4. TileRange(a + x - 1) = <<cu[i] + (c - 1) * BT, Smaller(cu[i] + c * BT, cu[i + 1])>>
      <3> HIDE DEF c
      <3> QED BY <2>1, <2>2, TileIs DEF TileFrom, TileTo
    <2>5. /\ (m + (x - 1)) * BT = m * BT + (x - 1) * BT
          /\ (m + x) * BT = m * BT + x * BT
          /\ m * BT \in Nat /\ (x - 1) * BT \in Nat /\ x * BT \in Nat
      BY <1>2, <2>3, Distribute
    <2>6. s = cu[i] + m * BT /\ s < e
      BY <1>3, <1>6
    <2>7. cu[i] + (c - 1) * BT = s + (x - 1) * BT
      BY <1>1, <2>3, <2>5, <2>6
    <2>8. cu[i] + c * BT = s + x * BT
      BY <1>1, <2>5, <2>6
    <2>9. e = cu[i + 1] \/ s + x * BT <= e
      <3> SUFFICES ASSUME e # cu[i + 1] PROVE s + x * BT <= e
        OBVIOUS
      <3>1. PICK k \in Nat : e = cu[i] + k * BT
        BY DEF Boundary, AtChunk
      <3>2. k * BT \in Nat /\ Chunks(k * BT) = k
        BY <3>1, CeilDivExact DEF Chunks
      <3>3. e - cu[i] = k * BT
        BY <1>1, <3>1, <3>2
      <3>4. k = m + d
        BY <1>2, <3>2, <3>3
      <3>5. m + x <= k /\ m + x \in Nat
        BY <1>2, <2>3, <3>4
      <3>6. (m + x) * BT <= k * BT
        <4> DEFINE b == m + x
        <4>1. b \in Nat /\ b <= k
          BY <3>5
        <4> HIDE DEF b
        <4> QED BY <3>1, <4>1, TimesLess DEF b
      <3> QED BY <1>1, <2>5, <2>6, <3>1, <3>2, <3>6
    <2>10. Smaller(s + x * BT, cu[i + 1]) = Smaller(s + x * BT, e)
      BY <1>1, <2>5, <2>9 DEF Smaller
    <2> QED BY <2>4, <2>7, <2>8, <2>10
  <1>8. z - a = d
    BY <1>1, <1>2, <1>5
  <1>9. RunRanges(layout, p) = [x \in 1..d |->
            IF TileRange(a + x - 1)[1] = TileRange(a)[1] + (x - 1) * BT
            THEN TileRange(a + x - 1) ELSE Bad]
    BY <1>8 DEF RunRanges, a, z
  <1>10. ASSUME NEW x \in 1..d
         PROVE  (IF TileRange(a + x - 1)[1] = TileRange(a)[1] + (x - 1) * BT
                 THEN TileRange(a + x - 1) ELSE Bad) = <<s + (x - 1) * BT, Smaller(s + x * BT, e)>>
    <2>1. TileRange(a)[1] = s
      <3>1. 1 \in 1..d /\ (1 - 1) * BT = 0 /\ a + 1 - 1 = a /\ s + 0 = s
        BY <1>1, <1>2, <1>5
      <3>2. TileRange(a + 1 - 1) = <<s + (1 - 1) * BT, Smaller(s + 1 * BT, e)>>
        BY <1>7, <3>1
      <3> QED BY <3>1, <3>2
    <2>2. TileRange(a + x - 1) = <<s + (x - 1) * BT, Smaller(s + x * BT, e)>>
      BY <1>7
    <2> QED BY <2>1, <2>2
  <1>11. ChunkRanges(s, e) = [x \in 1..d |-> <<s + (x - 1) * BT, Smaller(s + x * BT, e)>>]
    BY DEF ChunkRanges, d
  <1> DEFINE got(x) == IF TileRange(a + x - 1)[1] = TileRange(a)[1] + (x - 1) * BT
                       THEN TileRange(a + x - 1) ELSE Bad
             want(x) == <<s + (x - 1) * BT, Smaller(s + x * BT, e)>>
  <1>12. RunRanges(layout, p) = [x \in 1..d |-> got(x)] /\ ChunkRanges(s, e) = [x \in 1..d |-> want(x)]
    BY <1>9, <1>11
  <1>13. \A x \in 1..d : got(x) = want(x)
    BY <1>10
  <1> HIDE DEF got, want
  <1> QED BY <1>12, <1>13

\* The recurrence along such a run, from the state before it.
RunPasses(layout, p, i, s, e) ==
    /\ Along(RunRanges(layout, p), After(i, s)) = Trace(s, e, After(i, s))
    /\ Passes(Along(RunRanges(layout, p), After(i, s)), i, s, e)

LEMMA RunIsPart ==
    ASSUME Sm90Going, NEW i \in 1..N, NEW s, NEW e, Boundary(i, s), Boundary(i, e), s <= e,
           NEW layout, NEW p, Runs(layout, p, i, s, e)
    PROVE  RunPasses(layout, p, i, s, e)
  <1>1. RunRanges(layout, p) = ChunkRanges(s, e)
    BY RunIs
  <1>2. Along(RunRanges(layout, p), After(i, s)) = Trace(s, e, After(i, s))
    BY <1>1 DEF Trace
  <1>3. Batch
    BY TileCounts
  <1>4. /\ Front(Trace(s, e, After(i, s))) = [x \in 1..Chunks(e - s) |-> After(i, s + (x - 1) * BT)]
        /\ Last(Trace(s, e, After(i, s))) = After(i, e)
    BY <1>3, PartIs
  <1> QED BY <1>2, <1>4 DEF RunPasses, Passes

-----------------------------------------------------------------------------
(* Every run of a launch is in its order. *)
LEMMA LongestFirstHas ==
    ASSUME NEW n \in Nat, NEW layout, \A p \in 1..(n + 1) : layout[p] \in Nat,
           NEW ps \in SUBSET (1..n), NEW p \in ps
    PROVE  p \in Range(LongestFirst(layout, ps))
  <1> DEFINE size(q) == layout[q + 1] - layout[q]
             sooner(q) == {r \in ps : size(r) > size(q) \/ (size(r) = size(q) /\ r < q)}
             order == [slot \in 1..Cardinality(ps) |->
                         CHOOSE q \in ps : Cardinality(sooner(q)) = slot - 1]
  <1>1. LongestFirst(layout, ps) = order
    BY DEF LongestFirst
  <1>2. \A q \in ps : q \in Nat /\ size(q) \in Int
    <2>1. \A q \in ps : q \in 1..(n + 1) /\ q + 1 \in 1..(n + 1)
      OBVIOUS
    <2>2. \A q \in 1..(n + 1) : layout[q] \in Int
      OBVIOUS
    <2> QED BY <2>1, <2>2
  <1> HIDE DEF size
  <1>3. IsFiniteSet(ps)
    <2>1. IsFiniteSet(1..n)
      <3>1. 1 \in Int /\ n \in Int
        OBVIOUS
      <3> QED BY <3>1, FS_Interval
    <2> QED BY <2>1, FS_Subset
  <1>4. \A q \in ps : IsFiniteSet(sooner(q)) /\ Cardinality(sooner(q)) \in Nat
    <2> SUFFICES ASSUME NEW q \in ps PROVE IsFiniteSet(sooner(q)) /\ Cardinality(sooner(q)) \in Nat
      OBVIOUS
    <2>1. sooner(q) \subseteq ps
      OBVIOUS
    <2> HIDE DEF sooner
    <2> QED BY <1>3, <2>1, FS_Subset, FS_CardinalityType
  <1>5. ASSUME NEW q \in ps, NEW r \in ps, q \in sooner(r)
        PROVE  Cardinality(sooner(q)) < Cardinality(sooner(r))
    <2>1. q \notin sooner(q)
      BY <1>2
    <2>2. sooner(q) \subseteq sooner(r)
      <3> SUFFICES ASSUME NEW x \in ps, size(x) > size(q) \/ (size(x) = size(q) /\ x < q)
                   PROVE  size(x) > size(r) \/ (size(x) = size(r) /\ x < r)
        OBVIOUS
      <3>1. size(q) > size(r) \/ (size(q) = size(r) /\ q < r)
        BY <1>5
      <3>2. /\ x \in Nat /\ q \in Nat /\ r \in Nat
            /\ size(x) \in Int /\ size(q) \in Int /\ size(r) \in Int
        BY <1>2
      <3> QED BY <3>1, <3>2
    <2> HIDE DEF sooner
    <2>3. sooner(q) # sooner(r)
      BY <1>5, <2>1
    <2>4. /\ Cardinality(sooner(q)) <= Cardinality(sooner(r))
          /\ Cardinality(sooner(q)) = Cardinality(sooner(r)) => sooner(q) = sooner(r)
      BY <1>4, <2>2, FS_Subset
    <2> QED BY <1>4, <2>3, <2>4
  <1>6. ASSUME NEW q \in ps, NEW r \in ps, Cardinality(sooner(q)) = Cardinality(sooner(r))
        PROVE  q = r
    <2> SUFFICES ASSUME q # r PROVE FALSE
      OBVIOUS
    <2>1. q \in sooner(r) \/ r \in sooner(q)
      BY <1>2
    <2> HIDE DEF sooner
    <2> QED BY <1>4, <1>5, <1>6, <2>1
  <1>7. Cardinality(sooner(p)) < Cardinality(ps) /\ Cardinality(ps) \in Nat
    <2>1. sooner(p) \subseteq ps /\ p \notin sooner(p)
      BY <1>2
    <2> HIDE DEF sooner
    <2>2. sooner(p) # ps
      BY <2>1
    <2>3. /\ Cardinality(sooner(p)) <= Cardinality(ps)
          /\ Cardinality(sooner(p)) = Cardinality(ps) => sooner(p) = ps
      BY <1>3, <2>1, FS_Subset
    <2> QED BY <1>3, <1>4, <2>2, <2>3, FS_CardinalityType
  <1> DEFINE slot == Cardinality(sooner(p)) + 1
  <1>8. slot \in 1..Cardinality(ps) /\ Cardinality(sooner(p)) = slot - 1
    BY <1>4, <1>7
  <1>9. order[slot] = p
    <2> DEFINE q == CHOOSE q \in ps : Cardinality(sooner(q)) = slot - 1
    <2>1. order[slot] = q
      BY <1>8
    <2>2. q \in ps /\ Cardinality(sooner(q)) = slot - 1
      BY <1>8
    <2> HIDE DEF q, sooner
    <2> QED BY <1>6, <1>8, <2>1, <2>2
  <1>10. DOMAIN order = 1..Cardinality(ps)
    OBVIOUS
  <1> HIDE DEF order, slot
  <1> QED BY <1>1, <1>8, <1>9, <1>10 DEF Range

-----------------------------------------------------------------------------
(***************************************************************************)
(* The segments of a sequence: of q tiles each, the first r one longer.    *)
(***************************************************************************)
SegLen(i, j) ==
    ChunkCounts[i] \div SegCounts[i] + (IF j <= ChunkCounts[i] % SegCounts[i] THEN 1 ELSE 0)
SegFrom(i, j) ==
    (j - 1) * (ChunkCounts[i] \div SegCounts[i]) + Smaller(j - 1, ChunkCounts[i] % SegCounts[i])

LEMMA DivMod ==
    ASSUME NEW a \in Nat, NEW b \in Nat \ {0}
    PROVE  /\ a \div b \in Nat /\ a % b \in Nat /\ a % b < b
           /\ a = b * (a \div b) + (a % b)
  OBVIOUS

LEMMA SegCountsAre ==
    ASSUME Sm90Going
    PROVE  SegCounts = [i \in 1..N |-> SegCounts[i]] /\ Parted(SegCounts)
  <1>1. /\ N \in Nat \ {0} /\ \A i \in 1..N : ChunkCounts[i] \in Nat
        /\ ChunkCounts = [i \in 1..N |-> ChunkCounts[i]]
    BY TileCounts, ChunkCountsAre DEF ChunkCounts
  <1>2. call.split \in ManualSplits \cup {0}
    BY Sm90Batch DEF Sm90Going
  <1>3. LoadBound \in Nat
    <2>1. Tiles \in Nat
      BY <1>1, TotalNat DEF Tiles
    <2>2. ParallelSegs \in Nat \ {0}
      <3>1. Sms \div Heads \in Nat
        BY DivFacts
      <3> QED BY <3>1 DEF ParallelSegs, Larger
    <2> QED BY <2>1, <2>2, CeilDivFacts DEF LoadBound
  <1>4. ASSUME NEW t \in Nat PROVE BalancedSegs(t) \in Nat \ {0}
    <2> DEFINE b == Larger(AutoMinTiles, LoadBound)
               x == CeilDiv(t, b)
               y == t \div AutoMinTiles
    <2>1. b \in Nat \ {0} /\ AutoMinTiles \in Nat \ {0}
      BY <1>3, Sm90Assumption DEF Sm90Assumption, Larger
    <2> HIDE DEF b
    <2>2. x \in Nat
      BY <2>1, CeilDivFacts
    <2>3. y \in Nat
      BY <2>1, DivFacts
    <2>4. BalancedSegs(t) = Larger(1, Smaller(x, y))
      BY DEF BalancedSegs, b
    <2> HIDE DEF x, y
    <2> QED BY <2>2, <2>3, <2>4 DEF Larger, Smaller
  <1>5. ASSUME NEW t \in Nat, call.split # 0 PROVE ManualSegs(t) \in Nat \ {0}
    <2>1. call.split \in Nat /\ ManualMinTiles \in Nat \ {0}
      BY <1>2, <1>5, Sm90Assumption DEF Sm90Assumption
    <2> DEFINE y == t \div ManualMinTiles
    <2>2. y \in Nat
      BY <2>1, DivFacts
    <2>3. ManualSegs(t) = Larger(1, Smaller(call.split, y))
      BY DEF ManualSegs
    <2> HIDE DEF y
    <2> QED BY <2>1, <2>2, <2>3 DEF Larger, Smaller
  <1>6. ASSUME NEW i \in 1..N PROVE SegCounts[i] \in Nat \ {0}
    <2>1. SegCounts[i] = IF call.split = 0 THEN BalancedSegs(ChunkCounts[i])
                                           ELSE ManualSegs(ChunkCounts[i])
      BY DEF SegCounts
    <2> QED BY <1>1, <1>4, <1>5, <2>1
  <1> QED BY <1>1, <1>6 DEF SegCounts, Parted

\* One segment after another, from the first tile of the sequence to its last.
LEMMA SegFromIs ==
    ASSUME Sm90Going, NEW i \in 1..N
    PROVE  /\ SegCounts[i] \in Nat \ {0} /\ SeqChunks[i] \in Nat
           /\ SegFrom(i, 1) = 0 /\ SegFrom(i, SegCounts[i] + 1) = SeqChunks[i]
           /\ \A j \in 1..SegCounts[i] :
                 /\ SegFrom(i, j) \in Nat /\ SegLen(i, j) \in Nat /\ SegFrom(i, j + 1) \in Nat
                 /\ SegFrom(i, j + 1) = SegFrom(i, j) + SegLen(i, j)
                 /\ SegFrom(i, j + 1) <= SeqChunks[i]
  <1> DEFINE k == SegCounts[i]
             t == ChunkCounts[i]
             q == t \div k
             r == t % k
  <1>1. k \in Nat \ {0} /\ t \in Nat /\ t = SeqChunks[i]
    BY SegCountsAre, TileCounts DEF Parted
  <1>2. /\ \A j : SegLen(i, j) = q + (IF j <= r THEN 1 ELSE 0)
        /\ \A j : SegFrom(i, j) = (j - 1) * q + Smaller(j - 1, r)
    BY DEF SegLen, SegFrom
  <1> HIDE DEF k, t
  <1>3. q \in Nat /\ r \in Nat /\ r < k /\ t = k * q + r
    BY <1>1, DivMod
  <1> HIDE DEF q, r
  <1>4. SegFrom(i, 1) = 0
    <2>1. (1 - 1) * q = 0 /\ Smaller(1 - 1, r) = 0
      BY <1>3 DEF Smaller
    <2> QED BY <1>2, <2>1
  <1>5. SegFrom(i, k + 1) = t
    <2>1. (k + 1) - 1 = k /\ Smaller(k, r) = r
      BY <1>1, <1>3 DEF Smaller
    <2> QED BY <1>2, <1>3, <2>1
  <1>6. ASSUME NEW j \in 1..k
        PROVE  /\ SegFrom(i, j) \in Nat /\ SegLen(i, j) \in Nat /\ SegFrom(i, j + 1) \in Nat
               /\ SegFrom(i, j + 1) = SegFrom(i, j) + SegLen(i, j)
               /\ SegFrom(i, j + 1) <= t
    <2>1. /\ j \in Nat /\ j - 1 \in Nat /\ (j + 1) - 1 = j /\ j <= k
          /\ k \in Nat
      BY <1>1
    <2>2. (j - 1) * q \in Nat /\ j * q = (j - 1) * q + q /\ j * q <= k * q /\ k * q \in Nat
      <3>1. (j - 1) * q \in Nat /\ j * q = (j - 1) * q + q /\ k * q \in Nat
        BY <1>3, <2>1
      <3>2. j * q <= k * q
        BY <1>3, <2>1, TimesMono
      <3> QED BY <3>1, <3>2
    <2>3. SegFrom(i, j) = (j - 1) * q + Smaller(j - 1, r) /\ SegFrom(i, j + 1) = j * q + Smaller(j, r)
      BY <1>2, <2>1
    <2>4. /\ Smaller(j - 1, r) \in Nat /\ Smaller(j, r) \in Nat /\ Smaller(j, r) <= r
          /\ Smaller(j, r) = Smaller(j - 1, r) + (IF j <= r THEN 1 ELSE 0)
      BY <1>3, <2>1 DEF Smaller
    <2>5. SegLen(i, j) = q + (IF j <= r THEN 1 ELSE 0)
      BY <1>2
    <2> QED BY <1>3, <2>2, <2>3, <2>4, <2>5
  <1> QED BY <1>1, <1>4, <1>5, <1>6 DEF k

\* The token a segment starts at.
Token(i, j) == Smaller(cu[i] + SegFrom(i, j) * BT, cu[i + 1])

LEMMA TokenIs ==
    ASSUME Sm90Going, NEW i \in 1..N, NEW m \in Nat, m <= SeqChunks[i]
    PROVE  LET t == Smaller(cu[i] + m * BT, cu[i + 1])
           IN  Boundary(i, t) /\ t \in Nat /\ Chunks(t - cu[i]) = m
  <1> DEFINE d == cu[i + 1] - cu[i]
             t == Smaller(cu[i] + m * BT, cu[i + 1])
  <1>1. /\ cu[i] \in Nat /\ cu[i + 1] \in Nat /\ d \in Nat /\ SeqChunks[i] = Chunks(d)
        /\ SeqChunks[i] \in Nat
    BY TileCounts
  <1>2. m * BT \in Nat
    OBVIOUS
  <1>3. CASE cu[i] + m * BT < cu[i + 1]
    <2>1. t = cu[i] + m * BT
      BY <1>3 DEF Smaller
    <2>2. t - cu[i] = m * BT
      BY <1>1, <1>2, <2>1
    <2>3. Chunks(m * BT) = m
      BY CeilDivExact DEF Chunks
    <2>4. t \in cu[i]..cu[i + 1] /\ AtChunk(i, t) /\ t \in Nat
      BY <1>1, <1>2, <1>3, <2>1 DEF AtChunk
    <2> QED BY <2>2, <2>3, <2>4 DEF Boundary
  <1>4. CASE ~(cu[i] + m * BT < cu[i + 1])
    <2>1. t = cu[i + 1]
      BY <1>4 DEF Smaller
    <2>2. d <= m * BT
      BY <1>1, <1>2, <1>4
    <2> HIDE DEF d
    <2>3. Chunks(d) <= m
      BY <1>1, <2>2, CeilDivLeast DEF Chunks
    <2>4. Chunks(d) = m
      BY <1>1, <2>3
    <2>5. t \in cu[i]..cu[i + 1] /\ t \in Nat
      BY <1>1, <2>1 DEF d
    <2> QED BY <2>1, <2>4, <2>5 DEF Boundary, d
  <1> QED BY <1>3, <1>4

LEMMA TokensAre ==
    ASSUME Sm90Going, NEW i \in 1..N
    PROVE  /\ Token(i, 1) = cu[i] /\ Token(i, SegCounts[i] + 1) = cu[i + 1]
           /\ \A j \in 1..SegCounts[i] :
                 /\ Boundary(i, Token(i, j)) /\ Boundary(i, Token(i, j + 1))
                 /\ Token(i, j) <= Token(i, j + 1)
                 /\ Chunks(Token(i, j + 1) - Token(i, j)) = SegLen(i, j)
  <1>1. /\ SegCounts[i] \in Nat \ {0} /\ SeqChunks[i] \in Nat
        /\ cu[i] \in Nat /\ cu[i + 1] \in Nat /\ cu[i] < cu[i + 1]
        /\ SeqChunks[i] = Chunks(cu[i + 1] - cu[i]) /\ Batch
    BY SegFromIs, TileCounts
  <1>2. Token(i, 1) = cu[i]
    <2>1. SegFrom(i, 1) = 0 /\ 0 * BT = 0
      BY SegFromIs
    <2> QED BY <1>1, <2>1 DEF Token, Smaller
  <1>3. Token(i, SegCounts[i] + 1) = cu[i + 1]
    <2> DEFINE d == cu[i + 1] - cu[i]
               m == SeqChunks[i]
    <2>1. d \in Nat /\ m = CeilDiv(d, BT)
      BY <1>1 DEF Chunks
    <2> HIDE DEF d, m
    <2>2. d <= m * BT /\ m \in Nat
      BY <2>1, CeilDivFacts
    <2>3. m * BT \in Nat
      BY <2>2
    <2>4. ~(cu[i] + m * BT < cu[i + 1])
      BY <1>1, <2>2, <2>3 DEF d
    <2>5. SegFrom(i, SegCounts[i] + 1) = m
      BY SegFromIs DEF m
    <2> QED BY <2>4, <2>5 DEF Token, Smaller
  <1>4. ASSUME NEW j \in 1..SegCounts[i]
        PROVE  /\ Boundary(i, Token(i, j)) /\ Boundary(i, Token(i, j + 1))
               /\ Token(i, j) <= Token(i, j + 1)
               /\ Chunks(Token(i, j + 1) - Token(i, j)) = SegLen(i, j)
    <2> DEFINE a == SegFrom(i, j)
               b == SegFrom(i, j + 1)
               s == Token(i, j)
               e == Token(i, j + 1)
               l == SegLen(i, j)
    <2>1. a \in Nat /\ b \in Nat /\ l \in Nat /\ b = a + l /\ b <= SeqChunks[i]
      BY SegFromIs
    <2>2. s = Smaller(cu[i] + a * BT, cu[i + 1]) /\ e = Smaller(cu[i] + b * BT, cu[i + 1])
      BY DEF Token
    <2> HIDE DEF a, b, s, e, l
    <2>3. Boundary(i, s) /\ s \in Nat /\ Chunks(s - cu[i]) = a
      <3>1. a <= SeqChunks[i]
        BY <1>1, <2>1
      <3> QED BY <2>1, <2>2, <3>1, TokenIs
    <2>4. Boundary(i, e) /\ e \in Nat /\ Chunks(e - cu[i]) = b
      BY <1>1, <2>1, <2>2, TokenIs
    <2>5. s <= e
      <3>1. a * BT <= b * BT /\ a * BT \in Nat /\ b * BT \in Nat
        BY <2>1, TimesLess
      <3> QED BY <1>1, <2>2, <3>1 DEF Smaller
    <2>6. Chunks(e - s) \in Nat /\ b = a + Chunks(e - s)
      <3>1. Batch
        BY <1>1
      <3>2. Chunks(e - s) \in Nat /\ Chunks(e - cu[i]) = Chunks(s - cu[i]) + Chunks(e - s)
        BY <2>3, <2>4, <2>5, <3>1, ChunksJoin
      <3> QED BY <2>3, <2>4, <3>2
    <2>7. Chunks(e - s) = l
      BY <2>1, <2>6
    <2> QED BY <2>3, <2>4, <2>5, <2>7 DEF s, e, l
  <1> QED BY <1>2, <1>3, <1>4

-----------------------------------------------------------------------------
(***************************************************************************)
(* The segments of the batch, and the tiles they hold.                     *)
(***************************************************************************)
NumSegs == Off(SegCounts, N + 1)
Tokens ==
    [p \in 1..(NumSegs + 1) |->
        IF p = NumSegs + 1 THEN cu[N + 1]
        ELSE Token(Own(SegCounts, p), p - Off(SegCounts, Own(SegCounts, p)))]

LEMMA PlacedTokens ==
    ASSUME Sm90Going
    PROVE  /\ NumSegs \in Nat \ {0} /\ N \in Nat \ {0}
           /\ \A i \in 1..N : /\ SegCounts[i] \in Nat \ {0} /\ Off(SegCounts, i) \in Nat
                              /\ Off(SegCounts, i + 1) = Off(SegCounts, i) + SegCounts[i]
           /\ \A i \in 1..N : \A j \in 1..SegCounts[i] :
                 /\ Off(SegCounts, i) + j \in 1..NumSegs
                 /\ Tokens[Off(SegCounts, i) + j] = Token(i, j)
           /\ Tokens[NumSegs + 1] = cu[N + 1]
  <1>1. /\ Parted(SegCounts) /\ N \in Nat \ {0} /\ NumSegs \in Nat \ {0}
        /\ \A i \in 1..N : SegCounts[i] \in Nat \ {0}
    BY SegCountsAre, PlaceOf DEF Parted, NumSegs
  <1>2. \A i \in 1..N : /\ Off(SegCounts, i) \in Nat
                        /\ Off(SegCounts, i + 1) = Off(SegCounts, i) + SegCounts[i]
    <2>1. \A i \in 1..N : i \in 1..(N + 1)
      BY <1>1
    <2> QED BY <1>1, <2>1, OffsRun
  <1>3. ASSUME NEW i \in 1..N, NEW j \in 1..SegCounts[i]
        PROVE  /\ Off(SegCounts, i) + j \in 1..NumSegs
               /\ Tokens[Off(SegCounts, i) + j] = Token(i, j)
    <2> DEFINE r == Off(SegCounts, i) + j
    <2>1. r \in 1..NumSegs
      BY <1>1, PlaceOf DEF NumSegs
    <2>2. Own(SegCounts, r) = i
      <3>1. \A o \in 1..N : (\E m \in 1..SegCounts[o] : r = Off(SegCounts, o) + m) => o = i
        BY <1>1, PlaceOf
      <3>2. \E m \in 1..SegCounts[i] : r = Off(SegCounts, i) + m
        OBVIOUS
      <3> HIDE DEF r
      <3> QED BY <3>1, <3>2 DEF Own
    <2>3. r - Off(SegCounts, i) = j
      BY <1>1, <1>2
    <2> HIDE DEF r
    <2>4. r \in 1..(NumSegs + 1) /\ r # NumSegs + 1
      BY <1>1, <2>1
    <2>5. Tokens[r] = Token(i, j)
      BY <2>2, <2>3, <2>4 DEF Tokens
    <2> QED BY <2>1, <2>5 DEF r
  <1>4. Tokens[NumSegs + 1] = cu[N + 1]
    <2>1. NumSegs + 1 \in 1..(NumSegs + 1)
      BY <1>1
    <2> QED BY <2>1 DEF Tokens
  <1> QED BY <1>1, <1>2, <1>3, <1>4

\* Every segment ends where the next begins.
LEMMA NextToken ==
    ASSUME Sm90Going, NEW i \in 1..N, NEW j \in 1..SegCounts[i]
    PROVE  Tokens[Off(SegCounts, i) + j + 1] = Token(i, j + 1)
  <1> DEFINE o == Off(SegCounts, i)
             k == SegCounts[i]
  <1>1. o \in Nat /\ k \in Nat \ {0} /\ Off(SegCounts, i + 1) = o + k /\ N \in Nat \ {0}
    BY PlacedTokens
  <1>2. CASE j # k
    <2>1. j + 1 \in 1..k /\ o + (j + 1) = o + j + 1
      BY <1>1, <1>2
    <2> QED BY <2>1, PlacedTokens
  <1>3. CASE j = k
    <2>1. Token(i, j + 1) = cu[i + 1]
      BY <1>3, TokensAre
    <2>2. CASE i = N
      <3>1. o + j + 1 = NumSegs + 1
        BY <1>1, <1>3, <2>2 DEF NumSegs
      <3> QED BY <2>1, <2>2, <3>1, PlacedTokens
    <2>3. CASE i # N
      <3>1. i + 1 \in 1..N
        BY <1>1, <2>3
      <3>2. 1 \in 1..SegCounts[i + 1]
        BY <3>1, PlacedTokens
      <3>3. o + j + 1 = Off(SegCounts, i + 1) + 1
        BY <1>1, <1>3
      <3>4. Tokens[Off(SegCounts, i + 1) + 1] = Token(i + 1, 1)
        BY <3>1, <3>2, PlacedTokens
      <3>5. Token(i + 1, 1) = cu[i + 1]
        BY <3>1, TokensAre
      <3> QED BY <2>1, <3>3, <3>4, <3>5
    <2> QED BY <2>2, <2>3
  <1> QED BY <1>2, <1>3

LEMMA SegLayout ==
    ASSUME Sm90Going
    PROVE  Layout(Tokens, SegCounts)
  <1>1. Batch /\ Parted(SegCounts) /\ N \in Nat \ {0}
    BY TileCounts, SegCountsAre
  <1>2. ASSUME NEW i \in 1..N, NEW j \in 1..SegCounts[i]
        PROVE  InOrder(Tokens, SegCounts, i, j)
    <2> DEFINE p == Off(SegCounts, i) + j
               s == Token(i, j)
               e == Token(i, j + 1)
    <2>1. Tokens[p] = s /\ Tokens[p + 1] = e
      BY PlacedTokens, NextToken
    <2>2. Boundary(i, s) /\ Boundary(i, e) /\ s <= e
      BY TokensAre
    <2> HIDE DEF s, e, p
    <2>3. Boundary(i, Tokens[p]) /\ Boundary(i, Tokens[p + 1]) /\ Tokens[p] <= Tokens[p + 1]
      BY <2>1, <2>2
    <2> QED BY <2>3 DEF p, InOrder
  <1>3. ASSUME NEW i \in 1..N
        PROVE  Tokens[Off(SegCounts, i) + 1] = cu[i] /\ Tokens[Off(SegCounts, i + 1) + 1] = cu[i + 1]
    <2> DEFINE k == SegCounts[i]
    <2>1. /\ k \in Nat \ {0} /\ 1 \in 1..k /\ k \in 1..k
          /\ Off(SegCounts, i + 1) = Off(SegCounts, i) + k
      BY PlacedTokens
    <2>2. Tokens[Off(SegCounts, i) + 1] = Token(i, 1)
      BY <2>1, PlacedTokens
    <2>3. Tokens[Off(SegCounts, i) + k + 1] = Token(i, k + 1)
      BY <2>1, NextToken
    <2> QED BY <2>1, <2>2, <2>3, TokensAre
  <1> QED BY <1>1, <1>2, <1>3 DEF Layout

\* _materialize makes the segments in their order.
LEMMA SegTilesAre ==
    ASSUME Sm90Going
    PROVE  SegTiles = PieceChunks(Tokens, SegCounts)
  <1> DEFINE seqs == [i \in 1..N |-> [j \in 1..SegCounts[i] |-> SegLen(i, j)]]
             C == PieceChunks(Tokens, SegCounts)
             K == SegCounts
  <1>1. SegTiles = FlattenSeq(seqs)
    BY DEF SegTiles, SegLen
  <1>2. N \in Nat \ {0} /\ Parted(K) /\ \A i \in 1..N : K[i] \in Nat \ {0}
    BY SegCountsAre, PlacedTokens
  <1>3. /\ Running(Offs(K), K, N)
        /\ \A i \in 1..(N + 1) : Offs(K)[i] = Off(K, i)
    BY <1>2, OffsRun
  <1>4. Parts(seqs, K, N)
    BY DEF Parts
  <1>5. \A i \in 1..N : \A j \in 1..K[i] : seqs[i][j] = SegLen(i, j)
    OBVIOUS
  <1> HIDE DEF seqs
  <1>6. EndToEnd(SegTiles, seqs, Offs(K), K, N)
    BY <1>1, <1>2, <1>3, <1>4, FlattenAt
  <1>7. Offs(K)[N + 1] = NumSegs /\ \A i \in 1..N : Offs(K)[i] = Off(K, i)
    <2>1. N + 1 \in 1..(N + 1) /\ \A i \in 1..N : i \in 1..(N + 1)
      BY <1>2
    <2> QED BY <1>3, <2>1 DEF NumSegs
  <1>8. SegTiles = [p \in 1..NumSegs |-> SegTiles[p]]
    BY <1>6, <1>7 DEF EndToEnd
  <1>9. C = [p \in 1..NumSegs |-> C[p]]
    BY DEF PieceChunks, NumSegs
  <1>10. ASSUME NEW p \in 1..NumSegs PROVE SegTiles[p] = C[p]
    <2>1. PICK i \in 1..N : \E j \in 1..K[i] : p = Off(K, i) + j
      BY <1>2, PlaceOf DEF NumSegs
    <2>2. PICK j \in 1..K[i] : p = Off(K, i) + j
      BY <2>1
    <2>3. SegTiles[p] = SegLen(i, j)
      BY <1>5, <1>6, <1>7, <2>2 DEF EndToEnd
    <2>4. C[p] = Chunks(Tokens[p + 1] - Tokens[p])
      BY DEF PieceChunks, NumSegs
    <2>5. Tokens[p] = Token(i, j) /\ Tokens[p + 1] = Token(i, j + 1)
      BY <2>2, PlacedTokens, NextToken
    <2>6. Chunks(Token(i, j + 1) - Token(i, j)) = SegLen(i, j)
      BY TokensAre
    <2> QED BY <2>3, <2>4, <2>5, <2>6
  <1> HIDE DEF C
  <1> QED BY <1>8, <1>9, <1>10 DEF C

LEMMA OffsetsRun ==
    ASSUME NEW n \in Nat, NEW runs, runs = [p \in 1..n |-> runs[p]], \A p \in 1..n : runs[p] \in Nat
    PROVE  /\ Offsets(runs) = [p \in 1..(n + 1) |-> Offsets(runs)[p]]
           /\ Running(Offsets(runs), runs, n)
           /\ NumSeqs(Offsets(runs)) = n
           /\ \A p \in 1..(n + 1) : Offsets(runs)[p] = Off(runs, p)
  <1>1. Len(runs) = n
    BY runs = [p \in 1..n |-> runs[p]]
  <1> DEFINE O == Offsets(runs)
  <1>2. O = [p \in 1..(n + 1) |-> Total(SubSeq(runs, 1, p - 1))]
    BY <1>1 DEF Offsets
  <1>3. ASSUME NEW p \in 1..(n + 1) PROVE O[p] = Total([k \in 1..(p - 1) |-> runs[k]])
    <2>1. SubSeq(runs, 1, p - 1) = [k \in 1..(p - 1) |-> runs[k]]
      <3> DEFINE g == [k \in 1..n |-> runs[k]]
      <3>1. SubSeq(g, 1, p - 1) = [k \in 1..(p - 1) |-> g[k]]
        OBVIOUS
      <3> QED BY <3>1
    <2> QED BY <1>2, <2>1
  <1>4. O = [p \in 1..(n + 1) |-> O[p]] /\ NumSeqs(O) = n
    BY <1>2 DEF NumSeqs
  <1> HIDE DEF O
  <1>5. /\ O[1] = 0
        /\ \A i \in 1..n : O[i + 1] = O[i] + runs[i]
        /\ \A i \in 1..(n + 1) : O[i] \in Nat
    BY <1>3, PrefixSums
  <1>6. \A i \in 1..n : i \in 1..(n + 1) /\ i + 1 \in 1..(n + 1)
    OBVIOUS
  <1>7. Running(O, runs, n)
    BY <1>5, <1>6 DEF Running
  <1>8. \A p \in 1..(n + 1) : O[p] = Off(runs, p)
    BY <1>3 DEF Off
  <1> QED BY <1>4, <1>7, <1>8 DEF O

LEMMA RunningSame ==
    ASSUME NEW n \in Nat, NEW a, NEW b, NEW len, Running(a, len, n), Running(b, len, n)
    PROVE  \A p \in 1..(n + 1) : a[p] = b[p]
  <1> DEFINE G == {p \in 1..(n + 1) : a[p] = b[p]}
  <1>1. 1 \in G
    BY DEF Running
  <1>2. ASSUME NEW p \in 1 .. (n + 1) - 1, p \in G PROVE p + 1 \in G
    <2>1. p \in 1..n /\ p + 1 \in 1..(n + 1)
      OBVIOUS
    <2> QED BY <1>2, <2>1 DEF Running
  <1>3. 1 .. n + 1 \subseteq G
    <2>1. 1 \in Int /\ n + 1 \in Int
      OBVIOUS
    <2> HIDE DEF G
    <2> QED BY <1>1, <1>2, <2>1, UpFrom
  <1> QED BY <1>3

\* The table the segments are cut by.
LEMMA SegCutsAre ==
    ASSUME Sm90Going
    PROVE  /\ NumSeqs(Offsets(SegTiles)) = NumSegs
           /\ \A p \in 1..(NumSegs + 1) : Offsets(SegTiles)[p] \in Nat
           /\ \A i \in 1..N : \A j \in 1..SegCounts[i] :
                 Runs(Offsets(SegTiles), Off(SegCounts, i) + j, i, Token(i, j), Token(i, j + 1))
           /\ \A i \in 1..N : Offsets(SegCounts)[i] = Off(SegCounts, i)
  <1> DEFINE C == PieceChunks(Tokens, SegCounts)
             O == Offsets(SegTiles)
             P == PieceOffs(Tokens, SegCounts)
  <1>1. SegTiles = C /\ Layout(Tokens, SegCounts) /\ NumSegs \in Nat /\ N \in Nat
    BY SegTilesAre, SegLayout, PlacedTokens
  <1>2. Running(P, C, NumSegs)
    BY <1>1, PieceOffsRun DEF NumSegs
  <1>3. C = [p \in 1..NumSegs |-> C[p]]
    BY DEF PieceChunks, NumSegs
  <1> HIDE DEF C, P
  <1>4. \A p \in 1..NumSegs : C[p] \in Nat
    BY <1>2 DEF Running
  <1>5. Running(O, C, NumSegs) /\ NumSeqs(O) = NumSegs
    BY <1>1, <1>3, <1>4, OffsetsRun
  <1> HIDE DEF O
  <1>6. \A p \in 1..(NumSegs + 1) : O[p] = P[p]
    BY <1>1, <1>2, <1>5, RunningSame
  <1>7. \A p \in 1..(NumSegs + 1) : O[p] \in Nat
    BY <1>1, <1>5, RunningGrows
  <1>8. ASSUME NEW i \in 1..N, NEW j \in 1..SegCounts[i]
        PROVE  Runs(O, Off(SegCounts, i) + j, i, Token(i, j), Token(i, j + 1))
    <2> DEFINE p == Off(SegCounts, i) + j
    <2>1. /\ p \in 1..NumSegs /\ P[p] = SeqOff(i) + Chunks(Tokens[p] - cu[i])
          /\ P[p + 1] = SeqOff(i) + Chunks(Tokens[p + 1] - cu[i])
      BY <1>1, PieceOffsAre DEF P, NumSegs
    <2>2. Tokens[p] = Token(i, j) /\ Tokens[p + 1] = Token(i, j + 1)
      BY PlacedTokens, NextToken
    <2>3. p \in 1..(NumSegs + 1) /\ p + 1 \in 1..(NumSegs + 1)
      BY <1>1, <2>1
    <2> HIDE DEF p
    <2>4. O[p] = SeqOff(i) + Chunks(Token(i, j) - cu[i])
          /\ O[p + 1] = SeqOff(i) + Chunks(Token(i, j + 1) - cu[i])
      BY <1>6, <2>1, <2>2, <2>3
    <2> QED BY <2>4 DEF Runs, p
  <1>9. ASSUME NEW i \in 1..N PROVE Offsets(SegCounts)[i] = Off(SegCounts, i)
    <2>1. SegCounts = [k \in 1..N |-> SegCounts[k]] /\ \A k \in 1..N : SegCounts[k] \in Nat
      BY SegCountsAre, PlacedTokens
    <2>2. i \in 1..(N + 1)
      BY <1>1
    <2> QED BY <1>1, <2>1, <2>2, OffsetsRun
  <1> QED BY <1>5, <1>7, <1>8, <1>9 DEF O

-----------------------------------------------------------------------------
(***************************************************************************)
(* The steps of a split SM90 call.                                         *)
(***************************************************************************)
SegTabs == [firsts |-> [i \in 1..N |-> Offsets(SegCounts)[i] + 1], counts |-> SegCounts]
Segmented == Sm90Going /\ cut = Offsets(SegTiles) /\ tabs = SegTabs

LEMMA SegmentedFacts ==
    ASSUME Segmented
    PROVE  /\ Sm90Going /\ Batch /\ N \in Nat \ {0} /\ NumSegs \in Nat \ {0} /\ NumSeqs(cut) = NumSegs
           /\ \A p \in 1..(NumSegs + 1) : cut[p] \in Nat
           /\ \A i \in 1..N : /\ tabs.firsts[i] = Off(SegCounts, i) + 1
                              /\ tabs.counts[i] = SegCounts[i]
                              /\ Off(SegCounts, i) \in Nat /\ SegCounts[i] \in Nat \ {0}
           /\ \A i \in 1..N : \A j \in 1..SegCounts[i] :
                 /\ Off(SegCounts, i) + j \in 1..NumSegs
                 /\ Runs(cut, Off(SegCounts, i) + j, i, Token(i, j), Token(i, j + 1))
  <1>1. Sm90Going /\ cut = Offsets(SegTiles) /\ tabs = SegTabs
    BY DEF Segmented
  <1>2. Batch /\ N \in Nat \ {0}
    BY <1>1, TileCounts
  <1>3. \A i \in 1..N : tabs.firsts[i] = Offsets(SegCounts)[i] + 1 /\ tabs.counts[i] = SegCounts[i]
    BY <1>1 DEF SegTabs
  <1>4. /\ NumSeqs(cut) = NumSegs
        /\ \A p \in 1..(NumSegs + 1) : cut[p] \in Nat
        /\ \A i \in 1..N : \A j \in 1..SegCounts[i] :
              Runs(cut, Off(SegCounts, i) + j, i, Token(i, j), Token(i, j + 1))
        /\ \A i \in 1..N : Offsets(SegCounts)[i] = Off(SegCounts, i)
    BY <1>1, SegCutsAre
  <1> QED BY <1>1, <1>2, <1>3, <1>4, PlacedTokens

\* What the pre-scan leaves for every segment but a sequence's last.
SegsScanned(w) ==
    \A i \in 1..N : \A j \in 1..(SegCounts[i] - 1) :
        w[Off(SegCounts, i) + j] = ChunkRanges(Token(i, j), Token(i, j + 1))
\* What the merge block of sequence i leaves in m, its output.
SegsMerged(m, i) ==
    \A j \in 1..SegCounts[i] : m[Off(SegCounts, i) + j] = After(i, Token(i, j))

LEMMA LastsAre ==
    ASSUME Segmented, NEW i \in 1..N, NEW j \in 1..(SegCounts[i] - 1)
    PROVE  Off(SegCounts, i) + j \in (1..NumSegs) \ LastSegs
  <1>1. /\ j \in 1..SegCounts[i] /\ Off(SegCounts, i) + j \in 1..NumSegs /\ Parted(SegCounts)
    BY SegmentedFacts, SegCountsAre
  <1>2. SUFFICES ASSUME NEW k \in 1..N, Off(SegCounts, i) + j = tabs.firsts[k] + tabs.counts[k] - 1
                 PROVE  FALSE
    BY <1>1 DEF LastSegs
  <1>3. /\ tabs.firsts[k] = Off(SegCounts, k) + 1 /\ tabs.counts[k] = SegCounts[k]
        /\ Off(SegCounts, k) \in Nat /\ SegCounts[k] \in Nat \ {0} /\ SegCounts[i] \in Nat \ {0}
    BY SegmentedFacts
  <1>4. Off(SegCounts, i) + j = Off(SegCounts, k) + SegCounts[k] /\ SegCounts[k] \in 1..SegCounts[k]
    BY <1>2, <1>3
  <1>5. i = k /\ j = SegCounts[k]
    BY <1>1, <1>4, PlaceOf
  <1> QED BY <1>3, <1>5

LEMMA ScanSegsStep ==
    ASSUME Segmented, ScanSegments
    PROVE  /\ SegsScanned(hm')
           /\ merged' = [p \in 1..NumSegs |-> Bad]
           /\ toMerge' = 1..N
  <1> DEFINE order == LongestFirst(cut, (1..NumSeqs(cut)) \ LastSegs)
             W == [p \in 1..NumSeqs(cut) |-> IF p \in Range(order) THEN RunRanges(cut, p) ELSE <<Bad>>]
  <1>1. hm' = W /\ merged' = [p \in 1..NumSeqs(cut) |-> Bad] /\ toMerge' = 1..N
    BY DEF ScanSegments
  <1>2. /\ Sm90Going /\ NumSegs \in Nat \ {0} /\ NumSeqs(cut) = NumSegs
        /\ \A p \in 1..(NumSegs + 1) : cut[p] \in Nat
    BY SegmentedFacts
  <1>3. ASSUME NEW i \in 1..N, NEW j \in 1..(SegCounts[i] - 1)
        PROVE  W[Off(SegCounts, i) + j] = ChunkRanges(Token(i, j), Token(i, j + 1))
    <2> DEFINE p == Off(SegCounts, i) + j
               ps == (1..NumSegs) \ LastSegs
               s == Token(i, j)
               e == Token(i, j + 1)
    <2>1. p \in ps /\ p \in 1..NumSegs
      BY LastsAre
    <2>2. j \in 1..SegCounts[i]
      BY SegmentedFacts
    <2>3. Runs(cut, p, i, s, e) /\ Boundary(i, s) /\ Boundary(i, e) /\ s <= e
      BY <1>2, <2>2, SegmentedFacts, TokensAre
    <2> HIDE DEF p, s, e
    <2>4. RunRanges(cut, p) = ChunkRanges(s, e)
      BY <1>2, <2>3, RunIs
    <2>5. ps \in SUBSET (1..NumSegs)
      OBVIOUS
    <2> HIDE DEF ps
    <2>6. p \in Range(LongestFirst(cut, ps))
      <3>1. PICK f : f = cut
        OBVIOUS
      <3>2. p \in Range(LongestFirst(f, ps))
        BY <1>2, <2>1, <2>5, <3>1, LongestFirstHas
      <3> QED BY <3>1, <3>2
    <2>7. W[p] = RunRanges(cut, p)
      BY <1>2, <2>1, <2>6 DEF ps
    <2> HIDE DEF W
    <2> QED BY <2>4, <2>7 DEF p, s, e
  <1> HIDE DEF W
  <1> QED BY <1>1, <1>2, <1>3 DEF SegsScanned

\* The carry of a merge block, from segment to segment.
SegCarries(i) ==
    LET carries[j \in 1..tabs.counts[i]] ==
            IF j = 1 THEN InitialStates[i]
            ELSE Last(Along(hm[tabs.firsts[i] + j - 2], carries[j - 1]))
    IN  carries

LEMMA SegCarryIs ==
    ASSUME Segmented, SegsScanned(hm), NEW i \in 1..N, NEW x \in 1..SegCounts[i]
    PROVE  SegCarries(i)[x] = After(i, Token(i, x))
  <1> DEFINE n == SegCounts[i]
             row(y) == hm[tabs.firsts[i] + y - 2]
             Step1(f, y) == IF y = 1 THEN InitialStates[i] ELSE Last(Along(row(y), f[y - 1]))
             R(f) == f = [y \in 1..tabs.counts[i] |-> Step1(f, y)]
             A == [y \in 1..n |-> After(i, Token(i, y))]
             f0 == CHOOSE f : R(f)
  <1>1. SegCarries(i) = f0
    BY DEF SegCarries
  <1>2. /\ Sm90Going /\ Batch /\ n \in Nat \ {0} /\ tabs.counts[i] = n
        /\ tabs.firsts[i] = Off(SegCounts, i) + 1 /\ Off(SegCounts, i) \in Nat
    BY SegmentedFacts
  <1>3. InitialStates[i] = After(i, Token(i, 1))
    <2>1. Token(i, 1) = cu[i]
      BY <1>2, TokensAre
    <2> QED BY <2>1 DEF InitialStates
  <1>4. ASSUME NEW y \in 1..n, y # 1
        PROVE  y - 1 \in 1..n /\ Last(Along(row(y), After(i, Token(i, y - 1)))) = After(i, Token(i, y))
    <2>1. y - 1 \in 1..n /\ y - 1 \in 1..(SegCounts[i] - 1) /\ (y - 1) + 1 = y
      BY <1>2, <1>4
    <2>2. (Off(SegCounts, i) + 1) + y - 2 = Off(SegCounts, i) + (y - 1)
      BY <1>2
    <2> DEFINE s == Token(i, y - 1)
               e == Token(i, y)
    <2>3. row(y) = ChunkRanges(s, e)
      <3>1. hm[Off(SegCounts, i) + (y - 1)] = ChunkRanges(Token(i, y - 1), Token(i, (y - 1) + 1))
        BY <2>1 DEF SegsScanned
      <3> QED BY <1>2, <2>1, <2>2, <3>1
    <2>4. Boundary(i, s) /\ Boundary(i, e) /\ s <= e
      <3>1. /\ Boundary(i, Token(i, y - 1)) /\ Boundary(i, Token(i, (y - 1) + 1))
            /\ Token(i, y - 1) <= Token(i, (y - 1) + 1)
        BY <1>2, <2>1, TokensAre
      <3> QED BY <2>1, <3>1
    <2> HIDE DEF s, e, row
    <2>5. Last(Trace(s, e, After(i, s))) = After(i, e)
      BY <1>2, <2>4, PartIs
    <2>6. Last(Along(row(y), After(i, s))) = After(i, e)
      BY <2>3, <2>5 DEF Trace
    <2> QED BY <2>1, <2>6 DEF s, e
  <1> HIDE DEF row, n
  <1>5. ASSUME NEW y \in 1..n PROVE A[y] = Step1(A, y)
    <2>1. CASE y = 1
      BY <1>3, <2>1
    <2>2. CASE y # 1
      BY <1>4, <2>2
    <2> QED BY <2>1, <2>2
  <1>6. A = [y \in 1..n |-> A[y]]
    OBVIOUS
  <1> HIDE DEF A, Step1
  <1>7. R(A)
    BY <1>2, <1>5, <1>6
  <1>8. R(f0)
    <2> HIDE DEF R
    <2> QED BY <1>7
  <1> HIDE DEF f0
  <1>9. \A y \in 1..n : f0[y] = Step1(f0, y)
    BY <1>2, <1>8
  <1> DEFINE G == {y \in 1..n : f0[y] = A[y]}
  <1>10. 1 \in G
    <2>1. 1 \in 1..n
      BY <1>2
    <2>2. Step1(f0, 1) = InitialStates[i] /\ Step1(A, 1) = InitialStates[i]
      BY DEF Step1
    <2> QED BY <1>5, <1>9, <2>1, <2>2
  <1>11. ASSUME NEW y \in 1 .. n - 1, y \in G PROVE y + 1 \in G
    <2>1. y + 1 \in 1..n /\ y + 1 # 1 /\ (y + 1) - 1 = y
      BY <1>2
    <2>2. f0[y] = A[y]
      BY <1>11
    <2>3. Step1(f0, y + 1) = Step1(A, y + 1)
      BY <2>1, <2>2 DEF Step1
    <2> QED BY <1>5, <1>9, <2>1, <2>3
  <1>12. 1 .. n \subseteq G
    <2>1. 1 \in Int /\ n \in Int
      BY <1>2
    <2> HIDE DEF G
    <2> QED BY <1>10, <1>11, <2>1, UpFrom
  <1>13. x \in 1..n
    BY DEF n
  <1>14. f0[x] = A[x]
    BY <1>12, <1>13
  <1> QED BY <1>1, <1>13, <1>14 DEF A

LEMMA Within ==
    ASSUME NEW a \in Int, NEW o \in Nat, NEW c \in Nat, a - (o + 1) \in 0..(c - 1)
    PROVE  a - o \in 1..c /\ a = o + (a - o)
  OBVIOUS

\* One merge block more: the states of its segments, and no others.
LEMMA MergeSegsStep ==
    ASSUME Segmented, SegsScanned(hm), NEW m, merged = m, m = [p \in 1..NumSegs |-> m[p]],
           toMerge \subseteq 1..N, \A k \in 1..N : k \notin toMerge => SegsMerged(m, k),
           NEW i \in toMerge, MergeSegments(i), NEW w, merged' = w
    PROVE  /\ w = [p \in 1..NumSegs |-> w[p]]
           /\ toMerge' = toMerge \ {i}
           /\ \A k \in 1..N : k \notin toMerge' => SegsMerged(w, k)
  <1>1. i \in 1..N /\ Parted(SegCounts)
    BY SegmentedFacts, SegCountsAre
  <1>2. /\ tabs.firsts[i] = Off(SegCounts, i) + 1 /\ tabs.counts[i] = SegCounts[i]
        /\ Off(SegCounts, i) \in Nat /\ SegCounts[i] \in Nat \ {0}
        /\ \A k \in 1..N : \A j \in 1..SegCounts[k] : Off(SegCounts, k) + j \in 1..NumSegs
        /\ \A k \in 1..N : Off(SegCounts, k) \in Nat /\ SegCounts[k] \in Nat \ {0}
        /\ NumSegs \in Nat
    BY <1>1, SegmentedFacts
  <1> DEFINE o == Off(SegCounts, i)
             W == [p \in 1..NumSegs |->
                     IF p - (o + 1) \in 0..(SegCounts[i] - 1)
                     THEN SegCarries(i)[p - (o + 1) + 1] ELSE m[p]]
  <1>3. merged' = W /\ toMerge' = toMerge \ {i}
    <2>1. merged' = [p \in DOMAIN merged |->
                       IF p - tabs.firsts[i] \in 0..(tabs.counts[i] - 1)
                       THEN SegCarries(i)[p - tabs.firsts[i] + 1] ELSE merged[p]]
      BY DEF MergeSegments, SegCarries
    <2>2. DOMAIN merged = 1..NumSegs
      OBVIOUS
    <2>3. toMerge' = toMerge \ {i}
      BY DEF MergeSegments
    <2> QED BY <1>2, <2>1, <2>2, <2>3
  <1>4. ASSUME NEW j \in 1..SegCounts[i] PROVE W[o + j] = After(i, Token(i, j))
    <2>1. /\ o + j \in 1..NumSegs /\ (o + j) - (o + 1) \in 0..(SegCounts[i] - 1)
          /\ (o + j) - (o + 1) + 1 = j
      <3>1. o + j \in 1..NumSegs
        BY <1>1, <1>2
      <3> DEFINE k == SegCounts[i]
      <3>2. o \in Nat /\ k \in Nat /\ j \in 1..k
        BY <1>2
      <3> HIDE DEF o, k
      <3>3. (o + j) - (o + 1) = j - 1
        BY <3>2
      <3>4. j - 1 \in 0..(k - 1) /\ (j - 1) + 1 = j
        BY <3>2
      <3> QED BY <3>1, <3>3, <3>4 DEF k
    <2>2. W[o + j] = SegCarries(i)[j]
      BY <2>1
    <2> HIDE DEF W
    <2> QED BY <1>1, <2>2, SegCarryIs
  <1>5. ASSUME NEW k \in 1..N, k # i, NEW j \in 1..SegCounts[k]
        PROVE  W[Off(SegCounts, k) + j] = m[Off(SegCounts, k) + j]
    <2> DEFINE p == Off(SegCounts, k) + j
    <2>1. p \in 1..NumSegs
      BY <1>2
    <2>2. p - (o + 1) \notin 0..(SegCounts[i] - 1)
      <3> DEFINE c == SegCounts[i]
      <3>1. o \in Nat /\ c \in Nat /\ p \in Int
        <4> HIDE DEF p
        <4> QED BY <1>2, <2>1
      <3> SUFFICES ASSUME p - (o + 1) \in 0..(c - 1) PROVE FALSE
        OBVIOUS
      <3>2. p - o \in 1..c /\ p = o + (p - o)
        <4> HIDE DEF o, c, p
        <4> QED BY <3>1, Within
      <3> DEFINE l == p - o
      <3>3. l \in 1..SegCounts[i] /\ Off(SegCounts, i) + l = Off(SegCounts, k) + j
        BY <3>2
      <3> HIDE DEF l
      <3>4. i = k
        BY <1>1, <3>3, PlaceOf
      <3> QED BY <1>5, <3>4
    <2> HIDE DEF p
    <2> QED BY <2>1, <2>2 DEF p
  <1>6. W = [p \in 1..NumSegs |-> W[p]]
    OBVIOUS
  <1> HIDE DEF W
  <1>7. w = W
    BY <1>3
  <1>8. ASSUME NEW k \in 1..N, k \notin toMerge' PROVE SegsMerged(w, k)
    <2>1. CASE k = i
      BY <1>4, <1>7, <2>1 DEF SegsMerged
    <2>2. CASE k # i
      <3>1. SegsMerged(m, k)
        BY <1>3, <1>8, <2>2
      <3> QED BY <1>5, <1>7, <2>2, <3>1 DEF SegsMerged
    <2> QED BY <2>1, <2>2
  <1> QED BY <1>3, <1>6, <1>7, <1>8

\* K2 on the segments, each from the state before it.
LEMMA RunSegsStep ==
    ASSUME Segmented, RunSegments, \A i \in 1..N : SegsMerged(merged, i)
    PROVE  h' = SerialRows /\ last' = IF call.outputFinal THEN SerialFinal ELSE <<>>
  <1> DEFINE order == LongestFirst(cut, 1..NumSeqs(cut))
             traces == K2Traces(cut, order, merged)
             rows == [p \in 1..NumSegs |-> Front(traces[p])]
  <1>1. /\ Sm90Going /\ N \in Nat \ {0} /\ NumSegs \in Nat \ {0} /\ NumSeqs(cut) = NumSegs
        /\ \A p \in 1..(NumSegs + 1) : cut[p] \in Nat
        /\ Layout(Tokens, SegCounts)
    BY SegmentedFacts, SegLayout
  <1>2. /\ h' = K2Rows(traces)
        /\ last' = IF call.outputFinal
                   THEN [i \in 1..N |-> Last(traces[tabs.firsts[i] + tabs.counts[i] - 1])]
                   ELSE <<>>
    BY DEF RunSegments
  <1>3. ASSUME NEW p \in 1..NumSegs
        PROVE  traces[p] = Along(RunRanges(cut, p), merged[p])
    <2>1. p \in Range(order)
      <3>1. PICK f : f = cut
        OBVIOUS
      <3> DEFINE ps == 1..NumSegs
      <3>2. ps \in SUBSET (1..NumSegs) /\ p \in ps
        OBVIOUS
      <3> HIDE DEF ps
      <3>3. p \in Range(LongestFirst(f, ps))
        BY <1>1, <3>1, <3>2, LongestFirstHas
      <3> QED BY <1>1, <3>1, <3>3 DEF ps
    <2> HIDE DEF order
    <2> QED BY <1>1, <2>1 DEF K2Traces
  <1>4. DOMAIN traces = 1..NumSegs
    BY <1>1 DEF K2Traces
  <1> HIDE DEF traces
  <1>5. K2Rows(traces) = FlattenSeq(rows)
    BY <1>4 DEF K2Rows
  <1>6. ASSUME NEW i \in 1..N, NEW j \in 1..SegCounts[i]
        PROVE  /\ Off(SegCounts, i) + j \in 1..NumSegs
               /\ Passes(traces[Off(SegCounts, i) + j], i, Token(i, j), Token(i, j + 1))
    <2> DEFINE p == Off(SegCounts, i) + j
               s == Token(i, j)
               e == Token(i, j + 1)
    <2>1. p \in 1..NumSegs /\ Runs(cut, p, i, s, e) /\ Boundary(i, s) /\ Boundary(i, e) /\ s <= e
      BY <1>1, SegmentedFacts, TokensAre
    <2>2. merged[p] = After(i, s)
      BY DEF SegsMerged
    <2> HIDE DEF p, s, e
    <2>3. RunPasses(cut, p, i, s, e)
      BY <1>1, <2>1, RunIsPart
    <2>4. Passes(traces[p], i, s, e)
      BY <1>3, <2>1, <2>2, <2>3 DEF RunPasses
    <2> QED BY <2>1, <2>4 DEF p, s, e
  <1>7. rows = [p \in 1..NumSegs |-> rows[p]]
    OBVIOUS
  <1>8. ASSUME NEW i \in 1..N, NEW j \in 1..SegCounts[i]
        PROVE  rows[Off(SegCounts, i) + j]
                 = [x \in 1..Chunks(Tokens[Off(SegCounts, i) + j + 1] - Tokens[Off(SegCounts, i) + j])
                      |-> After(i, Tokens[Off(SegCounts, i) + j] + (x - 1) * BT)]
    <2> DEFINE p == Off(SegCounts, i) + j
               s == Token(i, j)
               e == Token(i, j + 1)
    <2>1. Tokens[p] = s /\ Tokens[p + 1] = e
      BY <1>1, PlacedTokens, NextToken
    <2>2. p \in 1..NumSegs /\ Front(traces[p]) = [x \in 1..Chunks(e - s) |-> After(i, s + (x - 1) * BT)]
      BY <1>6 DEF Passes
    <2>3. rows[p] = Front(traces[p])
      BY <2>2
    <2> HIDE DEF p, s, e, rows
    <2>4. rows[p] = [x \in 1..Chunks(Tokens[p + 1] - Tokens[p]) |-> After(i, Tokens[p] + (x - 1) * BT)]
      BY <2>1, <2>2, <2>3
    <2> QED BY <2>4 DEF p
  <1> HIDE DEF rows
  <1>9. Rowed(rows, Tokens, SegCounts)
    BY <1>7, <1>8 DEF Rowed, NumSegs
  <1>10. FlattenSeq(rows) = SerialRows
    BY <1>1, <1>9, RowsJoin
  <1>11. ASSUME NEW i \in 1..N
         PROVE  Last(traces[tabs.firsts[i] + tabs.counts[i] - 1]) = After(i, cu[i + 1])
    <2> DEFINE k == SegCounts[i]
    <2>1. /\ k \in 1..k /\ tabs.firsts[i] + tabs.counts[i] - 1 = Off(SegCounts, i) + k
          /\ Token(i, k + 1) = cu[i + 1]
      <3>1. /\ tabs.firsts[i] = Off(SegCounts, i) + 1 /\ tabs.counts[i] = k
            /\ Off(SegCounts, i) \in Nat /\ k \in Nat \ {0}
        BY SegmentedFacts
      <3>2. Token(i, k + 1) = cu[i + 1]
        BY <1>1, TokensAre
      <3> QED BY <3>1, <3>2
    <2>2. Last(traces[Off(SegCounts, i) + k]) = After(i, Token(i, k + 1))
      BY <1>6, <2>1 DEF Passes
    <2> HIDE DEF k
    <2> QED BY <2>1, <2>2
  <1>12. [i \in 1..N |-> Last(traces[tabs.firsts[i] + tabs.counts[i] - 1])] = SerialFinal
    BY <1>11 DEF SerialFinal
  <1> QED BY <1>2, <1>5, <1>10, <1>12

\* K2 on the sequences themselves.
LEMMA RunSerialStep ==
    ASSUME Sm90Going, RunSerial
    PROVE  h' = SerialRows /\ last' = IF call.outputFinal THEN SerialFinal ELSE <<>>
  <1> DEFINE runs == IF call.dense \/ NeedsPadding THEN Offsets(ChunkCounts)
                     ELSE [i \in 1..(N + 1) |-> cu[i] \div BT]
             traces == K2Traces(runs, [i \in 1..N |-> i], InitialStates)
             rows == [i \in 1..N |-> Front(traces[i])]
  <1>1. /\ N \in Nat \ {0} /\ Batch /\ ChunkCounts = SeqChunks
        /\ \A i \in 1..(N + 1) : SeqOff(i) \in Nat
        /\ \A i \in 1..N : SeqOff(i + 1) = SeqOff(i) + SeqChunks[i] /\ SeqChunks[i] \in Nat
    BY TileCounts, SeqOffsRun
  <1>2. /\ h' = K2Rows(traces)
        /\ last' = IF call.outputFinal THEN [i \in 1..N |-> Last(traces[i])] ELSE <<>>
    BY DEF RunSerial
  <1>3. NumSeqs(runs) = N /\ \A i \in 1..(N + 1) : runs[i] = SeqOff(i)
    <2>1. CASE call.dense \/ NeedsPadding
      <3>1. SeqChunks = [i \in 1..N |-> SeqChunks[i]]
        BY DEF SeqChunks
      <3>2. PICK f : f = SeqChunks
        OBVIOUS
      <3>3. NumSeqs(Offsets(f)) = N /\ \A p \in 1..(N + 1) : Offsets(f)[p] = Off(f, p)
        BY <1>1, <3>1, <3>2, OffsetsRun
      <3>4. \A p \in 1..(N + 1) : Off(f, p) = SeqOff(p)
        BY <3>2 DEF Off, SeqOff
      <3> QED BY <1>1, <2>1, <3>2, <3>3, <3>4
    <2>2. CASE ~(call.dense \/ NeedsPadding)
      <3>1. ASSUME NEW i \in 1..(N + 1) PROVE cu[i] \div BT = SeqOff(i)
        <4> DEFINE a == cu[i]
                   m == SeqOff(i)
        <4>1. a = m * BT /\ m \in Nat
          BY <2>2, PackedStarts
        <4> HIDE DEF a, m
        <4>2. a \in Nat /\ Aligned(a)
          BY <4>1 DEF Aligned
        <4>3. a \div BT \in Nat /\ a = (a \div BT) * BT
          BY <4>2, AlignedDiv
        <4> DEFINE d == a \div BT
        <4> HIDE DEF d
        <4>4. d = m
          <5>1. d \in Nat /\ d * BT = m * BT
            BY <4>1, <4>3 DEF d
          <5> QED BY <4>1, <5>1, TimesLess
        <4> QED BY <4>4 DEF d, a, m
      <3> DEFINE f == [i \in 1..(N + 1) |-> cu[i] \div BT]
      <3>2. runs = f
        BY <2>2
      <3>3. Len(f) = N + 1
        BY <1>1
      <3>4. \A i \in 1..(N + 1) : f[i] = SeqOff(i)
        BY <3>1
      <3> HIDE DEF f, runs
      <3> QED BY <1>1, <3>2, <3>3, <3>4 DEF NumSeqs
    <2> QED BY <2>1, <2>2
  <1> HIDE DEF runs
  <1>4. traces = [i \in 1..N |-> Along(RunRanges(runs, i), After(i, cu[i]))]
    <2> DEFINE order == [i \in 1..N |-> i]
    <2>1. \A i \in 1..N : i \in Range(order)
      BY DEF Range
    <2>2. \A i \in 1..N : InitialStates[i] = After(i, cu[i])
      BY DEF InitialStates
    <2> HIDE DEF order
    <2>3. K2Traces(runs, order, InitialStates) = [i \in 1..N |-> Along(RunRanges(runs, i), After(i, cu[i]))]
      BY <1>3, <2>1, <2>2 DEF K2Traces
    <2> QED BY <2>3 DEF order
  <1>5. ASSUME NEW i \in 1..N
        PROVE  Passes(traces[i], i, cu[i], cu[i + 1])
    <2> DEFINE s == cu[i]
               e == cu[i + 1]
    <2>1. /\ s \in Nat /\ e \in Nat /\ s < e /\ SeqChunks[i] = Chunks(e - s)
          /\ s - s = 0 /\ 0 * BT = 0 /\ s + 0 = s
      BY TileCounts
    <2>2. Boundary(i, s) /\ Boundary(i, e)
      <3>1. AtChunk(i, s)
        BY <2>1 DEF AtChunk
      <3> QED BY <2>1, <3>1 DEF Boundary
    <2>3. Runs(runs, i, i, s, e)
      <3>1. i \in 1..(N + 1) /\ i + 1 \in 1..(N + 1)
        BY <1>1
      <3>2. runs[i] = SeqOff(i) /\ runs[i + 1] = SeqOff(i) + SeqChunks[i] /\ SeqOff(i) \in Nat
        BY <1>1, <1>3, <3>1
      <3> QED BY <2>1, <3>2, ChunksOfNone DEF Runs
    <2> HIDE DEF s, e
    <2>4. RunPasses(runs, i, i, s, e)
      <3>1. PICK layout : layout = runs
        OBVIOUS
      <3>2. PICK p : p = i
        OBVIOUS
      <3>3. Runs(layout, p, i, s, e)
        BY <2>3, <3>1, <3>2
      <3>4. s <= e
        BY <2>1
      <3>5. RunPasses(layout, p, i, s, e)
        BY <2>2, <3>3, <3>4, RunIsPart
      <3> QED BY <3>1, <3>2, <3>5
    <2>5. traces[i] = Along(RunRanges(runs, i), After(i, s))
      BY <1>4 DEF s
    <2> QED BY <2>4, <2>5 DEF RunPasses, s, e
  <1>6. DOMAIN traces = 1..N
    BY <1>4
  <1> HIDE DEF traces
  <1>7. K2Rows(traces) = FlattenSeq(rows)
    BY <1>6 DEF K2Rows
  <1>8. rows = [i \in 1..N |-> [c \in 1..Chunks(SeqLen(cu, i)) |-> After(i, cu[i] + (c - 1) * BT)]]
    BY <1>5 DEF Passes, SeqLen
  <1>9. [i \in 1..N |-> Last(traces[i])] = SerialFinal
    BY <1>5 DEF Passes, SerialFinal
  <1> HIDE DEF rows
  <1>10. FlattenSeq(rows) = SerialRows
    BY <1>8 DEF SerialRows
  <1> QED BY <1>2, <1>7, <1>9, <1>10

Merges ==
    /\ Segmented
    /\ \E w : hm = w /\ SegsScanned(w)
    /\ toMerge \subseteq 1..N
    /\ \E m : /\ merged = m
              /\ m = [p \in 1..NumSegs |-> m[p]]
              /\ \A k \in 1..N : k \notin toMerge => SegsMerged(m, k)
OnSm90 ==
    /\ call \in Sm100Calls \cup Sm90Calls \cup HopperCalls
    /\ call.path = "sm90" =>
          /\ pc = "prescan" => Segmented
          /\ pc = "merge" => Merges
          /\ pc = "serial" => Sm90Going
          /\ CpIsSerial

LEMMA SameSm90 ==
    ASSUME call' = call
    PROVE  /\ N' = N /\ NumSegs' = NumSegs /\ SegTabs' = SegTabs
           /\ Offsets(SegTiles)' = Offsets(SegTiles)
           /\ (Sm90Going' <=> Sm90Going)
           /\ \A w : SegsScanned(w)' <=> SegsScanned(w)
           /\ \A m, i : SegsMerged(m, i)' <=> SegsMerged(m, i)
  <1>1. N' = N /\ cu' = cu
    BY DEF N, cu
  <1>2. ChunkCounts' = ChunkCounts
    BY <1>1 DEF ChunkCounts
  <1>3. LoadBound' = LoadBound
    BY <1>2 DEF LoadBound, Tiles, ParallelSegs
  <1>4. SegCounts' = SegCounts
    BY <1>1, <1>2, <1>3 DEF SegCounts, BalancedSegs, ManualSegs
  <1>5. SegTiles' = SegTiles
    BY <1>1, <1>2, <1>4 DEF SegTiles
  <1>6. Offsets(SegTiles)' = Offsets(SegTiles)
    BY <1>5 DEF Offsets
  <1>7. SegTabs' = SegTabs
    BY <1>1, <1>4 DEF SegTabs, Offsets
  <1>8. NumSegs' = NumSegs
    BY <1>1, <1>4 DEF NumSegs, Off
  <1>9. Sm90Going' <=> Sm90Going
    BY <1>1 DEF Sm90Going, SeqLen
  <1>10. \A i, j : Token(i, j)' = Token(i, j)
    BY <1>1, <1>2, <1>4 DEF Token, SegFrom
  <1>11. \A w : SegsScanned(w)' <=> SegsScanned(w)
    BY <1>1, <1>4, <1>10 DEF SegsScanned, Off
  <1>12. \A m, i : SegsMerged(m, i)' <=> SegsMerged(m, i)
    BY <1>1, <1>4, <1>10 DEF SegsMerged, Off, After
  <1> QED BY <1>1, <1>6, <1>7, <1>8, <1>9, <1>11, <1>12

LEMMA SegmentedKept ==
    ASSUME Segmented, call' = call, cut' = cut, tabs' = tabs
    PROVE  Segmented'
  BY SameSm90 DEF Segmented

LEMMA OnSm90Step == OnSm90 /\ [Next]_vars => OnSm90'
  <1> SUFFICES ASSUME OnSm90, [Next]_vars PROVE OnSm90'
    OBVIOUS
  <1>1. CASE UNCHANGED vars \/ Done
    <2>1. UNCHANGED <<call, pc, outcome, cut, tabs, hm, merged, toMerge, first, h, last>>
      BY <1>1 DEF vars, Done
    <2>2. call.path = "sm90" => CpIsSerial'
      BY <2>1, SerialKept DEF OnSm90
    <2>3. Segmented => Segmented'
      BY <2>1, SegmentedKept
    <2>4. Merges => Merges'
      <3> SUFFICES ASSUME Merges PROVE Merges'
        OBVIOUS
      <3>1. PICK w : hm = w /\ SegsScanned(w)
        BY DEF Merges
      <3>2. PICK m : /\ merged = m
                     /\ m = [p \in 1..NumSegs |-> m[p]]
                     /\ \A k \in 1..N : k \notin toMerge => SegsMerged(m, k)
        BY DEF Merges
      <3>3. hm' = w /\ SegsScanned(w)'
        BY <2>1, <3>1, SameSm90
      <3>4. /\ merged' = m /\ m = [p \in 1..NumSegs' |-> m[p]] /\ N' = N
            /\ \A k \in 1..N : k \notin toMerge' => SegsMerged(m, k)'
        BY <2>1, <3>2, SameSm90
      <3>5. (toMerge \subseteq 1..N)'
        BY <2>1, <3>4 DEF Merges
      <3> QED BY <2>1, <2>3, <3>3, <3>4, <3>5 DEF Merges
    <2>5. Sm90Going => Sm90Going'
      BY <2>1, SameSm90
    <2> QED BY <2>1, <2>2, <2>3, <2>4, <2>5 DEF OnSm90
  <1>2. CASE Sm100Next \/ HopperNext
    <2>1. call' = call /\ call.path # "sm90"
      BY <1>2, Sm100Steps DEF HopperNext, DecideHopper, ScanTile, RunPieces, RunWhole
    <2> QED BY <2>1 DEF OnSm90
  <1>3. CASE Sm90Next
    <2>1. /\ call' = call /\ call.path = "sm90" /\ call \in Sm90Calls /\ CpIsSerial
          /\ pc = "prescan" => Segmented
          /\ pc = "merge" => Merges
          /\ pc = "serial" => Sm90Going
      <3>1. call' = call /\ call.path = "sm90"
        BY <1>3, Sm90Steps
      <3>2. call \in Sm90Calls
        BY <3>1 DEF OnSm90, Sm100Calls, Sm90Calls, HopperCalls
      <3> QED BY <3>1, <3>2 DEF OnSm90
    <2>2. CASE PlanSegments
      <3>1. /\ h' = h /\ last' = last
            /\ outcome' = outcome \/ outcome' \notin {"cp", "serial"}
        BY <2>2 DEF PlanSegments, Leave, Raise, Declined
      <3>2. CpIsSerial'
        BY <2>1, <3>1, SerialKept
      <3>3. CASE ~call.dense /\ \E i \in 1..N : SeqLen(cu, i) <= 0
        <4>1. pc' = "done"
          BY <2>2, <3>3 DEF PlanSegments, Raise
        <4> QED BY <2>1, <3>2, <4>1 DEF OnSm90
      <3>4. CASE ~(~call.dense /\ \E i \in 1..N : SeqLen(cu, i) <= 0)
        <4>1. Sm90Going
          <5>1. \A i \in 1..N : SeqLen(cu, i) > 0
            <6>1. CASE call.dense
              <7>1. EqualLengths(cu) /\ SeqLen(cu, 1) > 0
                BY <2>1, <6>1, Sm90Batch
              <7> QED BY <7>1 DEF EqualLengths, N
            <6>2. CASE ~call.dense
              <7> SUFFICES ASSUME NEW i \in 1..N PROVE SeqLen(cu, i) > 0
                OBVIOUS
              <7>1. SeqLen(cu, i) \in Int
                BY <2>1, Sm90Batch
              <7>2. ~(SeqLen(cu, i) <= 0)
                BY <3>4, <6>2
              <7> QED BY <7>1, <7>2
            <6> QED BY <6>1, <6>2
          <5> QED BY <2>1, <5>1 DEF Sm90Going
        <4>2. Sm90Going'
          BY <2>1, <4>1, SameSm90
        <4>3. \/ pc' \in {"serial", "done"}
              \/ pc' = "prescan" /\ cut' = Offsets(SegTiles) /\ tabs' = SegTabs
          <5>1. PICK p : pc' = p
            OBVIOUS
          <5> QED BY <2>2, <3>4 DEF PlanSegments, Leave, Raise, SegTabs
        <4>4. CASE pc' \in {"serial", "done"}
          BY <2>1, <3>2, <4>2, <4>4 DEF OnSm90
        <4>5. CASE pc' = "prescan" /\ cut' = Offsets(SegTiles) /\ tabs' = SegTabs
          <5>1. Segmented'
            BY <2>1, <4>2, <4>5, SameSm90 DEF Segmented
          <5> QED BY <2>1, <3>2, <4>5, <5>1 DEF OnSm90
        <4> QED BY <4>3, <4>4, <4>5
      <3> QED BY <3>3, <3>4
    <2>3. CASE ScanSegments
      <3>1. /\ pc = "prescan" /\ pc' = "merge" /\ cut' = cut /\ tabs' = tabs
            /\ outcome' = outcome /\ h' = h /\ last' = last
        BY <2>3 DEF ScanSegments
      <3>2. Segmented /\ Segmented' /\ CpIsSerial'
        BY <2>1, <3>1, SegmentedKept, SerialKept
      <3>3. PICK w : hm' = w
        OBVIOUS
      <3>4. PICK m : merged' = m
        OBVIOUS
      <3>5. SegsScanned(w) /\ m = [p \in 1..NumSegs |-> Bad] /\ toMerge' = 1..N
        <4>1. /\ SegsScanned(hm') /\ merged' = [p \in 1..NumSegs |-> Bad] /\ toMerge' = 1..N
          BY <2>3, <3>2, ScanSegsStep
        <4> QED BY <3>3, <3>4, <4>1 DEF SegsScanned
      <3>6. SegsScanned(w)' /\ N' = N /\ NumSegs' = NumSegs
        BY <2>1, <3>5, SameSm90
      <3>7. m = [p \in 1..NumSegs' |-> m[p]]
        BY <3>5, <3>6
      <3>8. Merges'
        BY <3>2, <3>3, <3>4, <3>5, <3>6, <3>7 DEF Merges
      <3> QED BY <2>1, <3>1, <3>2, <3>8 DEF OnSm90
    <2>4. CASE \E i \in toMerge : MergeSegments(i)
      <3>1. PICK i \in toMerge : MergeSegments(i)
        BY <2>4
      <3>2. /\ pc = "merge" /\ pc' = "merge" /\ cut' = cut /\ tabs' = tabs /\ hm' = hm
            /\ outcome' = outcome /\ h' = h /\ last' = last
        BY <3>1 DEF MergeSegments
      <3>3. Merges
        BY <2>1, <3>2
      <3>4. Segmented /\ Segmented' /\ CpIsSerial' /\ toMerge \subseteq 1..N
        BY <2>1, <3>2, <3>3, SegmentedKept, SerialKept DEF Merges
      <3>5. PICK w : hm = w /\ SegsScanned(w)
        BY <3>3 DEF Merges
      <3>6. PICK m : /\ merged = m
                     /\ m = [p \in 1..NumSegs |-> m[p]]
                     /\ \A k \in 1..N : k \notin toMerge => SegsMerged(m, k)
        BY <3>3 DEF Merges
      <3>7. PICK M : merged' = M
        OBVIOUS
      <3>8. /\ M = [p \in 1..NumSegs |-> M[p]]
            /\ toMerge' = toMerge \ {i}
            /\ \A k \in 1..N : k \notin toMerge' => SegsMerged(M, k)
        <4>1. SegsScanned(hm)
          BY <3>5
        <4> QED BY <3>1, <3>4, <3>6, <3>7, <4>1, MergeSegsStep
      <3>9. /\ SegsScanned(w)' /\ N' = N /\ M = [p \in 1..NumSegs' |-> M[p]]
            /\ \A k \in 1..N : k \notin toMerge' => SegsMerged(M, k)'
        BY <2>1, <3>5, <3>8, SameSm90
      <3>10. (toMerge \subseteq 1..N)'
        BY <3>4, <3>8, <3>9
      <3>11. Merges'
        BY <3>2, <3>4, <3>5, <3>7, <3>9, <3>10 DEF Merges
      <3> QED BY <2>1, <3>2, <3>4, <3>11 DEF OnSm90
    <2>5. CASE RunSegments
      <3>1. pc = "merge" /\ pc' = "done" /\ toMerge = {}
        BY <2>5 DEF RunSegments
      <3>2. Merges
        BY <2>1, <3>1
      <3>3. Segmented /\ \A i \in 1..N : SegsMerged(merged, i)
        BY <3>1, <3>2 DEF Merges
      <3>4. h' = SerialRows /\ last' = IF call.outputFinal THEN SerialFinal ELSE <<>>
        BY <2>5, <3>3, RunSegsStep
      <3>5. CpIsSerial'
        BY <2>1, <3>4, SameSerial DEF CpIsSerial
      <3> QED BY <2>1, <3>1, <3>5 DEF OnSm90
    <2>6. CASE RunSerial
      <3>1. pc = "serial" /\ pc' = "done"
        BY <2>6 DEF RunSerial
      <3>2. h' = SerialRows /\ last' = IF call.outputFinal THEN SerialFinal ELSE <<>>
        BY <2>1, <2>6, <3>1, RunSerialStep
      <3>3. CpIsSerial'
        BY <2>1, <3>2, SameSerial DEF CpIsSerial
      <3> QED BY <2>1, <3>1, <3>3 DEF OnSm90
    <2> QED BY <1>3, <2>2, <2>3, <2>4, <2>5, <2>6 DEF Sm90Next
  <1> QED BY <1>1, <1>2, <1>3 DEF Next

\* However the planner balances the segments, in whatever order the merge
\* blocks run and whatever stale rows the pre-scan leaves, an SM90 call
\* returns the states of the serial recurrence (CpIsSerial).
THEOREM Sm90CpIsSerial == Spec => [](call.path = "sm90" => CpIsSerial)
  <1>1. Init => OnSm90
    BY DEF Init, Begin, OnSm90, CpIsSerial
  <1>2. OnSm90 => (call.path = "sm90" => CpIsSerial)
    BY DEF OnSm90
  <1> QED BY <1>1, <1>2, OnSm90Step, PTL DEF Spec

\* Every prefill call that returns, split or not, on whichever of the three
\* backends, returns the states of the serial recurrence (CpIsSerial).
THEOREM CpIsSerialAlways == Spec => []CpIsSerial
  <1> DEFINE All == OnItsWay /\ OnHopper /\ OnSm90
  <1>1. Init => All
    BY DEF Init, Begin, OnItsWay, OnHopper, OnSm90, CpIsSerial
  <1>2. All /\ [Next]_vars => All'
    BY OnItsWayStep, OnHopperStep, OnSm90Step
  <1>3. All => CpIsSerial
    <2>1. OnSm90 => call.path \in {"sm100", "sm90", "hopper"}
      BY DEF OnSm90, Sm100Calls, Sm90Calls, HopperCalls
    <2> QED BY <2>1 DEF OnItsWay, OnHopper, OnSm90
  <1> QED BY <1>1, <1>2, <1>3, PTL DEF Spec
=============================================================================
