-------------------------- MODULE PlanCacheProof --------------------------
(***************************************************************************)
(* Proofs about PlanCache, for any threads, addresses, tensors and shapes  *)
(* and any size of the cache.  That a call runs with its own plan rests on *)
(* two facts: an entry's plan was made for the tensor its weak reference   *)
(* names (Made), and the tensor of a running call stays alive, so that     *)
(* nothing else can come to live at its address (Held).  That the entry    *)
(* just stored stays rests on the order of eviction, which lists the keys  *)
(* of the cache, each once (Ordered).                                      *)
(***************************************************************************)
EXTENDS PlanCache, TLAPS

Typed ==
    /\ live \in [Addrs -> Tensors \cup {NoTensor}]
    /\ cache \in [Keys -> [ref : Tensors \cup {NoTensor}, plan : Plans]]
    /\ pc \in [Threads -> {"idle", "lookup", "build", "insert", "use"}]
    /\ arg \in [Threads -> [addr : Addrs, shape : Shapes]]
    /\ plan \in [Threads -> Plans]

Made == \A k \in Keys :
            cache[k].ref # NoTensor => cache[k].plan = <<cache[k].ref, k[2]>>
Held == \A t \in Threads : pc[t] # "idle" => live[arg[t].addr] # NoTensor
Planned == \A t \in Threads :
               pc[t] \in {"insert", "use"} => plan[t] = PlanFor(t) /\ arg[t].shape.fits

IInv == Typed /\ Made /\ Held /\ Planned

\* order lists the keys of the cache, each once, and no more than MaxSize.
Listed(s) == {s[i] : i \in DOMAIN s}
Once(s) == \A i, j \in DOMAIN s : s[i] = s[j] => i = j
Ordered ==
    /\ order \in Seq(Keys) /\ Once(order) /\ Len(order) <= MaxSize
    /\ Listed(order) = {k \in Keys : cache[k] # NoEntry}

USE ShapesAssumption, NoTensorAssumption

\* The key of a call is a key of the cache, and its plan is a plan.
LEMMA KeyOfCall ==
    ASSUME Typed, NEW t \in Threads
    PROVE  /\ arg[t].addr \in Addrs /\ arg[t].shape \in Shapes
           /\ Key(t) \in Keys /\ Key(t)[2] = arg[t].shape.ssl
           /\ PlanFor(t) \in Plans
  BY DEF Typed, Key, Keys, PlanFor, Plans

\* Initially nothing is stored and nothing runs.
LEMMA InitIInv == Init => IInv
  <1> SUFFICES ASSUME Init PROVE IInv OBVIOUS
  <1>1. Typed
    BY DEF Init, Typed, NoEntry, NoPlan, Plans
  <1>2. Made
    BY DEF Init, Made, NoEntry
  <1> QED BY <1>1, <1>2 DEF Init, IInv, Held, Planned

\* A step that hands a thread its own plan, if it fits, or lets it leave.
LEMMA Proceeds ==
    ASSUME Typed, Held, Planned, NEW t \in Threads, NEW next \in {"insert", "use"},
           pc[t] # "idle", Proceed(t, PlanFor(t), next), UNCHANGED <<live, arg>>
    PROVE  /\ pc' \in [Threads -> {"idle", "lookup", "build", "insert", "use"}]
           /\ plan' \in [Threads -> Plans]
           /\ Held' /\ Planned'
  <1>0. PlanFor(t) \in Plans BY KeyOfCall
  <1>1. CASE arg[t].shape.fits
    <2>1. pc' = [pc EXCEPT ![t] = next] /\ plan' = [plan EXCEPT ![t] = PlanFor(t)]
      BY <1>1 DEF Proceed
    <2> QED BY <1>0, <1>1, <2>1 DEF Typed, Held, Planned, PlanFor
  <1>2. CASE ~arg[t].shape.fits
    <2>1. pc' = [pc EXCEPT ![t] = "idle"] /\ plan' = plan
      BY <1>2 DEF Proceed
    <2> QED BY <2>1 DEF Typed, Held, Planned, PlanFor
  <1> QED BY <1>1, <1>2

\* Every step keeps the invariant.
LEMMA NextIInv == IInv /\ [Next]_vars => IInv'
  <1> SUFFICES ASSUME IInv, [Next]_vars PROVE IInv' OBVIOUS
  <1>1. ASSUME NEW a \in Addrs, NEW n \in Tensors, Alloc(a, n) PROVE IInv'
    <2>1. live[a] = NoTensor /\ live' = [live EXCEPT ![a] = n]
          /\ UNCHANGED <<cache, order, pc, arg, plan>>
      BY <1>1 DEF Alloc
    <2>2. Typed' BY <2>1 DEF IInv, Typed
    <2>3. Made' BY <2>1 DEF IInv, Made
    <2>4. ASSUME NEW t \in Threads, pc[t] # "idle" PROVE arg[t].addr # a
      BY <2>1, <2>4 DEF IInv, Held
    <2>5. Held' /\ Planned'
      BY <2>1, <2>4 DEF IInv, Typed, Held, Planned, PlanFor
    <2> QED BY <2>2, <2>3, <2>5 DEF IInv
  <1>2. ASSUME NEW a \in Addrs, Free(a) PROVE IInv'
    <2>1. live' = [live EXCEPT ![a] = NoTensor]
          /\ UNCHANGED <<cache, order, pc, arg, plan>>
      BY <1>2 DEF Free
    <2>2. Typed' BY <2>1 DEF IInv, Typed
    <2>3. Made' BY <2>1 DEF IInv, Made
    <2>4. ASSUME NEW t \in Threads, pc[t] # "idle" PROVE arg[t].addr # a
      BY <1>2, <2>4 DEF Free
    <2>5. Held' /\ Planned'
      BY <2>1, <2>4 DEF IInv, Typed, Held, Planned, PlanFor
    <2> QED BY <2>2, <2>3, <2>5 DEF IInv
  <1>3. ASSUME NEW t \in Threads, NEW a \in Addrs, NEW s \in Shapes, Call(t, a, s)
        PROVE  IInv'
    <2>1. pc[t] = "idle" /\ live[a] # NoTensor
          /\ arg' = [arg EXCEPT ![t] = [addr |-> a, shape |-> s]]
          /\ pc' = [pc EXCEPT ![t] = "lookup"]
          /\ UNCHANGED <<live, cache, order, plan>>
      BY <1>3 DEF Call
    <2>2. Typed' BY <2>1 DEF IInv, Typed
    <2>3. Made' BY <2>1 DEF IInv, Made
    <2>4. Held' /\ Planned'
      BY <2>1 DEF IInv, Typed, Held, Planned, PlanFor
    <2> QED BY <2>2, <2>3, <2>4 DEF IInv
  <1>4. ASSUME NEW t \in Threads, Lookup(t) PROVE IInv'
    <2>0. pc[t] = "lookup" /\ UNCHANGED <<live, arg>> BY <1>4 DEF Lookup
    <2>k. Key(t) \in Keys /\ Key(t)[2] = arg[t].shape.ssl /\ arg[t].addr \in Addrs
      BY KeyOfCall DEF IInv
    <2>1. CASE Hit(t)
      <3>1. Proceed(t, cache[Key(t)].plan, "use") /\ cache' = cache
        BY <1>4, <2>1 DEF Lookup
      <3>2. cache[Key(t)].ref = live[arg[t].addr] /\ live[arg[t].addr] # NoTensor
        BY <2>0, <2>1 DEF Hit, IInv, Held
      <3>3. cache[Key(t)].plan = PlanFor(t)
        BY <2>k, <3>2 DEF IInv, Made, PlanFor
      <3>4. pc' \in [Threads -> {"idle", "lookup", "build", "insert", "use"}]
            /\ plan' \in [Threads -> Plans] /\ Held' /\ Planned'
        BY <2>0, <3>1, <3>3, Proceeds DEF IInv
      <3> QED BY <2>0, <3>1, <3>4 DEF IInv, Typed, Made
    <2>2. CASE ~Hit(t)
      <3>1. cache' = [cache EXCEPT ![Key(t)] = NoEntry]
            /\ pc' = [pc EXCEPT ![t] = "build"] /\ plan' = plan
        BY <1>4, <2>2 DEF Lookup
      <3>2. Typed' BY <2>0, <2>k, <3>1 DEF IInv, Typed, NoEntry, NoPlan, Plans
      <3>3. Made' BY <3>1 DEF IInv, Typed, Made, NoEntry
      <3>4. Held' /\ Planned' BY <2>0, <3>1 DEF IInv, Typed, Held, Planned, PlanFor
      <3> QED BY <3>2, <3>3, <3>4 DEF IInv
    <2> QED BY <2>1, <2>2
  <1>5. ASSUME NEW t \in Threads, Build(t) PROVE IInv'
    <2>1. pc[t] = "build" /\ Proceed(t, PlanFor(t), "insert")
          /\ UNCHANGED <<live, cache, order, arg>>
      BY <1>5 DEF Build
    <2>2. pc' \in [Threads -> {"idle", "lookup", "build", "insert", "use"}]
          /\ plan' \in [Threads -> Plans] /\ Held' /\ Planned'
      BY <2>1, Proceeds DEF IInv
    <2> QED BY <2>1, <2>2 DEF IInv, Typed, Made
  <1>6. ASSUME NEW t \in Threads, Insert(t) PROVE IInv'
    <2> DEFINE filled == [cache EXCEPT ![Key(t)] =
                             [ref |-> live[arg[t].addr], plan |-> plan[t]]]
    <2>1. pc[t] = "insert" /\ pc' = [pc EXCEPT ![t] = "use"]
          /\ UNCHANGED <<live, arg, plan>>
      BY <1>6 DEF Insert
    <2>2. \/ cache' = filled
          \/ \E v : cache' = [filled EXCEPT ![v] = NoEntry]
      BY <1>6 DEF Insert
    <2>3. plan[t] = <<live[arg[t].addr], Key(t)[2]>> /\ Key(t) \in Keys
          /\ live[arg[t].addr] \in Tensors \cup {NoTensor} /\ plan[t] \in Plans
      BY <2>1, KeyOfCall DEF IInv, Typed, Planned, PlanFor
    <2>4. filled \in [Keys -> [ref : Tensors \cup {NoTensor}, plan : Plans]]
      BY <2>3 DEF IInv, Typed
    <2>5. \A k \in Keys : filled[k].ref # NoTensor =>
              filled[k].plan = <<filled[k].ref, k[2]>>
      BY <2>3 DEF IInv, Typed, Made
    <2> HIDE DEF filled
    <2>6. /\ cache' \in [Keys -> [ref : Tensors \cup {NoTensor}, plan : Plans]]
          /\ Made'
      BY <2>2, <2>4, <2>5 DEF Made, NoEntry, NoPlan, Plans
    <2>7. Typed' BY <2>1, <2>6 DEF IInv, Typed
    <2>8. Held' /\ Planned' BY <2>1 DEF IInv, Typed, Held, Planned, PlanFor
    <2> QED BY <2>6, <2>7, <2>8 DEF IInv
  <1>7. ASSUME NEW t \in Threads, Use(t) PROVE IInv'
    <2>1. pc' = [pc EXCEPT ![t] = "idle"] /\ plan' = [plan EXCEPT ![t] = NoPlan]
          /\ UNCHANGED <<live, cache, order, arg>>
      BY <1>7 DEF Use
    <2>2. Typed' BY <2>1 DEF IInv, Typed, NoPlan, Plans
    <2> QED BY <2>1, <2>2 DEF IInv, Typed, Made, Held, Planned, PlanFor
  <1>8. CASE UNCHANGED vars
    BY <1>8 DEF vars, IInv, Typed, Made, Held, Planned, PlanFor
  <1> QED BY <1>1, <1>2, <1>3, <1>4, <1>5, <1>6, <1>7, <1>8 DEF Next

\* The invariant holds in every reachable state.
THEOREM Invariance == Spec => []IInv
  BY InitIInv, NextIInv, PTL DEF Spec

\* A call runs with the plan of its own tensor and length, whatever other
\* calls do and whoever lived at its address before (intracard_fwd_h).
THEOREM UsesOwnPlanAlways == Spec => []UsesOwnPlan
  <1>1. IInv => UsesOwnPlan BY DEF IInv, Planned, UsesOwnPlan
  <1> QED BY <1>1, Invariance, PTL

\* The pieces of the plan a call runs with fit with the heads of this call.
THEOREM UsesFittingPlanAlways == Spec => []UsesFittingPlan
  <1>1. IInv => UsesFittingPlan BY DEF IInv, Planned, UsesFittingPlan
  <1> QED BY <1>1, Invariance, PTL

-----------------------------------------------------------------------------
\* A key taken out of a list that has it once.
LEMMA WithoutListed ==
    ASSUME NEW K, NEW s \in Seq(K), Once(s), NEW k
    PROVE  /\ Without(s, k) \in Seq(K) /\ Once(Without(s, k))
           /\ Listed(Without(s, k)) = Listed(s) \ {k}
           /\ Len(Without(s, k)) <= Len(s)
           /\ k \in Listed(s) => Len(Without(s, k)) = Len(s) - 1
  <1>1. CASE k \notin Listed(s)
    <2>1. Without(s, k) = s
      BY <1>1 DEF Without, Listed
    <2> QED BY <1>1, <2>1 DEF Listed
  <1>2. CASE k \in Listed(s)
    <2> DEFINE i == CHOOSE i \in DOMAIN s : s[i] = k
               r == [j \in 1 .. Len(s) - 1 |-> IF j < i THEN s[j] ELSE s[j + 1]]
    <2>1. i \in DOMAIN s /\ s[i] = k
      BY <1>2 DEF Listed
    <2>2. Without(s, k) = r
      BY <1>2 DEF Without, Listed
    <2> HIDE DEF i
    <2>3. Len(s) \in Nat /\ DOMAIN s = 1 .. Len(s) /\ i \in 1 .. Len(s)
      BY <2>1
    <2>4. r \in Seq(K) /\ Len(r) = Len(s) - 1 /\ DOMAIN r = 1 .. Len(s) - 1
      BY <2>3
    <2>5. /\ \A j \in DOMAIN r : r[j] = s[j] \/ r[j] = s[j + 1]
          /\ \A j \in DOMAIN r : r[j] = IF j < i THEN s[j] ELSE s[j + 1]
      OBVIOUS
    <2>6. \A j \in DOMAIN r : r[j] \in Listed(s) /\ r[j] # k
      <3>1. SUFFICES ASSUME NEW j \in DOMAIN r PROVE r[j] \in Listed(s) /\ r[j] # k
        OBVIOUS
      <3>2. PICK m \in DOMAIN s : r[j] = s[m] /\ m # i
        <4>1. CASE j < i
          <5>1. j \in DOMAIN s /\ j # i /\ r[j] = s[j]
            BY <2>3, <2>4, <2>5, <4>1
          <5> QED BY <5>1
        <4>2. CASE ~(j < i)
          <5>1. j + 1 \in DOMAIN s /\ j + 1 # i
            BY <2>3, <2>4, <4>2
          <5> QED BY <2>5, <4>2, <5>1
        <4> QED BY <4>1, <4>2
      <3> QED BY <2>1, <3>2 DEF Listed, Once
    <2>7. \A m \in DOMAIN s : s[m] # k => s[m] \in Listed(r)
      <3>1. SUFFICES ASSUME NEW m \in DOMAIN s, s[m] # k PROVE \E j \in DOMAIN r : r[j] = s[m]
        BY DEF Listed
      <3>2. CASE m < i
        <4>1. m \in DOMAIN r
          BY <2>3, <2>4, <3>2
        <4> QED BY <2>5, <3>2, <4>1
      <3>3. CASE m > i
        <4>1. m - 1 \in DOMAIN r /\ ~(m - 1 < i) /\ (m - 1) + 1 = m
          BY <2>3, <2>4, <3>3
        <4> QED BY <2>5, <4>1
      <3>4. m # i
        BY <2>1, <3>1
      <3> QED BY <2>3, <3>2, <3>3, <3>4
    <2>8. Listed(r) = Listed(s) \ {k}
      <3> HIDE DEF r
      <3> QED BY <2>6, <2>7 DEF Listed
    <2>9. Once(r)
      <3>1. SUFFICES ASSUME NEW a \in DOMAIN r, NEW b \in DOMAIN r, r[a] = r[b] PROVE a = b
        BY DEF Once
      <3>2. /\ a \in DOMAIN s /\ a + 1 \in DOMAIN s
            /\ b \in DOMAIN s /\ b + 1 \in DOMAIN s
        BY <2>3, <2>4
      <3> DEFINE ka == IF a < i THEN a ELSE a + 1
                 kb == IF b < i THEN b ELSE b + 1
      <3>3. ka \in DOMAIN s /\ kb \in DOMAIN s /\ s[ka] = s[kb]
        BY <2>5, <3>1, <3>2
      <3>4. ka = kb
        BY <3>3 DEF Once
      <3>5. a \in Nat /\ b \in Nat /\ i \in Nat
        BY <2>3, <2>4
      <3> HIDE DEF r
      <3> QED BY <3>4, <3>5
    <2> HIDE DEF r
    <2> QED BY <1>2, <2>2, <2>3, <2>4, <2>8, <2>9
  <1> QED BY <1>1, <1>2

\* A new key at the end of the list.
LEMMA AppendListed ==
    ASSUME NEW K, NEW s \in Seq(K), Once(s), NEW k \in K, k \notin Listed(s)
    PROVE  /\ Append(s, k) \in Seq(K) /\ Once(Append(s, k))
           /\ Listed(Append(s, k)) = Listed(s) \cup {k}
           /\ Len(Append(s, k)) = Len(s) + 1
           /\ s # <<>> => Head(Append(s, k)) = s[1] /\ s[1] \in Listed(s)
  <1> DEFINE r == Append(s, k)
  <1>1. /\ r \in Seq(K) /\ Len(r) = Len(s) + 1 /\ Len(s) \in Nat
        /\ DOMAIN s = 1 .. Len(s) /\ DOMAIN r = 1 .. Len(s) + 1
        /\ r[Len(s) + 1] = k /\ \A i \in 1 .. Len(s) : r[i] = s[i]
    OBVIOUS
  <1>2. s # <<>> => Head(r) = s[1] /\ s[1] \in Listed(s)
    BY <1>1 DEF Listed
  <1> HIDE DEF r
  <1>3. Listed(r) = Listed(s) \cup {k}
    <2>1. \A i \in DOMAIN r : i \in DOMAIN s \/ i = Len(s) + 1
      BY <1>1
    <2>2. Len(s) + 1 \in DOMAIN r /\ \A i \in DOMAIN s : i \in DOMAIN r
      BY <1>1
    <2> QED BY <1>1, <2>1, <2>2 DEF Listed
  <1>4. Once(r)
    <2>1. SUFFICES ASSUME NEW i \in DOMAIN r, NEW j \in DOMAIN r, r[i] = r[j] PROVE i = j
      BY DEF Once
    <2>2. CASE i \in DOMAIN s /\ j \in DOMAIN s
      BY <1>1, <2>1, <2>2 DEF Once
    <2>3. i \in DOMAIN s => r[i] # k
      BY <1>1 DEF Listed
    <2>4. j \in DOMAIN s => r[j] # k
      BY <1>1 DEF Listed
    <2> QED BY <1>1, <2>1, <2>2, <2>3, <2>4
  <1> QED BY <1>1, <1>2, <1>3, <1>4 DEF r

\* What Insert makes of the list: if it is full the key was not there, and the
\* first entry, which goes, is another.
LEMMA Inserts ==
    ASSUME IInv, Ordered, NEW t \in Threads, Insert(t)
    PROVE  /\ Ordered'
           /\ cache'[Key(t)] = [ref |-> live[arg[t].addr], plan |-> plan[t]]
  <1> DEFINE k == Key(t)
             e == [ref |-> live[arg[t].addr], plan |-> plan[t]]
             new == IF cache[k] = NoEntry THEN Append(order, k) ELSE order
             filled == [cache EXCEPT ![k] = e]
  <1>1. k \in Keys /\ e # NoEntry
    <2>1. live[arg[t].addr] # NoTensor
      BY DEF Insert, IInv, Held
    <2> QED BY <2>1, KeyOfCall DEF IInv, NoEntry
  <1>2. /\ cache' = IF Len(new) > MaxSize THEN [filled EXCEPT ![Head(new)] = NoEntry]
                                          ELSE filled
        /\ order' = IF Len(new) > MaxSize THEN Without(new, Head(new)) ELSE new
    BY DEF Insert, Victim
  <1>3. order \in Seq(Keys) /\ Once(order) /\ Len(order) <= MaxSize /\ Len(order) \in Nat
        /\ Listed(order) = {x \in Keys : cache[x] # NoEntry}
    BY DEF Ordered
  <1>4. filled[k] = e /\ \A x \in Keys : x # k => filled[x] = cache[x]
    BY <1>1 DEF IInv, Typed
  <1> HIDE DEF e, k
  <1>5. /\ new \in Seq(Keys) /\ Once(new)
        /\ Listed(new) = {x \in Keys : filled[x] # NoEntry}
        /\ Len(new) > MaxSize =>
              /\ Len(new) = MaxSize + 1 /\ Head(new) \in Listed(new) /\ Head(new) # k
    <2>1. CASE cache[k] # NoEntry
      <3>1. new = order /\ ~(Len(new) > MaxSize)
        BY <1>3, <2>1, SizeAssumption
      <3>2. Listed(order) = {x \in Keys : filled[x] # NoEntry}
        BY <1>1, <1>3, <1>4, <2>1
      <3> QED BY <1>3, <3>1, <3>2
    <2>2. CASE cache[k] = NoEntry
      <3>1. new = Append(order, k) /\ k \notin Listed(order)
        BY <1>3, <2>2
      <3>2. /\ new \in Seq(Keys) /\ Once(new) /\ Listed(new) = Listed(order) \cup {k}
            /\ Len(new) = Len(order) + 1
            /\ order # <<>> => Head(new) \in Listed(order)
        BY <1>1, <1>3, <3>1, AppendListed
      <3>3. Len(new) > MaxSize => order # <<>> /\ Len(new) = MaxSize + 1
        BY <1>3, <3>2, SizeAssumption
      <3>4. Listed(new) = {x \in Keys : filled[x] # NoEntry}
        BY <1>1, <1>3, <1>4, <3>2
      <3> HIDE DEF new, filled
      <3> QED BY <3>1, <3>2, <3>3, <3>4
    <2> QED BY <2>1, <2>2
  <1>6. filled = [x \in Keys |-> filled[x]]
    BY DEF IInv, Typed
  <1> HIDE DEF new, filled
  <1>7. CASE Len(new) > MaxSize
    <2>1. /\ order' \in Seq(Keys) /\ Once(order') /\ Len(order') = MaxSize
          /\ Listed(order') = Listed(new) \ {Head(new)}
      <3>1. order' = Without(new, Head(new))
        BY <1>2, <1>7
      <3>2. /\ order' \in Seq(Keys) /\ Once(order')
            /\ Listed(order') = Listed(new) \ {Head(new)}
            /\ Len(order') = Len(new) - 1
        BY <1>5, <1>7, <3>1, WithoutListed
      <3> QED BY <1>5, <1>7, <3>2, SizeAssumption
    <2>2. /\ \A x \in Keys : cache'[x] = IF x = Head(new) THEN NoEntry ELSE filled[x]
      BY <1>2, <1>6, <1>7
    <2>3. Listed(order') = {x \in Keys : cache'[x] # NoEntry}
      BY <1>5, <2>1, <2>2
    <2>4. cache'[k] = e
      BY <1>1, <1>4, <1>5, <1>7, <2>2
    <2> QED BY <2>1, <2>3, <2>4, SizeAssumption DEF Ordered, e, k, Once, Listed
  <1>8. CASE ~(Len(new) > MaxSize)
    <2>1. order' = new /\ cache' = filled /\ Len(new) <= MaxSize
      BY <1>2, <1>5, <1>8, SizeAssumption
    <2> QED BY <1>1, <1>4, <1>5, <2>1 DEF Ordered, e, k, Once, Listed
  <1> QED BY <1>7, <1>8

\* Lookup lists a hit last, and a stale entry no more.
LEMMA Lookups ==
    ASSUME IInv, Ordered, NEW t \in Threads, Lookup(t)
    PROVE  Ordered'
  <1> DEFINE k == Key(t)
             rest == Without(order, k)
  <1>1. k \in Keys /\ live[arg[t].addr] # NoTensor
    BY KeyOfCall DEF Lookup, IInv, Held
  <1>2. order \in Seq(Keys) /\ Once(order) /\ Len(order) <= MaxSize /\ Len(order) \in Nat
        /\ Listed(order) = {x \in Keys : cache[x] # NoEntry}
    BY DEF Ordered
  <1> HIDE DEF k
  <1>3. /\ rest \in Seq(Keys) /\ Once(rest) /\ Listed(rest) = Listed(order) \ {k}
        /\ Len(rest) <= Len(order) /\ Len(rest) \in Nat
        /\ k \in Listed(order) => Len(rest) = Len(order) - 1
    <2>1. /\ rest \in Seq(Keys) /\ Once(rest) /\ Listed(rest) = Listed(order) \ {k}
          /\ Len(rest) <= Len(order)
          /\ k \in Listed(order) => Len(rest) = Len(order) - 1
      BY <1>2, WithoutListed
    <2> HIDE DEF rest
    <2> QED BY <2>1
  <1> HIDE DEF rest
  <1>4. CASE Hit(t)
    <2>1. order' = Append(rest, k) /\ cache' = cache
      BY <1>4 DEF Lookup, rest, k
    <2>2. cache[k] # NoEntry
      BY <1>1, <1>4 DEF Hit, NoEntry, k
    <2>3. k \in Listed(order) /\ k \notin Listed(rest)
      BY <1>1, <1>2, <1>3, <2>2
    <2>4. /\ order' \in Seq(Keys) /\ Once(order') /\ Listed(order') = Listed(order)
          /\ Len(order') = Len(order)
      BY <1>1, <1>2, <1>3, <2>1, <2>3, AppendListed
    <2> QED BY <1>2, <2>1, <2>4 DEF Ordered, Once, Listed
  <1>5. CASE ~Hit(t)
    <2>1. order' = rest /\ cache' = [cache EXCEPT ![k] = NoEntry]
      BY <1>5 DEF Lookup, rest, k
    <2>2. \A x \in Keys : cache'[x] = IF x = k THEN NoEntry ELSE cache[x]
      BY <2>1 DEF IInv, Typed
    <2>3. Listed(order') = {x \in Keys : cache'[x] # NoEntry}
      BY <1>2, <1>3, <2>1, <2>2
    <2>4. Len(order') <= MaxSize
      BY <1>2, <1>3, <2>1, SizeAssumption
    <2> QED BY <1>3, <2>1, <2>3, <2>4 DEF Ordered, Once, Listed
  <1> QED BY <1>4, <1>5

LEMMA NextOrdered == IInv /\ Ordered /\ [Next]_vars => Ordered'
  <1> SUFFICES ASSUME IInv, Ordered, [Next]_vars PROVE Ordered'
    OBVIOUS
  <1>1. ASSUME order' = order, cache' = cache PROVE Ordered'
    BY <1>1 DEF Ordered
  <1>2. ASSUME NEW t \in Threads, Lookup(t) PROVE Ordered'
    BY <1>2, Lookups
  <1>3. ASSUME NEW t \in Threads, Insert(t) PROVE Ordered'
    BY <1>3, Inserts
  <1>4. CASE UNCHANGED vars
    BY <1>1, <1>4 DEF vars
  <1> QED BY <1>1, <1>2, <1>3, <1>4 DEF Next, Free, Alloc, Call, Build, Use

\* The order of eviction in every reachable state.
LEMMA AlwaysOrdered == Spec => [](IInv /\ Ordered)
  <1>1. Init => Ordered
    BY SizeAssumption DEF Init, Ordered, Once, Listed
  <1> QED BY <1>1, InitIInv, NextIInv, NextOrdered, PTL DEF Spec

\* The keys in the order of eviction are those of the cache, each once, and
\* never more than MaxSize, whatever other calls did between a call's lookup
\* and its insert (intracard_fwd_h).
THEOREM TypeCorrect == Spec => []TypeOK
  <1>1. IInv /\ Ordered => TypeOK
    BY DEF IInv, Typed, Ordered, Once, Listed, TypeOK
  <1> QED BY <1>1, AlwaysOrdered, PTL

\* The entry evicted to make room is never the one just stored.
THEOREM StoredIsKeptAlways == Spec => StoredIsKept
  <1>1. ASSUME IInv, Ordered, [Next]_vars
        PROVE  [\A t \in Threads : pc[t] = "insert" /\ pc'[t] = "use" =>
                   cache'[Key(t)] = [ref |-> live[arg[t].addr], plan |-> plan[t]]]_vars
    <2>1. SUFFICES ASSUME Next, NEW t \in Threads, pc[t] = "insert", pc'[t] = "use"
          PROVE  cache'[Key(t)] = [ref |-> live[arg[t].addr], plan |-> plan[t]]
      BY <1>1
    <2>2. Insert(t)
      <3>1. ASSUME NEW q \in Threads, Lookup(q) \/ Build(q) \/ Use(q) \/ Insert(q)
            PROVE  Insert(t)
        <4>1. q = t => Insert(t)
          BY <2>1, <3>1 DEF Lookup, Build, Use
        <4>2. q # t => pc'[t] = pc[t]
          BY <1>1, <3>1 DEF Lookup, Build, Use, Insert, Proceed, IInv, Typed
        <4> QED BY <2>1, <4>1, <4>2
      <3>2. ASSUME NEW q \in Threads, NEW a \in Addrs, NEW s \in Shapes, Call(q, a, s)
            PROVE  FALSE
        BY <1>1, <2>1, <3>2 DEF Call, IInv, Typed
      <3>3. ASSUME NEW a \in Addrs, Free(a) \/ \E n \in Tensors : Alloc(a, n) PROVE FALSE
        BY <2>1, <3>3 DEF Free, Alloc
      <3> QED BY <2>1, <3>1, <3>2, <3>3 DEF Next
    <2> QED BY <1>1, <2>2, Inserts
  <1> QED BY <1>1, AlwaysOrdered, PTL DEF Spec, StoredIsKept
=============================================================================
