----------------------------- MODULE PlanCache -----------------------------
(***************************************************************************)
(* The cache of split plans in intracard_fwd_h                             *)
(* (src/cula/ops/kda/sm100/cp/chunk_delta_h.py): an OrderedDict keyed by   *)
(* id(cu_seqlens) and the sub-sequence length, each entry with a weak      *)
(* reference to the tensor it was made for.  Host threads look up and      *)
(* insert under a lock but build a plan without it; tensors die and others *)
(* are born at the same address.                                           *)
(*                                                                         *)
(* The contents of a tensor do not change.  A plan is named by the tensor  *)
(* and the length it was made for.                                         *)
(***************************************************************************)
EXTENDS Integers, Sequences

CONSTANTS
    Threads,
    Addrs,          \* what id() returns
    Shapes,         \* what the other arguments of a call decide
    MaxSize,        \* _INTRACARD_CACHE_MAXSIZE
    Tensors,        \* names for tensors; one is given again when nothing
                    \* refers to it any more
    NoTensor

\* ssl is compute_subseq_len's result; fits says whether the pieces of the
\* plan times the thread blocks of the present call's heads fit on the SMs.
ASSUME ShapesAssumption == \A s \in Shapes : s.ssl \in Nat /\ s.fits \in BOOLEAN
ASSUME NoTensorAssumption == NoTensor \notin Tensors
ASSUME SizeAssumption == MaxSize \in Nat \ {0}

VARIABLES
    live,       \* [address]: the tensor living there
    cache,      \* [key]: the entry
    order,      \* the keys of the cache, the next to evict first
    pc,         \* [thread]
    arg,        \* [thread]: address and shape of the call
    plan        \* [thread]: the plan it found or built

vars == <<live, cache, order, pc, arg, plan>>

Keys == Addrs \X {s.ssl : s \in Shapes}
NoPlan == <<NoTensor, 0>>
NoEntry == [ref |-> NoTensor, plan |-> NoPlan]
Plans == (Tensors \cup {NoTensor}) \X Nat
Key(t) == <<arg[t].addr, arg[t].shape.ssl>>
PlanFor(t) == <<live[arg[t].addr], arg[t].shape.ssl>>

\* The keys without k, which is listed once if at all.
Without(s, k) ==
    IF \E i \in DOMAIN s : s[i] = k
    THEN LET i == CHOOSE i \in DOMAIN s : s[i] = k
         IN [j \in 1 .. Len(s) - 1 |-> IF j < i THEN s[j] ELSE s[j + 1]]
    ELSE s

Init ==
    /\ live = [a \in Addrs |-> NoTensor]
    /\ cache = [k \in Keys |-> NoEntry]
    /\ order = <<>>
    /\ pc = [t \in Threads |-> "idle"]
    /\ arg \in [Threads -> [addr : Addrs, shape : Shapes]]
    /\ plan = [t \in Threads |-> NoPlan]

\* Nothing refers to tensor n, not even a weak reference.
Forgotten(n) ==
    /\ \A a \in Addrs : live[a] # n
    /\ \A k \in Keys : cache[k].ref # n
    /\ \A t \in Threads : plan[t][1] # n

\* A new cu_seqlens, at any free address.
Alloc(a, n) ==
    /\ live[a] = NoTensor /\ Forgotten(n)
    /\ live' = [live EXCEPT ![a] = n]
    /\ UNCHANGED <<cache, order, pc, arg, plan>>

\* The last strong reference goes; no call holds the tensor any more.
Free(a) ==
    /\ live[a] # NoTensor
    /\ \A t \in Threads : pc[t] # "idle" => arg[t].addr # a
    /\ live' = [live EXCEPT ![a] = NoTensor]
    /\ UNCHANGED <<cache, order, pc, arg, plan>>

Call(t, a, s) ==
    /\ pc[t] = "idle" /\ live[a] # NoTensor
    /\ arg' = [arg EXCEPT ![t] = [addr |-> a, shape |-> s]]
    /\ pc' = [pc EXCEPT ![t] = "lookup"]
    /\ UNCHANGED <<live, cache, order, plan>>

\* Mutant of Hit: whatever is stored under the key.
HitByKey(t) == cache[Key(t)] # NoEntry

\* cached.cu_seqlens_ref() is cu_seqlens
Hit(t) == cache[Key(t)].ref = live[arg[t].addr]

\* Mutant of Proceed: only a plan just built is checked.
ProceedBuilt(t, found, next) ==
    IF next = "use" \/ arg[t].shape.fits
    THEN /\ pc' = [pc EXCEPT ![t] = next]
         /\ plan' = [plan EXCEPT ![t] = found]
    ELSE pc' = [pc EXCEPT ![t] = "idle"] /\ UNCHANGED plan

\* The occupancy guard, for found and built plans: NotSplittableError leaves.
Proceed(t, found, next) ==
    IF arg[t].shape.fits
    THEN /\ pc' = [pc EXCEPT ![t] = next]
         /\ plan' = [plan EXCEPT ![t] = found]
    ELSE pc' = [pc EXCEPT ![t] = "idle"] /\ UNCHANGED plan

\* Under the lock: a hit becomes the most recent, a stale entry goes.
Lookup(t) ==
    /\ pc[t] = "lookup"
    /\ IF Hit(t)
       THEN /\ order' = Append(Without(order, Key(t)), Key(t))
            /\ Proceed(t, cache[Key(t)].plan, "use")
            /\ UNCHANGED cache
       ELSE /\ cache' = [cache EXCEPT ![Key(t)] = NoEntry]
            /\ order' = Without(order, Key(t))
            /\ pc' = [pc EXCEPT ![t] = "build"]
            /\ UNCHANGED plan
    /\ UNCHANGED <<live, arg>>

\* Without the lock: the split and its tables.
Build(t) ==
    /\ pc[t] = "build"
    /\ Proceed(t, PlanFor(t), "insert")
    /\ UNCHANGED <<live, cache, order, arg>>

\* Mutant of Victim: popitem(last=True).
VictimLast(keys) == keys[Len(keys)]

\* popitem(last=False)
Victim(keys) == Head(keys)

\* Mutant of Insert: a key that another call stored is listed again.
InsertAgain(t) ==
    LET k    == Key(t)
        new  == Append(order, k)
        full == Len(new) > MaxSize
        filled == [cache EXCEPT ![k] = [ref |-> live[arg[t].addr], plan |-> plan[t]]]
    IN  /\ pc[t] = "insert"
        /\ cache' = IF full THEN [filled EXCEPT ![Victim(new)] = NoEntry] ELSE filled
        /\ order' = IF full THEN Without(new, Victim(new)) ELSE new
        /\ pc' = [pc EXCEPT ![t] = "use"]
        /\ UNCHANGED <<live, arg, plan>>

\* Under the lock: store (a key that is there keeps its place), then evict
\* the first entry while there are too many.
Insert(t) ==
    LET k    == Key(t)
        new  == IF cache[k] = NoEntry THEN Append(order, k) ELSE order
        full == Len(new) > MaxSize
        filled == [cache EXCEPT ![k] = [ref |-> live[arg[t].addr], plan |-> plan[t]]]
    IN  /\ pc[t] = "insert"
        /\ cache' = IF full THEN [filled EXCEPT ![Victim(new)] = NoEntry] ELSE filled
        /\ order' = IF full THEN Without(new, Victim(new)) ELSE new
        /\ pc' = [pc EXCEPT ![t] = "use"]
        /\ UNCHANGED <<live, arg, plan>>

\* The kernels run with the plan and the call returns.
Use(t) ==
    /\ pc[t] = "use"
    /\ pc' = [pc EXCEPT ![t] = "idle"]
    /\ plan' = [plan EXCEPT ![t] = NoPlan]
    /\ UNCHANGED <<live, cache, order, arg>>

Next ==
    \/ \E a \in Addrs : Free(a) \/ \E n \in Tensors : Alloc(a, n)
    \/ \E t \in Threads :
          \/ \E a \in Addrs, s \in Shapes : Call(t, a, s)
          \/ Lookup(t) \/ Build(t) \/ Insert(t) \/ Use(t)

Spec == Init /\ [][Next]_vars

-----------------------------------------------------------------------------
(* Properties *)

\* All variables keep to their domains; order lists exactly the keys of the
\* cache, each once, and there are never more than MaxSize.
TypeOK ==
    /\ live \in [Addrs -> Tensors \cup {NoTensor}]
    /\ cache \in [Keys -> [ref : Tensors \cup {NoTensor}, plan : Plans]]
    /\ pc \in [Threads -> {"idle", "lookup", "build", "insert", "use"}]
    /\ arg \in [Threads -> [addr : Addrs, shape : Shapes]]
    /\ plan \in [Threads -> Plans]
    /\ Len(order) <= MaxSize
    /\ {order[i] : i \in DOMAIN order} = {k \in Keys : cache[k] # NoEntry}
    /\ \A i, j \in DOMAIN order : order[i] = order[j] => i = j

\* A call runs with the plan of its own tensor and length, though its address
\* may have belonged to another tensor when the entry was stored, and though
\* other calls store, evict and drop entries between its two locked sections
\* (intracard_fwd_h).
UsesOwnPlan == \A t \in Threads : pc[t] = "use" => plan[t] = PlanFor(t)

\* The pieces of the plan a call runs with fit on the SMs with the heads of
\* this call, also if the plan was stored by a call with fewer heads.
UsesFittingPlan == \A t \in Threads : pc[t] = "use" => arg[t].shape.fits

\* The entry a call stores is not the one evicted for it, also when another
\* call stored the same key first and this one keeps the older place.
StoredIsKept ==
    [][\A t \in Threads : pc[t] = "insert" /\ pc'[t] = "use" =>
           cache'[Key(t)] = [ref |-> live[arg[t].addr], plan |-> plan[t]]]_vars
=============================================================================
