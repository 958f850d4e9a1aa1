---------------------------- MODULE PlanCacheMC ----------------------------
(* An instance of PlanCache for TLC. *)
EXTENDS PlanCache, TLC

\* Two lengths, and for the first one calls with few and with many heads.
SomeShapes ==
    {[ssl |-> 1, fits |-> TRUE], [ssl |-> 1, fits |-> FALSE],
     [ssl |-> 2, fits |-> TRUE]}

\* Threads, addresses and tensors are told apart by nothing.
Alike == Permutations(Threads) \cup Permutations(Addrs) \cup Permutations(Tensors)
=============================================================================
