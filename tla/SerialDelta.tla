---------------------------- MODULE SerialDelta ----------------------------
(***************************************************************************)
(* What one thread block of the delta_h kernel promises: the outputs the   *)
(* serial recurrence of reference_chunk_delta_rule_fwd_h writes            *)
(* (src/cula/ops/kda/sm100/delta_h.py), for the work units the block       *)
(* takes, chunk after chunk.                                               *)
(*                                                                         *)
(* <<u, c>> names the data of chunk c of unit u: as a state it is the h    *)
(* the recurrence holds before chunk c, as a v_new tile the v_new of that  *)
(* chunk.  Each of the CUDA-core warps holds a part of the rows of h.      *)
(***************************************************************************)
EXTENDS Integers, Sequences

CONSTANTS
    Units,              \* chunk counts (NT) of the units the block takes
    CCs,                \* CUDA-core warps
    StoreFinalState, SaveVNew

VARIABLES
    hOut,               \* [unit]: tiles written to h_out, in order
    vOut,               \* [unit]: tiles written to v_new, in order
    hT                  \* [unit][cc]: what was written to ht, in order

outs == <<hOut, vOut, hT>>

Init ==
    /\ hOut = [u \in DOMAIN Units |-> <<>>]
    /\ vOut = [u \in DOMAIN Units |-> <<>>]
    /\ hT = [u \in DOMAIN Units |-> [w \in CCs |-> <<>>]]

\* h_out[:, t] = h
StoreH(u) ==
    LET c == Len(hOut[u]) IN
    /\ c < Units[u]
    /\ SaveVNew => Len(vOut[u]) = c
    /\ hOut' = [hOut EXCEPT ![u] = Append(@, <<u, c>>)]
    /\ UNCHANGED <<vOut, hT>>

\* v_new_out[:, s:e] = vnc
StoreV(u) ==
    LET c == Len(vOut[u]) IN
    /\ SaveVNew
    /\ Len(hOut[u]) = c + 1
    /\ vOut' = [vOut EXCEPT ![u] = Append(@, <<u, c>>)]
    /\ UNCHANGED <<hOut, hT>>

\* The final state: a warp writes its rows once, from the h after the last
\* chunk.  The last tiles may still be on their way out.
StoreFinal(u, w) ==
    /\ StoreFinalState
    /\ hT[u][w] = <<>>
    /\ hT' = [hT EXCEPT ![u][w] = << <<u, Units[u]>> >>]
    /\ UNCHANGED <<hOut, vOut>>

Complete ==
    \A u \in DOMAIN Units :
        /\ Len(hOut[u]) = Units[u]
        /\ SaveVNew => Len(vOut[u]) = Units[u]
        /\ StoreFinalState => \A w \in CCs : hT[u][w] # <<>>

Next ==
    \E u \in DOMAIN Units :
        StoreH(u) \/ StoreV(u) \/ \E w \in CCs : StoreFinal(u, w)

Spec == Init /\ [][Next]_outs
=============================================================================
