-------------------------------- MODULE FwdO --------------------------------
(***************************************************************************)
(* The SM100 output kernel (src/cula/ops/kda/sm100/fwd_o.py):              *)
(*                                                                         *)
(*     o = scale * (q * exp2(g)) h + tril(A) v                             *)
(*                                                                         *)
(* A block takes tiles one after another (one tile only if it is not       *)
(* persistent); i numbers its tiles.  The two halves of the four CUDA      *)
(* warps are "cc1" and "cc2".                                              *)
(***************************************************************************)
EXTENDS WarpProgram

CCs == {"cc1", "cc2"}

\* q, h, v and a have a second stage in the persistent kernel only.
Rings(persistent) ==
    LET staged == IF persistent THEN 2 ELSE 1
    IN [q |-> Ring(staged, 1, 2), g |-> Ring(1, 1, 2), a |-> Ring(staged, 1, 2),
        h |-> Ring(staged, 1, 1), v |-> Ring(staged, 1, 1),
        qg |-> Ring(1, 2, 1), am |-> Ring(1, 2, 1),
        acc_done |-> Ring(1, 1, 2), o |-> Ring(1, 2, 1),
        acc_qh |-> Buffer(1), acc_av |-> Buffer(1),     \* tensor memory
        exit |-> Barrier(6)]

LoadWarp(i) == <<
    <<Acq("q"), Tma("q", i)>>, <<Acq("g"), Tma("g", i)>>,
    <<Acq("h"), Tma("h", i)>>,
    <<Acq("v"), Tma("v", i)>>, <<Acq("a"), Tma("a", i)>> >>

\* With variable lengths the tile goes through registers, otherwise TMA
\* reads it until the wait for its group returns.
StoreWarp(varlen, i) ==
    IF varlen
    THEN << <<Wait("o"), Use("o", i), Rel("o")>> >>
    ELSE << <<Wait("o"), Use("o", i)>>, <<Use("o", i), Rel("o")>> >>

\* The product with h is accumulated before acc_done is acquired.
MmaWarp(i) == <<
    <<Wait("qg"), Wait("h"), Tc(Use("qg", i)), Tc(Use("h", i)),
      Tc(Put("acc_qh", i)), Tc(Rel("h")), Tc(Rel("qg"))>>,
    <<Wait("am"), Acq("acc_done"), Wait("v"), Tc(Use("am", i)),
      Tc(Use("v", i)), Tc(Put("acc_av", i)), Tc(Rel("am")), Tc(Rel("v")),
      Tc(Com("acc_done"))>> >>

GateQ(i) == <<
    <<Wait("q"), Wait("g"), Use("q", i), Use("g", i), Rel("q"), Rel("g")>>,
    <<Acq("qg"), Put("qg", i), Com("qg")>> >>

MaskA(i) == <<
    <<Wait("a"), Use("a", i), Rel("a")>>,
    <<Acq("am"), Put("am", i), Com("am")>> >>

Epilogue(i) == <<
    <<Wait("acc_done"), Use("acc_qh", i), Use("acc_av", i), Rel("acc_done")>>,
    <<Acq("o"), Put("o", i), Com("o")>> >>

CudaWarp(i) == GateQ(i) \o MaskA(i) \o Epilogue(i)

\* Every warp meets before the tensor memory is given back.
Exit == << <<Com("exit")>>, <<Wait("exit")>> >>

Kernel(tiles, persistent, varlen) ==
    LET Loop(Body(_)) == Each(tiles, Body) \o Exit
        Store(i) == StoreWarp(varlen, i)
    IN [ring |-> Rings(persistent),
        prog |-> [w \in CCs |-> Loop(CudaWarp)] @@
                 [load |-> Loop(LoadWarp), store |-> Loop(Store),
                  mma |-> Loop(MmaWarp), empty |-> Exit],
        part |-> [cc1 |-> 1, cc2 |-> 2]]
=============================================================================
