---------------------------- MODULE PreScanSm100 ----------------------------
(***************************************************************************)
(* The first pass of intra-card context parallelism on SM100               *)
(* (src/cula/ops/kda/sm100/cp/pre_scan.py).  A block scans the chunks of a *)
(* sub-sequence, for a slice of its exit state (mode "he") or of its       *)
(* transition matrix (mode "m"):                                           *)
(*                                                                         *)
(*     vnew = u - w state  or  w state,   state = gk * state +- k^T vnew   *)
(*                                                                         *)
(* n numbers the chunks.  The state stays in the registers of the CUDA     *)
(* warps, whose halves are "cc1" and "cc2".                                *)
(***************************************************************************)
EXTENDS WarpProgram

CCs == {"cc1", "cc2"}

Rings ==
    [w |-> Ring(3, 1, 1), kt |-> Ring(3, 1, 1), u |-> Ring(2, 1, 2),
     gk |-> Ring(2, 1, 2), state |-> Ring(1, 2, 1), wh |-> Ring(1, 1, 2),
     vnew |-> Ring(1, 2, 1), kv |-> Ring(1, 1, 2),
     gk_ready |-> Barrier(2), exit |-> Barrier(4)]

LoadWarp(n, he, gated) ==
    << <<Acq("w"), Tma("w", n)>>, <<Acq("kt"), Tma("kt", n)>> >>
    \o When(he, << <<Acq("u"), Tma("u", n)>> >>)
    \o When(gated, << <<Acq("gk"), Tma("gk", <<"log", n>>)>> >>)

MmaWarp(n) == <<
    <<Wait("state"), Wait("w"), Acq("wh"), Tc(Use("state", n)), Tc(Use("w", n)),
      Tc(Put("wh", n)), Tc(Com("wh")), Tc(Rel("w")), Tc(Rel("state"))>>,
    <<Wait("vnew"), Wait("kt"), Acq("kv"), Tc(Use("vnew", n)), Tc(Use("kt", n)),
      Tc(Put("kv", n)), Tc(Com("kv")), Tc(Rel("kt")), Tc(Rel("vnew"))>> >>

\* Each thread takes the exponential of one gate in place; then all are read.
GateState(n) == <<
    <<Wait("gk"), UseMine("gk", <<"log", n>>), Put("gk", <<"exp", n>>), Com("gk_ready")>>,
    <<Wait("gk_ready"), Use("gk", <<"exp", n>>), Rel("gk")>> >>

CudaWarp(n, he, gated) ==
    << <<Acq("state"), Put("state", n), Com("state")>> >>
    \o When(he, << <<Wait("u"), Use("u", n), Rel("u")>> >>)
    \o << <<Wait("wh"), Use("wh", n), Rel("wh")>>,
          <<Acq("vnew"), Put("vnew", n), Com("vnew")>> >>
    \o When(gated, GateState(n))
    \o << <<Wait("kv"), Use("kv", n), Rel("kv")>> >>

Exit == << <<Com("exit")>>, <<Wait("exit")>> >>

Kernel(chunks, he, gated) ==
    LET Loop(Body(_)) == Each(chunks, Body) \o Exit
        Load(n) == LoadWarp(n, he, gated)
        Cuda(n) == CudaWarp(n, he, gated)
    IN [ring |-> Rings,
        prog |-> [w \in CCs |-> Loop(Cuda)] @@
                 [load |-> Loop(Load), mma |-> Loop(MmaWarp)],
        part |-> [cc1 |-> 1, cc2 |-> 2]]
=============================================================================
