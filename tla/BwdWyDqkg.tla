------------------------------ MODULE BwdWyDqkg ------------------------------
(***************************************************************************)
(* The fused SM100 backward kernel (src/cula/ops/kda/sm100/                *)
(* bwd_wy_dqkg.py): dq, dk, dv, db, dg and dA of one chunk of one head per *)
(* tile, in a loop over the two halves of V and an epilogue over K.  The   *)
(* two warpgroups of CUDA warps are "cc1" and "cc2"; i numbers the tiles   *)
(* of a block.  Shared memory is used several times within a tile:         *)
(*                                                                         *)
(*   k   k (TMA), then kg                 q   q (TMA), then dA, then dA2   *)
(*   g   g (TMA), then k*dk, then dg      da2 (tensor memory) dA2, dA3     *)
(***************************************************************************)
EXTENDS WarpProgram

CCs == {"cc1", "cc2"}
VTiles == 2             \* num_v_tiles
VLast == VTiles

\* h, dh and v are given back by both warpgroups and by the tensor cores;
\* g by both warpgroups and by the aux warps, which store dg from it.
Rings ==
    [A |-> Ring(2, 1, 1),
     h |-> Ring(2, 1, 3), dh |-> Ring(2, 1, 3), v |-> Ring(2, 1, 3),
     do |-> Ring(2, 1, 1), dv |-> Ring(2, 1, 1), vnew |-> Ring(2, 1, 1),
     g |-> Ring(1, 1, 3), k |-> Ring(1, 1, 2), q |-> Ring(1, 1, 2),
     beta |-> Ring(1, 1, 2), dg |-> Ring(1, 2, 1),
     dvb |-> Ring(1, 1, 2), dq |-> Ring(1, 1, 2), dk |-> Ring(1, 1, 2),
     dw |-> Ring(1, 1, 2), dA |-> Ring(1, 1, 2), dkgb |-> Ring(1, 1, 2),
     dA2 |-> Ring(1, 1, 2), dA3 |-> Ring(1, 1, 2),
     p_dw |-> Ring(1, 2, 1), p_kg |-> Ring(1, 2, 1),
     p_dA2 |-> Ring(1, 2, 1), p_dA3 |-> Ring(1, 2, 1),
     da2 |-> Buffer(1), dqs |-> Buffer(1),      \* tensor memory
     db |-> Buffer(1), gn |-> Buffer(1), dgk |-> Buffer(1),
     vloop |-> Barrier(1), wg |-> Barrier(2), exit |-> Barrier(5)]

-----------------------------------------------------------------------------
LoadV(i, n) == <<
    <<Acq("h"), Tma("h", <<i, n>>)>>, <<Acq("dh"), Tma("dh", <<i, n>>)>>,
    <<Acq("do"), Tma("do", <<i, n>>)>>, <<Acq("dv"), Tma("dv", <<i, n>>)>>,
    <<Acq("v"), Tma("v", <<i, n>>)>>, <<Acq("vnew"), Tma("vnew", <<i, n>>)>> >>

LoadK(i) == <<
    <<Acq("g"), Tma("g", <<"g", i>>)>>, <<Acq("k"), Tma("k", <<"k", i>>)>>,
    <<Acq("q"), Tma("q", <<"q", i>>)>> >>

LoadWarp(i) ==
    LET V(n) == LoadV(i, n)
    IN << <<Acq("A"), Tma("A", i)>> >> \o Each(VTiles, V) \o LoadK(i)

-----------------------------------------------------------------------------
\* x += y for an accumulator: its first product overwrites it.
Accumulate(r, i, n) ==
    When(n > 1, <<Tc(Use(r, <<i, n - 1>>))>>) \o <<Tc(Put(r, <<i, n>>))>>

MmaQ(i, n) == <<            \* dq += do h
    <<Wait("h"), Wait("do")>> \o When(n = 1, <<Acq("dq")>>)
    \o <<Tc(Use("do", <<i, n>>)), Tc(Use("h", <<i, n>>))>>
    \o Accumulate("dq", i, n) \o <<Tc(Rel("do"))>>
    \o When(n = VLast, <<Tc(Com("dq"))>>) >>

MmaDv(i, n) == <<           \* dvb = A dv; dw += dv h
    <<Wait("dv"), Acq("dvb"), Tc(Use("A", i)), Tc(Use("dv", <<i, n>>)),
      Tc(Put("dvb", <<i, n>>)), Tc(Com("dvb"))>>,
    When(n = 1, <<Acq("dw")>>)
    \o <<Tc(Use("dv", <<i, n>>)), Tc(Use("h", <<i, n>>))>>
    \o Accumulate("dw", i, n) >>

MmaA(i, n) == <<            \* dA += dv v^T
    <<Wait("v")>> \o When(n = 1, <<Acq("dA")>>)
    \o <<Tc(Use("dv", <<i, n>>)), Tc(Use("v", <<i, n>>))>>
    \o Accumulate("dA", i, n) \o <<Tc(Rel("dv"))>>
    \o When(n = VLast, <<Tc(Com("dw"))>>) \o <<Tc(Rel("h")), Tc(Rel("v"))>> >>

\* dk += vnew dh; then the warp waits until all products are done.
MmaK(i, n) == <<
    <<Wait("vnew"), Wait("dh")>> \o When(n = 1, <<Acq("dk")>>)
    \o <<Tc(Use("vnew", <<i, n>>)), Tc(Use("dh", <<i, n>>))>>
    \o Accumulate("dk", i, n) \o <<Tc(Rel("vnew"))>>
    \o When(n = VLast, <<Tc(Com("dk"))>>)
    \o <<Tc(Rel("dh")), Tc(Com("vloop"))>>,
    <<Wait("vloop")>> >>

\* dkgb = A dw; dA += dw kg^T
MmaKg(i) == <<
    <<Wait("p_dw"), Acq("dkgb"), Tc(Use("A", i)), Tc(Use("p_dw", i)),
      Tc(Put("dkgb", i)), Tc(Com("dkgb"))>>,
    <<Wait("p_kg"), Tc(Use("p_dw", i)), Tc(Use("k", <<"kg", i>>)),
      Tc(Use("dA", <<i, VLast>>)), Tc(Put("dA", <<i, VLast + 1>>)), Tc(Com("dA")),
      Tc(Rel("p_kg")), Tc(Rel("p_dw"))>> >>

\* dA2 = dA A; dA3 = A dA2, into the same tensor memory
MmaPost(i) == <<
    <<Acq("dA2"), Wait("p_dA2"), Tc(Use("q", <<"dA", i>>)), Tc(Use("A", i)),
      Tc(Put("da2", <<"dA2", i>>)), Tc(Com("dA2")), Tc(Rel("p_dA2"))>>,
    <<Acq("dA3"), Wait("p_dA3"), Tc(Use("A", i)), Tc(Use("q", <<"dA2", i>>)),
      Tc(Put("da2", <<"dA3", i>>)), Tc(Com("dA3")), Tc(Rel("p_dA3")),
      Tc(Rel("A"))>> >>

MmaWarp(i) ==
    LET V(n) == MmaQ(i, n) \o MmaDv(i, n) \o MmaA(i, n) \o MmaK(i, n)
    IN << <<Wait("A")>> >> \o Each(VTiles, V) \o MmaKg(i) \o MmaPost(i)
-----------------------------------------------------------------------------
\* The barrier of the two warpgroups, before which comes `first' and after
\* which `then'; what only WG0 does.
SyncOn(first, then) == << first \o <<Com("wg")>>, <<Wait("wg")>> \o then >>
Wg0(w, ops) == IF w = "cc1" THEN ops ELSE <<>>

\* The sums start from zero.  Both warpgroups clear all of dgk.
Clear(i) ==
    SyncOn(<<>>, <<Put("db", <<"zero", i>>), Fill("dgk", <<"zero", i>>),
                 Com("wg")>>)
    \o << <<Wait("wg"), Wait("beta"), Use("beta", i)>> >>

\* dgk += sum of h * dh; dvb is read, and dv2 written.
GradV(w, i, n) ==
    << <<Wait("h"), Wait("dh"), Com("wg")>>,
       <<Wait("wg")>>
       \o Wg0(w, <<Use("h", <<i, n>>), Use("dh", <<i, n>>),
                   Use("dgk", IF n = 1 THEN <<"zero", i>> ELSE <<"v", i, n - 1>>),
                   Fill("dgk", <<"v", i, n>>)>>)
       \o <<Rel("h"), Rel("dh")>>,
       <<Wait("dvb"), Use("dvb", <<i, n>>), Rel("dvb")>>,
       <<Wait("v"), Use("v", <<i, n>>), Rel("v")>> >>

\* g is read (its last row into gn); dq is scaled and kept; dw is rounded.
GradQ(i) == <<
    <<Wait("g"), Use("g", <<"g", i>>), Fill("gn", i)>>,
    <<Wait("dq"), Use("dq", <<i, VLast>>), Rel("dq"), Put("dqs", i)>>,
    <<Wait("dw"), Use("dw", <<i, VLast>>), Rel("dw")>>,
    <<Acq("p_dw"), Put("p_dw", i), Com("p_dw")>> >>

\* kg replaces k in its stage, thread by thread.  db is summed in two steps,
\* between the warps of a warpgroup and between the warpgroups.
GradB(w, i) ==
    << <<Wait("k"), UseMine("k", <<"k", i>>)>>,
       <<Acq("p_kg"), Put("k", <<"kg", i>>), Com("p_kg")>>,
       <<Wait("dkgb"), Use("dkgb", i), Rel("dkgb")>> >>
    \o SyncOn(<<Put("db", <<"half", i>>)>>,
            <<UseMine("db", <<"half", i>>), Put("db", <<"sum", i>>), Com("wg")>>)
    \o << <<Wait("wg")>> \o Wg0(w, <<Use("db", <<"sum", i>>)>>) >>

\* k * dk replaces g; WG0 adds its column sums to dgk.
GradK(w, i) ==
    << <<Wait("dk"), Use("dk", <<i, VLast>>), Use("gn", i), Rel("dk")>> >>
    \o SyncOn(<<Put("g", <<"kdk", i>>)>>,
            Wg0(w, <<Use("gn", i), Use("dgk", <<"v", i, VLast>>),
                     Fill("dgk", <<"scaled", i>>)>>) \o <<Com("wg")>>)
    \o << <<Wait("wg")>>
          \o Wg0(w, <<Use("g", <<"kdk", i>>), Use("dgk", <<"scaled", i>>),
                      Fill("dgk", <<"sum", i>>)>>) >>

\* dg replaces k * dk, for the aux warps to store.
GradG(i) ==
    << <<Wait("q"), Use("q", <<"q", i>>), UseMine("dqs", i), Com("wg")>>,
       <<Wait("wg"), Use("dgk", <<"sum", i>>)>>,
       <<Acq("dg"), Put("g", <<"dg", i>>), Com("dg"), Rel("g")>> >>

\* dA, then dA2 replace q.  k is given back when kg has been multiplied, q
\* and dA2 when dA3 is complete.
GradA(i) == <<
    <<Wait("dA"), Use("dA", <<i, VLast + 1>>), Use("beta", i), Rel("dA"), Rel("k")>>,
    <<Acq("p_dA2"), Put("q", <<"dA", i>>), Com("p_dA2"), Rel("beta")>>,
    <<Wait("dA2"), Use("da2", <<"dA2", i>>)>>,
    <<Acq("p_dA3"), Put("q", <<"dA2", i>>), Com("p_dA3")>>,
    <<Wait("dA3"), Use("da2", <<"dA3", i>>), Rel("dA2"), Rel("dA3"),
      Rel("q")>> >>

CudaWarp(w, i) ==
    LET V(n) == GradV(w, i, n)
    IN Clear(i) \o Each(VTiles, V) \o GradQ(i) \o GradB(w, i)
       \o GradK(w, i) \o GradG(i) \o GradA(i)

\* beta is loaded by threads; dg is stored by TMA, or row by row at a tail.
AuxWarp(i) == <<
    <<Acq("beta"), Put("beta", i), Com("beta")>>,
    <<Wait("g"), Wait("dg"), Use("g", <<"dg", i>>)>>,
    <<Use("g", <<"dg", i>>), Rel("dg"), Rel("g")>> >>

Exit == << <<Com("exit")>>, <<Wait("exit")>> >>

Kernel(tiles) ==
    LET Loop(Body(_)) == Each(tiles, Body) \o Exit
        Cuda(w) == LET Body(i) == CudaWarp(w, i) IN Loop(Body)
    IN [ring |-> Rings,
        prog |-> [w \in CCs |-> Cuda(w)] @@
                 [load |-> Loop(LoadWarp), mma |-> Loop(MmaWarp),
                  aux |-> Loop(AuxWarp)],
        part |-> [cc1 |-> 1, cc2 |-> 2]]
=============================================================================
