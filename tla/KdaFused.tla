------------------------------- MODULE KdaFused -------------------------------
(***************************************************************************)
(* The experimental fully fused SM100 forward kernel with safe_gate        *)
(* (src/cula/ops/kda/experimental/sm100_fused/kda_fully_fused_wip.py).  A  *)
(* block takes the chunks of one head of one sequence in order; n numbers  *)
(* them.  The halves of the four CUDA warps are "cc1" and "cc2", those of  *)
(* the four subchunk warps, which make p = q k^T and the inverse kk, "sc1" *)
(* and "sc2".  Memory is used several times within a chunk:                *)
(*                                                                         *)
(*   v    v (TMA), then v - k state, then the new v                        *)
(*   pv   (tensor memory) k state, then the new v, then the intra-chunk o  *)
(*   s    (tensor memory) the state, summed up and then decayed            *)
(*   q_k_scaled   q, k and k again, each with its gate; it has a pipeline  *)
(*        for each of the three: q_scaled, k_scaled and k_scaled2          *)
(***************************************************************************)
EXTENDS WarpProgram

CCs == {"cc1", "cc2"}
SCs == {"sc1", "sc2"}

Rings ==
    [q |-> Ring(2, 1, 4), k |-> Ring(2, 1, 4), g |-> Ring(2, 1, 4),
     v |-> Ring(1, 1, 2), beta |-> Ring(2, 1, 2),
     v2 |-> Ring(1, 2, 1), pseudo_v |-> Ring(1, 1, 2), v3 |-> Ring(1, 2, 1),
     end_v |-> Ring(1, 1, 2), kv |-> Ring(1, 1, 2), kv16 |-> Ring(1, 2, 1),
     p |-> Ring(2, 2, 1), kk |-> Ring(2, 2, 1),
     ks |-> Ring(1, 1, 2), o_inter |-> Ring(1, 1, 2), o_intra |-> Ring(1, 1, 2),
     o |-> Ring(2, 2, 1),
     q_scaled |-> Ring(1, 2, 1), k_scaled |-> Ring(1, 2, 1),
     k_scaled2 |-> Ring(1, 2, 1), q_k_scaled |-> Buffer(1), blocks |-> Buffer(2),
     pv |-> Buffer(1), s |-> Buffer(1), g_last |-> Buffer(2),
     cuda |-> Barrier(2), sub |-> Barrier(2), exit |-> Barrier(8)]

\* A scalar gate is computed by the beta warp, any other loaded by TMA.
LoadWarp(n, scalar) ==
    When(~scalar, << <<Acq("g"), Tma("g", n)>> >>)
    \o << <<Acq("q"), Tma("q", n)>>, <<Acq("k"), Tma("k", n)>>,
          <<Acq("v"), Tma("v", <<"v", n>>)>> >>

ScalarGate(n) == << <<Acq("g"), Put("g", n), Com("g")>> >>

BetaWarp(n, scalar) ==
    When(scalar, ScalarGate(n)) \o << <<Acq("beta"), Put("beta", n), Com("beta")>> >>

\* TMA reads o until the wait for its group returns.
EpilogueWarp(n) == << <<Wait("o"), Use("o", n)>>, <<Use("o", n), Rel("o")>> >>

\* A buffer without pipeline that goes along with the two stages of g or p.
Staged(n, o) == At((n - 1) % 2, o)

\* Without an initial state there is no state before the first chunk.
HasState(n, h0) == n > 1 \/ h0

LoadState(h0) ==
    When(h0, << <<Put("s", <<"sum", 0>>)>>,
                <<Acq("kv16"), Put("kv16", 0), Com("kv16")>> >>)

SyncOn(bar, first, then) == << first \o <<Com(bar)>>, <<Wait(bar)>> \o then >>
FirstHalf(w, ops) == IF w \in {"cc1", "sc1"} THEN ops ELSE <<>>
SecondHalf(w, ops) == IF w \in {"cc1", "sc1"} THEN <<>> ELSE ops

\* The inverse of the lower triangular matrix kk, in place, from the inverses
\* of its diagonal blocks: of 8 and of 32 rows by the first half of the warps,
\* of 16 by both.  The last product is the sum of what the halves compute.
\* All use the named barrier of the CUDA warps.
Inverse8(w, n) ==
    SyncOn("cuda", FirstHalf(w, <<Use("kk", <<"masked", n>>), Fill("kk", <<"8", n>>)>>), <<>>)

Inverse16(n) ==
    SyncOn("cuda", <<UseMine("kk", <<"8", n>>), Put("kk", <<"16", n>>)>>, <<>>)

Inverse32(w, n) ==
    SyncOn("cuda", FirstHalf(w, <<Use("kk", <<"16", n>>), Fill("kk", <<"32", n>>)>>), <<>>)

Inverse64(w, n) ==
    SyncOn("cuda", <<Use("kk", <<"32", n>>)>>, FirstHalf(w, <<Fill("kk", <<"part", n>>)>>))
    \o SyncOn("cuda", <<>>, SecondHalf(w, <<Use("kk", <<"part", n>>),
                                            Fill("kk", <<"64", n>>)>>))
    \o SyncOn("cuda", <<>>, <<>>)

Invert(w, n) == Inverse8(w, n) \o Inverse16(n) \o Inverse32(w, n) \o Inverse64(w, n)

\* Row by row the inverse is scaled with beta.
ScaleByBeta(n, beta) == << <<UseMine("kk", <<"64", n>>), beta, Put("kk", <<"inv", n>>)>> >>

Exit == << <<Com("exit")>>, <<Wait("exit")>> >>

-----------------------------------------------------------------------------
\* o_inter = q S and ks = k S, into pv
MmaState(n) == <<
    <<Wait("kv16"), Wait("q_scaled"), Acq("o_inter"), Tc(Use("kv16", n - 1)),
      Tc(Use("q_k_scaled", <<"q", n>>)), Tc(Put("o_inter", n)),
      Tc(Com("o_inter")), Tc(Rel("q_scaled"))>>,
    <<Wait("k_scaled"), Acq("ks"), Tc(Use("kv16", n - 1)),
      Tc(Use("q_k_scaled", <<"k", n>>)), Tc(Put("pv", <<"ks", n>>)),
      Tc(Com("ks")), Tc(Rel("k_scaled")), Tc(Rel("kv16"))>> >>

\* new v = kk v', o_intra = p new v, S += new v^T k
MmaWarp(n, h0) ==
    When(HasState(n, h0), MmaState(n))
    \o << <<Wait("v2"), Wait("kk"), Acq("pseudo_v"), Tc(Use("v", <<"v2", n>>)),
            Tc(Use("kk", <<"inv", n>>)), Tc(Put("pv", <<"v3", n>>)),
            Tc(Rel("v2")), Tc(Rel("kk")), Tc(Com("pseudo_v"))>>,
          <<Wait("v3"), Wait("p"), Acq("o_intra"), Tc(Use("v", <<"v3", n>>)),
            Tc(Use("p", n)), Tc(Put("pv", <<"o", n>>)), Tc(Rel("p")),
            Tc(Com("o_intra"))>>,
          <<Wait("k_scaled2"), Acq("kv"), Tc(Use("v", <<"v3", n>>)),
            Tc(Use("q_k_scaled", <<"k2", n>>))>>
          \o When(HasState(n, h0), <<Tc(Use("s", <<"decayed", n - 1>>))>>)
          \o <<Tc(Put("s", <<"sum", n>>)), Tc(Rel("k_scaled2")), Tc(Com("kv"))>>,
          <<Acq("end_v"), Tc(Com("end_v")), Tc(Rel("v3"))>> >>

-----------------------------------------------------------------------------
\* q with its gate goes to the shared buffer; the last row of g is kept.
GateQ(n, state) ==
    << <<Wait("g"), Wait("q")>> >>
    \o IF state
       THEN << <<Acq("q_scaled"), Use("g", n), Use("q", n), Staged(n, Put("g_last", n)),
                 Put("q_k_scaled", <<"q", n>>), Com("q_scaled")>> >>
       ELSE << <<Use("g", n), Staged(n, Put("g_last", n))>> >>

\* k with its gate follows when o_inter says that q has been multiplied.
GateK(n, state) ==
    << <<Wait("k")>> >>
    \o When(state, <<
         <<Wait("o_inter"), Acq("k_scaled"), Use("k", n),
           Put("q_k_scaled", <<"k", n>>), Com("k_scaled")>> >>)
    \o << <<Rel("q")>> >>

\* v - k S replaces v; without a state v stays as it is.
CorrectV(n, state) ==
    << <<Wait("v")>> >>
    \o IF state
       THEN << <<Wait("ks"), UseMine("v", <<"v", n>>), Use("pv", <<"ks", n>>), Rel("ks")>>,
               <<Acq("v2"), Put("v", <<"v2", n>>), Com("v2")>> >>
       ELSE << <<Acq("v2"), Put("v", <<"v2", n>>), Com("v2")>> >>

NewV(n) == <<
    <<Wait("pseudo_v"), Use("pv", <<"v3", n>>), Rel("pseudo_v")>>,
    <<Acq("v3"), Put("v", <<"v3", n>>), Com("v3")>> >>

\* The state is decayed in place while the tensor cores compute o_intra.
DecayS(n, state) ==
    When(state, << <<UseMine("s", <<"sum", n - 1>>), Staged(n, Use("g_last", n)),
                     Put("s", <<"decayed", n - 1>>)>> >>)

GateK2(n) == <<
    <<Acq("k_scaled2"), Use("g", n), Use("k", n), Staged(n, Use("g_last", n)),
      Put("q_k_scaled", <<"k2", n>>), Com("k_scaled2")>> >>

Output(n, state) ==
    << <<Wait("o_intra"), Use("pv", <<"o", n>>), Rel("o_intra")>> >>
    \o When(state, << <<Use("o_inter", n), Rel("o_inter")>> >>)
    \o << <<Acq("o"), Put("o", n), Com("o")>> >>

NextState(n, last, ht) ==
    << <<Wait("kv")>>
       \o When(~last \/ ht, <<UseMine("s", <<"sum", n>>)>>)
       \o <<Rel("g"), Rel("k")>> >>
    \o When(~last, << <<Acq("kv16"), Put("kv16", n), Com("kv16")>> >>)
    \o << <<Rel("kv")>>, <<Wait("end_v"), Rel("end_v"), Rel("v")>> >>

CudaWarp(n, h0, last, ht) ==
    LET state == HasState(n, h0)
    IN GateQ(n, state) \o GateK(n, state) \o CorrectV(n, state) \o NewV(n)
       \o DecayS(n, state) \o GateK2(n) \o Output(n, state) \o NextState(n, last, ht)

-----------------------------------------------------------------------------
\* Each half makes its blocks of q k^T and k k^T in the stages of p and kk.
Subblocks(n) == <<
    <<Wait("g"), Wait("q"), Wait("k"), Use("g", n), Use("q", n), Use("k", n)>>,
    <<Wait("beta"), Acq("kk"), Acq("p")>>,
    <<Staged(n, Put("blocks", n)), Rel("g"), Rel("q"), Rel("k"), Com("sub")>> >>

\* When both are done, each masks some rows of them; p is complete then.
MaskBlocks(n) == <<
    <<Wait("sub"), Staged(n, Use("blocks", n)),
      Put("p", n), Put("kk", <<"masked", n>>), Com("p")>>,
    <<Com("sub")>>, <<Wait("sub")>> >>

\* kk is inverted and scaled.
SubchunkWarp(w, n) ==
    Subblocks(n) \o MaskBlocks(n) \o Invert(w, n) \o ScaleByBeta(n, Use("beta", n))
    \o << <<Com("kk"), Rel("beta")>> >>

Kernel(chunks, h0, ht, scalar) ==
    LET Loop(Body(_)) == Each(chunks, Body) \o Exit
        Load(n) == LoadWarp(n, scalar)
        Beta(n) == BetaWarp(n, scalar)
        Mma(n) == MmaWarp(n, h0)
        Cuda(n) == CudaWarp(n, h0, n = chunks, ht)
        Sub(w) == LET Body(n) == SubchunkWarp(w, n) IN Loop(Body)
    IN [ring |-> Rings,
        prog |-> [w \in CCs |-> LoadState(h0) \o Loop(Cuda)] @@
                 [w \in SCs |-> Sub(w)] @@
                 [load |-> Loop(Load), mma |-> Loop(Mma), beta |-> Loop(Beta),
                  epilogue |-> Loop(EpilogueWarp)],
        part |-> [cc1 |-> 1, cc2 |-> 2, sc1 |-> 1, sc2 |-> 2]]
=============================================================================
