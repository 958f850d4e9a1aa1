---------------------------- MODULE PrefillSm100 ----------------------------
(***************************************************************************)
(* The SM100 lightning-attention prefill kernel                            *)
(* (src/cula/ops/lightning/prefill_sm100.py).  A block takes work units    *)
(* (one head of one sequence) of some chunks each; n numbers the chunks of *)
(* all its work units.  Per chunk, with the decay of the head applied by   *)
(* the CUDA warps:                                                         *)
(*                                                                         *)
(*     S = q k^T,  P = mask(S),  o = P v + q state,  state += k^T v        *)
(*                                                                         *)
(* The halves of the four CUDA warps are "cc1" and "cc2".                  *)
(***************************************************************************)
EXTENDS WarpProgram

CCs == {"cc1", "cc2"}

\* The tensor cores' consumers of p, kv16 and kw release at once; those of
\* q, k and v when the products are done.
Rings(warps) ==
    [q |-> Ring(2, 1, 1), k |-> Ring(2, 1, 1), v |-> Ring(2, 1, 1),
     s0 |-> Ring(2, 1, 2), p |-> Ring(2, 2, 1), kw |-> Ring(1, 2, 1),
     kv |-> Ring(1, 1, 2), kv16 |-> Ring(1, 2, 1),
     o_intra |-> Ring(2, 1, 2), o_inter |-> Ring(1, 1, 2), o |-> Ring(2, 2, 1),
     state |-> Buffer(1), lut |-> Buffer(1),
     cuda |-> Barrier(2), cta |-> Barrier(warps), exit |-> Barrier(warps)]

LoadWarp(n) == <<
    <<Acq("q"), Tma("q", n)>>, <<Acq("k"), Tma("k", n)>>, <<Acq("v"), Tma("v", n)>> >>

\* A work unit without initial state has no state before its first chunk.
HasState(j, h0) == j > 1 \/ h0

MmaWarp(n, j, h0) ==
    << <<Wait("q")>> >>
    \o When(HasState(j, h0), <<
         <<Wait("kv16"), Acq("o_inter"), Tc(Use("kv16", n - 1)), Tc(Use("q", n)),
           Tc(Put("o_inter", n)), Tc(Com("o_inter")), Rel("kv16")>> >>)
    \o << <<Wait("k"), Acq("s0"), Tc(Use("q", n)), Tc(Use("k", n)),
            Tc(Put("s0", n)), Tc(Rel("q")), Tc(Com("s0"))>>,
          <<Wait("kw"), Wait("v"), Acq("kv"), Tc(Use("kw", n)), Tc(Use("v", n))>>
          \o When(HasState(j, h0), <<Tc(Use("kv", <<"decayed", n - 1>>))>>)
          \o <<Tc(Put("kv", <<"sum", n>>)), Tc(Com("kv")), Tc(Rel("k")), Rel("kw")>>,
          <<Wait("p"), Acq("o_intra"), Tc(Use("p", n)), Tc(Use("v", n)),
            Tc(Put("o_intra", n)), Tc(Com("o_intra")), Tc(Rel("v")), Rel("p")>> >>

-----------------------------------------------------------------------------
CudaSync == << <<Com("cuda")>>, <<Wait("cuda")>> >>
Half(w) == IF w = "cc1" THEN 1 ELSE 2

\* The state passes through a buffer of half its rows: half s of it belongs
\* to the threads of half s of the warps.
LoadState(w, n) ==
    LET Strip(s) == << <<Put("state", <<s, n>>), Com("cuda")>>,
                       <<Wait("cuda")>>
                       \o When(Half(w) = s, <<Use("state", <<s, n>>)>>) >> \o CudaSync
    IN Each(2, Strip)
       \o << <<Acq("kv16"), Put("kv16", n - 1), Com("kv16")>>,
             <<Put("kv", <<"decayed", n - 1>>)>> >>

StoreState(w, n) ==
    LET Strip(s) == << When(Half(w) = s, <<Fill("state", <<s, n>>)>>) \o <<Com("cuda")>>,
                       <<Wait("cuda"), Use("state", <<s, n>>)>> >> \o CudaSync
    IN << <<Wait("kv"), UseMine("kv", <<"sum", n>>), Rel("kv")>> >> \o Each(2, Strip)

\* Powers of the head's decay, for the chunks of work unit u.
DecayTable(u) == << <<Put("lut", u), Com("cuda")>>, <<Wait("cuda")>> >>

\* The state of the chunk before, rounded for the next product and decayed.
DecayState(n, j) ==
    When(j > 1, <<
        <<Wait("kv"), UseMine("kv", <<"sum", n - 1>>), Rel("kv")>>,
        <<Acq("kv16"), Put("kv16", n - 1), Put("kv", <<"decayed", n - 1>>),
          Com("kv16")>> >>)

\* The stage of k is counted, not waited for: k_stage_offset is the number of
\* chunks of the work units before.
KStage(j, offset) == (j - 1 + offset) % 2

\* k is read from the stage of its own TMA and weighted into kw, which is
\* written before it is acquired.
WeightK(u, n, j, offset) == <<
    <<At(KStage(j, offset), Peek("k", n)), Use("lut", u)>>,
    <<Put("kw", n)>>, <<Acq("kw"), Com("kw")>> >>

MaskS(u, n) == <<
    <<Wait("s0"), Use("s0", n), Use("lut", u)>>,
    <<Acq("p"), Put("p", n), Rel("s0"), Com("p")>> >>

\* o has a stage for the store warp, which TMA reads until its group is done.
Output(n, j, h0) ==
    << <<Wait("o_intra"), Use("o_intra", n), Rel("o_intra")>> >>
    \o When(HasState(j, h0), << <<Wait("o_inter"), Use("o_inter", n), Rel("o_inter")>> >>)
    \o << <<Acq("o"), Put("o", n), Com("o")>> >>

StoreWarp(n) == << <<Wait("o"), Use("o", n)>>, <<Use("o", n), Rel("o")>> >>

-----------------------------------------------------------------------------
\* The persistent kernel crosses from one work unit to the next together
\* (the work itself is dealt out as in LightSched).
NextUnit(persistent) ==
    When(persistent, << <<Com("cta")>>, <<Wait("cta")>> >>)
Exit == << <<Com("exit")>>, <<Wait("exit")>> >>

\* units[u]: the number of chunks of work unit u; ht: the state is wanted.
Kernel(units, h0, ht, persistent) ==
    LET Before(u) == FoldLeft(LAMBDA a, b : a + b, 0, SubSeq(units, 1, u - 1))
        \* Begin(u), then Chunk(u, n, j) for each chunk, then End(u)
        Units(Begin(_), Chunk(_, _, _), End(_)) ==
            LET Unit(u) ==
                    LET C(j) == Chunk(u, Before(u) + j, j)
                    IN Begin(u) \o Each(units[u], C) \o End(u) \o NextUnit(persistent)
            IN Each(Len(units), Unit) \o Exit
        None(u) == <<>>
        Load(u, n, j) == LoadWarp(n)
        Mma(u, n, j) == MmaWarp(n, j, h0)
        Store(u, n, j) == StoreWarp(n)
        Cuda(u, n, j) == DecayState(n, j) \o WeightK(u, n, j, Before(u))
                         \o MaskS(u, n) \o Output(n, j, h0)
        CudaWarp(w) ==
            LET Begin(u) == When(h0, LoadState(w, Before(u) + 1)) \o DecayTable(u)
                End(u) == When(ht, StoreState(w, Before(u) + units[u]))
            IN Units(Begin, Cuda, End)
        Chunkless(u, n, j) == <<>>
    IN [ring |-> Rings(6),
        prog |-> [w \in CCs |-> CudaWarp(w)] @@
                 [load |-> Units(None, Load, None), mma |-> Units(None, Mma, None),
                  store |-> Units(None, Store, None),
                  empty |-> Units(None, Chunkless, None)],
        part |-> [cc1 |-> 1, cc2 |-> 2]]
=============================================================================
