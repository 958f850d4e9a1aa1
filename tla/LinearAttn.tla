----------------------------- MODULE LinearAttn -----------------------------
(***************************************************************************)
(* The first warp-specialised kernel of the repository, chunkwise linear   *)
(* attention without decay                                                 *)
(* (src/cula/ops/experimental/linear_attn_prototype.py):                   *)
(*                                                                         *)
(*     o_n = tril(q_n k_n^T) v_n + q_n S_{n-1},  S_n = S_{n-1} + v_n k_n^T *)
(*                                                                         *)
(* n numbers the chunks.  The state is accumulated in tensor memory ("kv") *)
(* and handed back to the tensor cores in 16 bits ("kv16").                *)
(***************************************************************************)
EXTENDS WarpProgram

CCs == {"cc1", "cc2"}

Rings ==
    [q |-> Ring(2, 1, 1), k |-> Ring(2, 1, 1), v |-> Ring(2, 1, 1),
     s |-> Ring(2, 1, 2), kv |-> Ring(1, 1, 2), kv16 |-> Ring(1, 2, 1),
     p |-> Ring(2, 2, 1), intra |-> Ring(2, 1, 2), inter |-> Ring(1, 1, 2),
     o |-> Ring(2, 2, 1), exit |-> Barrier(5)]

LoadWarp(n) == <<
    <<Acq("q"), Tma("q", n)>>, <<Acq("k"), Tma("k", n)>>, <<Acq("v"), Tma("v", n)>> >>

\* The 16-bit state and P are given back by the warp itself, which may be
\* before the tensor cores have read them.
MmaState(n) ==
    << <<Wait("kv16"), Acq("inter"), Tc(Use("kv16", n - 1)), Tc(Use("q", n)),
         Tc(Put("inter", n)), Tc(Com("inter")), Rel("kv16")>> >>

MmaWarp(n) ==
    << <<Wait("q")>> >>
    \o When(n > 1, MmaState(n))
    \o << <<Wait("k"), Acq("s"), Tc(Use("q", n)), Tc(Use("k", n)),
            Tc(Put("s", n)), Tc(Rel("q")), Tc(Com("s"))>>,
          <<Wait("v"), Wait("p"), Acq("intra"), Tc(Use("v", n)), Tc(Use("p", n)),
            Tc(Put("intra", n)), Rel("p"), Tc(Com("intra"))>>,
          <<Acq("kv"), Tc(Use("v", n)), Tc(Use("k", n))>>
             \o When(n > 1, <<Tc(Use("kv", n - 1))>>)
             \o <<Tc(Put("kv", n)), Tc(Rel("k")), Tc(Rel("v")), Tc(Com("kv"))>> >>

\* The sum of the chunks before, rounded to 16 bits.
RoundState(n) == <<
    <<Wait("kv"), Use("kv", n - 1), Rel("kv")>>,
    <<Acq("kv16"), Put("kv16", n - 1), Com("kv16")>> >>

CudaWarp(n) ==
    When(n > 1, RoundState(n))
    \o << <<Wait("s"), Use("s", n)>>,
          <<Acq("p"), Put("p", n), Rel("s"), Com("p")>>,
          <<Wait("intra"), Use("intra", n), Rel("intra")>> >>
    \o When(n > 1, << <<Wait("inter"), Use("inter", n), Rel("inter")>> >>)
    \o << <<Acq("o"), Put("o", n), Com("o")>> >>

EpilogueWarp(n) == << <<Wait("o"), Use("o", n)>>, <<Use("o", n), Rel("o")>> >>

Exit == << <<Com("exit")>>, <<Wait("exit")>> >>

Kernel(chunks) ==
    LET Loop(Body(_)) == Each(chunks, Body) \o Exit
    IN [ring |-> Rings,
        prog |-> [w \in CCs |-> Loop(CudaWarp)] @@
                 [load |-> Loop(LoadWarp), mma |-> Loop(MmaWarp),
                  epilogue |-> Loop(EpilogueWarp)],
        part |-> [cc1 |-> 1, cc2 |-> 2],
        left |-> {"mma"}]
=============================================================================
