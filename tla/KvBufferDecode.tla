--------------------------- MODULE KvBufferDecode ---------------------------
(***************************************************************************)
(* Verification of drafted tokens in chunkwise form, with the raw keys,    *)
(* gates and corrections kept for a later flush: the kernels of            *)
(* src/cula/ops/kda/decode/mtp_kvbuffer.py and mtp_conv_kvbuffer.py.       *)
(*                                                                         *)
(* A buffer of all tokens and channels has a stage for the tokens and a    *)
(* part for the channels of each half of the warps: the warps work token   *)
(* by token (Rows) and then channel by channel (Columns) on the same data. *)
(***************************************************************************)
EXTENDS WarpProgram

Rings == [k |-> Buffer(2), q |-> Buffer(2), g |-> Buffer(2), beta |-> Buffer(2),
          kn |-> Buffer(2), brun |-> Buffer(2), suf |-> Buffer(2), last |-> Buffer(1),
          A |-> Buffer(1), P |-> Buffer(1), inv |-> Buffer(1), part |-> Buffer(1),
          x |-> Buffer(1), u |-> Buffer(1), s0 |-> Buffer(1)]

Rows(w, o) == At(IF w = "w0" THEN 0 ELSE 1, o)
Columns(o) == <<At(0, o), At(1, o)>>
All(r, x) == Columns(Use(r, x))

\* q, k, the gates and beta of the tokens of a warp.
PrepareTokens(w) ==
    << <<Rows(w, Fill("k", "norm")), Rows(w, Fill("q", "norm")),
         Rows(w, Fill("g", "gate")), Rows(w, Fill("beta", "beta"))>> >>

\* Running products of the gates: a thread has a channel.
Accumulate ==
    << Columns(UseMine("g", "gate")) \o Columns(UseMine("k", "norm"))
       \o Columns(Put("k", "decayed")) \o Columns(Put("kn", "norm"))
       \o Columns(Put("brun", "prefix")) >>

\* The products of all pairs of tokens, shared out among the warps.
Pairs(keys) ==
    << All(keys, "norm") \o All("q", "norm") \o All("g", "gate")
       \o <<Put("A", "kk"), Put("P", "qk")>> >>

Correct(w) == When(w = "w0", << <<Use("A", "kk")>> \o All("beta", "beta") \o <<Fill("inv", "W")>> >>)

\* The rows of the state stay in registers.
StateRows ==
    << All("k", "decayed") \o <<Use("inv", "W"), Use("P", "qk")>> \o All("q", "norm")
       \o All("brun", "prefix") \o All("kn", "norm") \o All("g", "gate") >>

ShuffleKernel ==
    LET Body(w) == PrepareTokens(w) \o Sync \o Accumulate \o Sync \o Pairs("kn") \o Sync
                   \o Correct(w) \o Sync \o StateRows
    IN Block(Rings, Body)

-----------------------------------------------------------------------------
\* The kernel on tensor cores.  It keeps no copy of the keys, so the products
\* of pairs come before the gates are multiplied into them.
ScatterPairs(w) ==
    Pairs("k") \o When(w = "w0", << <<Fill("A", "zero"), Fill("P", "zero")>> >>) \o Sync
    \o << All("beta", "beta") \o <<Put("A", "L"), Put("P", "qk")>> >>

DecayInPlace ==
    Sync \o << Columns(UseMine("g", "gate")) \o Columns(UseMine("k", "norm"))
               \o Columns(Put("suf", "suffix")) \o Columns(Put("k", "decayed"))
               \o Columns(Put("q", "decayed")) \o <<Put("last", "prefix")>> >>

\* inv is I + L at first; L is squared and multiplied into it three times.
Double(w, n) ==
    << <<Use("inv", n - 1), Put("part", n)>> >> \o Sync
    \o When(w = "w0", << <<Use("part", n), Use("inv", n - 1), Fill("inv", n)>> >>) \o Sync

Invert(w) ==
    LET DoubleAt(n) == Double(w, n)
    IN When(w = "w0", << <<Use("A", "L"), Fill("inv", 0)>> >>) \o Sync \o Each(3, DoubleAt)

StageState(b) == << <<Fill("s0", b)>> >>

\* Tensor cores multiply k and q with a block of the state; each warp has the
\* columns of x and u that it needs again.
CorrectBlock(b) ==
    << All("k", "decayed") \o All("q", "decayed") \o <<Use("s0", b)>> \o All("beta", "beta")
       \o <<Put("x", <<b, "x">>)>> >> \o Sync
    \o << <<UseMine("x", <<b, "x">>), Use("inv", 3), Put("u", <<b, "u">>)>> >> \o Sync

\* The new state takes u of other warps too.
UpdateBlock(b) ==
    << <<Use("P", "qk"), UseMine("u", <<b, "u">>)>>,
       <<Use("u", <<b, "u">>), Use("last", "prefix"), Use("s0", b)>> \o All("suf", "suffix") >> \o Sync

Corrected(w) == ScatterPairs(w) \o DecayInPlace \o Invert(w)

TensorCoreKernel(blocks) ==
    LET BlockOf(b) == StageState(b) \o Sync \o CorrectBlock(b) \o UpdateBlock(b)
        Body(w) == PrepareTokens(w) \o Sync \o Corrected(w) \o Each(blocks, BlockOf)
    IN Block(Rings, Body)

-----------------------------------------------------------------------------
(***************************************************************************)
(* With the short convolution in front: w0 convolves k and w1 q, channel   *)
(* by channel; the tokens are normalised by the first warp group.  A block *)
(* of v is convolved into x, and the history it leaves is kept in u until  *)
(* nobody reads the old one any more.                                      *)
(***************************************************************************)
ConvolveQK(w) ==
    IF w = "w0" THEN << Columns(Fill("k", "conv")) >> ELSE << Columns(Fill("q", "conv")) >>

NormalizeTokens(w) ==
    << <<Rows(w, Use("k", "conv")), Rows(w, Use("q", "conv"))>>
       \o PrepareTokens(w)[1] >>

ConvolveV(b) == << <<Fill("x", <<b, "v">>), Fill("u", <<b, "history">>)>> >>

KeepHistory(b) == << <<UseMine("u", <<b, "history">>)>>, <<UseMine("x", <<b, "v">>)>> >>

ConvKernel(blocks) ==
    LET BlockOf(b) == ConvolveV(b) \o StageState(b) \o Sync \o KeepHistory(b)
                      \o CorrectBlock(b) \o UpdateBlock(b)
        Body(w) == ConvolveQK(w) \o Sync \o NormalizeTokens(w) \o Sync
                   \o Corrected(w) \o Each(blocks, BlockOf)
    IN Block(Rings, Body)
=============================================================================
