------------------------------ MODULE MtpDecode ------------------------------
(***************************************************************************)
(* Decoding of several drafted tokens of a sequence at once, token after   *)
(* token, in src/cula/ops/kda/decode: the recurrent kernels of mtp.py, and *)
(* those of mtp_conv.py that compute q, k and v by a short convolution     *)
(* first.  The state stays in registers; what the threads share goes       *)
(* through shared memory.                                                  *)
(***************************************************************************)
EXTENDS WarpProgram

Operands == [q |-> Buffer(1), k |-> Buffer(1), g |-> Buffer(1), beta |-> Buffer(1)]

\* The warp-specialised kernel: warp 0 prepares q, k and beta of all tokens,
\* every warp a part of the gates, and of v where it is staged.
Prepare(w) ==
    << <<Put("g", "all")>> >>
    \o When(w = "w0", << <<Fill("q", "all"), Fill("k", "all"), Fill("beta", "all")>> >>)

PreloadV(staged) == When(staged, << <<Put("v", "all")>> >>)

Recurrence(staged) ==
    << <<Use("q", "all"), Use("k", "all"), Use("g", "all"), Use("beta", "all")>>
       \o When(staged, <<Use("v", "all"), Put("o", "all")>>) >>

StoreMerged(staged) == When(staged, Sync \o << <<Use("o", "all")>> >>)

\* staged: v and o go through shared memory.
VerifyKernel(staged) ==
    LET Body(w) == Prepare(w) \o PreloadV(staged) \o Sync
                   \o Recurrence(staged) \o StoreMerged(staged)
    IN Block([v |-> Buffer(1), o |-> Buffer(1)] @@ Operands, Body)

-----------------------------------------------------------------------------
\* The kernel with one warp: every lane prepares some channels of a token and
\* needs all of them.  The halves are those of its lanes.
PrepareToken(t) == << <<Put("q", t), Put("k", t), Put("g", t)>> >>

UpdateToken(t) ==
    << <<Use("g", t), Use("k", t)>>, <<Use("k", t), Use("q", t)>> >> \o Sync

RecurrentKernel(tokens) ==
    LET Token(t) == PrepareToken(t) \o Sync \o UpdateToken(t)
        Body(w) == Each(tokens, Token)
    IN Block(Operands, Body)

-----------------------------------------------------------------------------
(***************************************************************************)
(* Small batches: warp 0 convolves token after token into two slots, warp  *)
(* 1 updates the state.  full and empty are named barriers of both warps:  *)
(* the one that waits arrives too, so two arrivals make a phase.           *)
(***************************************************************************)
HandOver == [q |-> Buffer(2), k |-> Buffer(2), v |-> Buffer(2),
             full |-> Ring(2, 2, 0), empty |-> Ring(2, 2, 0)]

Slot(t, o) == At((t - 1) % 2, o)

\* The first two tokens find their slots free.
Convolve(t) ==
    When(t > 2, << <<Com("empty")>>, <<Wait("empty")>> >>)
    \o << <<Slot(t, Put("q", t)), Slot(t, Put("k", t)), Slot(t, Put("v", t)),
            Com("full")>> >>

Consume(t) ==
    << <<Com("full")>>,
       <<Wait("full"), Slot(t, UseMine("q", t)), Slot(t, UseMine("k", t)),
         Slot(t, UseMine("v", t)), Com("empty")>> >>

SmallBatchKernel(tokens) ==
    [ring |-> HandOver,
     prog |-> [producer |-> Each(tokens, Convolve), consumer |-> Each(tokens, Consume)],
     part |-> [producer |-> 1, consumer |-> 1]]

-----------------------------------------------------------------------------
\* Large batches: each warp convolves some of the tokens and computes their
\* gates, then each updates some columns of the state, for all tokens.
ConvolveSome ==
    << <<Put("q", "all"), Put("k", "all"), Put("g", "all"), Put("beta", "all")>> >>

LargeBatchKernel ==
    LET Body(w) == ConvolveSome \o Sync \o Recurrence(FALSE)
    IN Block(Operands, Body)
=============================================================================
