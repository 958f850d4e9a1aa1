----------------------------- MODULE SplitCall -----------------------------
(***************************************************************************)
(* A prefill call that may split its sequences into pieces, whichever      *)
(* backend runs it: some pass finds the state before every piece, then the *)
(* recurrence kernel takes the pieces for sequences.  The backends         *)
(* (IntracardCP, SegmentCP, BoundaryCP) share the variables.               *)
(*                                                                         *)
(* A state is named by how it came about: After(i, t) is the initial state *)
(* of sequence i taken serially through the chunks of i before token t.    *)
(* Whatever does not arise that way is Bad.                                *)
(***************************************************************************)
EXTENDS CuSeqlens, SequencesExt

VARIABLES
    call,       \* the arguments
    pc,         \* what the host does next
    outcome,    \* how the call ended
    cut,        \* the cu_seqlens of the pieces
    tabs,       \* the index tables
    hm,         \* what the pass before the recurrence has computed
    merged,     \* the states it has found for the pieces
    toMerge,    \* sequences whose merge block has not run
    first,      \* the initial states the recurrence is given
    h,          \* the states before every chunk, in order
    last        \* final states

vars == <<call, pc, outcome, cut, tabs, hm, merged, toMerge, first, h, last>>

cu == call.cu
N == NumSeqs(cu)
Bad == <<-1, -1>>
Zero == <<0, 0>>
After(i, t) == IF t = cu[i] /\ ~call.hasH0 THEN Zero ELSE <<i, t>>

\* The recurrence over the chunk of tokens a .. b - 1.
Advance(st, a, b) ==
    LET here == {i \in 1..N :
                    /\ cu[i] <= a /\ a < cu[i + 1] /\ (a - cu[i]) % BT = 0
                    /\ b = Smaller(a + BT, cu[i + 1]) /\ st = After(i, a)}
    IN  IF here = {} THEN Bad ELSE After(CHOOSE i \in here : TRUE, b)

\* The states before the chunks of the token ranges, one after another, and
\* after the last of them.
Along(ranges, st) ==
    LET at[x \in 1..(Len(ranges) + 1)] ==
            IF x = 1 THEN st ELSE Advance(at[x - 1], ranges[x - 1][1], ranges[x - 1][2])
    IN  at

\* The chunks of the tokens s .. e - 1.
ChunkRanges(s, e) ==
    [c \in 1 .. Chunks(e - s) |-> <<s + (c - 1) * BT, Smaller(s + c * BT, e)>>]
Trace(s, e, st) == Along(ChunkRanges(s, e), st)

\* The recurrence kernel on the sequences of a layout: h holds one row per
\* chunk, at the offset of the chunks of the sequences before.
FwdRows(layout, inits) ==
    FlattenSeq([p \in 1..NumSeqs(layout) |->
                   Front(Trace(layout[p], layout[p + 1], inits[p]))])
FwdFinal(layout, inits) ==
    [p \in 1..NumSeqs(layout) |->
        Last(Trace(layout[p], layout[p + 1], inits[p]))]

InitialStates == [i \in 1..N |-> After(i, cu[i])]

Modes == {"off", "auto", "force"}

Total(s) == FoldFunction(LAMBDA x, y : x + y, 0, s)
ChunkCounts == [i \in 1..N |-> Chunks(SeqLen(cu, i))]
MostChunks == Max({ChunkCounts[i] : i \in 1..N})

Begin(calls) ==
    /\ call \in calls
    /\ pc = "decide" /\ outcome = "none"
    /\ cut = <<>> /\ tabs = <<>>
    /\ hm = <<>> /\ merged = <<>> /\ toMerge = {} /\ first = <<>>
    /\ h = <<>> /\ last = <<>>

Raise(error) == pc' = "done" /\ outcome' = error
Leave(where) ==
    IF where = "serial" THEN pc' = "serial" /\ UNCHANGED outcome ELSE Raise(where)

\* What becomes of a call that is not split.
Declined == IF call.mode = "force" THEN "NotSplittableError" ELSE "serial"

Done == pc = "done" /\ UNCHANGED vars

-----------------------------------------------------------------------------
\* What the serial recurrence returns, by definition.
SerialRows ==
    FlattenSeq([i \in 1..N |->
        [c \in 1..Chunks(SeqLen(cu, i)) |-> After(i, cu[i] + (c - 1) * BT)]])
SerialFinal == [i \in 1..N |-> After(i, cu[i + 1])]

\* A call that returns gives the states of the serial recurrence, whatever
\* was split, in whatever order the blocks of the merge kernel ran: every
\* piece starts from the state of the tokens before it, h has its rows in
\* the unsplit layout, and each sequence gets the final state of its own
\* last piece.
CpIsSerial ==
    outcome \in {"cp", "serial"} =>
        /\ h = SerialRows
        /\ last = IF call.outputFinal THEN SerialFinal ELSE <<>>

\* Only a forced call fails for want of pieces, and it never falls back to the
\* serial kernel unnoticed; the automatic mode meets no shape its heuristic
\* lets through that the split cannot handle.
ModeKept ==
    /\ outcome \in {"NotSplittableError", "ZeroDivisionError"} => call.mode = "force"
    /\ outcome = "serial" => call.mode # "force"

\* A forced call with valid arguments runs the split or raises
\* NotSplittableError (CPMode).
ForceAnswers ==
    call.mode = "force" => outcome \in {"none", "cp", "NotSplittableError", "ValueError"}
=============================================================================
