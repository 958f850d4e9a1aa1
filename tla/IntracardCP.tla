---------------------------- MODULE IntracardCP ----------------------------
(***************************************************************************)
(* chunk_gated_delta_rule_fwd_h on SM100 with intra-card context           *)
(* parallelism: the decision (policy.py), the split and its index tables,  *)
(* pre-scan, merge, scatter, the recurrence on the pieces, gather          *)
(* (cp/chunk_delta_h.py, cp/merge.py), and the fallback to the serial      *)
(* kernel (delta_h.py).                                                    *)
(***************************************************************************)
EXTENDS SplitCall

CONSTANTS
    NumVBlocks,         \* NUM_V_BLOCKS: thread blocks per head and sequence
    ShortSeqChunks,     \* below it compute_subseq_len does not split (8)
    MinSubseqChunks,    \* MIN_SUBSEQ_CHUNKS
    MinLongSeqChunks,   \* MIN_LONG_SEQ_CHUNKS
    MaxBeH,             \* MAX_BE_H
    MinChunksPerHead,   \* MIN_SUBSEQ_CHUNKS_PER_HEAD
    MaxSplits,          \* max_splits
    Batches             \* the cu_seqlens callers pass

\* What the code's literals and the tensors' shapes provide.
ASSUME SplitAssumption ==
    /\ BT \in Nat \ {0} /\ NumVBlocks \in Nat \ {0} /\ Heads \in Nat \ {0}
    /\ Sms \in Nat \ {0} /\ MaxSplits \in Nat \ {0}
    /\ ShortSeqChunks \in Nat /\ MinSubseqChunks \in Nat \ {0}
    /\ MinLongSeqChunks \in Nat \ {0} /\ MaxBeH \in Nat
    /\ MinChunksPerHead \in Nat

\* cu_seqlens counts tokens from 0 and does not decrease.
ASSUME Sm100BatchesAssumption ==
    \A b \in Batches :
        /\ b \in Seq(Nat) /\ Len(b) >= 1 /\ b[1] = 0
        /\ \A i, j \in 1..Len(b) : i <= j => b[i] <= b[j]

\* Properties of a call intra-card CP refuses: no cu_seqlens, g, not inference.
Misfits == {"none", "fixed_length", "scalar_gate", "training"}
Sm100Calls ==
    [path : {"sm100"}, cu : Batches, mode : Modes, misfit : Misfits,
     hasH0 : BOOLEAN, outputFinal : BOOLEAN]

-----------------------------------------------------------------------------
(***************************************************************************)
(* The arithmetic of the split: whether a batch is worth splitting, how    *)
(* long a sub-sequence should be, and where a sequence is cut.             *)
(***************************************************************************)
\* Thread blocks one (sub-)sequence occupies.
PerSeqUnits == NumVBlocks * Heads

\* Mutant of TargetSplits: rounded up.
TargetSplitsUp(n) ==
    LET budget == Larger(Sms - PerSeqUnits * Larger(n - 1, 0), PerSeqUnits)
    IN  Larger(2, CeilDiv(budget, PerSeqUnits))

\* compute_subseq_len: splits that fill the SMs the other sequences leave
TargetSplits(n) ==
    LET budget == Larger(Sms - PerSeqUnits * Larger(n - 1, 0), PerSeqUnits)
    IN  Larger(2, budget \div PerSeqUnits)

SubseqChunks(chunks, n) ==
    Larger(CeilDiv(chunks, TargetSplits(n)), MinSubseqChunks)

SubseqLen(maxLen, n) ==
    IF Chunks(maxLen) < ShortSeqChunks
    THEN maxLen
    ELSE SubseqChunks(Chunks(maxLen), n) * BT

\* prepare_subseq_cu_seqlens, one sequence: split from three sub-sequences
\* on, into at most MaxSplits pieces of equally many chunks.
Splits(len, ssl) == len >= 3 * ssl

NumSubseqs(len, ssl) ==
    IF Splits(len, ssl)
    THEN Smaller(MaxSplits, CeilDiv(Chunks(len), Chunks(ssl)))
    ELSE 1

PieceLen(len, ssl) == CeilDiv(Chunks(len), NumSubseqs(len, ssl)) * BT

\* The end of piece j of the sequence that holds tokens s .. e - 1.
Cut(s, e, ssl, j) ==
    IF Splits(e - s, ssl) THEN Smaller(s + j * PieceLen(e - s, ssl), e) ELSE e

-----------------------------------------------------------------------------
(* The decision *)

\* should_use_intracard_cp.  Be * H > MAX_BE_H is multiplied out.
ShouldUse ==
    /\ N # 0
    /\ PerSeqUnits * N < Sms
    /\ MostChunks >= MinLongSeqChunks
    /\ Total(ChunkCounts) * Heads <= MaxBeH * MostChunks
    /\ SubseqChunks(MostChunks, N) >= MinChunksPerHead * Heads

\* Mutant of NotSplit: the exception of an automatic call is not caught.
NotSplitRaises == "NotSplittableError"

\* intracard_fwd_h found nothing to split, or pieces that do not fit.
NotSplit == IF call.mode = "force" THEN "NotSplittableError" ELSE "serial"

-----------------------------------------------------------------------------
(* The split *)

Ssl == SubseqLen(Max({SeqLen(cu, i) : i \in 1..N}), N)
Counts == [i \in 1..N |-> NumSubseqs(SeqLen(cu, i), Ssl)]
Before(i) == Total([k \in 1..(i - 1) |-> Counts[k]])
Split == {i \in 1..N : Splits(SeqLen(cu, i), Ssl)}
\* split_seq_ids, in ascending order
SplitIds ==
    CHOOSE s \in [1..Cardinality(Split) -> Split] :
        \A q, r \in DOMAIN s : q < r => s[q] < s[r]

\* The split divides by the chunks of a sub-sequence.
DividesByZero == Split # {} /\ Chunks(Ssl) = 0

Boundaries ==
    <<0>> \o FlattenSeq([i \in 1..N |->
                 [j \in 1..Counts[i] |-> Cut(cu[i], cu[i + 1], Ssl, j)]])

\* Mutant of Starts: offsets among the pieces of split sequences only.
StartsAmongSplit ==
    [q \in DOMAIN SplitIds |->
        Total([r \in 1..(q - 1) |-> Counts[SplitIds[r]]]) + 1]

\* merge_seq_starts: where the pieces of a split sequence start among all
Starts == [q \in DOMAIN SplitIds |-> Before(SplitIds[q]) + 1]

\* _precompute_intracard_indices.  Indices count from 1, offsets from 0.
Indices ==
    LET counts == [q \in DOMAIN SplitIds |-> Counts[SplitIds[q]]]
    IN  [starts   |-> Starts,
         counts   |-> counts,
         ids      |-> SplitIds,
         offsets  |-> [q \in DOMAIN SplitIds |->
                          Total([r \in 1..(q - 1) |-> counts[r] - 1])],
         nonFirst |-> FlattenSeq([q \in DOMAIN SplitIds |->
                          [j \in 1..(counts[q] - 1) |-> Starts[q] + j]]),
         firsts   |-> [i \in 1..N |-> Before(i) + 1],
         lasts    |-> [i \in 1..N |-> Before(i + 1)]]

-----------------------------------------------------------------------------
\* sm100_intracard_cp_decision
Decide ==
    /\ pc = "decide" /\ call.path = "sm100"
    /\ IF call.mode = "off" THEN Leave("serial")
       ELSE IF call.misfit # "none" THEN Leave(Declined)
       ELSE IF call.mode = "force" \/ ShouldUse
            THEN pc' = "plan" /\ UNCHANGED outcome
            ELSE Leave("serial")
    /\ UNCHANGED <<call, cut, tabs, hm, merged, toMerge, first, h, last>>

\* intracard_fwd_h up to the launch of the pre-scan
Plan ==
    /\ pc = "plan" /\ call.path = "sm100"
    /\ IF DividesByZero
       THEN Raise("ZeroDivisionError") /\ UNCHANGED <<cut, tabs>>
       ELSE IF Split = {} \/ Total(Counts) * PerSeqUnits > Sms
       THEN Leave(NotSplit) /\ UNCHANGED <<cut, tabs>>
       ELSE /\ pc' = "prescan"
            /\ cut' = Boundaries
            /\ tabs' = Indices
            /\ UNCHANGED outcome
    /\ UNCHANGED <<call, hm, merged, toMerge, first, h, last>>

\* The pre-scan kernel; merge kernel launched with one block per split sequence.
PreScan ==
    /\ pc = "prescan" /\ call.path = "sm100"
    /\ pc' = "merge"
    /\ hm' = [p \in 1..NumSeqs(cut) |-> <<cut[p], cut[p + 1]>>]
    /\ merged' = [x \in DOMAIN tabs.nonFirst |-> Bad]
    /\ toMerge' = DOMAIN tabs.ids
    /\ UNCHANGED <<call, outcome, cut, tabs, first, h, last>>

\* new_b_h = m @ b_h + he along the pieces of a split sequence.
Carry(q) ==
    LET row(x) == hm[tabs.starts[q] + x - 1]
        at[x \in 1..(tabs.counts[q] + 1)] ==
            IF x = 1 THEN InitialStates[tabs.ids[q]]
            ELSE Last(Trace(row(x - 1)[1], row(x - 1)[2], at[x - 1]))
    IN  at

MergeBlock(q) ==
    /\ pc = "merge" /\ call.path = "sm100" /\ q \in toMerge
    /\ LET carry == Carry(q)
           base  == tabs.offsets[q]
       IN  merged' = [x \in DOMAIN merged |->
                         IF x - base \in 1..(tabs.counts[q] - 1)
                         THEN carry[x - base + 1] ELSE merged[x]]
    /\ toMerge' = toMerge \ {q}
    /\ UNCHANGED <<call, pc, outcome, cut, tabs, hm, first, h, last>>

\* _scatter_initial_states
Scatter ==
    /\ pc = "merge" /\ call.path = "sm100" /\ toMerge = {}
    /\ pc' = "fwd"
    /\ first' = [p \in 1..NumSeqs(cut) |->
           LET given   == {i \in 1..N : tabs.firsts[i] = p}
               carried == {k \in DOMAIN merged : tabs.nonFirst[k] = p}
           IN  IF carried # {} THEN merged[Max(carried)]
               ELSE IF call.hasH0 /\ given # {} THEN InitialStates[Max(given)]
               ELSE Zero]
    /\ UNCHANGED <<call, outcome, cut, tabs, hm, merged, toMerge, h, last>>

\* The recurrence on the pieces, and _gather_final_states.
FwdPieces ==
    /\ pc = "fwd" /\ call.path = "sm100"
    /\ pc' = "done" /\ outcome' = "cp"
    /\ h' = FwdRows(cut, first)
    /\ last' = IF call.outputFinal
               THEN [i \in 1..N |-> FwdFinal(cut, first)[tabs.lasts[i]]]
               ELSE <<>>
    /\ UNCHANGED <<call, cut, tabs, hm, merged, toMerge, first>>

\* The body of chunk_gated_delta_rule_fwd_h
Serial ==
    /\ pc = "serial" /\ call.path = "sm100"
    /\ pc' = "done" /\ outcome' = "serial"
    /\ h' = FwdRows(cu, InitialStates)
    /\ last' = IF call.outputFinal THEN FwdFinal(cu, InitialStates) ELSE <<>>
    /\ UNCHANGED <<call, cut, tabs, hm, merged, toMerge, first>>

Sm100Next ==
    \/ Decide \/ Plan \/ PreScan
    \/ \E q \in toMerge : MergeBlock(q)
    \/ Scatter \/ FwdPieces \/ Serial

-----------------------------------------------------------------------------
(* Properties *)

\* A batch of which one sequence is split is not refused for occupancy: the
\* pieces and the other sequences fit on the SMs (docstring of
\* compute_subseq_len).
SingleSplitFits ==
    call.path = "sm100" /\ outcome = "NotSplittableError" /\ call.misfit = "none"
        => Cardinality(Split) # 1
=============================================================================
