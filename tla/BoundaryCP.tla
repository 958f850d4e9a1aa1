----------------------------- MODULE BoundaryCP -----------------------------
(***************************************************************************)
(* The fused Hopper forward with intra-card context parallelism: the gate  *)
(* of the wrapper (kda/hopper_fused_fwd_opt.py), the decision and the cut  *)
(* (kda/cp_context.py), and the pass that runs the recurrence over all     *)
(* tokens, one preprocess tile after another, and stores the state at the  *)
(* start of every piece (kda/cp_h_boundary.py).  The kernel on the pieces  *)
(* stores a final state only for the piece that ends its sequence.         *)
(*                                                                         *)
(* Sequences are non-empty.  Limits gives the code's literals.             *)
(***************************************************************************)
EXTENDS SplitCall

CONSTANTS
    HopperBatches,      \* the batches callers pass
    HeadCounts,         \* num_v_heads
    PreprocessTile,     \* CP_PREPROCESS_TILE_TOKENS
    MinLocalChunks,     \* 4
    Limits

\* What the literals provide: batches split for their heads alone are small,
\* and a dominant sequence makes a batch large.
ASSUME LimitsAssumption ==
    /\ \A f \in {"grid", "manyTokens", "oneTokens", "wideTokens", "fewHeads", "midHeads",
                 "wideHeads", "dominantHeads", "dominantLen"} : Limits[f] \in Nat
    /\ Limits.grid < 2 * (Limits.fewHeads + 1)
    /\ Limits.manyTokens <= Limits.dominantLen

\* A preprocess tile is a number of whole chunks (asserted by the tiled pass).
ASSUME TilesAssumption ==
    /\ MinLocalChunks \in Nat \ {0}
    /\ PreprocessTile \in Nat \ {0} /\ PreprocessTile % BT = 0

\* cu_seqlens does not decrease.
ASSUME BatchesAssumption ==
    /\ HeadCounts \subseteq Nat \ {0}
    /\ \A b \in HopperBatches :
          /\ b \in Seq(Nat) /\ Len(b) >= 2
          /\ \A i, j \in 1..Len(b) : i <= j => b[i] <= b[j]

\* It counts tokens from 0, and no sequence is empty: pieces that start in one
\* chunk would share its slot in the slot map.
ASSUME NonEmptyAssumption ==
    \A b \in HopperBatches : b[1] = 0 /\ \A i \in 1..NumSeqs(b) : b[i] < b[i + 1]

\* mode is auto_cp.
HopperCalls ==
    [path : {"hopper"}, cu : HopperBatches, mode : {"off", "auto"}, heads : HeadCounts,
     hasH0 : BOOLEAN, outputFinal : BOOLEAN]

H == call.heads
T == cu[N + 1]

-----------------------------------------------------------------------------
(* Whether to split *)

\* is_dominant_long_seq: a long sequence that holds half of the tokens
Dominant ==
    /\ H <= Limits.dominantHeads
    /\ \E i \in 1..N : SeqLen(cu, i) >= Limits.dominantLen /\ 2 * SeqLen(cu, i) >= T

\* Mutant of CpWouldFire: no single sequence with many heads.
CpWouldFireNarrow ==
    \/ N > 1 /\ N * H <= Limits.grid /\ T >= Limits.manyTokens
    \/ N = 1 /\ H <= Limits.midHeads /\ T >= Limits.oneTokens

\* cp_would_fire
CpWouldFire ==
    \/ N > 1 /\ N * H <= Limits.grid /\ T >= Limits.manyTokens
    \/ N > 1 /\ N * H > Limits.grid /\ H <= Limits.dominantHeads
             /\ T >= Limits.manyTokens /\ Dominant
    \/ N = 1 /\ H <= Limits.midHeads /\ T >= Limits.oneTokens
    \/ N = 1 /\ H <= Limits.wideHeads /\ T >= Limits.wideTokens

\* max_local_chunks: the power of two nearest on a log scale to the chunks of
\* an even share, which no power of two misses by exactly half: the largest
\* that is at most the root of 2 times the share.
LocalChunks ==
    LET share == Larger(1, Total(ChunkCounts) \div Larger(1, Sms \div H))
        power[k \in 0..share] == IF k = 0 THEN 1 ELSE 2 * power[k - 1]
        near == {k \in 0..share :
                    power[k] < 2 * share /\ power[k] * power[k] <= 2 * share * share}
    IN  Larger(power[Max(near)], MinLocalChunks)
Local == LocalChunks * BT       \* max_local_tokens

\* Pieces of Local tokens while more than one chunk beyond that remains.
PieceCount(i) ==
    IF ChunkCounts[i] > LocalChunks
    THEN 1 + Larger(0, CeilDiv(SeqLen(cu, i) - Local - BT, Local)) ELSE 1
Cuts ==
    FlattenSeq([i \in 1..N |-> [j \in 1..PieceCount(i) |-> cu[i] + (j - 1) * Local]])
        \o << T >>
\* seq_map_c2r: the sequence a piece belongs to
Owners == FlattenSeq([i \in 1..N |-> [j \in 1..PieceCount(i) |-> i]])

\* use_cp.  Be is the total of the chunks over the most of a sequence.
UseCp ==
    /\ \/ Total(ChunkCounts) * H <= Limits.batchHeads * MostChunks
       \/ Total(ChunkCounts) * H <= Limits.longBatchHeads * MostChunks
            /\ MostChunks >= Limits.longChunks
    /\ Len(Owners) # N
    /\ N = 1 => \/ H <= Limits.midHeads /\ T >= Limits.oneTokens
                \/ H <= Limits.wideHeads /\ T >= Limits.wideTokens
    /\ N > 1 => /\ \A i \in 1..N : SeqLen(cu, i) % BT = 0
                /\ N * H <= Limits.grid \/ Dominant
                /\ T * H > Limits.work
                /\ \/ H <= Limits.fewHeads /\ T >= Limits.manyTokens
                   \/ H > Limits.fewHeads /\ H <= Limits.midHeads /\ T >= Limits.oneTokens

-----------------------------------------------------------------------------
(* The boundary pass.  Chunks of the packed tokens count from 0. *)

\* _get_slot_map: the piece that starts with a chunk, 0 for none
SlotMap ==
    [c \in 0..(Chunks(T) - 1) |->
        Max({0} \cup {p \in DOMAIN tabs : cut[p] \div BT = c})]
\* _build_raw_seq_idx: pieces overwrite the chunks of those before
RawSeq(c) ==
    tabs[Max({p \in DOMAIN tabs : cut[p] \div BT <= c /\ c < CeilDiv(cut[p + 1], BT)})]

\* _inference_forward and intra_card_cp_preprocess up to the first launch
DecideHopper ==
    /\ pc = "decide" /\ call.path = "hopper"
    /\ IF call.mode = "auto" /\ CpWouldFire /\ UseCp
       THEN /\ pc' = "prescan" /\ UNCHANGED outcome
            /\ cut' = Cuts
            /\ tabs' = Owners
            /\ hm' = [tile |-> 0, exit |-> Bad]
            /\ merged' = [p \in DOMAIN Owners |-> Bad]
       ELSE Leave("serial") /\ UNCHANGED <<cut, tabs, hm, merged>>
    /\ UNCHANGED <<call, toMerge, first, h, last>>

\* h0_in: the state the kernel of a preprocess tile starts from
EntryState(c) ==
    IF N = 1 THEN (IF hm.tile = 0 THEN InitialStates[1] ELSE hm.exit)
    ELSE IF hm.tile > 0 /\ RawSeq(c) = RawSeq(c - 1) THEN hm.exit
    ELSE InitialStates[RawSeq(c)]

\* _kda_h_boundary_kernel on one preprocess tile: chunk after chunk, from the
\* initial state of the next sequence where one begins, storing the state
\* where a piece begins.  The last tile leaves no exit state.
ScanTile ==
    /\ pc = "prescan" /\ call.path = "hopper"
    /\ LET s     == hm.tile * PreprocessTile
           e     == Smaller(s + PreprocessTile, T)
           c0    == s \div BT
           chunk == [x \in 1..(CeilDiv(e, BT) - c0) |-> c0 + x - 1]
           enter(st, c) == IF N > 1 /\ c > c0 /\ RawSeq(c) # RawSeq(c - 1)
                           THEN InitialStates[RawSeq(c)] ELSE st
           after(st, c) == Advance(enter(st, c), c * BT, Smaller((c + 1) * BT, e))
           states[x \in 1..(Len(chunk) + 1)] ==
               IF x = 1 THEN EntryState(c0) ELSE after(states[x - 1], chunk[x - 1])
       IN  /\ merged' = [p \in DOMAIN merged |->
                  IF \E x \in DOMAIN chunk : SlotMap[chunk[x]] = p
                  THEN LET x == CHOOSE x \in DOMAIN chunk : SlotMap[chunk[x]] = p
                       IN  enter(states[x], chunk[x])
                  ELSE merged[p]]
           /\ IF e = T
              THEN pc' = "fwd" /\ UNCHANGED hm
              ELSE hm' = [tile |-> hm.tile + 1, exit |-> Last(states)] /\ UNCHANGED pc
    /\ UNCHANGED <<call, outcome, cut, tabs, toMerge, first, h, last>>

\* kda_fwd_prefill on the pieces, with cp_seq_map
RunPieces ==
    /\ pc = "fwd" /\ call.path = "hopper"
    /\ pc' = "done" /\ outcome' = "cp"
    /\ first' = merged
    /\ h' = FwdRows(cut, merged)
    /\ last' = IF call.outputFinal
               THEN [i \in 1..N |->
                        LET ends == {p \in DOMAIN tabs : tabs[p] = i /\ cut[p + 1] = cu[i + 1]}
                        IN  IF ends = {} THEN Bad ELSE FwdFinal(cut, merged)[Max(ends)]]
               ELSE <<>>
    /\ UNCHANGED <<call, cut, tabs, hm, merged, toMerge>>

\* kda_fwd_prefill on the sequences
RunWhole ==
    /\ pc = "serial" /\ call.path = "hopper"
    /\ pc' = "done" /\ outcome' = "serial"
    /\ h' = FwdRows(cu, InitialStates)
    /\ last' = IF call.outputFinal THEN FwdFinal(cu, InitialStates) ELSE <<>>
    /\ UNCHANGED <<call, cut, tabs, hm, merged, toMerge, first>>

HopperNext == DecideHopper \/ ScanTile \/ RunPieces \/ RunWhole

-----------------------------------------------------------------------------
\* The wrapper's gate, which reads lengths only, lets through every call the
\* split tables would split: "per-H T thresholds matching _calc_cp_seqs"
\* (hopper_fused_fwd_opt.py), two heuristics written apart.
GateMatches ==
    call.path = "hopper" /\ call.mode = "auto" /\ outcome = "serial" => ~UseCp
=============================================================================
