----------------------------- MODULE SegmentCP -----------------------------
(***************************************************************************)
(* FlashKDA prefill on SM90 with intra-card context parallelism: the plan  *)
(* (sm90/cp/plan.py), the tile tables (sm90/fwd.py), pre-scan, merge and   *)
(* the recurrence kernel K2 on the segments (sm90/cp/driver.py), and the   *)
(* serial K2.  Pieces are segments: runs of whole tiles of BT tokens, so   *)
(* cut counts tiles here, and a tile says itself which tokens it holds.    *)
(***************************************************************************)
EXTENDS SplitCall

CONSTANTS
    Sm90Batches,        \* the batches callers pass
    AutoMinTiles,       \* AUTO_MIN_SEG_TILES
    ManualMinTiles,     \* MIN_SEG_TILES
    ManualSplits,       \* s_split of direct callers
    RerunRatio          \* RERUN_RATIO

ASSUME Sm90Assumption ==
    /\ AutoMinTiles \in Nat \ {0} /\ ManualMinTiles \in Nat \ {0}
    /\ ManualSplits \subseteq Nat \ {0}

\* cu_seqlens counts tokens from 0 and does not decrease.
ASSUME Sm90BatchesAssumption ==
    \A b \in Sm90Batches :
        /\ b \in Seq(Nat) /\ Len(b) >= 2 /\ b[1] = 0
        /\ \A i, j \in 1..Len(b) : i <= j => b[i] <= b[j]

EqualLengths(batch) == \A i \in 1..NumSeqs(batch) : SeqLen(batch, i) = SeqLen(batch, 1)

\* dense: a [B, T] call without cu_seqlens.  split: s_split, 0 for None.
Sm90Calls ==
    {c \in [path : {"sm90"}, cu : Sm90Batches, dense : BOOLEAN, mode : Modes,
            split : ManualSplits \cup {0}, hasH0 : BOOLEAN, outputFinal : BOOLEAN] :
        /\ c.dense => EqualLengths(c.cu) /\ SeqLen(c.cu, 1) > 0
        /\ c.split # 0 => c.mode # "off"}

-----------------------------------------------------------------------------
(* The plan *)

Tiles == Total(ChunkCounts)
ParallelSegs == Larger(1, Sms \div Heads)
LoadBound == CeilDiv(Tiles, ParallelSegs)

\* split_balanced
BalancedSegs(tiles) ==
    Larger(1, Smaller(CeilDiv(tiles, Larger(AutoMinTiles, LoadBound)), tiles \div AutoMinTiles))
\* plan_manual
ManualSegs(tiles) == Larger(1, Smaller(call.split, tiles \div ManualMinTiles))

SegCounts ==
    [i \in 1..N |-> IF call.split = 0 THEN BalancedSegs(ChunkCounts[i])
                                      ELSE ManualSegs(ChunkCounts[i])]
Trivial == Total(SegCounts) <= N

\* _materialize: the first tiles % n segments of a sequence are one longer.
SegTiles ==
    FlattenSeq([i \in 1..N |->
        [j \in 1..SegCounts[i] |->
            ChunkCounts[i] \div SegCounts[i]
              + (IF j <= ChunkCounts[i] % SegCounts[i] THEN 1 ELSE 0)]])

\* Where each of the runs of tiles starts, and where the last ends.
Offsets(runs) == [p \in 1..(Len(runs) + 1) |-> Total(SubSeq(runs, 1, p - 1))]

\* plan_auto: the critical path shrinks enough to pay for scanning twice.
Pays ==
    Larger(MostChunks, LoadBound)
        >= RerunRatio * Larger(Max({SegTiles[p] : p \in DOMAIN SegTiles}), LoadBound)

-----------------------------------------------------------------------------
(* The tiles *)

NeedsPadding == \E i \in 1..N : SeqLen(cu, i) % BT # 0

\* _get_or_build_varlen_metadata: tile_starts and tile_actual_lens
TileStarts ==
    FlattenSeq([i \in 1..N |-> [c \in 1..ChunkCounts[i] |-> cu[i] + (c - 1) * BT]])
TileLens ==
    FlattenSeq([i \in 1..N |->
        [c \in 1..ChunkCounts[i] |-> Smaller(BT, SeqLen(cu, i) - (c - 1) * BT)]])

\* The tokens of tile t, counting from 0.  Packed sequences of whole tiles need
\* no table; dense sequences are padded to whole tiles with tokens that leave
\* the state alone (_run_padded_dense).
TileRange(t) ==
    IF call.dense
    THEN LET perSeq == ChunkCounts[1]
             s == cu[t \div perSeq + 1] + (t % perSeq) * BT
         IN  <<s, Smaller(s + BT, cu[t \div perSeq + 2])>>
    ELSE IF NeedsPadding
    THEN <<TileStarts[t + 1], TileStarts[t + 1] + TileLens[t + 1]>>
    ELSE <<t * BT, (t + 1) * BT>>

\* What the kernels read for run p of a layout: v advances by whole tiles
\* from the start of the run's first tile, the other operands tile by tile.
RunRanges(layout, p) ==
    [x \in 1..(layout[p + 1] - layout[p]) |->
        LET t == layout[p] + x - 1
        IN  IF TileRange(t)[1] = TileRange(layout[p])[1] + (x - 1) * BT
            THEN TileRange(t) ELSE Bad]

\* launch_k2 on the runs of a layout in a launch order: the states before the
\* tiles, and the final state of every run.
LongestFirst(layout, ps) ==
    LET size(p) == layout[p + 1] - layout[p]
        sooner(p) == {r \in ps : size(r) > size(p) \/ (size(r) = size(p) /\ r < p)}
    IN  [slot \in 1..Cardinality(ps) |-> CHOOSE p \in ps : Cardinality(sooner(p)) = slot - 1]
K2Traces(layout, order, inits) ==
    [p \in 1..NumSeqs(layout) |->
        IF p \in Range(order) THEN Along(RunRanges(layout, p), inits[p]) ELSE <<Bad, Bad>>]
K2Rows(traces) == FlattenSeq([p \in DOMAIN traces |-> Front(traces[p])])

-----------------------------------------------------------------------------
\* _forward_impl and intracard_prefill up to the launch of the pre-scan
PlanSegments ==
    /\ pc = "decide" /\ call.path = "sm90"
    /\ IF ~call.dense /\ \E i \in 1..N : SeqLen(cu, i) <= 0
       THEN Raise("ValueError") /\ UNCHANGED <<cut, tabs>>
       ELSE IF call.mode = "off"
       THEN Leave("serial") /\ UNCHANGED <<cut, tabs>>
       ELSE IF Trivial
       THEN Leave(Declined) /\ UNCHANGED <<cut, tabs>>
       ELSE IF call.mode = "auto" /\ call.split = 0 /\ ~Pays
       THEN Leave("serial") /\ UNCHANGED <<cut, tabs>>
       ELSE /\ pc' = "prescan"
            /\ cut' = Offsets(SegTiles)
            /\ tabs' = [firsts |-> [i \in 1..N |-> Offsets(SegCounts)[i] + 1],
                        counts |-> SegCounts]
            /\ UNCHANGED outcome
    /\ UNCHANGED <<call, hm, merged, toMerge, first, h, last>>

LastSegs == {tabs.firsts[i] + tabs.counts[i] - 1 : i \in 1..N}

\* launch_pre_scan skips the last segment of every sequence, whose rows of the
\* scratch buffers keep what an earlier call left; then launch_merge.
ScanSegments ==
    /\ pc = "prescan" /\ call.path = "sm90"
    /\ pc' = "merge"
    /\ LET order == LongestFirst(cut, (1..NumSeqs(cut)) \ LastSegs)
       IN  hm' = [p \in 1..NumSeqs(cut) |->
                     IF p \in Range(order) THEN RunRanges(cut, p) ELSE <<Bad>>]
    /\ merged' = [p \in 1..NumSeqs(cut) |-> Bad]
    /\ toMerge' = 1..N
    /\ UNCHANGED <<call, outcome, cut, tabs, first, h, last>>

\* The merge block of a sequence: the carry into each of its segments.
MergeSegments(i) ==
    /\ pc = "merge" /\ call.path = "sm90" /\ i \in toMerge
    /\ LET carries[j \in 1..tabs.counts[i]] ==
               IF j = 1 THEN InitialStates[i]
               ELSE Last(Along(hm[tabs.firsts[i] + j - 2], carries[j - 1]))
       IN  merged' = [p \in DOMAIN merged |->
                         IF p - tabs.firsts[i] \in 0..(tabs.counts[i] - 1)
                         THEN carries[p - tabs.firsts[i] + 1] ELSE merged[p]]
    /\ toMerge' = toMerge \ {i}
    /\ UNCHANGED <<call, pc, outcome, cut, tabs, hm, first, h, last>>

\* K2 on the segments, and the final state of each sequence's last segment.
RunSegments ==
    /\ pc = "merge" /\ call.path = "sm90" /\ toMerge = {}
    /\ pc' = "done" /\ outcome' = "cp"
    /\ first' = merged
    /\ LET traces == K2Traces(cut, LongestFirst(cut, 1..NumSeqs(cut)), merged)
       IN  /\ h' = K2Rows(traces)
           /\ last' = IF call.outputFinal
                      THEN [i \in 1..N |-> Last(traces[tabs.firsts[i] + tabs.counts[i] - 1])]
                      ELSE <<>>
    /\ UNCHANGED <<call, cut, tabs, hm, merged, toMerge>>

\* flash_kda_fwd: one run per sequence.  Without padding the runs are the
\* packed tokens counted in tiles.
RunSerial ==
    /\ pc = "serial" /\ call.path = "sm90"
    /\ pc' = "done" /\ outcome' = "serial"
    /\ LET runs   == IF call.dense \/ NeedsPadding THEN Offsets(ChunkCounts)
                     ELSE [i \in 1..(N + 1) |-> cu[i] \div BT]
           traces == K2Traces(runs, [i \in 1..N |-> i], InitialStates)
       IN  /\ h' = K2Rows(traces)
           /\ last' = IF call.outputFinal THEN [i \in 1..N |-> Last(traces[i])] ELSE <<>>
    /\ UNCHANGED <<call, cut, tabs, hm, merged, toMerge, first>>

Sm90Next ==
    \/ PlanSegments \/ ScanSegments
    \/ \E i \in toMerge : MergeSegments(i)
    \/ RunSegments \/ RunSerial
=============================================================================
