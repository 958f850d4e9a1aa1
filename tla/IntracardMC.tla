---------------------------- MODULE IntracardMC ----------------------------
(* Instances of SplitPrefill for TLC. *)
EXTENDS SplitPrefill

\* The batches of at most n sequences whose lengths are in lens.
BatchesOf(lens, n) ==
    {[k \in 1..(Len(s) + 1) |-> Total([i \in 1..(k - 1) |-> s[i]])] :
        s \in UNION {[1..m -> lens] : m \in 1..n}}

\* In chunks of 2 tokens: all batches of up to two short sequences; batches of
\* three with an unsplit sequence between two split ones; sequences around the
\* 11 chunks from which the heuristic of the instance is satisfied; and a longer
\* sequence after so many empty ones that few or no SMs are left.
Batches2 ==
    BatchesOf(0..9, 2) \cup BatchesOf({0, 1, 6, 9, 12}, 3)
        \cup BatchesOf({0, 1, 16, 19, 20, 21, 23, 24}, 2) \cup BatchesOf({1, 24}, 3)
        \cup {[k \in 1..(n + 1) |-> IF k <= n THEN 0 ELSE len] :
                  n \in 7..11, len \in {12, 16}}

\* SM90: empty sequences are refused; sequences of up to 8 tiles, whole or not.
Batches90 ==
    BatchesOf(0..9, 2) \cup BatchesOf({1, 4, 7, 12}, 3) \cup BatchesOf({12, 13, 16}, 2)

\* Hopper: around every threshold, up to five preprocess tiles, sequences that
\* begin inside a tile and with one, and one that dominates the batch.
BatchesHopper ==
    BatchesOf({1, 6, 7, 8, 9, 15, 16, 17, 31, 32, 33, 48, 63, 64, 70}, 1)
        \cup BatchesOf({2, 6, 8, 14, 16, 22}, 2) \cup BatchesOf({2, 8, 16, 17}, 3)
        \cup BatchesOf({8, 64}, 2) \cup BatchesOf({6, 64}, 3)

\* The literals of the code with tokens divided by 512 and heads by 4; a chunk
\* is larger than to scale.
HopperLimits ==
    [grid |-> 4, manyTokens |-> 16, oneTokens |-> 8, wideTokens |-> 32,
     fewHeads |-> 2, midHeads |-> 4, wideHeads |-> 8,
     dominantHeads |-> 4, dominantLen |-> 64, work |-> 16,
     batchHeads |-> 10, longBatchHeads |-> 14, longChunks |-> 8]
=============================================================================
