----------------------------- MODULE CarryMerge -----------------------------
(***************************************************************************)
(* The merges of intra-card context parallelism: the state at the start of *)
(* each segment from the exit states b and transition matrices m of the    *)
(* segments before it, on Hopper (src/cula/ops/kda/sm90/cp/merge.py)       *)
(*                                                                         *)
(*     h = h m + b                                                         *)
(*                                                                         *)
(* and on SM100 (src/cula/ops/kda/sm100/cp/merge.py), h = m h + b.         *)
(* i numbers the segments.  Each thread copies its part of   *)
(* every matrix and waits for its own.                                     *)
(***************************************************************************)
EXTENDS WarpProgram

Rings == [h |-> Buffer(1), m |-> Buffer(1), b |-> Buffer(1)]

\* The carry of the first segment: the initial state or zero.
InitCarry(init) ==
    (IF init THEN << <<Cpa("h", 0)>>, <<Land("h"), Com("cta")>> >>
             ELSE << <<Put("h", 0), Com("cta")>> >>)
    \o << <<Wait("cta")>> >>

LoadSegment(i) ==
    << <<Cpa("b", i), Cpa("m", i)>>, <<Land("b"), Land("m"), Com("cta")>>,
       <<Wait("cta")>> >>

\* On Hopper the carry of the first segment is stored before the loop, then
\* that of each next one; a warp multiplies its own rows of the carry.
FirstCarry == << <<UseMine("h", 0)>> >>
NextCarry90(i) ==
    << <<Use("b", i), Use("m", i), UseMine("h", i - 1), Com("cta")>>,
       <<Wait("cta")>>, <<Put("h", i), Com("cta")>>,
       <<Wait("cta")>>, <<Use("h", i), Com("cta")>>, <<Wait("cta")>> >>

\* On SM100 a warp multiplies by all rows of the carry; the last sum is not
\* stored.
NextCarry100(i, last) ==
    << <<Use("b", i), Use("m", i), Use("h", i - 1), Com("cta")>>,
       <<Wait("cta")>>, <<Put("h", i)>> >>
    \o When(~last, Sync \o << <<Use("h", i)>> >>) \o Sync

\* segments: how many segments are merged into a carry.
Kernel90(segments, init) ==
    LET Segment(i) == LoadSegment(i) \o NextCarry90(i)
        Body(w) == InitCarry(init) \o FirstCarry \o Each(segments, Segment)
    IN Block(Rings, Body)

Kernel100(segments, init) ==
    LET Segment(i) == LoadSegment(i) \o NextCarry100(i, i = segments)
        Body(w) == InitCarry(init) \o Each(segments, Segment)
    IN Block(Rings, Body)
=============================================================================
