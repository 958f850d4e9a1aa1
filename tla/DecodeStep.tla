----------------------------- MODULE DecodeStep -----------------------------
(***************************************************************************)
(* One token of KDA decoding (src/cula/ops/kda/decode/cute.py), its four   *)
(* kernels: for a slot of the state pool and a value head                  *)
(*                                                                         *)
(*     h' = g h + k (beta (v - (g k)^T h))^T,   o = h'^T q                 *)
(*                                                                         *)
(* A block stages q, k, the gates g and a tile of the state in shared      *)
(* memory.  The threads load and store the state tile in another           *)
(* distribution than they compute it in: a fill writes to both parts, a    *)
(* put to the columns of one's own.                                        *)
(***************************************************************************)
EXTENDS WarpProgram

Rings ==
    [q |-> Buffer(1), k |-> Buffer(1), g |-> Buffer(1), gk |-> Buffer(1),
     norm |-> Buffer(1), h |-> Buffer(1)]

LoadQK == << <<Put("q", "raw"), Put("k", "raw")>> >>
Gates(hv) == << <<Put("g", hv)>> >>

\* What is left in q and k.
Scaled(norm) == IF norm THEN "normalised" ELSE "scaled"

\* q is scaled and, if asked for, both are normalised: warp 0 alone has the
\* sums of squares (in a large block it adds up those of the warps).
Scale(norm) ==
    << When(norm, <<Use("norm", "inverse")>>)
       \o <<UseMine("q", "raw"), UseMine("k", "raw"),
            Put("q", Scaled(norm)), Put("k", Scaled(norm))>> >>

NormOfOneWarp(w) ==
    When(w = "w0", << <<Use("q", "raw"), Use("k", "raw"), Fill("norm", "inverse")>> >>)
    \o Sync

NormOfAllWarps(w) ==
    << <<UseMine("q", "raw"), UseMine("k", "raw"), Put("norm", "sum")>> >> \o Sync
    \o When(w = "w0", << <<Use("norm", "sum")>>, <<Fill("norm", "inverse")>> >>)
    \o Sync

\* Load a tile of the state, update it, store it.
Tile(hv, t, norm) ==
    << <<Fill("h", <<hv, t, "old">>)>> >> \o Sync
    \o << <<UseMine("h", <<hv, t, "old">>), Use("g", hv), Use("k", Scaled(norm)),
            Use("q", Scaled(norm)),
            Put("h", <<hv, t, "new">>)>> >> \o Sync
    \o << <<Use("h", <<hv, t, "new">>)>> >> \o Sync

GateK(hv, norm) ==
    << <<UseMine("g", hv), UseMine("k", Scaled(norm)), Put("gk", hv)>> >> \o Sync

\* A block of few threads takes the value heads that share a key head one
\* after another, and several tiles of each.
SmallBatch(w, heads, tiles, norm) ==
    LET HeadOf(hv) ==
            LET TileOf(t) == << <<Use("gk", hv)>> >> \o Tile(hv, t, norm)
            IN Gates(hv) \o GateK(hv, norm) \o Each(tiles, TileOf)
    IN LoadQK \o Sync \o When(norm, NormOfOneWarp(w)) \o Scale(norm) \o Sync
       \o FlattenSeq([hv \in 1 .. heads |-> HeadOf(hv)])

\* The same with one head and, after its gates, one barrier more.
SmallBatchVarlen(w, tiles, norm) ==
    LET TileOf(t) == << <<Use("gk", 1)>> >> \o Tile(1, t, norm)
    IN LoadQK \o Gates(1) \o Sync \o When(norm, NormOfOneWarp(w)) \o Scale(norm) \o Sync
       \o GateK(1, norm) \o Sync \o Each(tiles, TileOf)

\* A block of many threads does one tile.
LargeBatch(w, norm) ==
    LoadQK \o Gates(1) \o Sync \o When(norm, NormOfAllWarps(w)) \o Scale(norm) \o Sync
    \o Tile(1, 1, norm)

SmallBatchKernel(heads, tiles, norm) ==
    LET Body(w) == SmallBatch(w, heads, tiles, norm) IN Block(Rings, Body)
SmallBatchVarlenKernel(tiles, norm) ==
    LET Body(w) == SmallBatchVarlen(w, tiles, norm) IN Block(Rings, Body)
LargeBatchKernel(norm) == LET Body(w) == LargeBatch(w, norm) IN Block(Rings, Body)
LargeBatchVarlenKernel(norm) == LargeBatchKernel(norm)
=============================================================================
