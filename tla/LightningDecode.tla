--------------------------- MODULE LightningDecode ---------------------------
(***************************************************************************)
(* Lightning attention with few tokens: decoding of one token              *)
(* (src/cula/ops/lightning/decode.py) and verification of drafted ones     *)
(* (src/cula/lightning/la_verify_kvbuffer.py).                             *)
(***************************************************************************)
EXTENDS WarpProgram

\* The state goes through two stages that cp.async fills in turn.
DecodeRings == [h |-> Buffer(2), out |-> Buffer(1)]

Stage(t, o) == At((t - 1) % 2, o)
Prefetch(t) == << <<Stage(t, Cpa("h", t))>> >>

\* The barrier says both that all have their copies of this tile and that all
\* have read the one whose stage the next copy takes.
UpdateTile(t, tiles) ==
    << <<Stage(t, Land("h"))>> >> \o Sync \o When(t < tiles, Prefetch(t + 1))
    \o << <<Stage(t, Use("h", t)), Put("out", "o")>> >>

DecodeKernel(tiles) ==
    LET TileOf(t) == UpdateTile(t, tiles)
        Body(w) == Sync \o Prefetch(1) \o Sync \o Each(tiles, TileOf)
                   \o Sync \o << <<Use("out", "o")>> >>
    IN Block(DecodeRings, Body)

\* A block of a large batch has all tiles of a head, else some of them.
BigBatchKernel(tiles) == DecodeKernel(tiles)

-----------------------------------------------------------------------------
VerifyRings == [q |-> Buffer(1), k |-> Buffer(1), v |-> Buffer(1), qk |-> Buffer(1)]

\* On tensor cores: warp 0 alone multiplies q and k; the state rows and v are
\* each warp's own.
VerifyKernel ==
    LET Body(w) ==
            << <<Put("q", "all"), Put("k", "all")>> >> \o Sync
            \o When(w = "w0", << <<Use("q", "all"), Use("k", "all"), Fill("qk", "all")>> >>)
            \o Sync
            \o << <<Use("q", "all"), Put("v", "all")>>, <<Use("qk", "all"), UseMine("v", "all")>> >>
    IN Block(VerifyRings, Body)

\* Without them: warp 0 loads q and k, the warps share out the products.
ShareScores(w) ==
    << <<Use("q", "all"), Use("k", "all"), Put("qk", "all")>> >> \o Sync

VerifyShuffleKernel ==
    LET Body(w) ==
            When(w = "w0", << <<Fill("q", "all"), Fill("k", "all")>> >>)
            \o << <<Put("v", "all")>> >> \o Sync \o ShareScores(w)
            \o << <<Use("q", "all"), Use("qk", "all"), Use("v", "all")>> >>
    IN Block(VerifyRings, Body)
=============================================================================
