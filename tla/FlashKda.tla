------------------------------ MODULE FlashKda ------------------------------
(***************************************************************************)
(* The kernels of the Hopper FlashKDA forward (src/cula/ops/kda/sm90):     *)
(* a block of K1 (k1.py) prepares one tile of 16 tokens; a block of K2     *)
(* (k2.py) runs the recurrence over the tiles of a sequence; a block of    *)
(* the pre-scan (cp/pre_scan.py) runs it over a segment, from state zero   *)
(* and together with the transition matrix.                                *)
(*                                                                         *)
(* K1 keeps its tile in the buffers its input came in: a label says what a *)
(* buffer holds by now.  "w0" is warp 0, "w1" stands for the other warps.  *)
(* In K2, t numbers the tiles; "cc1" (with warp 0) and "cc2" are the       *)
(* halves of the four computing warps.                                     *)
(***************************************************************************)
EXTENDS WarpProgram

K1Warps == {"w0", "w1"}

\* sum: the cumulated gates, later the inverse keys, then the inverse.
K1Rings ==
    [q |-> Ring(1, 1, 0), k |-> Ring(1, 1, 0), g |-> Ring(1, 1, 0),
     sum |-> Buffer(1), total |-> Buffer(1), beta |-> Buffer(1),
     lower |-> Buffer(1), mqk |-> Buffer(1), cta |-> Barrier(2)]

Load(w) == When(w = "w0", << <<Tma("q", "raw"), Tma("k", "raw"), Tma("g", "raw")>> >>)

\* Rows beyond the sequence are cleared column by column.
ClearTail == <<
    <<Wait("q"), Wait("k"), Wait("g"), Use("g", "raw"),
      Fill("q", "cut"), Fill("k", "cut"), Put("g", "raw"), Com("cta")>> >>

Normalize == <<
    <<Wait("cta"), UseMine("q", "cut"), UseMine("k", "cut"), Use("g", "raw"),
      Put("q", "norm"), Put("k", "norm"), Put("sum", "sum"), Put("total", "total"),
      Com("cta")>> >>

\* Everything goes to registers before the buffers are used again.
Decay == <<
    <<Wait("cta"), Use("q", "norm"), Use("k", "norm"), Use("sum", "sum"),
      Use("total", "total"), Put("beta", "sig"), Com("cta")>>,
    <<Wait("cta"), Use("total", "total"), Put("q", "decayed"), Put("k", "decayed"),
      Put("g", "restored"), Put("sum", "inverse keys"), Com("cta")>> >>

\* Warp 0 computes the lower matrix, warp 1 the scores.
Matrices(w) ==
    IF w = "w0"
    THEN << <<Wait("cta"), Use("k", "decayed"), Use("sum", "inverse keys"),
              Use("beta", "sig"), Fill("lower", "lower"), Com("cta")>> >>
    ELSE << <<Wait("cta"), Use("q", "decayed"), Use("sum", "inverse keys"),
              Fill("mqk", "mqk"), Com("cta")>> >>

\* Warp 0 inverts (1 - lower) by its Neumann series and stores everything.
Invert(w) ==
    << <<Wait("cta"), Use("lower", "lower"), Put("sum", "series"), Com("cta")>>,
       <<Wait("cta")>> \o When(w = "w0", <<Use("sum", "series"), Fill("sum", "inverted")>>)
          \o <<Com("cta")>>,
       <<Wait("cta")>> >>
    \o When(w = "w0",
         << <<Use("q", "decayed"), Use("k", "decayed"), Use("g", "restored"),
              Use("sum", "inverted"), Use("mqk", "mqk")>> >>)

K1Kernel ==
    [ring |-> K1Rings,
     prog |-> [w \in K1Warps |->
         Load(w) \o ClearTail \o Normalize \o Decay \o Matrices(w) \o Invert(w)],
     part |-> [w0 |-> 1, w1 |-> 2]]

-----------------------------------------------------------------------------
K2Stages == 2
OutStages == 2
CCs == {"cc1", "cc2"}

\* The seven tensors of a tile share one full and one empty barrier, and one
\* thread arrives for all.
K2Rings ==
    [tile |-> Ring(K2Stages, 1, 1), out |-> Ring(OutStages, 1, 1),
     state |-> Buffer(1), cc |-> Barrier(2), cta |-> Barrier(4)]

LoadWarp(t) == << <<Acq("tile"), Tma("tile", <<"loaded", t>>)>> >>

\* A tile of full length is stored by TMA, a tail through registers.
StoreWarp(t) == << <<Wait("out"), Use("out", t)>>, <<Use("out", t), Rel("out")>> >>

\* A computing warp owns a block of columns of the state; the tail of v is
\* cleared column by column first.
Cut(t, tail) ==
    IF tail THEN << <<Wait("tile"), UseMine("tile", <<"loaded", t>>),
                      Put("tile", <<"cut", t>>), Com("cc")>>, <<Wait("cc")>> >>
            ELSE << <<Wait("tile")>> >>

Recur(t, tail) ==
    LET tile == <<IF tail THEN "cut" ELSE "loaded", t>>
    IN << <<Use("tile", tile), UseMine("state", t - 1)>>,
          <<Acq("out"), Put("out", t)>>,
          <<Use("tile", tile), UseMine("state", t - 1), Put("state", t), Com("cc")>> >>

Publish(w) == << <<Wait("cc")>> \o When(w = "cc1", <<Com("out"), Rel("tile")>>) >>

InitState(w) == When(w \in CCs, << <<Fill("state", 0)>> >>)
FinalState(w, tiles) == When(w \in CCs, << <<Use("state", tiles)>> >>)

\* tail: the last tile is shorter than the others.
K2Kernel(tiles, tail) ==
    LET Tile(w, t) ==
            CASE w = "load"  -> LoadWarp(t)
              [] w = "store" -> StoreWarp(t)
              [] OTHER -> LET cut == tail /\ t = tiles
                          IN Cut(t, cut) \o Recur(t, cut) \o Publish(w)
    IN [ring |-> K2Rings,
        prog |-> [w \in CCs \cup {"load", "store"} |->
            InitState(w) \o Sync \o FlattenSeq([t \in 1 .. tiles |-> Tile(w, t)])
            \o Sync \o FinalState(w, tiles)],
        part |-> [cc1 |-> 1, cc2 |-> 2]]

-----------------------------------------------------------------------------
\* The pre-scan has no output to store; m is the transition matrix.
ScanRings ==
    [tile |-> Ring(K2Stages, 1, 1), state |-> Buffer(1), m |-> Buffer(1),
     cc |-> Barrier(2), cta |-> Barrier(3)]

Scan(t, tail) ==
    LET tile == <<IF tail THEN "cut" ELSE "loaded", t>>
    IN << <<Use("tile", tile), UseMine("state", t - 1), UseMine("m", t - 1)>>,
          <<Use("tile", tile), UseMine("state", t - 1), Put("state", t)>>,
          <<Use("tile", tile), UseMine("m", t - 1), Put("m", t), Com("cc")>> >>

GiveBack(w) == << <<Wait("cc")>> \o When(w = "cc1", <<Rel("tile")>>) >>

InitScan(w) == When(w \in CCs, << <<Fill("state", 0), Fill("m", 0)>> >>)
FinalScan(w, tiles) == When(w \in CCs, << <<Use("state", tiles), Use("m", tiles)>> >>)

ScanKernel(tiles, tail) ==
    LET Tile(w, t) ==
            IF w = "load" THEN LoadWarp(t)
            ELSE LET cut == tail /\ t = tiles
                 IN Cut(t, cut) \o Scan(t, cut) \o GiveBack(w)
    IN [ring |-> ScanRings,
        prog |-> [w \in CCs \cup {"load"} |->
            InitScan(w) \o Sync \o FlattenSeq([t \in 1 .. tiles |-> Tile(w, t)])
            \o Sync \o FinalScan(w, tiles)],
        part |-> [cc1 |-> 1, cc2 |-> 2]]
=============================================================================
