---------------------------- MODULE MatrixInverse ----------------------------
(***************************************************************************)
(* The inverse of a 64x64 lower triangular matrix in shared memory, in     *)
(* place (src/cula/ops/inv.py): its diagonal blocks of 8, 16 and 32 rows   *)
(* in turn, then the whole.  diag has the two diagonal blocks of 32 rows   *)
(* as parts, off the block below them.                                     *)
(***************************************************************************)
EXTENDS WarpProgram

Rings == [diag |-> Buffer(1), off |-> Buffer(1)]

Load == << <<Fill("diag", "raw"), Fill("off", "raw")>> >>

\* One half of the threads inverts all blocks of 8 rows.
Stage8(w) == When(w = "w0", << <<Use("diag", "raw"), Fill("diag", "8")>> >>)

\* Each warp makes one of the four blocks of 16 rows.
Stage16 == << <<UseMine("diag", "8"), Put("diag", "16")>> >>

Stage32(w) == When(w = "w0", << <<Use("diag", "16"), Fill("diag", "32")>> >>)

\* Two warps sum up one half of the product each: the first stores its half,
\* the second adds its own to it.
Stage64(w) ==
    << <<Use("diag", "32"), Use("off", "raw")>> >> \o Sync
    \o When(w = "w0", << <<Fill("off", "sum 1")>> >>) \o Sync
    \o When(w = "w1", << <<Use("off", "sum 1"), Fill("off", "64")>> >>) \o Sync

InvertInPlace(w) == Stage8(w) \o Sync \o Stage16 \o Sync \o Stage32(w) \o Sync \o Stage64(w)

InverseKernel ==
    LET Body(w) == Load \o Sync \o InvertInPlace(w) \o Sync
                   \o << <<Use("diag", "32"), Use("off", "64")>> >> \o Sync
    IN Block(Rings, Body)
=============================================================================
