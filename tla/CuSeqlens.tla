----------------------------- MODULE CuSeqlens -----------------------------
(***************************************************************************)
(* Batches of sequences packed one after another, and the device they run  *)
(* on.  A batch is its cu_seqlens: sequence i holds the tokens cu[i] up to *)
(* cu[i + 1] - 1 (sequences count from 1 here, from 0 in the code), in     *)
(* chunks of BT tokens of which the last may be shorter.                   *)
(***************************************************************************)
EXTENDS Integers, Sequences

CONSTANTS
    BT,         \* chunk_size, CHUNK
    Heads,      \* H
    Sms         \* num_sms, sm_count

Smaller(a, b) == IF a < b THEN a ELSE b
Larger(a, b) == IF a > b THEN a ELSE b
CeilDiv(a, b) == (a + b - 1) \div b

NumSeqs(cu) == Len(cu) - 1
SeqLen(cu, i) == cu[i + 1] - cu[i]
Chunks(len) == CeilDiv(len, BT)
============================================================================
