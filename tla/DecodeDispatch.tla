--------------------------- MODULE DecodeDispatch ---------------------------
(***************************************************************************)
(* One token of every request: from the call to the blocks of the launch   *)
(* (src/cula/ops/kda/decode/cute.py).  kda_decode takes q, k and v,        *)
(* kda_packed_decode takes them packed in rows.  Each has a fast path that *)
(* looks whether everything is as the kernel wants it, and a general one   *)
(* that brings it there; both choose the kernel and its split on their own.*)
(*                                                                         *)
(* A call c is a record: packed, varlen (q is (1, N, H, K), or cu_seqlens  *)
(* is given), the sizes N, H, HV, K and tiles (V by the tile of a small    *)
(* batch), kv (the layout of the state), the shapes a and b, indices and   *)
(* cu (each "ready", "strided", "wide" or, cu only, "none"), ready (q, k,  *)
(* v, dt_bias and A_log are contiguous) and tuning, the thresholds.        *)
(***************************************************************************)
EXTENDS Integers, Sequences, FiniteSets

\* What a call is, whatever its thresholds: a key head serves as many value
\* heads as the others, and a tile of a large batch is two of a small one.
IsCall(c) ==
    /\ {c.packed, c.varlen} \subseteq BOOLEAN
    /\ {c.N, c.H, c.HV, c.tiles} \subseteq Nat \ {0}
    /\ c.HV % c.H = 0 /\ c.tiles % 2 = 0
    /\ c.head \in 0 .. c.HV - 1 /\ c.tile \in 0 .. c.tiles - 1
    /\ {c.tuning.few, c.tuning.micro, c.tuning.small, c.tuning.rows, c.tuning.heads,
        c.tuning.fewHeads} \subseteq Nat
    /\ c.cu \in {"none", "ready", "strided", "wide"}

Raises == [kernel |-> "none"]
Declines == [kernel |-> "declined"]  \* a fast path returns None

Smaller(x, y) == IF x <= y THEN x ELSE y

-----------------------------------------------------------------------------
IsVarlen(c) == c.varlen /\ (c.packed \/ c.N > 1)

\* _select_small_blocks_per_state
Blocks(c) ==
    IF c.N <= c.tuning.few \/ c.N * c.H <= c.tuning.micro THEN Smaller(4, c.tiles) ELSE 1

IsSmall(c) == c.N < c.tuning.small

\* A block takes one value head instead of all that share a key head.
HeadsParallel(c) ==
    /\ IsSmall(c)
    /\ c.H <= IF c.N <= c.tuning.few THEN c.tuning.fewHeads ELSE c.tuning.heads
    /\ c.N <= c.tuning.rows

Target(c, varlen) ==
    IF varlen THEN [a |-> <<c.N, c.HV, c.K>>, b |-> <<c.N, c.HV>>]
              ELSE [a |-> <<c.N, 1, c.HV, c.K>>, b |-> <<c.N, 1, c.HV>>]

\* The kernel that is compiled, or found under the same key.
Kernel(c, varlen) ==
    [kernel |-> IF IsSmall(c) THEN "small" ELSE "large", varlen |-> varlen,
     parallel |-> HeadsParallel(c) /\ ~varlen, blocks |-> Blocks(c), kv |-> c.kv]

\* The launcher takes tensors of the shapes it was compiled for, no others.
Launch(k, c, a, b, indices, cu) ==
    IF /\ [a |-> a, b |-> b] = Target(c, k.varlen)
       /\ indices = "ready"
       /\ cu \in {"ready", "none"}
    THEN k ELSE Raises

-----------------------------------------------------------------------------
\* Without a shape that it knows the fast path declines.
FastA(c, varlen) ==
    LET N == c.N HV == c.HV K == c.K
    IN IF varlen THEN c.a = <<N, HV, K>>
       ELSE c.a \in {<<N, 1, HV, K>>, <<N, 1, HV * K>>, <<N, HV, K>>}
FastB(c, varlen) ==
    IF varlen THEN c.b = <<c.N, c.HV>> ELSE c.b \in {<<c.N, 1, c.HV>>, <<c.N, c.HV>>}

Fast(c, varlen) ==
    IF /\ c.ready /\ c.indices = "ready"
       /\ FastA(c, varlen) /\ FastB(c, varlen)
    THEN Launch(Kernel(c, varlen), c, Target(c, varlen).a, Target(c, varlen).b, "ready", "ready")
    ELSE Declines

\* Mutant of FastDense: it takes q for (N, 1, H, K) whatever its shape.
FastDenseAny(c) == IF c.cu = "wide" THEN Declines ELSE Fast(c, FALSE)

\* Without packing: dense calls only; a strided cu_seqlens is copied.
FastDense(c) == IF (c.varlen /\ c.N > 1) \/ c.cu = "wide" THEN Declines ELSE Fast(c, FALSE)

\* With it a strided one is left to the general path.
FastPacked(c) == IF c.cu \in {"strided", "wide"} THEN Declines ELSE Fast(c, c.varlen)

-----------------------------------------------------------------------------
\* _normalize_kda_a: the shape a view makes of it; <<>> if it is none of these.
NormalizedA(c, varlen) ==
    LET N == c.N HV == c.HV K == c.K
        known == IF varlen
                 THEN {<<N, HV * K>>, <<N, HV, K>>, <<N, 1, HV * K>>, <<1, N, HV * K>>,
                       <<1, N, HV, K>>, <<1, N, 1, HV * K>>}
                 ELSE {<<N, HV * K>>, <<N, HV, K>>, <<N, 1, HV * K>>, <<N, 1, HV, K>>}
    IN IF c.a \in known THEN Target(c, varlen).a ELSE <<>>

\* b.squeeze(0) leaves a first dimension other than 1 as it is.
NormalizedB(c, varlen) ==
    CASE varlen /\ Len(c.b) = 3 /\ c.b[1] = 1 -> Tail(c.b)
      [] ~varlen /\ Len(c.b) = 2              -> <<c.b[1], 1, c.b[2]>>
      [] OTHER -> c.b

\* Everything is made contiguous; indices of another type are converted, but
\* strided ones of the right type are not looked at.
GeneralDense(c) ==
    LET varlen == IsVarlen(c)
    IN IF c.tiles % Blocks(c) # 0 THEN Raises
       ELSE Launch(Kernel(c, varlen), c,
                   NormalizedA(c, varlen), NormalizedB(c, varlen),
                   IF c.indices = "wide" THEN "ready" ELSE c.indices,
                   IF c.cu = "strided" THEN "ready" ELSE c.cu)

GeneralPacked(c) ==
    LET varlen == IsVarlen(c)
    IN Launch(Kernel(c, varlen), c,
              NormalizedA(c, varlen), NormalizedB(c, varlen), "ready",
              IF c.cu = "strided" THEN "ready" ELSE c.cu)

FastPath(c) == IF c.packed THEN FastPacked(c) ELSE FastDense(c)
GeneralPath(c) == IF c.packed THEN GeneralPacked(c) ELSE GeneralDense(c)

Dispatch(c) == IF FastPath(c) = Declines THEN GeneralPath(c) ELSE FastPath(c)

-----------------------------------------------------------------------------
(* What the blocks of a launch work on: rows, heads and tiles from 0. *)

\* A tile of a large batch is two of a small one.
LargeTiles(c) == c.tiles \div 2

Grid(l, c) ==
    IF l.kernel = "large" THEN c.N * c.HV * LargeTiles(c)
    ELSE IF l.varlen \/ l.parallel THEN c.N * c.HV * l.blocks
    ELSE c.N * c.H * l.blocks

SmallDense(l, c, block) ==
    LET group == block \div l.blocks
        ratio == c.HV \div c.H
        tiles == c.tiles \div l.blocks
        first == (block % l.blocks) * tiles
    IN [row   |-> group \div IF l.parallel THEN c.HV ELSE c.H,
        heads |-> IF l.parallel THEN {group % c.HV}
                  ELSE {(group % c.H) * ratio + h : h \in 0 .. ratio - 1},
        tiles |-> first .. first + tiles - 1]

SmallVarlen(l, c, block) == SmallDense([l EXCEPT !.parallel = TRUE], c, block)

Large(c, block) ==
    LET group == block \div LargeTiles(c)
        tile == block % LargeTiles(c)
    IN [row |-> group \div c.HV, heads |-> {group % c.HV},
        tiles |-> {2 * tile, 2 * tile + 1}]

Share(l, c, block) ==
    IF l.kernel = "large" THEN Large(c, block)
    ELSE IF l.varlen THEN SmallVarlen(l, c, block)
    ELSE SmallDense(l, c, block)

\* The blocks that update a tile of the state of a row.
BlocksOf(l, c, row, head, tile) ==
    {block \in 0 .. Grid(l, c) - 1 :
        LET w == Share(l, c, block)
        IN w.row = row /\ head \in w.heads /\ tile \in w.tiles}
=============================================================================
