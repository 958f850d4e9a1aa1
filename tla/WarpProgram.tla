---------------------------- MODULE WarpProgram ----------------------------
(***************************************************************************)
(* The vocabulary in which the warp-specialised kernels are written down.  *)
(* A kernel is a record:                                                   *)
(*                                                                         *)
(*   ring  [name -> [stages, fulls, empties]]   its stage pipelines, with  *)
(*         the number of arrivals that complete a full and an empty        *)
(*         barrier (see Ring, Buffer and Barrier below);                   *)
(*   prog  [warp -> sequence of steps]          the program of each warp;  *)
(*   part  [warp -> part]   the warps that fill only one part of a stage;  *)
(*   left  (optional) the warps that exit without having waited for the    *)
(*         last product they handed to the tensor cores.                   *)
(*                                                                         *)
(* A step is a sequence of operations a warp performs between two points   *)
(* at which it may have to wait: it waits first, then reads, then writes   *)
(* and signals.  x names the data of an operation: what the serial         *)
(* algorithm has at that place, such as the number of the tile.            *)
(***************************************************************************)
EXTENDS Integers, Sequences, SequencesExt, TLC

Op(name, r, x) == [op |-> name, on |-> r, x |-> <<x>>, at |-> -1, tc |-> FALSE]

Nothing == <<>>

Acq(r)    == Op("acq", r, 0)  \* producer: acquire a stage
Com(r)    == Op("com", r, 0)  \* producer: commit it
Wait(r)   == Op("wait", r, 0) \* consumer: wait for a stage
Rel(r)    == Op("rel", r, 0)  \* consumer: release it
Put(r, x) == Op("put", r, x)        \* write x into my part of the stage held
Fill(r, x) == Op("fill", r, x)      \* write x into all of it
Use(r, x) == Op("use", r, x)        \* read all of it, where x should be
UseMine(r, x) == Op("mine", r, x)   \* read my part of it
Peek(r, x) == Op("peek", r, x)      \* read all of it without having waited
Tma(r, x) == Op("tma", r, x)        \* TMA fills the stage held and commits
Cpa(r, x) == Op("cpa", r, x)        \* cp.async starts to fill the stage
Land(r)   == Op("land", r, 0) \* the warp waited for its cp.async
Skip(r)   == Op("skip", r, 0) \* producer: pass a stage without waiting
Restart(r) == Op("restart", r, 0) \* the warp counts the stages from 0 again
Renew(r)  == Op("renew", r, 0) \* and initialises the barriers once more

Tc(o)     == [o EXCEPT !.tc = TRUE] \* left to the tensor cores, in order
At(s, o)  == [o EXCEPT !.at = s]    \* at stage s, whatever is held

Waits == {"acq", "wait"}
Reads == {"use", "mine", "peek"}
Changes == {"put", "fill", "tma", "cpa", "wait", "land"}
Signals == {"com", "rel", "tma", "renew"}
Restarts == {"restart", "renew"}

\* A stage that two groups of warps fill together has two parts.
Parts == {1, 2}

\* A pipeline; a buffer without barriers; a barrier n warps synchronise on
\* (a warp arrives with Com and waits in its next step).
Ring(stages, fulls, empties) ==
    [stages |-> stages, fulls |-> fulls, empties |-> empties]
Buffer(stages) == Ring(stages, 0, 0)
Barrier(n) == Ring(1, n, 0)

When(cond, steps) == IF cond THEN steps ELSE <<>>

\* The steps of F(1), ..., F(n) one after another.
Each(n, F(_)) == FlattenSeq([i \in 1 .. n |-> F(i)])

\* A block that is looked at as two halves of its warps (w0 has warp 0, or is
\* it), which meet at one barrier; each half has a part of every buffer.
Halves == {"w0", "w1"}
Sync == << <<Com("cta")>>, <<Wait("cta")>> >>
Block(rings, Body(_)) ==
    [ring |-> [cta |-> Barrier(2)] @@ rings,
     prog |-> [w \in Halves |-> Body(w)],
     part |-> [w0 |-> 1, w1 |-> 2]]
=============================================================================
