------------------------------ MODULE Mbarrier ------------------------------
(***************************************************************************)
(* The shared-memory mbarrier of the GPU, as far as the kernels use it:    *)
(* mbarrier_init(count), mbarrier_arrive and mbarrier_wait(parity).  The   *)
(* library is external to the repository.                                  *)
(*                                                                         *)
(* A barrier completes a phase when `count' arrivals have been made in it, *)
(* and starts the next phase at once.  The hardware shows a waiter only    *)
(* the parity of the running phase, so a waiter that a producer laps by    *)
(* two phases sees "not completed" again: that is the ABA hazard the       *)
(* schedulers and pipelines of the kernels must exclude.  The model counts *)
(* the completed phases, and MbarWaitable looks at their parity only.      *)
(***************************************************************************)
EXTENDS Integers

MbarInit(count) == [pending |-> count, phase |-> 0]

\* mbarrier_arrive of one thread on a barrier initialised with `count'.
MbarArrive(b, count) ==
    IF b.pending = 1 THEN [pending |-> count, phase |-> b.phase + 1]
                     ELSE [b EXCEPT !.pending = @ - 1]

\* mbarrier_wait(parity) returns: the phase of that parity is not running.
MbarWaitable(b, parity) == b.phase % 2 # parity

MbarType(count) == [pending : 1 .. count, phase : Nat]
-----------------------------------------------------------------------------
(***************************************************************************)
(* The stage pipelines the kernels are built from (cutlass.pipeline, used  *)
(* through make_participants): a ring of stages, each with a "full" and an *)
(* "empty" mbarrier.  A participant that has handled n items is at stage   *)
(* n % stages and holds the phase bit (n \div stages) % 2; a producer      *)
(* starts with the opposite bit, so that its first turn round the ring     *)
(* does not wait.  `pos' below is that n.                                  *)
(***************************************************************************)
StageOf(pos, stages) == pos % stages
PhaseOf(pos, stages) == (pos \div stages) % 2

PipeInit(stages, producers, consumers) ==
    [full  |-> [s \in 0 .. stages - 1 |-> MbarInit(producers)],
     empty |-> [s \in 0 .. stages - 1 |-> MbarInit(consumers)]]

\* Mutant of CanAcquire: the producer keeps the phase bit of its first turn.
CanAcquireFirstPhase(p, pos, stages) ==
    MbarWaitable(p.empty[StageOf(pos, stages)], 1)

\* acquire_and_advance (producer) and wait_and_advance (consumer) return.
CanAcquire(p, pos, stages) ==
    MbarWaitable(p.empty[StageOf(pos, stages)], 1 - PhaseOf(pos, stages))
CanConsume(p, pos, stages) ==
    MbarWaitable(p.full[StageOf(pos, stages)], PhaseOf(pos, stages))

\* commit (producer, or the TMA unit for it) and release (consumer).
Commit(p, stage, producers) ==
    [p EXCEPT !.full[stage] = MbarArrive(@, producers)]
Release(p, stage, consumers) ==
    [p EXCEPT !.empty[stage] = MbarArrive(@, consumers)]
=============================================================================
