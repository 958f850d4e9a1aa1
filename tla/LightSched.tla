------------------------------ MODULE LightSched ------------------------------
(***************************************************************************)
(* The dynamic work scheduler of the persistent SM100 lightning-attention  *)
(* prefill kernel (src/cula/ops/lightning/prefill_sm100.py).  As in        *)
(* DynSched the Load warp takes work numbers from one global counter and   *)
(* broadcasts each through a double-buffered shared slot, but here:        *)
(*   - only the elected lane arrives on sched_mbar (count 1);              *)
(*   - there is no consumed barrier: all threads of the block meet at a    *)
(*     named barrier at the end of every work unit, before the next number *)
(*     is taken.                                                           *)
(* Processes are the threads; what a warp does with a unit is one step.    *)
(***************************************************************************)
EXTENDS Integers, Sequences, FiniteSets, Mbarrier

CONSTANTS
    CTAs,           \* resident thread blocks: one per SM
    Lanes,          \* threads of the Load warp (32)
    Leader,         \* the lane elect_one picks
    Consumers,      \* threads of the MMA, CUDA, epilogue and empty warps
    TotalWork       \* total_work_units = HV * B

ASSUME CTAsAssumption == CTAs # {} /\ IsFiniteSet(CTAs)
ASSUME LanesAssumption == IsFiniteSet(Lanes) /\ Leader \in Lanes
ASSUME ConsumersAssumption == IsFiniteSet(Consumers) /\ Consumers \cap Lanes = {}
ASSUME TotalWorkAssumption == TotalWork \in Nat

VARIABLES
    workspace_iter,     \* the global work counter
    sWorkIdx,           \* [CTA][buf]: the shared slots
    sched_mbar,         \* [CTA][buf]: slot written
    pc,                 \* [CTA][thread]: where the thread stands
    sched_buf,          \* [CTA][thread]: the slot it uses next
    sched_phase,        \* [CTA][thread][buf]: the phase bit it waits for
    work_idx,           \* [CTA][thread]: the number it read last
    round,              \* history: how many numbers each thread read
    given,              \* history: numbers each CTA took from the counter
    handled             \* history: units each thread worked on

shared == <<workspace_iter, sWorkIdx, sched_mbar>>
regs == <<sched_buf, sched_phase, work_idx, round>>
vars == <<shared, pc, regs, given, handled>>

\* The two slots: a thread's round n = 0, 1, 2, ... uses slot n % 2
\* (sched_buf = 1 - sched_buf after every round).
Bufs == 0 .. 1

Threads == Lanes \cup Consumers
Unwritten == -1     \* content of shared memory before the first write

\* Each thread starts at its first access to slot 0, which no block barrier
\* precedes; `round' is in no register of the kernel and guards no step.
Init ==
    /\ workspace_iter = 0
    /\ sWorkIdx = [c \in CTAs |-> [b \in Bufs |-> Unwritten]]
    /\ sched_mbar = [c \in CTAs |-> [b \in Bufs |-> MbarInit(1)]]
    /\ pc = [c \in CTAs |->
               [t \in Threads |-> IF t \in Lanes THEN "elect" ELSE "wait"]]
    /\ sched_buf = [c \in CTAs |-> [t \in Threads |-> 0]]
    /\ sched_phase = [c \in CTAs |-> [t \in Threads |-> [b \in Bufs |-> 0]]]
    /\ work_idx = [c \in CTAs |-> [t \in Threads |-> Unwritten]]
    /\ round = [c \in CTAs |-> [t \in Threads |-> 0]]
    /\ given = [c \in CTAs |-> <<>>]
    /\ handled = [c \in CTAs |-> [t \in Threads |-> <<>>]]

AllAt(c, group, label) == \A t \in group : pc[c][t] = label
Goto(c, t, label) == pc' = [pc EXCEPT ![c][t] = label]

-----------------------------------------------------------------------------
\* The thread's share of a work unit.
Work(c, t) ==
    /\ pc[c][t] = "work"
    /\ handled' = [handled EXCEPT ![c][t] = Append(@, work_idx[c][t])]
    /\ Goto(c, t, "barrier")
    /\ UNCHANGED <<shared, regs, given>>

\* Mutant of CtaBarrier: the barrier counts the consumer threads only.
CtaBarrierConsumers(c) ==
    /\ \/ \E t \in Lanes : pc[c][t] = "barrier" /\ Goto(c, t, "elect")
       \/ /\ AllAt(c, Consumers, "barrier")
          /\ pc' = [pc EXCEPT ![c] = [t \in Threads |->
                IF t \in Consumers THEN "wait" ELSE pc[c][t]]]
    /\ UNCHANGED <<shared, regs, given, handled>>

\* The block barrier of all threads_per_cta threads between two units.
CtaBarrier(c) ==
    /\ AllAt(c, Threads, "barrier")
    /\ pc' = [pc EXCEPT ![c] =
          [t \in Threads |-> IF t \in Lanes THEN "elect" ELSE "wait"]]
    /\ UNCHANGED <<shared, regs, given, handled>>

\* elect_one gathers the warp; the lanes not elected go on to sync_warp.
Elect(c) ==
    /\ AllAt(c, Lanes, "elect")
    /\ pc' = [pc EXCEPT ![c] = [t \in Threads |->
          IF t = Leader THEN "write" ELSE IF t \in Lanes THEN "sync"
          ELSE pc[c][t]]]
    /\ UNCHANGED <<shared, regs, given, handled>>

\* atomicAdd on the global counter; its old value goes to the slot.
FetchAndWrite(c) ==
    /\ pc[c][Leader] = "write"
    /\ workspace_iter' = workspace_iter + 1
    /\ sWorkIdx' = [sWorkIdx EXCEPT ![c][sched_buf[c][Leader]] = workspace_iter]
    /\ given' = [given EXCEPT ![c] = Append(@, workspace_iter)]
    /\ Goto(c, Leader, "arrive")
    /\ UNCHANGED <<sched_mbar, regs, handled>>

\* Mutant of LeaderArrive: the slot index is flipped before the arrival.
LeaderArriveOther(c) ==
    /\ pc[c][Leader] = "arrive"
    /\ sched_mbar' =
          [sched_mbar EXCEPT ![c][1 - sched_buf[c][Leader]] = MbarArrive(@, 1)]
    /\ Goto(c, Leader, "sync")
    /\ UNCHANGED <<workspace_iter, sWorkIdx, regs, given, handled>>

\* The elected lane arrives on the barrier of the slot it wrote.
LeaderArrive(c) ==
    /\ pc[c][Leader] = "arrive"
    /\ sched_mbar' =
          [sched_mbar EXCEPT ![c][sched_buf[c][Leader]] = MbarArrive(@, 1)]
    /\ Goto(c, Leader, "sync")
    /\ UNCHANGED <<workspace_iter, sWorkIdx, regs, given, handled>>

\* sync_warp: the other lanes read the slot after the elected lane wrote it.
SyncWarp(c) ==
    /\ AllAt(c, Lanes, "sync")
    /\ pc' = [pc EXCEPT ![c] =
          [t \in Threads |-> IF t \in Lanes THEN "read" ELSE pc[c][t]]]
    /\ UNCHANGED <<shared, regs, given, handled>>

\* A consumer thread waits for the broadcast and flips its phase bit.
Wait(c, t) ==
    LET b == sched_buf[c][t] IN
    /\ pc[c][t] = "wait"
    /\ MbarWaitable(sched_mbar[c][b], sched_phase[c][t][b])
    /\ sched_phase' = [sched_phase EXCEPT ![c][t][b] = 1 - @]
    /\ Goto(c, t, "read")
    /\ UNCHANGED <<shared, sched_buf, work_idx, round, given, handled>>

\* Mutant of Read: the loop stops one unit early.
ReadShort(c, t) ==
    LET w == sWorkIdx[c][sched_buf[c][t]] IN
    /\ pc[c][t] = "read"
    /\ work_idx' = [work_idx EXCEPT ![c][t] = w]
    /\ sched_buf' = [sched_buf EXCEPT ![c][t] = 1 - @]
    /\ round' = [round EXCEPT ![c][t] = @ + 1]
    /\ Goto(c, t, IF w < TotalWork - 1 THEN "work" ELSE "exit")
    /\ UNCHANGED <<shared, sched_phase, given, handled>>

\* work_idx = sWorkIdx[sched_buf]; the thread stays in its loop or leaves.
Read(c, t) ==
    LET w == sWorkIdx[c][sched_buf[c][t]] IN
    /\ pc[c][t] = "read"
    /\ work_idx' = [work_idx EXCEPT ![c][t] = w]
    /\ sched_buf' = [sched_buf EXCEPT ![c][t] = 1 - @]
    /\ round' = [round EXCEPT ![c][t] = @ + 1]
    /\ Goto(c, t, IF w < TotalWork THEN "work" ELSE "exit")
    /\ UNCHANGED <<shared, sched_phase, given, handled>>

-----------------------------------------------------------------------------
\* Every thread has left its loop and stands at the TMEM release barrier.
AllExited == \A c \in CTAs : AllAt(c, Threads, "exit")
KernelEnd == AllExited /\ UNCHANGED vars

ThreadStep(c, t) == Work(c, t) \/ Wait(c, t) \/ Read(c, t)

WarpStep(c) ==
    Elect(c) \/ FetchAndWrite(c) \/ LeaderArrive(c) \/ SyncWarp(c)

Next ==
    \/ \E c \in CTAs : CtaBarrier(c) \/ WarpStep(c)
    \/ \E c \in CTAs, t \in Threads : ThreadStep(c, t)
    \/ KernelEnd

Spec == Init /\ [][Next]_vars

\* Every thread of a resident CTA makes progress.
Fairness ==
    /\ \A c \in CTAs : WF_vars(CtaBarrier(c)) /\ WF_vars(WarpStep(c))
    /\ \A c \in CTAs, t \in Threads : WF_vars(ThreadStep(c, t))

FairSpec == Spec /\ Fairness

-----------------------------------------------------------------------------
(***************************************************************************)
(* Properties                                                              *)
(***************************************************************************)
PCs == {"elect", "write", "arrive", "sync", "wait", "read", "work",
        "barrier", "exit"}

\* Type invariant of the scheduler's slots, barriers and registers.
TypeOK ==
    /\ workspace_iter \in Nat
    /\ sWorkIdx \in [CTAs -> [Bufs -> Int]]
    /\ sched_mbar \in [CTAs -> [Bufs -> MbarType(1)]]
    /\ pc \in [CTAs -> [Threads -> PCs]]
    /\ sched_buf \in [CTAs -> [Threads -> Bufs]]
    /\ sched_phase \in [CTAs -> [Threads -> [Bufs -> Bufs]]]
    /\ work_idx \in [CTAs -> [Threads -> Int]]
    /\ round \in [CTAs -> [Threads -> Nat]]
    /\ given \in [CTAs -> Seq(Int)]
    /\ handled \in [CTAs -> [Threads -> Seq(Int)]]

(***************************************************************************)
(* "Other warps wait on mbar[buf] at the correct phase, then read          *)
(* sWorkIdx[buf]": a thread about to read a slot finds in it the number of *)
(* the thread's own round, although nothing tells the Load warp that the   *)
(* slot was read.                                                          *)
(***************************************************************************)
ReadsOwnRound ==
    \A c \in CTAs, t \in Threads : pc[c][t] = "read" =>
        /\ round[c][t] < Len(given[c])
        /\ sWorkIdx[c][sched_buf[c][t]] = given[c][round[c][t] + 1]

\* Every thread leaves its loop: the barriers of all rounds are met by all
\* threads, and no phase is missed.
EventuallyExits == <>AllExited

(***************************************************************************)
(* The scheduler implements plain dealing with no unit ahead, and when the *)
(* kernel ends every unit was handled by all threads of one block.         *)
(***************************************************************************)
Dispatch == INSTANCE WorkDispatch WITH issued <- workspace_iter, Ahead <- 0
ImplementsDispatch == Dispatch!Spec

EndsComplete ==
    AllExited =>
        \A w \in 0 .. TotalWork - 1 : \E c \in CTAs : \A t \in Threads :
            \E i \in 1 .. Len(handled[c][t]) : handled[c][t][i] = w
=============================================================================
