------------------------------ MODULE DynSched ------------------------------
(***************************************************************************)
(* The dynamic work scheduler of the persistent SM100 delta_h kernel       *)
(* (src/cula/ops/kda/sm100/delta_h.py).  Every CTA runs one Load warp and  *)
(* seven consumer warps (MMA, 4 CUDA-core, Store, Empty).  The Load warp   *)
(* takes work numbers from one global atomic counter and broadcasts each   *)
(* through a double-buffered shared slot: sched_mbar[b] says "slot b is    *)
(* written", sched_consumed_mbar[b] says "every consumer thread has read   *)
(* slot b".  All threads arrive, none is elected for it, so the model's    *)
(* processes are the threads: the lanes of the Load warp and the consumer  *)
(* threads.  What a warp does with a work unit is one step here (it is the *)
(* subject of DeltaH); the units may be worked on at any relative speed.   *)
(***************************************************************************)
EXTENDS Integers, Sequences, FiniteSets, Mbarrier

CONSTANTS
    CTAs,           \* resident thread blocks: one per SM
    Lanes,          \* threads of the Load warp (32)
    Leader,         \* the lane elect_one picks
    Consumers,      \* threads of the consumer warps (32 * 7)
    TotalWork       \* total_work_units = num_v_tiles * HV * B

ASSUME CTAsAssumption == CTAs # {} /\ IsFiniteSet(CTAs)
ASSUME LanesAssumption == IsFiniteSet(Lanes) /\ Leader \in Lanes
ASSUME ConsumersAssumption ==
    /\ IsFiniteSet(Consumers)
    /\ Consumers # {}
    /\ Consumers \cap Lanes = {}
ASSUME TotalWorkAssumption == TotalWork \in Nat

VARIABLES
    workspace_iter,         \* the global work counter
    sWorkIdx,               \* [CTA][buf]: the shared slots
    sched_mbar,             \* [CTA][buf]: slot written
    sched_consumed_mbar,    \* [CTA][buf]: slot read by all consumers
    load,                   \* [CTA][lane]: registers of a Load lane
    cons,                   \* [CTA][thread]: registers of a consumer thread
    given,                  \* history: numbers each CTA took from the counter
    handled                 \* history: units each thread worked on

vars == <<workspace_iter, sWorkIdx, sched_mbar, sched_consumed_mbar,
          load, cons, given, handled>>

\* The two slots: a thread's round n = 0, 1, 2, ... uses slot n % 2
\* (sched_buf = 1 - sched_buf after every round).
Bufs == 0 .. 1

\* How many of the rounds before `n' use slot b.
Turns(n, b) == (n + 1 - b) \div 2

Threads == Lanes \cup Consumers
Unwritten == -1         \* content of shared memory before the first write

LaneCount == Cardinality(Lanes)             \* sched_mbar count
\* Mutant of ConsumerCount: one arrival, of an elected thread, is enough.
OneConsumer == 1

ConsumerCount == Cardinality(Consumers)     \* sched_consumed_mbar count

(***************************************************************************)
(* Registers.  `round' counts the work numbers the thread has read and     *)
(* acknowledged; it is in no register of the kernel and guards no step.    *)
(* The program starts each thread at its first access to slot 0.           *)
(***************************************************************************)
LoadInit == [pc |-> "elect", sched_buf |-> 0, first_wu |-> FALSE,
             phase |-> [b \in Bufs |-> 0], work_idx |-> Unwritten, round |-> 0]

ConsInit == [pc |-> "wait", sched_buf |-> 0, phase |-> [b \in Bufs |-> 0],
             work_idx |-> Unwritten, round |-> 0]

Init ==
    /\ workspace_iter = 0
    /\ sWorkIdx = [c \in CTAs |-> [b \in Bufs |-> Unwritten]]
    /\ sched_mbar = [c \in CTAs |-> [b \in Bufs |-> MbarInit(LaneCount)]]
    /\ sched_consumed_mbar =
          [c \in CTAs |-> [b \in Bufs |-> MbarInit(ConsumerCount)]]
    /\ load = [c \in CTAs |-> [l \in Lanes |-> LoadInit]]
    /\ cons = [c \in CTAs |-> [t \in Consumers |-> ConsInit]]
    /\ given = [c \in CTAs |-> <<>>]
    /\ handled = [c \in CTAs |-> [t \in Threads |-> <<>>]]

AllLanesAt(c, p) == \A l \in Lanes : load[c][l].pc = p

-----------------------------------------------------------------------------
(***************************************************************************)
(* The Load warp.  One round is: wait until the consumers have read what   *)
(* the slot held two rounds ago, take a number (one elected lane), write   *)
(* the slot, arrive (all lanes), sync_warp, read the slot back.            *)
(***************************************************************************)

\* Mutant of LoadWait: no back-pressure, the slot is written at once.
LoadWaitNever(c, l) ==
    LET r == load[c][l] IN
    /\ r.pc = "wait"
    /\ load' = [load EXCEPT ![c][l] =
          [r EXCEPT !.pc = "elect",
                    !.first_wu = FALSE,
                    !.phase[r.sched_buf] = IF r.first_wu THEN @ ELSE 1 - @]]
    /\ UNCHANGED <<workspace_iter, sWorkIdx, sched_mbar, sched_consumed_mbar,
                   cons, given, handled>>

\* Mutant of LoadWait: first_wu is never cleared.
LoadWaitFirst(c, l) ==
    LET r == load[c][l] IN
    /\ r.pc = "wait"
    /\ r.first_wu
          \/ MbarWaitable(sched_consumed_mbar[c][r.sched_buf],
                          r.phase[r.sched_buf])
    /\ load' = [load EXCEPT ![c][l].pc = "elect"]
    /\ UNCHANGED <<workspace_iter, sWorkIdx, sched_mbar, sched_consumed_mbar,
                   cons, given, handled>>

\* Back-pressure; the first write of slot 1 finds nothing to wait for.
LoadWait(c, l) ==
    LET r == load[c][l] IN
    /\ r.pc = "wait"
    /\ r.first_wu
          \/ MbarWaitable(sched_consumed_mbar[c][r.sched_buf],
                          r.phase[r.sched_buf])
    /\ load' = [load EXCEPT ![c][l] =
          [r EXCEPT !.pc = "elect",
                    !.first_wu = FALSE,
                    !.phase[r.sched_buf] = IF r.first_wu THEN @ ELSE 1 - @]]
    /\ UNCHANGED <<workspace_iter, sWorkIdx, sched_mbar, sched_consumed_mbar,
                   cons, given, handled>>

\* elect_one gathers the warp and lets one lane into the body.
Elect(c) ==
    /\ AllLanesAt(c, "elect")
    /\ load' = [load EXCEPT ![c] = [l \in Lanes |->
          [load[c][l] EXCEPT !.pc = IF l = Leader THEN "write" ELSE "arrive"]]]
    /\ UNCHANGED <<workspace_iter, sWorkIdx, sched_mbar, sched_consumed_mbar,
                   cons, given, handled>>

\* atomicAdd on the global counter; its old value goes to the slot.
FetchAndWrite(c) ==
    LET r == load[c][Leader] IN
    /\ r.pc = "write"
    /\ workspace_iter' = workspace_iter + 1
    /\ sWorkIdx' = [sWorkIdx EXCEPT ![c][r.sched_buf] = workspace_iter]
    /\ given' = [given EXCEPT ![c] = Append(@, workspace_iter)]
    /\ load' = [load EXCEPT ![c][Leader].pc = "arrive"]
    /\ UNCHANGED <<sched_mbar, sched_consumed_mbar, cons, handled>>

LoadArrive(c, l) ==
    LET r == load[c][l] IN
    /\ r.pc = "arrive"
    /\ sched_mbar' = [sched_mbar EXCEPT ![c][r.sched_buf] =
                         MbarArrive(@, LaneCount)]
    /\ load' = [load EXCEPT ![c][l].pc = "sync"]
    /\ UNCHANGED <<workspace_iter, sWorkIdx, sched_consumed_mbar,
                   cons, given, handled>>

SyncWarp(c) ==
    /\ AllLanesAt(c, "sync")
    /\ load' = [load EXCEPT ![c] =
          [l \in Lanes |-> [load[c][l] EXCEPT !.pc = "read"]]]
    /\ UNCHANGED <<workspace_iter, sWorkIdx, sched_mbar, sched_consumed_mbar,
                   cons, given, handled>>

\* Mutant of LoadRead: the buffer index is advanced, not flipped.
LoadReadAdvance(c, l) ==
    LET r == load[c][l]
        w == sWorkIdx[c][r.sched_buf]
    IN
    /\ r.pc = "read"
    /\ load' = [load EXCEPT ![c][l] =
          [r EXCEPT !.work_idx = w,
                    !.sched_buf = @ + 1,
                    !.first_wu = (r.round = 0),
                    !.round = @ + 1,
                    !.pc = IF w < TotalWork THEN "work" ELSE "exit"]]
    /\ UNCHANGED <<workspace_iter, sWorkIdx, sched_mbar, sched_consumed_mbar,
                   cons, given, handled>>

\* Mutant of LoadRead: first_wu is not set after the initial fetch.
LoadReadNoFirst(c, l) ==
    LET r == load[c][l]
        w == sWorkIdx[c][r.sched_buf]
    IN
    /\ r.pc = "read"
    /\ load' = [load EXCEPT ![c][l] =
          [r EXCEPT !.work_idx = w,
                    !.sched_buf = 1 - @,
                    !.round = @ + 1,
                    !.pc = IF w < TotalWork THEN "work" ELSE "exit"]]
    /\ UNCHANGED <<workspace_iter, sWorkIdx, sched_mbar, sched_consumed_mbar,
                   cons, given, handled>>

\* Read the slot back; first_wu is set to 1 after the initial fetch only.
LoadRead(c, l) ==
    LET r == load[c][l]
        w == sWorkIdx[c][r.sched_buf]
    IN
    /\ r.pc = "read"
    /\ load' = [load EXCEPT ![c][l] =
          [r EXCEPT !.work_idx = w,
                    !.sched_buf = 1 - @,
                    !.first_wu = (r.round = 0),
                    !.round = @ + 1,
                    !.pc = IF w < TotalWork THEN "work" ELSE "exit"]]
    /\ UNCHANGED <<workspace_iter, sWorkIdx, sched_mbar, sched_consumed_mbar,
                   cons, given, handled>>

LoadWork(c, l) ==
    /\ load[c][l].pc = "work"
    /\ handled' = [handled EXCEPT ![c][l] = Append(@, load[c][l].work_idx)]
    /\ load' = [load EXCEPT ![c][l].pc = "wait"]
    /\ UNCHANGED <<workspace_iter, sWorkIdx, sched_mbar, sched_consumed_mbar,
                   cons, given>>

-----------------------------------------------------------------------------
(***************************************************************************)
(* A thread of the MMA, CUDA-core, Store or Empty warps.                   *)
(***************************************************************************)

ConsWait(c, t) ==
    LET r == cons[c][t] IN
    /\ r.pc = "wait"
    /\ MbarWaitable(sched_mbar[c][r.sched_buf], r.phase[r.sched_buf])
    /\ cons' = [cons EXCEPT ![c][t] =
          [r EXCEPT !.pc = "read", !.phase[r.sched_buf] = 1 - @]]
    /\ UNCHANGED <<workspace_iter, sWorkIdx, sched_mbar, sched_consumed_mbar,
                   load, given, handled>>

\* Mutant of ConsRead: the flip comes before the read.
ConsReadOther(c, t) ==
    LET r == cons[c][t] IN
    /\ r.pc = "read"
    /\ cons' = [cons EXCEPT ![c][t] =
          [r EXCEPT !.pc = "arrive",
                    !.work_idx = sWorkIdx[c][1 - r.sched_buf]]]
    /\ UNCHANGED <<workspace_iter, sWorkIdx, sched_mbar, sched_consumed_mbar,
                   load, given, handled>>

ConsRead(c, t) ==
    LET r == cons[c][t] IN
    /\ r.pc = "read"
    /\ cons' = [cons EXCEPT ![c][t] =
          [r EXCEPT !.pc = "arrive", !.work_idx = sWorkIdx[c][r.sched_buf]]]
    /\ UNCHANGED <<workspace_iter, sWorkIdx, sched_mbar, sched_consumed_mbar,
                   load, given, handled>>

\* Mutant of ConsArrive: the loop stops one unit early.
ConsArriveShort(c, t) ==
    LET r == cons[c][t] IN
    /\ r.pc = "arrive"
    /\ sched_consumed_mbar' = [sched_consumed_mbar EXCEPT ![c][r.sched_buf] =
                                  MbarArrive(@, ConsumerCount)]
    /\ cons' = [cons EXCEPT ![c][t] =
          [r EXCEPT !.sched_buf = 1 - @,
                    !.round = @ + 1,
                    !.pc = IF r.work_idx < TotalWork - 1
                           THEN "work" ELSE "exit"]]
    /\ UNCHANGED <<workspace_iter, sWorkIdx, sched_mbar, load, given, handled>>

ConsArrive(c, t) ==
    LET r == cons[c][t] IN
    /\ r.pc = "arrive"
    /\ sched_consumed_mbar' = [sched_consumed_mbar EXCEPT ![c][r.sched_buf] =
                                  MbarArrive(@, ConsumerCount)]
    /\ cons' = [cons EXCEPT ![c][t] =
          [r EXCEPT !.sched_buf = 1 - @,
                    !.round = @ + 1,
                    !.pc = IF r.work_idx < TotalWork THEN "work" ELSE "exit"]]
    /\ UNCHANGED <<workspace_iter, sWorkIdx, sched_mbar, load, given, handled>>

ConsWork(c, t) ==
    /\ cons[c][t].pc = "work"
    /\ handled' = [handled EXCEPT ![c][t] = Append(@, cons[c][t].work_idx)]
    /\ cons' = [cons EXCEPT ![c][t].pc = "wait"]
    /\ UNCHANGED <<workspace_iter, sWorkIdx, sched_mbar, sched_consumed_mbar,
                   load, given>>

-----------------------------------------------------------------------------
\* Every thread has left its loop and stands at the TMEM release barrier.
AllExited ==
    /\ \A c \in CTAs, l \in Lanes : load[c][l].pc = "exit"
    /\ \A c \in CTAs, t \in Consumers : cons[c][t].pc = "exit"

KernelEnd == AllExited /\ UNCHANGED vars

LaneStep(c, l) ==
    \/ LoadWait(c, l) \/ LoadArrive(c, l) \/ LoadRead(c, l) \/ LoadWork(c, l)

WarpStep(c) == Elect(c) \/ FetchAndWrite(c) \/ SyncWarp(c)

ConsStep(c, t) ==
    \/ ConsWait(c, t) \/ ConsRead(c, t) \/ ConsArrive(c, t) \/ ConsWork(c, t)

Next ==
    \/ \E c \in CTAs : WarpStep(c)
    \/ \E c \in CTAs, l \in Lanes : LaneStep(c, l)
    \/ \E c \in CTAs, t \in Consumers : ConsStep(c, t)
    \/ KernelEnd

Spec == Init /\ [][Next]_vars

(***************************************************************************)
(* Every thread of a resident CTA makes progress (the persistent grid has  *)
(* one CTA per SM, so all of them are resident).                           *)
(***************************************************************************)
Fairness ==
    /\ \A c \in CTAs : WF_vars(WarpStep(c))
    /\ \A c \in CTAs, l \in Lanes : WF_vars(LaneStep(c, l))
    /\ \A c \in CTAs, t \in Consumers : WF_vars(ConsStep(c, t))

FairSpec == Spec /\ Fairness

-----------------------------------------------------------------------------
(***************************************************************************)
(* Properties                                                              *)
(***************************************************************************)

LoadType ==
    [pc : {"wait", "elect", "write", "arrive", "sync", "read", "work", "exit"},
     sched_buf : Bufs, first_wu : BOOLEAN, phase : [Bufs -> Bufs],
     work_idx : Int, round : Nat]

ConsType ==
    [pc : {"wait", "read", "arrive", "work", "exit"}, sched_buf : Bufs,
     phase : [Bufs -> Bufs], work_idx : Int, round : Nat]

\* Type invariant of the scheduler's shared slots, barriers and registers.
TypeOK ==
    /\ workspace_iter \in Nat
    /\ sWorkIdx \in [CTAs -> [Bufs -> Int]]
    /\ sched_mbar \in [CTAs -> [Bufs -> MbarType(LaneCount)]]
    /\ sched_consumed_mbar \in [CTAs -> [Bufs -> MbarType(ConsumerCount)]]
    /\ load \in [CTAs -> [Lanes -> LoadType]]
    /\ cons \in [CTAs -> [Consumers -> ConsType]]
    /\ given \in [CTAs -> Seq(Int)]
    /\ handled \in [CTAs -> [Threads -> Seq(Int)]]

(***************************************************************************)
(* A thread that is about to read a slot (work_idx = sWorkIdx[buf]) finds  *)
(* in it the number the Load warp broadcast for the thread's own round:    *)
(* never an unwritten slot, an older number or the one two rounds later.   *)
(***************************************************************************)
ReadsOwnRound ==
    \A c \in CTAs :
        /\ \A l \in Lanes : load[c][l].pc = "read" =>
              /\ load[c][l].round < Len(given[c])
              /\ sWorkIdx[c][load[c][l].sched_buf] =
                    given[c][load[c][l].round + 1]
        /\ \A t \in Consumers : cons[c][t].pc = "read" =>
              /\ cons[c][t].round < Len(given[c])
              /\ sWorkIdx[c][cons[c][t].sched_buf] =
                    given[c][cons[c][t].round + 1]

(***************************************************************************)
(* The comment "double-buffered to avoid phase racing": no thread that     *)
(* waits on a scheduling barrier is lapped by it.  When it waits for its   *)
(* k-th phase the barrier has completed k - 1 or k phases, so the parity   *)
(* it tests cannot be mistaken for an older or a newer phase.              *)
(***************************************************************************)
NeverLapped ==
    \A c \in CTAs :
        /\ \A t \in Consumers : cons[c][t].pc = "wait" =>
              LET b == cons[c][t].sched_buf IN
              sched_mbar[c][b].phase - Turns(cons[c][t].round, b) \in 0 .. 1
        /\ \A l \in Lanes : load[c][l].pc = "wait" /\ ~load[c][l].first_wu =>
              LET b == load[c][l].sched_buf IN
              sched_consumed_mbar[c][b].phase
                 - (Turns(load[c][l].round, b) - 1) \in 0 .. 1

(***************************************************************************)
(* The slot is overwritten (sWorkIdx[sched_buf] = next_idx) only when no   *)
(* consumer thread of the CTA still has to read the number it held.        *)
(***************************************************************************)
OverwriteAfterRead ==
    [][\A c \in CTAs : given'[c] # given[c] =>
          \A t \in Consumers : cons[c][t].round >= Len(given[c]) - 1]_vars

(***************************************************************************)
(* No work unit is handled twice by threads of the same role: two CTAs     *)
(* never work on one unit, and no thread works on a unit twice.            *)
(***************************************************************************)
HandledOnce ==
    \A t \in Threads, c1, c2 \in CTAs :
        \A i \in 1 .. Len(handled[c1][t]), j \in 1 .. Len(handled[c2][t]) :
            handled[c1][t][i] = handled[c2][t][j] => c1 = c2 /\ i = j

(***************************************************************************)
(* When the kernel ends, every unit 0 .. total_work_units - 1 has been     *)
(* handled by every thread role (the Load lane that fetched its tiles, the *)
(* MMA, CUDA-core and Store threads), all in the same CTA.                 *)
(***************************************************************************)
EndsComplete ==
    AllExited =>
        \A w \in 0 .. TotalWork - 1 : \E c \in CTAs : \A t \in Threads :
            \E i \in 1 .. Len(handled[c][t]) : handled[c][t][i] = w

\* Every thread leaves its scheduling loop: no thread waits for a signal
\* that was overwritten or that nobody will send.
EventuallyExits == <>AllExited

\* The broadcast protocol implements plain dealing of work units.
Dispatch == INSTANCE WorkDispatch WITH issued <- workspace_iter, Ahead <- 2
ImplementsDispatch == Dispatch!Spec
=============================================================================
