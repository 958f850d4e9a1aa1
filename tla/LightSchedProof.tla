---------------------------- MODULE LightSchedProof ----------------------------
(***************************************************************************)
(* Proofs about the scheduler of LightSched, for any number of CTAs, Load  *)
(* lanes, consumer threads and work units.                                 *)
(*                                                                         *)
(* Nothing tells the Load warp that a slot was read; that it was follows   *)
(* from where the threads stand: the leader is at the fetch only when all  *)
(* consumers are behind the block barrier, each having read and handled    *)
(* every number of the block.  The inductive invariant says so, counts the *)
(* rounds and derives the phases of the barriers from the count.           *)
(* With the histories in it, it gives the refinement of WorkDispatch, and  *)
(* with when a thread leaves (Leaving), that all units get handled.        *)
(***************************************************************************)
EXTENDS LightSched, SequenceTheorems, TLAPS

-----------------------------------------------------------------------------
(***************************************************************************)
(* How rounds and uses of a slot relate.                                   *)
(***************************************************************************)

\* How many of the rounds before `n' use slot b.
Turns(n, b) == (n + 1 - b) \div 2

\* Rounds and the slots they use.
LEMMA TurnsFacts ==
    ASSUME NEW n \in Nat
    PROVE  /\ Turns(n, 0) = (n + 1) \div 2 /\ Turns(n, 1) = n \div 2
           /\ Turns(n, 0) \in Nat /\ Turns(n, 1) \in Nat
           /\ n % 2 = 0 => /\ Turns(n + 1, 0) = Turns(n, 0) + 1
                           /\ Turns(n + 1, 1) = Turns(n, 1)
           /\ n % 2 = 1 => /\ Turns(n + 1, 1) = Turns(n, 1) + 1
                           /\ Turns(n + 1, 0) = Turns(n, 0)
           /\ n % 2 \in Bufs
           /\ (n + 1) % 2 = 1 - (n % 2)
  BY DEF Turns, Bufs

LEMMA TurnsOf ==
    ASSUME NEW n \in Nat, NEW b \in Bufs
    PROVE  Turns(n, b) \in Nat
  BY TurnsFacts DEF Bufs

\* A round uses one slot and leaves the other.
LEMMA TurnsStep ==
    ASSUME NEW n \in Nat
    PROVE  /\ 1 - (n % 2) \in Bufs /\ 1 - (n % 2) # n % 2
           /\ Turns(n + 1, n % 2) = Turns(n, n % 2) + 1
           /\ Turns(n + 1, 1 - (n % 2)) = Turns(n, 1 - (n % 2))
  <1>1. CASE n % 2 = 0
    <2>1. 1 - (n % 2) = 1
      BY <1>1
    <2>2. /\ Turns(n + 1, 0) = Turns(n, 0) + 1
          /\ Turns(n + 1, 1) = Turns(n, 1)
      BY <1>1, TurnsFacts
    <2> QED BY <1>1, <2>1, <2>2 DEF Bufs
  <1>2. CASE n % 2 = 1
    <2>1. 1 - (n % 2) = 0
      BY <1>2
    <2>2. /\ Turns(n + 1, 1) = Turns(n, 1) + 1
          /\ Turns(n + 1, 0) = Turns(n, 0)
      BY <1>2, TurnsFacts
    <2> QED BY <1>2, <2>1, <2>2 DEF Bufs
  <1> QED BY <1>1, <1>2, TurnsFacts DEF Bufs

-----------------------------------------------------------------------------
(***************************************************************************)
(* The inductive invariant of one block.                                   *)
(***************************************************************************)

\* The next number is not taken yet.
AtFetch(c) == pc[c][Leader] \in {"elect", "write"}

\* The numbers whose slot's barrier was signalled.
Published(c) == IF pc[c][Leader] = "arrive" THEN Len(given[c]) - 1
                                           ELSE Len(given[c])

\* The threads move together: the lanes with the leader up to sync_warp, the
\* consumers wait while the leader is before its arrival.
Gathered(c) ==
    /\ \A t \in Consumers :
          pc[c][t] \in {"wait", "read", "work", "barrier", "exit"}
    /\ \A l \in Lanes :
          /\ pc[c][l] # "wait"
          /\ l # Leader => pc[c][l] \notin {"write", "arrive"}
          /\ pc[c][Leader] = "elect" <=> pc[c][l] = "elect"
          /\ l # Leader => (pc[c][l] = "sync"
                              <=> pc[c][Leader] \in {"write", "arrive", "sync"})
    /\ pc[c][Leader] \in {"elect", "write", "arrive"} =>
          \A t \in Consumers : pc[c][t] = "wait"

\* A thread has read every number of its block, or every one but the last.
Counted(c) ==
    \A t \in Threads :
        round[c][t] =
            IF ~AtFetch(c) /\ pc[c][t] \in {"arrive", "sync", "read", "wait"}
            THEN Len(given[c]) - 1 ELSE Len(given[c])

\* Slots, barriers and phase bits are where the count puts them.
Slotted(c) ==
    /\ \A t \in Threads : sched_buf[c][t] = round[c][t] % 2
    /\ \A b \in Bufs :
          sched_mbar[c][b] = [pending |-> 1, phase |-> Turns(Published(c), b)]
    /\ Len(given[c]) > 0 =>
          sWorkIdx[c][(Len(given[c]) - 1) % 2] = given[c][Len(given[c])]
    /\ \A t \in Consumers, b \in Bufs :
          sched_phase[c][t][b] =
              Turns(IF pc[c][t] = "read" THEN round[c][t] + 1
                                         ELSE round[c][t], b) % 2

\* A thread has handled, in order, the units it has read and finished.
Handling(c) ==
    \A t \in Threads :
        /\ Len(handled[c][t]) =
              IF pc[c][t] \in {"work", "exit"} THEN round[c][t] - 1
                                               ELSE round[c][t]
        /\ \A i \in 1 .. Len(handled[c][t]) :
              handled[c][t][i] = given[c][i] /\ given[c][i] < TotalWork
        /\ pc[c][t] = "work" =>
              /\ work_idx[c][t] = given[c][Len(given[c])]
              /\ work_idx[c][t] < TotalWork
        /\ pc[c][t] \in {"work", "exit"} => Len(given[c]) > 0

BlockInv(c) == Gathered(c) /\ Counted(c) /\ Slotted(c) /\ Handling(c)

IInv == TypeOK /\ \A c \in CTAs : BlockInv(c)

-----------------------------------------------------------------------------
(***************************************************************************)
(* Types.                                                                  *)
(***************************************************************************)
USE CTAsAssumption, LanesAssumption, ConsumersAssumption, TotalWorkAssumption

LEMMA InitType == Init => TypeOK
  <1> SUFFICES ASSUME Init PROVE TypeOK
    OBVIOUS
  <1>1. sched_mbar \in [CTAs -> [Bufs -> MbarType(1)]]
    BY DEF Init, MbarInit, MbarType
  <1>2. pc \in [CTAs -> [Threads -> PCs]]
    BY DEF Init, PCs
  <1>3. /\ sWorkIdx \in [CTAs -> [Bufs -> Int]]
        /\ work_idx \in [CTAs -> [Threads -> Int]]
    BY DEF Init, Unwritten
  <1>4. /\ sched_buf \in [CTAs -> [Threads -> Bufs]]
        /\ sched_phase \in [CTAs -> [Threads -> [Bufs -> Bufs]]]
        /\ round \in [CTAs -> [Threads -> Nat]]
    BY DEF Init, Bufs
  <1>5. /\ workspace_iter \in Nat
        /\ given \in [CTAs -> Seq(Int)]
        /\ handled \in [CTAs -> [Threads -> Seq(Int)]]
    BY DEF Init
  <1> QED BY <1>1, <1>2, <1>3, <1>4, <1>5 DEF TypeOK

LEMMA LeaderThread == Leader \in Threads /\ Lanes \subseteq Threads /\ Consumers \subseteq Threads
  BY DEF Threads

\* What updating one thread's register does, and leaves.
LEMMA Update ==
  ASSUME NEW S, NEW f \in [CTAs -> [Threads -> S]], NEW c \in CTAs,
         NEW t \in Threads, NEW v \in S
  PROVE  LET g == [f EXCEPT ![c][t] = v] IN
         /\ g \in [CTAs -> [Threads -> S]]
         /\ g[c][t] = v
         /\ \A u \in Threads : u # t => g[c][u] = f[c][u]
         /\ \A d \in CTAs : d # c => g[d] = f[d]
  OBVIOUS

LEMMA GotoType ==
  ASSUME TypeOK, NEW c \in CTAs, NEW t \in Threads, NEW label \in PCs,
         Goto(c, t, label)
  PROVE  /\ pc' \in [CTAs -> [Threads -> PCs]]
         /\ pc'[c][t] = label
         /\ \A u \in Threads : u # t => pc'[c][u] = pc[c][u]
         /\ \A d \in CTAs : d # c => pc'[d] = pc[d]
  BY Update DEF TypeOK, Goto

(***************************************************************************)
(* What the steps of one thread change: its own registers, by so much.     *)
(***************************************************************************)
LEMMA WorkEffect ==
  ASSUME TypeOK, NEW c \in CTAs, NEW t \in Threads, Work(c, t)
  PROVE  /\ handled' \in [CTAs -> [Threads -> Seq(Int)]]
         /\ handled'[c][t] = Append(handled[c][t], work_idx[c][t])
         /\ \A u \in Threads : u # t => handled'[c][u] = handled[c][u]
         /\ \A d \in CTAs : d # c => handled'[d] = handled[d]
  <1>1. Append(handled[c][t], work_idx[c][t]) \in Seq(Int)
    BY DEF TypeOK
  <1>2. handled' = [handled EXCEPT
                      ![c][t] = Append(handled[c][t], work_idx[c][t])]
    BY DEF Work
  <1>3. handled \in [CTAs -> [Threads -> Seq(Int)]]
    BY DEF TypeOK
  <1> QED BY <1>1, <1>2, <1>3, Update

LEMMA WaitEffect ==
  ASSUME TypeOK, NEW c \in CTAs, NEW t \in Threads, Wait(c, t)
  PROVE  /\ sched_phase' \in [CTAs -> [Threads -> [Bufs -> Bufs]]]
         /\ \A b \in Bufs : sched_phase'[c][t][b] =
               IF b = sched_buf[c][t] THEN 1 - sched_phase[c][t][b]
                                      ELSE sched_phase[c][t][b]
         /\ \A u \in Threads : u # t => sched_phase'[c][u] = sched_phase[c][u]
         /\ \A d \in CTAs : d # c => sched_phase'[d] = sched_phase[d]
  <1> DEFINE s == sched_buf[c][t]
             v == [sched_phase[c][t] EXCEPT ![s] = 1 - sched_phase[c][t][s]]
  <1>1. s \in Bufs /\ sched_phase[c][t] \in [Bufs -> Bufs]
    BY DEF TypeOK
  <1>2. v \in [Bufs -> Bufs]
    BY <1>1 DEF Bufs
  <1>3. sched_phase' = [sched_phase EXCEPT ![c][t] = v]
    BY DEF Wait
  <1>4. \A b \in Bufs : v[b] = IF b = s THEN 1 - sched_phase[c][t][b]
                                        ELSE sched_phase[c][t][b]
    BY <1>1
  <1>5. sched_phase \in [CTAs -> [Threads -> [Bufs -> Bufs]]]
    BY DEF TypeOK
  <1> HIDE DEF v
  <1> QED BY <1>2, <1>3, <1>4, <1>5, Update

LEMMA ReadEffect ==
  ASSUME TypeOK, NEW c \in CTAs, NEW t \in Threads, Read(c, t)
  PROVE  /\ sched_buf' \in [CTAs -> [Threads -> Bufs]]
         /\ work_idx' \in [CTAs -> [Threads -> Int]]
         /\ round' \in [CTAs -> [Threads -> Nat]]
         /\ sched_buf'[c][t] = 1 - sched_buf[c][t]
         /\ work_idx'[c][t] = sWorkIdx[c][sched_buf[c][t]]
         /\ round'[c][t] = round[c][t] + 1
         /\ \A u \in Threads : u # t =>
               /\ sched_buf'[c][u] = sched_buf[c][u]
               /\ work_idx'[c][u] = work_idx[c][u]
               /\ round'[c][u] = round[c][u]
         /\ \A d \in CTAs : d # c =>
               /\ sched_buf'[d] = sched_buf[d]
               /\ work_idx'[d] = work_idx[d]
               /\ round'[d] = round[d]
  <1>1. /\ sched_buf' = [sched_buf EXCEPT ![c][t] = 1 - sched_buf[c][t]]
        /\ work_idx' =
              [work_idx EXCEPT ![c][t] = sWorkIdx[c][sched_buf[c][t]]]
        /\ round' = [round EXCEPT ![c][t] = round[c][t] + 1]
    BY DEF Read
  <1>2. /\ sched_buf[c][t] \in Bufs
        /\ 1 - sched_buf[c][t] \in Bufs
        /\ round[c][t] + 1 \in Nat
    BY DEF TypeOK, Bufs
  <1>3. sWorkIdx[c][sched_buf[c][t]] \in Int
    BY <1>2 DEF TypeOK
  <1>4. /\ sched_buf \in [CTAs -> [Threads -> Bufs]]
        /\ work_idx \in [CTAs -> [Threads -> Int]]
        /\ round \in [CTAs -> [Threads -> Nat]]
    BY DEF TypeOK
  <1> QED BY <1>1, <1>2, <1>3, <1>4, Update

\* One arrival completes a phase of a barrier of count 1.
LEMMA ArriveOne ==
  ASSUME NEW b \in MbarType(1)
  PROVE  /\ MbarArrive(b, 1) = [pending |-> 1, phase |-> b.phase + 1]
         /\ MbarArrive(b, 1) \in MbarType(1)
  BY DEF MbarArrive, MbarType

LEMMA NextType == TypeOK /\ [Next]_vars => TypeOK'
  <1> SUFFICES ASSUME TypeOK, [Next]_vars PROVE TypeOK'
    OBVIOUS
  <1> USE LeaderThread
  <1>1. ASSUME NEW c \in CTAs, NEW t \in Threads, Work(c, t) PROVE TypeOK'
    <2>1. pc' \in [CTAs -> [Threads -> PCs]]
      BY <1>1, GotoType DEF Work, PCs
    <2> QED BY <1>1, <2>1, WorkEffect DEF Work, TypeOK, shared, regs
  <1>2. ASSUME NEW c \in CTAs, NEW t \in Threads, Wait(c, t) PROVE TypeOK'
    <2>1. pc' \in [CTAs -> [Threads -> PCs]]
      BY <1>2, GotoType DEF Wait, PCs
    <2> QED BY <1>2, <2>1, WaitEffect DEF Wait, TypeOK, shared
  <1>3. ASSUME NEW c \in CTAs, NEW t \in Threads, Read(c, t) PROVE TypeOK'
    <2>1. pc' \in [CTAs -> [Threads -> PCs]]
      BY <1>3, GotoType DEF Read, PCs
    <2> QED BY <1>3, <2>1, ReadEffect DEF Read, TypeOK, shared
  <1>4. ASSUME NEW c \in CTAs, CtaBarrier(c) PROVE TypeOK'
    <2>1. pc' \in [CTAs -> [Threads -> PCs]]
      BY <1>4 DEF CtaBarrier, TypeOK, PCs
    <2> QED BY <1>4, <2>1 DEF CtaBarrier, TypeOK, shared, regs
  <1>5. ASSUME NEW c \in CTAs, Elect(c) PROVE TypeOK'
    <2>1. pc' \in [CTAs -> [Threads -> PCs]]
      BY <1>5 DEF Elect, TypeOK, PCs
    <2> QED BY <1>5, <2>1 DEF Elect, TypeOK, shared, regs
  <1>6. ASSUME NEW c \in CTAs, FetchAndWrite(c) PROVE TypeOK'
    <2>1. pc' \in [CTAs -> [Threads -> PCs]]
      BY <1>6, GotoType DEF FetchAndWrite, PCs
    <2>2. /\ workspace_iter' \in Nat
          /\ sWorkIdx' \in [CTAs -> [Bufs -> Int]]
          /\ given' \in [CTAs -> Seq(Int)]
      BY <1>6 DEF FetchAndWrite, TypeOK
    <2> QED BY <1>6, <2>1, <2>2 DEF FetchAndWrite, TypeOK, regs
  <1>7. ASSUME NEW c \in CTAs, LeaderArrive(c) PROVE TypeOK'
    <2>1. pc' \in [CTAs -> [Threads -> PCs]]
      BY <1>7, GotoType DEF LeaderArrive, PCs
    <2>2. sched_mbar' \in [CTAs -> [Bufs -> MbarType(1)]]
      <3> DEFINE b == sched_buf[c][Leader]
      <3>1. b \in Bufs /\ sched_mbar[c][b] \in MbarType(1)
        BY DEF TypeOK
      <3>2. MbarArrive(sched_mbar[c][b], 1) \in MbarType(1)
        BY <3>1, ArriveOne
      <3> QED BY <1>7, <3>1, <3>2 DEF LeaderArrive, TypeOK
    <2> QED BY <1>7, <2>1, <2>2 DEF LeaderArrive, TypeOK, regs
  <1>8. ASSUME NEW c \in CTAs, SyncWarp(c) PROVE TypeOK'
    <2>1. pc' \in [CTAs -> [Threads -> PCs]]
      BY <1>8 DEF SyncWarp, TypeOK, PCs
    <2> QED BY <1>8, <2>1 DEF SyncWarp, TypeOK, shared, regs
  <1>9. CASE UNCHANGED vars
    BY <1>9 DEF vars, shared, regs, TypeOK
  <1> QED BY <1>1, <1>2, <1>3, <1>4, <1>5, <1>6, <1>7, <1>8, <1>9
          DEF Next, WarpStep, ThreadStep, KernelEnd

\* The slots, barriers and registers of LightSched keep their types.
THEOREM TypeCorrect == Spec => []TypeOK
  BY InitType, NextType, PTL DEF Spec

-----------------------------------------------------------------------------
(***************************************************************************)
(* The invariant, action by action.                                        *)
(***************************************************************************)

\* A step of one block leaves the invariant of the others alone.
LEMMA OtherBlock ==
  ASSUME NEW d \in CTAs, BlockInv(d),
         sWorkIdx'[d] = sWorkIdx[d], sched_mbar'[d] = sched_mbar[d],
         pc'[d] = pc[d], sched_buf'[d] = sched_buf[d],
         sched_phase'[d] = sched_phase[d], work_idx'[d] = work_idx[d],
         round'[d] = round[d], given'[d] = given[d], handled'[d] = handled[d]
  PROVE  BlockInv(d)'
  <1>1. Gathered(d)'
    BY DEF BlockInv, Gathered
  <1>2. Counted(d)'
    BY DEF BlockInv, Counted, AtFetch
  <1>3. Slotted(d)'
    BY DEF BlockInv, Slotted, Published, Turns
  <1>4. Handling(d)'
    BY DEF BlockInv, Handling
  <1> QED BY <1>1, <1>2, <1>3, <1>4 DEF BlockInv

\* What the types of the state say of one block.
LEMMA BlockType ==
  ASSUME TypeOK, NEW c \in CTAs
  PROVE  /\ given[c] \in Seq(Int)
         /\ Len(given[c]) \in Nat
         /\ \A t \in Threads :
               /\ pc[c][t] \in PCs
               /\ round[c][t] \in Nat
               /\ sched_buf[c][t] \in Bufs
               /\ handled[c][t] \in Seq(Int)
               /\ Len(handled[c][t]) \in Nat
               /\ work_idx[c][t] \in Int
         /\ \A b \in Bufs : sched_mbar[c][b] \in MbarType(1)
         /\ \A b \in Bufs : sWorkIdx[c][b] \in Int
  BY DEF TypeOK

LEMMA InitInv == Init => IInv
  <1> SUFFICES ASSUME Init, NEW c \in CTAs PROVE BlockInv(c)
    BY InitType DEF IInv
  <1> USE LeaderThread
  <1>a. given[c] = <<>> /\ Len(given[c]) = 0
    BY DEF Init
  <1>b. \A t \in Threads : pc[c][t] = IF t \in Lanes THEN "elect" ELSE "wait"
    BY DEF Init
  <1>c. \A t \in Threads : handled[c][t] = <<>> /\ Len(handled[c][t]) = 0
    BY DEF Init
  <1>d. \A t \in Threads : round[c][t] = 0 /\ sched_buf[c][t] = 0
    BY DEF Init
  <1>e. \A t \in Consumers : t \notin Lanes
    OBVIOUS
  <1>0. /\ given[c] = <<>> /\ Len(given[c]) = 0
        /\ \A t \in Lanes : pc[c][t] = "elect"
        /\ \A t \in Consumers : pc[c][t] = "wait"
        /\ \A t \in Threads : /\ pc[c][t] \in {"elect", "wait"}
                               /\ handled[c][t] = <<>>
                               /\ Len(handled[c][t]) = 0
                               /\ round[c][t] = 0
                               /\ sched_buf[c][t] = 0
    BY <1>a, <1>b, <1>c, <1>d, <1>e
  <1>1. Gathered(c)
    BY <1>0 DEF Gathered
  <1>2. Counted(c)
    BY <1>0 DEF Counted, AtFetch
  <1>3. Slotted(c)
    <2>1. \A b \in Bufs : Turns(0, b) = 0
      BY DEF Turns, Bufs
    <2>2. Published(c) = 0
      BY <1>0 DEF Published
    <2>3. \A b \in Bufs : sched_mbar[c][b] = [pending |-> 1, phase |-> 0]
      BY DEF Init, MbarInit
    <2>4. \A t \in Threads, b \in Bufs : sched_phase[c][t][b] = 0
      BY DEF Init
    <2>5. \A t \in Consumers : pc[c][t] # "read"
      BY <1>0
    <2> QED BY <1>0, <2>1, <2>2, <2>3, <2>4, <2>5 DEF Slotted
  <1>4. Handling(c)
    BY <1>0 DEF Handling
  <1> QED BY <1>1, <1>2, <1>3, <1>4 DEF BlockInv

LEMMA WorkInv ==
  ASSUME IInv, NEW c \in CTAs, NEW t \in Threads, Work(c, t)
  PROVE  BlockInv(c)'
  <1> USE LeaderThread
  <1>1. TypeOK /\ BlockInv(c)
    BY DEF IInv
  <1>2. /\ pc[c][t] = "work"
        /\ pc'[c][t] = "barrier"
        /\ \A u \in Threads : u # t => pc'[c][u] = pc[c][u]
    BY <1>1, GotoType DEF Work, PCs
  <1>3. UNCHANGED <<workspace_iter, sWorkIdx, sched_mbar, sched_buf,
                    sched_phase, work_idx, round, given>>
    BY DEF Work, shared, regs
  <1>4. ~AtFetch(c) /\ ~AtFetch(c)'
    BY <1>1, <1>2 DEF AtFetch, BlockInv, Gathered, Threads
  <1>5. Gathered(c)'
    BY <1>1, <1>2 DEF BlockInv, Gathered, Threads
  <1>6. Counted(c)'
    BY <1>1, <1>2, <1>3, <1>4 DEF BlockInv, Counted
  <1>7. Slotted(c)'
    <2>1. Published(c)' = Published(c)
      BY <1>2, <1>3 DEF Published
    <2>2. \A u \in Consumers : pc'[c][u] = "read" <=> pc[c][u] = "read"
      BY <1>2
    <2> QED BY <1>1, <1>3, <2>1, <2>2 DEF BlockInv, Slotted, Turns
  <1>8. Handling(c)'
    <2> DEFINE n == Len(handled[c][t]) + 1
    <2>1. /\ n = Len(given[c]) /\ round[c][t] = n
          /\ work_idx[c][t] = given[c][n] /\ given[c][n] < TotalWork
      <3>1. round[c][t] = Len(given[c])
        BY <1>1, <1>2 DEF BlockInv, Counted
      <3>2. /\ Len(handled[c][t]) = round[c][t] - 1
            /\ work_idx[c][t] = given[c][Len(given[c])]
            /\ work_idx[c][t] < TotalWork
        BY <1>1, <1>2 DEF BlockInv, Handling
      <3> QED BY <1>1, <3>1, <3>2, BlockType
    <2>2. /\ Len(handled'[c][t]) = n
          /\ handled'[c][t][n] = given[c][n]
          /\ \A i \in 1 .. n - 1 : handled'[c][t][i] = handled[c][t][i]
      <3>1. handled'[c][t] = Append(handled[c][t], work_idx[c][t])
        BY <1>1, WorkEffect
      <3>2. handled[c][t] \in Seq(Int)
        BY <1>1, BlockType
      <3> QED BY <2>1, <3>1, <3>2
    <2>3. \A i \in 1 .. n : i = n \/ i \in 1 .. n - 1
      <3>1. Len(handled[c][t]) \in Nat
        BY <1>1, BlockType
      <3> QED BY <3>1
    <2>4. \A i \in 1 .. n - 1 :
              handled[c][t][i] = given[c][i] /\ given[c][i] < TotalWork
      BY <1>1, BlockType DEF BlockInv, Handling
    <2>5. \A u \in Threads : u # t => handled'[c][u] = handled[c][u]
      BY <1>1, WorkEffect
    <2> SUFFICES ASSUME NEW u \in Threads
                 PROVE  /\ Len(handled'[c][u]) =
                              IF pc'[c][u] \in {"work", "exit"}
                              THEN round[c][u] - 1 ELSE round[c][u]
                        /\ \A i \in 1 .. Len(handled'[c][u]) :
                              /\ handled'[c][u][i] = given[c][i]
                              /\ given[c][i] < TotalWork
                        /\ pc'[c][u] = "work" =>
                              /\ work_idx[c][u] = given[c][Len(given[c])]
                              /\ work_idx[c][u] < TotalWork
                        /\ pc'[c][u] \in {"work", "exit"} => Len(given[c]) > 0
      BY <1>3 DEF Handling
    <2>6. CASE u = t
      <3> HIDE DEF n
      <3> QED BY <1>2, <2>1, <2>2, <2>3, <2>4, <2>6
    <2>7. CASE u # t
      BY <1>1, <1>2, <2>5, <2>7 DEF BlockInv, Handling
    <2> QED BY <2>6, <2>7
  <1> QED BY <1>5, <1>6, <1>7, <1>8 DEF BlockInv

\* A step that moves no counter: what stays of the invariant.
LEMMA MoveInv ==
  ASSUME IInv, NEW c \in CTAs,
         UNCHANGED <<sWorkIdx, sched_mbar, sched_buf, sched_phase, work_idx,
                     round, given, handled>>,
         pc[c][Leader] # "arrive", pc'[c][Leader] # "arrive",
         \A t \in Threads :
            /\ pc'[c][t] \in {"work", "exit"} <=> pc[c][t] \in {"work", "exit"}
            /\ pc'[c][t] = "work" <=> pc[c][t] = "work",
         \A t \in Consumers : pc'[c][t] = "read" <=> pc[c][t] = "read"
  PROVE  Slotted(c)' /\ Handling(c)'
  <1> USE LeaderThread
  <1>1. BlockInv(c)
    BY DEF IInv
  <1>2. Slotted(c)'
    <2>1. Published(c)' = Published(c)
      BY DEF Published
    <2> QED BY <1>1, <2>1 DEF BlockInv, Slotted, Turns
  <1>3. Handling(c)'
    BY <1>1 DEF BlockInv, Handling
  <1> QED BY <1>2, <1>3

LEMMA CtaBarrierInv ==
  ASSUME IInv, NEW c \in CTAs, CtaBarrier(c)
  PROVE  BlockInv(c)'
  <1> USE LeaderThread
  <1>1. TypeOK /\ BlockInv(c)
    BY DEF IInv
  <1>2. \A t \in Threads :
            /\ pc[c][t] = "barrier"
            /\ pc'[c][t] = IF t \in Lanes THEN "elect" ELSE "wait"
    BY <1>1 DEF CtaBarrier, AllAt, TypeOK
  <1>3. UNCHANGED <<sWorkIdx, sched_mbar, sched_buf, sched_phase, work_idx,
                    round, given, handled>>
    BY DEF CtaBarrier, shared, regs
  <1>4. Gathered(c)'
    BY <1>2 DEF Gathered
  <1>5. Counted(c)'
    BY <1>1, <1>2, <1>3 DEF BlockInv, Counted, AtFetch
  <1>6. Slotted(c)' /\ Handling(c)'
    BY <1>2, <1>3, MoveInv
  <1> QED BY <1>4, <1>5, <1>6 DEF BlockInv

LEMMA ElectInv ==
  ASSUME IInv, NEW c \in CTAs, Elect(c)
  PROVE  BlockInv(c)'
  <1> USE LeaderThread
  <1>1. TypeOK /\ BlockInv(c)
    BY DEF IInv
  <1>2. /\ \A l \in Lanes : pc[c][l] = "elect"
        /\ \A t \in Threads : pc'[c][t] =
              IF t = Leader THEN "write" ELSE IF t \in Lanes THEN "sync"
              ELSE pc[c][t]
    BY <1>1 DEF Elect, AllAt, TypeOK
  <1>3. UNCHANGED <<sWorkIdx, sched_mbar, sched_buf, sched_phase, work_idx,
                    round, given, handled>>
    BY DEF Elect, shared, regs
  <1>4. Gathered(c)'
    BY <1>1, <1>2 DEF BlockInv, Gathered, Threads
  <1>5. Counted(c)'
    BY <1>1, <1>2, <1>3 DEF BlockInv, Counted, AtFetch
  <1>6. Slotted(c)' /\ Handling(c)'
    BY <1>2, <1>3, MoveInv
  <1> QED BY <1>4, <1>5, <1>6 DEF BlockInv

LEMMA SyncWarpInv ==
  ASSUME IInv, NEW c \in CTAs, SyncWarp(c)
  PROVE  BlockInv(c)'
  <1> USE LeaderThread
  <1>1. TypeOK /\ BlockInv(c)
    BY DEF IInv
  <1>2. /\ \A l \in Lanes : pc[c][l] = "sync"
        /\ \A t \in Threads :
              pc'[c][t] = IF t \in Lanes THEN "read" ELSE pc[c][t]
    BY <1>1 DEF SyncWarp, AllAt, TypeOK
  <1>3. UNCHANGED <<sWorkIdx, sched_mbar, sched_buf, sched_phase, work_idx,
                    round, given, handled>>
    BY DEF SyncWarp, shared, regs
  <1>4. Gathered(c)'
    BY <1>1, <1>2 DEF BlockInv, Gathered, Threads
  <1>5. Counted(c)'
    BY <1>1, <1>2, <1>3 DEF BlockInv, Counted, AtFetch
  <1>6. Slotted(c)' /\ Handling(c)'
    BY <1>2, <1>3, MoveInv DEF Threads
  <1> QED BY <1>4, <1>5, <1>6 DEF BlockInv

LEMMA FetchAndWriteInv ==
  ASSUME IInv, NEW c \in CTAs, FetchAndWrite(c)
  PROVE  BlockInv(c)'
  <1> USE LeaderThread
  <1> DEFINE g == Len(given[c])
  <1>1. TypeOK /\ BlockInv(c)
    BY DEF IInv
  <1>2. /\ pc[c][Leader] = "write" /\ pc'[c][Leader] = "arrive"
        /\ \A t \in Threads : t # Leader => pc'[c][t] = pc[c][t]
    BY <1>1, GotoType DEF FetchAndWrite, PCs
  <1>3. /\ UNCHANGED <<sched_mbar, sched_buf, sched_phase, work_idx,
                       round, handled>>
        /\ given'[c] = Append(given[c], workspace_iter)
    BY <1>1 DEF FetchAndWrite, regs, TypeOK
  <1>4. /\ g \in Nat /\ Len(given'[c]) = g + 1
        /\ given'[c][g + 1] = workspace_iter
        /\ \A i \in 1 .. g : given'[c][i] = given[c][i]
    <2>1. given[c] \in Seq(Int)
      BY <1>1, BlockType
    <2> QED BY <1>3, <2>1
  <1>5. /\ \A t \in Consumers : pc[c][t] = "wait" /\ pc'[c][t] = "wait"
        /\ \A l \in Lanes : l # Leader => pc[c][l] = "sync" /\ pc'[c][l] = "sync"
    BY <1>1, <1>2 DEF BlockInv, Gathered, Threads
  <1>6. /\ \A t \in Threads : pc'[c][t] \in {"wait", "sync", "arrive"}
        /\ \A t \in Threads : pc[c][t] \notin {"work", "exit"}
    BY <1>2, <1>5 DEF Threads
  <1>7. \A t \in Threads : round[c][t] = g
    BY <1>1, <1>2 DEF BlockInv, Counted, AtFetch
  <1>8. Gathered(c)'
    BY <1>2, <1>5 DEF Gathered
  <1>9. Counted(c)'
    <2>1. ~AtFetch(c)'
      BY <1>2 DEF AtFetch
    <2>2. \A t \in Threads : round'[c][t] = Len(given'[c]) - 1
      BY <1>3, <1>4, <1>7
    <2> QED BY <1>6, <2>1, <2>2 DEF Counted
  <1>10. Slotted(c)'
    <2>1. Published(c)' = Published(c)
      BY <1>2, <1>4 DEF Published
    <2>2. sWorkIdx'[c][g % 2] = workspace_iter
      <3>1. sched_buf[c][Leader] = g % 2 /\ sched_buf[c][Leader] \in Bufs
        BY <1>1, <1>7, BlockType DEF BlockInv, Slotted
      <3> QED BY <1>1, <3>1 DEF FetchAndWrite, TypeOK
    <2>3. \A t \in Consumers : pc'[c][t] = pc[c][t]
      BY <1>5
    <2>4. sWorkIdx'[c][(Len(given'[c]) - 1) % 2] = given'[c][Len(given'[c])]
      <3>1. Len(given'[c]) - 1 = g
        BY <1>4
      <3> HIDE DEF g
      <3> QED BY <1>4, <2>2, <3>1
    <2> QED BY <1>1, <1>3, <2>1, <2>3, <2>4 DEF BlockInv, Slotted, Turns
  <1>11. Handling(c)'
    <2> SUFFICES ASSUME NEW t \in Threads
                 PROVE  /\ Len(handled[c][t]) = round[c][t]
                        /\ \A i \in 1 .. Len(handled[c][t]) :
                              /\ handled[c][t][i] = given'[c][i]
                              /\ given'[c][i] < TotalWork
      BY <1>3, <1>6 DEF Handling
    <2>1. Len(handled[c][t]) = g
      BY <1>1, <1>6, <1>7 DEF BlockInv, Handling
    <2> QED BY <1>1, <1>4, <1>7, <2>1 DEF BlockInv, Handling
  <1> QED BY <1>8, <1>9, <1>10, <1>11 DEF BlockInv

LEMMA LeaderArriveInv ==
  ASSUME IInv, NEW c \in CTAs, LeaderArrive(c)
  PROVE  BlockInv(c)'
  <1> USE LeaderThread
  <1> DEFINE r == round[c][Leader]
  <1>1. TypeOK /\ BlockInv(c)
    BY DEF IInv
  <1>2. /\ pc[c][Leader] = "arrive" /\ pc'[c][Leader] = "sync"
        /\ \A t \in Threads : t # Leader => pc'[c][t] = pc[c][t]
    BY <1>1, GotoType DEF LeaderArrive, PCs
  <1>3. UNCHANGED <<sWorkIdx, sched_buf, sched_phase, work_idx,
                    round, given, handled>>
    BY DEF LeaderArrive, regs
  <1>4. \A t \in Consumers : pc'[c][t] = pc[c][t]
    BY <1>2
  <1>5. Gathered(c)'
    BY <1>1, <1>2 DEF BlockInv, Gathered, Threads
  <1>6. ~AtFetch(c) /\ ~AtFetch(c)'
    BY <1>2 DEF AtFetch
  <1>7. Counted(c)'
    BY <1>1, <1>2, <1>3, <1>6 DEF BlockInv, Counted
  <1>8. r \in Nat /\ Len(given[c]) = r + 1
    <2>1. r = Len(given[c]) - 1
      BY <1>1, <1>2, <1>6 DEF BlockInv, Counted
    <2> QED BY <1>1, <2>1, BlockType
  <1>9. Slotted(c)'
    <2>1. Published(c) = r /\ Published(c)' = r + 1
      BY <1>2, <1>3, <1>8 DEF Published
    <2>2. sched_buf[c][Leader] = r % 2 /\ r % 2 \in Bufs
      BY <1>1, BlockType DEF BlockInv, Slotted
    <2>3. \A b \in Bufs :
              sched_mbar[c][b] = [pending |-> 1, phase |-> Turns(r, b)]
      BY <1>1, <2>1 DEF BlockInv, Slotted
    <2>4. MbarArrive(sched_mbar[c][r % 2], 1) =
              [pending |-> 1, phase |-> Turns(r, r % 2) + 1]
      <3> DEFINE m == sched_mbar[c][r % 2]
      <3>1. m \in MbarType(1)
        BY <1>1, <2>2, BlockType
      <3>2. MbarArrive(m, 1) = [pending |-> 1, phase |-> m.phase + 1]
        BY <3>1, ArriveOne
      <3>3. m = [pending |-> 1, phase |-> Turns(r, r % 2)]
        BY <2>2, <2>3
      <3>4. m.phase = Turns(r, r % 2)
        <4> HIDE DEF m
        <4> QED BY <3>3
      <3> QED BY <3>2, <3>4
    <2>5. /\ sched_mbar'[c][r % 2] = MbarArrive(sched_mbar[c][r % 2], 1)
          /\ \A b \in Bufs : b # r % 2 => sched_mbar'[c][b] = sched_mbar[c][b]
      BY <1>1, <2>2 DEF LeaderArrive, TypeOK
    <2>6. \A b \in Bufs : b = r % 2 \/ b = 1 - (r % 2)
      BY <2>2 DEF Bufs
    <2>7. \A b \in Bufs :
              sched_mbar'[c][b] = [pending |-> 1, phase |-> Turns(r + 1, b)]
      BY <1>8, <2>2, <2>3, <2>4, <2>5, <2>6, TurnsStep
    <2>8. \A b \in Bufs : sched_mbar'[c][b]
              = [pending |-> 1, phase |-> Turns(Published(c)', b)]
      BY <2>1, <2>7
    <2>9. \A b \in Bufs : Turns(Published(c), b)' = Turns(Published(c)', b)
      BY DEF Turns
    <2> QED BY <1>1, <1>3, <1>4, <2>8, <2>9 DEF BlockInv, Slotted, Turns
  <1>10. Handling(c)'
    BY <1>1, <1>2, <1>3 DEF BlockInv, Handling
  <1> QED BY <1>5, <1>7, <1>9, <1>10 DEF BlockInv

\* A thread that may pass the wait does so for its own round.
LEMMA WaitInv ==
  ASSUME IInv, NEW c \in CTAs, NEW t \in Threads, Wait(c, t)
  PROVE  BlockInv(c)'
  <1> USE LeaderThread
  <1> DEFINE r == round[c][t]
             s == r % 2
  <1>1. TypeOK /\ BlockInv(c)
    BY DEF IInv
  <1>2. /\ pc[c][t] = "wait" /\ pc'[c][t] = "read"
        /\ \A u \in Threads : u # t => pc'[c][u] = pc[c][u]
    BY <1>1, GotoType DEF Wait, PCs
  <1>3. UNCHANGED <<sWorkIdx, sched_mbar, sched_buf, work_idx,
                    round, given, handled>>
    BY DEF Wait, shared
  <1>4. t \in Consumers /\ t # Leader /\ pc'[c][Leader] = pc[c][Leader]
    BY <1>1, <1>2 DEF BlockInv, Gathered, Threads
  <1>5. r \in Nat /\ s \in Bufs /\ sched_buf[c][t] = s
    BY <1>1, BlockType DEF BlockInv, Slotted
  <1>6. sched_phase[c][t][s] = Turns(r, s) % 2
    BY <1>1, <1>2, <1>4, <1>5 DEF BlockInv, Slotted
  <1>7. sched_mbar[c][s].phase % 2 # sched_phase[c][t][s]
    BY <1>5 DEF Wait, MbarWaitable
  <1>8. sched_mbar[c][s].phase = Turns(Published(c), s)
    <2> DEFINE m == sched_mbar[c][s]
    <2>1. m = [pending |-> 1, phase |-> Turns(Published(c), s)]
      BY <1>1, <1>5 DEF BlockInv, Slotted
    <2>2. m.phase = Turns(Published(c), s)
      <3> HIDE DEF m, s
      <3> QED BY <2>1
    <2> QED BY <2>2
  <1>9. Published(c) # r
    BY <1>6, <1>7, <1>8
  <1>10. pc[c][Leader] \notin {"elect", "write", "arrive"}
    BY <1>1, <1>2, <1>9 DEF BlockInv, Counted, AtFetch, Published
  <1>11. ~AtFetch(c) /\ ~AtFetch(c)'
    BY <1>4, <1>10 DEF AtFetch
  <1>12. Gathered(c)'
    BY <1>1, <1>2, <1>4, <1>10 DEF BlockInv, Gathered, Threads
  <1>13. Counted(c)'
    BY <1>1, <1>2, <1>3, <1>11 DEF BlockInv, Counted
  <1>14. Slotted(c)'
    <2>1. Published(c)' = Published(c)
      BY <1>3, <1>4 DEF Published
    <2>2. \A b \in Bufs : sched_phase'[c][t][b] = Turns(r + 1, b) % 2
      <3>1. \A b \in Bufs : sched_phase'[c][t][b] =
                IF b = s THEN 1 - sched_phase[c][t][b] ELSE sched_phase[c][t][b]
        BY <1>1, <1>5, WaitEffect
      <3>2. \A b \in Bufs : sched_phase[c][t][b] = Turns(r, b) % 2
        BY <1>1, <1>2, <1>4 DEF BlockInv, Slotted
      <3>3. \A b \in Bufs : b # s => Turns(r + 1, b) = Turns(r, b)
        BY <1>5, TurnsStep DEF Bufs
      <3>4. Turns(r + 1, s) = Turns(r, s) + 1 /\ Turns(r, s) \in Nat
        BY <1>5, TurnsStep, TurnsOf
      <3>5. Turns(r + 1, s) % 2 = 1 - (Turns(r, s) % 2)
        <4> DEFINE n == Turns(r, s)
        <4>1. (n + 1) % 2 = 1 - (n % 2)
          <5>1. n \in Nat
            BY <3>4
          <5> HIDE DEF n
          <5> QED BY <5>1, TurnsFacts
        <4> QED BY <3>4, <4>1
      <3>6. \A b \in Bufs : b # s =>
                sched_phase'[c][t][b] = Turns(r + 1, b) % 2
        BY <3>1, <3>2, <3>3
      <3>7. sched_phase'[c][t][s] = Turns(r + 1, s) % 2
        <4>1. sched_phase'[c][t][s] = 1 - sched_phase[c][t][s]
          BY <1>5, <3>1
        <4> QED BY <1>6, <3>5, <4>1
      <3> QED BY <3>6, <3>7
    <2>3. \A u \in Consumers : u # t =>
              sched_phase'[c][u] = sched_phase[c][u] /\ pc'[c][u] = pc[c][u]
      BY <1>1, <1>2, WaitEffect
    <2>4. \A u \in Consumers, b \in Bufs :
              sched_phase'[c][u][b] =
                Turns(IF pc'[c][u] = "read" THEN round[c][u] + 1
                                            ELSE round[c][u], b) % 2
      BY <1>1, <1>2, <2>2, <2>3 DEF BlockInv, Slotted
    <2> QED BY <1>1, <1>3, <2>1, <2>4 DEF BlockInv, Slotted, Turns
  <1>15. Handling(c)'
    BY <1>1, <1>2, <1>3 DEF BlockInv, Handling
  <1> QED BY <1>12, <1>13, <1>14, <1>15 DEF BlockInv

\* Where a thread about to read stands: everything it may read is published.
LEMMA AtRead ==
  ASSUME IInv, NEW c \in CTAs, NEW t \in Threads, pc[c][t] = "read"
  PROVE  /\ pc[c][Leader] \notin {"elect", "write", "arrive"}
         /\ Len(given[c]) = round[c][t] + 1 /\ round[c][t] \in Nat
         /\ sched_buf[c][t] = round[c][t] % 2
         /\ sWorkIdx[c][sched_buf[c][t]] = given[c][round[c][t] + 1]
  <1> USE LeaderThread
  <1>1. TypeOK /\ BlockInv(c)
    BY DEF IInv
  <1>2. pc[c][Leader] \notin {"elect", "write", "arrive"}
    <2>1. CASE t \in Consumers
      BY <1>1, <2>1 DEF BlockInv, Gathered
    <2>2. CASE t \in Lanes
      BY <1>1, <2>2 DEF BlockInv, Gathered
    <2> QED BY <2>1, <2>2 DEF Threads
  <1>3. Len(given[c]) = round[c][t] + 1 /\ round[c][t] \in Nat
    <2>1. round[c][t] = Len(given[c]) - 1
      BY <1>1, <1>2 DEF BlockInv, Counted, AtFetch
    <2> QED BY <1>1, <2>1, BlockType
  <1>4. sched_buf[c][t] = round[c][t] % 2
    BY <1>1 DEF BlockInv, Slotted
  <1>5. sWorkIdx[c][(Len(given[c]) - 1) % 2] = given[c][Len(given[c])]
    BY <1>1, <1>3 DEF BlockInv, Slotted
  <1>6. Len(given[c]) - 1 = round[c][t]
    BY <1>3
  <1> QED BY <1>2, <1>3, <1>4, <1>5, <1>6

LEMMA ReadInv ==
  ASSUME IInv, NEW c \in CTAs, NEW t \in Threads, Read(c, t)
  PROVE  BlockInv(c)'
  <1> USE LeaderThread
  <1> DEFINE r == round[c][t]
             w == sWorkIdx[c][sched_buf[c][t]]
  <1>1. TypeOK /\ BlockInv(c)
    BY DEF IInv
  <1>2. /\ pc[c][t] = "read"
        /\ pc'[c][t] = IF w < TotalWork THEN "work" ELSE "exit"
        /\ \A u \in Threads : u # t => pc'[c][u] = pc[c][u]
    <2>1. (IF w < TotalWork THEN "work" ELSE "exit") \in PCs
      BY DEF PCs
    <2> HIDE DEF w
    <2>2. /\ pc[c][t] = "read"
          /\ Goto(c, t, IF w < TotalWork THEN "work" ELSE "exit")
      BY DEF Read, w
    <2> QED BY <1>1, <2>1, <2>2, GotoType
  <1>3. UNCHANGED <<sWorkIdx, sched_mbar, sched_phase, given, handled>>
    BY DEF Read, shared
  <1>4. /\ pc[c][Leader] \notin {"elect", "write", "arrive"}
        /\ Len(given[c]) = r + 1 /\ r \in Nat
        /\ sched_buf[c][t] = r % 2
        /\ w = given[c][r + 1]
    BY <1>2, AtRead
  <1>5. /\ pc'[c][t] \in {"work", "exit"}
        /\ pc'[c][Leader] \notin {"elect", "write", "arrive"}
    BY <1>2, <1>4
  <1>6. /\ round'[c][t] = r + 1
        /\ sched_buf'[c][t] = 1 - sched_buf[c][t]
        /\ work_idx'[c][t] = w
        /\ \A u \in Threads : u # t =>
              /\ sched_buf'[c][u] = sched_buf[c][u]
              /\ work_idx'[c][u] = work_idx[c][u]
              /\ round'[c][u] = round[c][u]
    BY <1>1, ReadEffect
  <1>7. ~AtFetch(c) /\ ~AtFetch(c)'
    BY <1>4, <1>5 DEF AtFetch
  <1>8. Gathered(c)'
    BY <1>1, <1>2, <1>4, <1>5 DEF BlockInv, Gathered, Threads
  <1>9. Counted(c)'
    BY <1>1, <1>2, <1>3, <1>4, <1>5, <1>6, <1>7 DEF BlockInv, Counted
  <1>10. Slotted(c)'
    <2>1. Published(c)' = Published(c)
      BY <1>3, <1>4, <1>5 DEF Published
    <2>2. \A u \in Threads : sched_buf'[c][u] = round'[c][u] % 2
      <3>1. sched_buf'[c][t] = round'[c][t] % 2
        <4>1. (r + 1) % 2 = 1 - (r % 2)
          BY <1>4, TurnsFacts
        <4> QED BY <1>4, <1>6, <4>1
      <3> QED BY <1>1, <1>6, <3>1 DEF BlockInv, Slotted
    <2>3. \A u \in Consumers, b \in Bufs :
              sched_phase[c][u][b] =
                Turns(IF pc'[c][u] = "read" THEN round'[c][u] + 1
                                            ELSE round'[c][u], b) % 2
      <3>1. \A u \in Consumers : u # t =>
                round'[c][u] = round[c][u] /\ pc'[c][u] = pc[c][u]
        BY <1>2, <1>6
      <3>2. t \in Consumers => \A b \in Bufs :
                sched_phase[c][t][b] = Turns(r + 1, b) % 2
        BY <1>1, <1>2 DEF BlockInv, Slotted
      <3>3. pc'[c][t] # "read"
        BY <1>5
      <3> QED BY <1>1, <1>6, <3>1, <3>2, <3>3 DEF BlockInv, Slotted
    <2> QED BY <1>1, <1>3, <2>1, <2>2, <2>3 DEF BlockInv, Slotted, Turns
  <1>11. Handling(c)'
    <2> SUFFICES ASSUME NEW u \in Threads
                 PROVE  /\ Len(handled[c][u]) =
                              IF pc'[c][u] \in {"work", "exit"}
                              THEN round'[c][u] - 1 ELSE round'[c][u]
                        /\ \A i \in 1 .. Len(handled[c][u]) :
                              /\ handled[c][u][i] = given[c][i]
                              /\ given[c][i] < TotalWork
                        /\ pc'[c][u] = "work" =>
                              /\ work_idx'[c][u] = given[c][Len(given[c])]
                              /\ work_idx'[c][u] < TotalWork
                        /\ pc'[c][u] \in {"work", "exit"} => Len(given[c]) > 0
      BY <1>3 DEF Handling
    <2>1. CASE u = t
      <3>1. Len(handled[c][t]) = r
        BY <1>1, <1>2 DEF BlockInv, Handling
      <3>2. pc'[c][t] = "work" =>
              /\ work_idx'[c][t] = given[c][Len(given[c])]
              /\ work_idx'[c][t] < TotalWork
        <4> HIDE DEF w, r
        <4> QED BY <1>2, <1>4, <1>6
      <3>3. Len(given[c]) > 0 /\ round'[c][t] - 1 = r
        BY <1>4, <1>6
      <3>4. \A i \in 1 .. Len(handled[c][t]) :
              handled[c][t][i] = given[c][i] /\ given[c][i] < TotalWork
        BY <1>1 DEF BlockInv, Handling
      <3> HIDE DEF r, w
      <3> QED BY <1>5, <2>1, <3>1, <3>2, <3>3, <3>4
    <2>2. CASE u # t
      BY <1>1, <1>2, <1>6, <2>2 DEF BlockInv, Handling
    <2> QED BY <2>1, <2>2
  <1> QED BY <1>8, <1>9, <1>10, <1>11 DEF BlockInv

\* A step of block c changes no state of another block.
LEMMA OwnBlock ==
  ASSUME TypeOK, NEW c \in CTAs, NEW d \in CTAs, d # c,
         CtaBarrier(c) \/ WarpStep(c) \/ \E t \in Threads : ThreadStep(c, t)
  PROVE  /\ sWorkIdx'[d] = sWorkIdx[d] /\ sched_mbar'[d] = sched_mbar[d]
         /\ pc'[d] = pc[d] /\ sched_buf'[d] = sched_buf[d]
         /\ sched_phase'[d] = sched_phase[d] /\ work_idx'[d] = work_idx[d]
         /\ round'[d] = round[d] /\ given'[d] = given[d]
         /\ handled'[d] = handled[d]
  <1> USE DEF TypeOK, shared, regs, Goto
  <1>1. CASE CtaBarrier(c) \/ Elect(c) \/ SyncWarp(c)
    BY <1>1 DEF CtaBarrier, Elect, SyncWarp
  <1>2. CASE FetchAndWrite(c)
    BY <1>2 DEF FetchAndWrite
  <1>3. CASE LeaderArrive(c)
    BY <1>3 DEF LeaderArrive
  <1>4. ASSUME NEW t \in Threads, Work(c, t)
        PROVE  pc'[d] = pc[d] /\ handled'[d] = handled[d]
               /\ UNCHANGED <<shared, regs, given>>
    BY <1>4 DEF Work
  <1>5. ASSUME NEW t \in Threads, Wait(c, t)
        PROVE  pc'[d] = pc[d] /\ sched_phase'[d] = sched_phase[d]
               /\ UNCHANGED <<shared, sched_buf, work_idx, round, given, handled>>
    BY <1>5 DEF Wait
  <1>6. ASSUME NEW t \in Threads, Read(c, t)
        PROVE  /\ pc'[d] = pc[d] /\ sched_buf'[d] = sched_buf[d]
               /\ work_idx'[d] = work_idx[d] /\ round'[d] = round[d]
               /\ UNCHANGED <<shared, sched_phase, given, handled>>
    BY <1>6 DEF Read
  <1> QED BY <1>1, <1>2, <1>3, <1>4, <1>5, <1>6 DEF WarpStep, ThreadStep

LEMMA NextInv == IInv /\ [Next]_vars => IInv'
  <1> SUFFICES ASSUME IInv, [Next]_vars PROVE \A d \in CTAs : BlockInv(d)'
    BY NextType DEF IInv
  <1>1. ASSUME NEW c \in CTAs,
               CtaBarrier(c) \/ WarpStep(c) \/ \E t \in Threads : ThreadStep(c, t)
        PROVE  \A d \in CTAs : BlockInv(d)'
    <2>1. BlockInv(c)'
      BY <1>1, CtaBarrierInv, ElectInv, FetchAndWriteInv, LeaderArriveInv,
         SyncWarpInv, WorkInv, WaitInv, ReadInv DEF WarpStep, ThreadStep
    <2>2. ASSUME NEW d \in CTAs, d # c PROVE BlockInv(d)'
      BY <1>1, <2>2, OwnBlock, OtherBlock DEF IInv
    <2> QED BY <2>1, <2>2
  <1>2. CASE UNCHANGED vars
    BY <1>2, OtherBlock DEF IInv, vars, shared, regs
  <1> QED BY <1>1, <1>2 DEF Next, KernelEnd

\* The inductive invariant holds in every reachable state.
THEOREM Invariance == Spec => []IInv
  BY InitInv, NextInv, InitType, PTL DEF Spec

-----------------------------------------------------------------------------
(***************************************************************************)
(* What the invariant gives.                                               *)
(***************************************************************************)

\* A thread about to read a slot finds the number of its own round there.
THEOREM ReadsOwnRoundAlways == Spec => []ReadsOwnRound
  <1>1. IInv => ReadsOwnRound
    BY AtRead DEF ReadsOwnRound
  <1> QED BY <1>1, Invariance, PTL

\* While the leader is at the fetch, every thread is done with every unit.
LEMMA DoneAtFetch ==
  ASSUME IInv, NEW c \in CTAs, pc[c][Leader] = "write", NEW t \in Threads
  PROVE  handled[c][t] = given[c]
  <1> USE LeaderThread
  <1>1. TypeOK /\ BlockInv(c)
    BY DEF IInv
  <1>2. pc[c][t] \notin {"work", "exit"}
    <2>1. CASE t \in Consumers
      BY <1>1, <2>1 DEF BlockInv, Gathered
    <2>2. CASE t \in Lanes
      BY <1>1, <2>2 DEF BlockInv, Gathered
    <2> QED BY <2>1, <2>2 DEF Threads
  <1>3. Len(handled[c][t]) = Len(given[c])
    BY <1>1, <1>2 DEF BlockInv, Handling, Counted, AtFetch
  <1>4. \A i \in 1 .. Len(handled[c][t]) : handled[c][t][i] = given[c][i]
    BY <1>1 DEF BlockInv, Handling
  <1>5. handled[c][t] \in Seq(Int) /\ given[c] \in Seq(Int)
    BY <1>1, BlockType
  <1> QED BY <1>3, <1>4, <1>5, SeqEqual

\* Only a fetch of the block's leader changes the numbers a block was given.
LEMMA GivenByFetch ==
  ASSUME TypeOK, [Next]_vars, NEW d \in CTAs, given'[d] # given[d]
  PROVE  FetchAndWrite(d)
  <1>1. CASE UNCHANGED vars
    BY <1>1 DEF vars
  <1>2. ASSUME NEW c \in CTAs, c # d,
               CtaBarrier(c) \/ WarpStep(c) \/ \E t \in Threads : ThreadStep(c, t)
        PROVE  FALSE
    BY <1>2, OwnBlock
  <1>3. CASE CtaBarrier(d) \/ WarpStep(d) \/ \E t \in Threads : ThreadStep(d, t)
    BY <1>3 DEF CtaBarrier, WarpStep, ThreadStep, Elect, LeaderArrive,
                SyncWarp, Work, Wait, Read
  <1> QED BY <1>1, <1>2, <1>3 DEF Next, KernelEnd

-----------------------------------------------------------------------------
(***************************************************************************)
(* The scheduler implements plain dealing: a fetch deals, the work on a    *)
(* unit handles it, every other step is invisible.                         *)
(***************************************************************************)
LEMMA FetchDeals ==
  ASSUME IInv, NEW c \in CTAs, FetchAndWrite(c)
  PROVE  Dispatch!Deal(c)
  <1> USE LeaderThread
  <1>1. TypeOK /\ BlockInv(c)
    BY DEF IInv
  <1>2. \A t \in Threads : handled[c][t] = given[c]
    BY DoneAtFetch DEF FetchAndWrite
  <1>3. ~Dispatch!Exhausted(c)
    <2>1. given[c] # <<>> => Len(given[c]) \in 1 .. Len(given[c])
      <3>1. given[c] \in Seq(Int)
        BY <1>1, BlockType
      <3> QED BY <3>1
    <2>2. \A i \in 1 .. Len(given[c]) : given[c][i] < TotalWork
      <3>1. handled[c][Leader] = given[c]
        BY <1>2
      <3> QED BY <1>1, <3>1 DEF BlockInv, Handling
    <2>3. ASSUME given[c] # <<>>, given[c][Len(given[c])] >= TotalWork
          PROVE  FALSE
      <3>1. given[c][Len(given[c])] < TotalWork
        BY <2>1, <2>2, <2>3
      <3>2. given[c][Len(given[c])] \in Int
        BY <1>1, <2>1, <2>3, BlockType, ElementOfSeq
      <3> QED BY <2>3, <3>1, <3>2
    <2> QED BY <2>3 DEF Dispatch!Exhausted
  <1>4. \A t \in Threads : Len(given[c]) - Len(handled[c][t]) <= 0
    BY <1>1, <1>2, BlockType
  <1> QED BY <1>3, <1>4 DEF FetchAndWrite, Dispatch!Deal

LEMMA WorkHandles ==
  ASSUME IInv, NEW c \in CTAs, NEW t \in Threads, Work(c, t)
  PROVE  Dispatch!Handle(c, t)
  <1> DEFINE next == Len(handled[c][t]) + 1
  <1>1. TypeOK /\ BlockInv(c)
    BY DEF IInv
  <1>2. pc[c][t] = "work"
    BY DEF Work
  <1>3. ~AtFetch(c)
    <2>1. CASE t \in Consumers
      BY <1>1, <1>2, <2>1 DEF BlockInv, Gathered, AtFetch
    <2>2. CASE t \in Lanes
      BY <1>1, <1>2, <2>2 DEF BlockInv, Gathered, AtFetch
    <2> QED BY <2>1, <2>2 DEF Threads
  <1>4. round[c][t] = Len(given[c]) /\ Len(handled[c][t]) = round[c][t] - 1
    BY <1>1, <1>2 DEF BlockInv, Counted, Handling
  <1>5. next = Len(given[c])
    BY <1>1, <1>4, BlockType
  <1>6. work_idx[c][t] = given[c][next] /\ given[c][next] < TotalWork
    BY <1>1, <1>2, <1>5 DEF BlockInv, Handling
  <1>7. next <= Len(given[c])
    BY <1>1, <1>5, BlockType
  <1>8. handled' = [handled EXCEPT ![c][t] = Append(@, given[c][next])]
    BY <1>6 DEF Work
  <1>9. UNCHANGED <<workspace_iter, given>>
    BY DEF Work, shared
  <1> QED BY <1>6, <1>7, <1>8, <1>9 DEF Dispatch!Handle

\* Every behaviour of the scheduler is one of the plain dealer.
THEOREM DispatchImplemented == Spec => ImplementsDispatch
  <1>1. Init => Dispatch!Init
    BY DEF Init, Dispatch!Init
  <1>2. ASSUME IInv, [Next]_vars
        PROVE  [Dispatch!Next]_(Dispatch!vars)
    <2>1. CASE UNCHANGED vars
      BY <2>1 DEF vars, shared, Dispatch!vars
    <2>2. ASSUME NEW c \in CTAs, FetchAndWrite(c)
          PROVE  Dispatch!Next
      BY <1>2, <2>2, FetchDeals DEF Dispatch!Next
    <2>3. ASSUME NEW c \in CTAs, NEW t \in Threads, Work(c, t)
          PROVE  Dispatch!Next
      BY <1>2, <2>3, WorkHandles DEF Dispatch!Next
    <2>4. ASSUME NEW c \in CTAs,
                 CtaBarrier(c) \/ Elect(c) \/ LeaderArrive(c) \/ SyncWarp(c)
          PROVE  UNCHANGED Dispatch!vars
      BY <2>4 DEF CtaBarrier, Elect, LeaderArrive, SyncWarp, Dispatch!vars,
                  shared
    <2>5. ASSUME NEW c \in CTAs, NEW t \in Threads, Wait(c, t) \/ Read(c, t)
          PROVE  UNCHANGED Dispatch!vars
      BY <2>5 DEF Wait, Read, Dispatch!vars, shared
    <2> QED BY <1>2, <2>1, <2>2, <2>3, <2>4, <2>5
            DEF Next, WarpStep, ThreadStep, KernelEnd
  <1> QED BY <1>1, <1>2, Invariance, PTL
          DEF Spec, ImplementsDispatch, Dispatch!Spec

\* Dealing the next number keeps the numbers dealt once, each to one block.
LEMMA DealDealt ==
    ASSUME Dispatch!TypeOK, Dispatch!Dealt, NEW c \in CTAs, Dispatch!Deal(c)
    PROVE  Dispatch!TypeOK' /\ Dispatch!Dealt'
  <1> DEFINE g == given[c]
  <1>1. workspace_iter \in Nat /\ g \in Seq(Nat) /\ Len(g) \in Nat
    BY DEF Dispatch!TypeOK
  <1>2. /\ workspace_iter' = workspace_iter + 1
        /\ given'[c] = Append(g, workspace_iter)
        /\ \A d \in CTAs : d # c => given'[d] = given[d]
    BY DEF Dispatch!Deal, Dispatch!TypeOK
  <1>3. /\ Len(given'[c]) = Len(g) + 1
        /\ given'[c][Len(g) + 1] = workspace_iter
        /\ \A i \in 1 .. Len(g) : given'[c][i] = g[i]
    BY <1>1, <1>2
  \* An entry of the new table is an old one, or the number just dealt.
  <1>4. ASSUME NEW d \in CTAs, NEW i \in 1 .. Len(given'[d])
        PROVE  \/ /\ i \in 1 .. Len(given[d])
                  /\ given'[d][i] = given[d][i]
                  /\ given[d][i] \in 0 .. workspace_iter - 1
               \/ d = c /\ i = Len(g) + 1 /\ given'[d][i] = workspace_iter
    <2>1. CASE d # c
      BY <1>2, <2>1 DEF Dispatch!Dealt
    <2>2. CASE d = c /\ i # Len(g) + 1
      <3>1. i \in 1 .. Len(g)
        BY <1>1, <1>3, <2>2
      <3> QED BY <1>3, <2>2, <3>1 DEF Dispatch!Dealt
    <2>3. CASE d = c /\ i = Len(g) + 1
      BY <1>3, <2>3
    <2> QED BY <2>1, <2>2, <2>3
  <1>5. ASSUME NEW d \in CTAs, NEW i \in 1 .. Len(given'[d])
        PROVE  given'[d][i] \in 0 .. workspace_iter' - 1
    <2>1. \/ given'[d][i] \in 0 .. workspace_iter - 1
          \/ given'[d][i] = workspace_iter
      BY <1>4
    <2> QED BY <1>1, <1>2, <2>1
  <1>6. ASSUME NEW d \in CTAs, NEW e \in CTAs,
               NEW i \in 1 .. Len(given'[d]), NEW j \in 1 .. Len(given'[e]),
               given'[d][i] = given'[e][j]
        PROVE  d = e /\ i = j
    <2>1. CASE given'[d][i] = workspace_iter
      <3>1. d = c /\ i = Len(g) + 1
        BY <1>1, <1>4, <2>1
      <3>2. given'[e][j] = workspace_iter
        BY <1>6, <2>1
      <3>3. e = c /\ j = Len(g) + 1
        BY <1>1, <1>4, <3>2
      <3> QED BY <3>1, <3>3
    <2>2. CASE given'[d][i] # workspace_iter
      <3>1. /\ i \in 1 .. Len(given[d]) /\ given'[d][i] = given[d][i]
            /\ j \in 1 .. Len(given[e]) /\ given'[e][j] = given[e][j]
        BY <1>4, <1>6, <2>2
      <3>2. given[d][i] = given[e][j]
        BY <1>6, <3>1
      <3> QED BY <3>1, <3>2 DEF Dispatch!Dealt
    <2> QED BY <2>1, <2>2
  <1>7. ASSUME NEW n \in 0 .. workspace_iter' - 1
        PROVE  \E d \in CTAs : \E i \in 1 .. Len(given'[d]) : given'[d][i] = n
    <2>1. CASE n = workspace_iter
      <3>1. Len(g) + 1 \in 1 .. Len(given'[c])
        BY <1>1, <1>3
      <3> QED BY <1>3, <2>1, <3>1
    <2>2. CASE n # workspace_iter
      <3>1. n \in 0 .. workspace_iter - 1
        BY <1>1, <1>2, <2>2
      <3>2. PICK d \in CTAs : \E i \in 1 .. Len(given[d]) : given[d][i] = n
        BY <3>1 DEF Dispatch!Dealt
      <3>3. PICK i \in 1 .. Len(given[d]) : given[d][i] = n
        BY <3>2
      <3>4. i \in 1 .. Len(given'[d]) /\ given'[d][i] = given[d][i]
        <4>1. CASE d = c
          BY <1>1, <1>3, <4>1
        <4>2. CASE d # c
          BY <1>2, <4>2
        <4> QED BY <4>1, <4>2
      <3> QED BY <3>3, <3>4
    <2> QED BY <2>1, <2>2
  <1>8. Dispatch!TypeOK'
    <2>1. Append(g, workspace_iter) \in Seq(Nat)
      BY <1>1
    <2> QED BY <1>1, <2>1 DEF Dispatch!TypeOK, Dispatch!Deal
  <1> QED BY <1>5, <1>6, <1>7, <1>8 DEF Dispatch!Dealt

\* Each number the counter has passed was given once, to one block, and no other
\* was: an invariant of plain dealing, whose behaviours those of the scheduler are.
THEOREM GivenOnce == Spec => []Dispatch!Dealt
  <1> DEFINE Inv == Dispatch!TypeOK /\ Dispatch!Dealt
  <1>1. Dispatch!Init => Inv
    BY DEF Dispatch!Init, Dispatch!TypeOK, Dispatch!Dealt
  <1>2. Inv /\ [Dispatch!Next]_(Dispatch!vars) => Inv'
    <2> SUFFICES ASSUME Dispatch!TypeOK, Dispatch!Dealt,
                        [Dispatch!Next]_(Dispatch!vars)
                 PROVE  Dispatch!TypeOK' /\ Dispatch!Dealt'
      OBVIOUS
    <2>1. ASSUME NEW c \in CTAs, Dispatch!Deal(c)
          PROVE  Dispatch!TypeOK' /\ Dispatch!Dealt'
      BY <2>1, DealDealt
    <2>2. ASSUME UNCHANGED <<workspace_iter, given>>
          PROVE  Dispatch!TypeOK' /\ Dispatch!Dealt'
      BY <2>2 DEF Dispatch!TypeOK, Dispatch!Dealt
    <2>3. ASSUME NEW c \in CTAs, NEW t \in Threads, Dispatch!Handle(c, t)
          PROVE  UNCHANGED <<workspace_iter, given>>
      BY <2>3 DEF Dispatch!Handle
    <2> QED BY <2>1, <2>2, <2>3 DEF Dispatch!Next, Dispatch!vars
  <1> QED BY <1>1, <1>2, DispatchImplemented, PTL
          DEF ImplementsDispatch, Dispatch!Spec

-----------------------------------------------------------------------------
(***************************************************************************)
(* The end of the kernel.  A block stops taking numbers once a thread left *)
(* its loop, so the number that thread left on stays the block's last one. *)
(***************************************************************************)
Leaving(c) ==
    \A t \in Threads : pc[c][t] = "exit" =>
        given[c][Len(given[c])] >= TotalWork

EInv == IInv /\ \A c \in CTAs : Leaving(c)

LEMMA NoneLeftAtFetch ==
  ASSUME IInv, NEW c \in CTAs, FetchAndWrite(c), NEW t \in Threads
  PROVE  pc'[c][t] # "exit"
  <1> USE LeaderThread
  <1>1. TypeOK /\ Gathered(c) /\ pc[c][Leader] = "write"
    BY DEF IInv, BlockInv, FetchAndWrite
  <1>2. pc[c][t] # "exit"
    <2>1. CASE t \in Consumers
      BY <1>1, <2>1 DEF Gathered
    <2>2. CASE t \in Lanes
      BY <1>1, <2>2 DEF Gathered
    <2> QED BY <2>1, <2>2 DEF Threads
  <1>3. pc'[c][t] = "arrive" \/ pc'[c][t] = pc[c][t]
    BY <1>1, GotoType DEF FetchAndWrite, PCs
  <1> QED BY <1>2, <1>3

\* A thread leaves its loop by reading a number beyond the work list.
LEMMA LeavesByRead ==
  ASSUME TypeOK, NEW d \in CTAs, NEW u \in Threads, [Next]_vars,
         pc[d][u] # "exit", pc'[d][u] = "exit"
  PROVE  Read(d, u) /\ ~(sWorkIdx[d][sched_buf[d][u]] < TotalWork)
  <1> USE LeaderThread
  <1>1. ~UNCHANGED vars
    BY DEF vars
  <1>2. ASSUME NEW c \in CTAs, CtaBarrier(c) \/ Elect(c) \/ SyncWarp(c)
        PROVE  FALSE
    <2>1. CASE c # d
      BY <1>2, <2>1 DEF CtaBarrier, Elect, SyncWarp, TypeOK
    <2>2. CASE c = d
      <3>1. \/ pc'[d][u] \in {"elect", "wait", "write", "sync", "read"}
            \/ pc'[d][u] = pc[d][u]
        <4>1. CASE CtaBarrier(d)
          BY <4>1 DEF CtaBarrier, TypeOK
        <4>2. CASE Elect(d)
          BY <4>2 DEF Elect, TypeOK
        <4>3. CASE SyncWarp(d)
          BY <4>3 DEF SyncWarp, TypeOK
        <4> QED BY <1>2, <2>2, <4>1, <4>2, <4>3
      <3> QED BY <3>1
    <2> QED BY <2>1, <2>2
  <1>3. ASSUME NEW c \in CTAs, FetchAndWrite(c) \/ LeaderArrive(c)
        PROVE  FALSE
    BY <1>3, GotoType DEF FetchAndWrite, LeaderArrive, PCs
  <1>4. ASSUME NEW c \in CTAs, NEW t \in Threads, Work(c, t) \/ Wait(c, t)
        PROVE  FALSE
    BY <1>4, GotoType DEF Work, Wait, PCs
  <1>5. ASSUME NEW c \in CTAs, NEW t \in Threads, Read(c, t)
        PROVE  /\ c = d /\ t = u
               /\ ~(sWorkIdx[c][sched_buf[c][t]] < TotalWork)
    <2> DEFINE label == IF sWorkIdx[c][sched_buf[c][t]] < TotalWork
                        THEN "work" ELSE "exit"
    <2>1. label \in PCs
      BY DEF PCs
    <2>2. Goto(c, t, label)
      BY <1>5 DEF Read
    <2>3. label = "exit" <=> ~(sWorkIdx[c][sched_buf[c][t]] < TotalWork)
      OBVIOUS
    <2> HIDE DEF label
    <2> QED BY <2>1, <2>2, <2>3, GotoType
  <1> QED BY <1>1, <1>2, <1>3, <1>4, <1>5
          DEF Next, KernelEnd, WarpStep, ThreadStep

LEMMA NextLeaving ==
  ASSUME EInv, [Next]_vars, NEW c \in CTAs
  PROVE  Leaving(c)'
  <1> SUFFICES ASSUME NEW t \in Threads, pc'[c][t] = "exit"
               PROVE  given'[c][Len(given'[c])] >= TotalWork
    BY DEF Leaving
  <1>1. IInv /\ TypeOK /\ Leaving(c)
    BY DEF EInv, IInv
  <1>2. given'[c] = given[c]
    BY <1>1, GivenByFetch, NoneLeftAtFetch
  <1>3. CASE pc[c][t] = "exit"
    BY <1>1, <1>2, <1>3 DEF Leaving
  <1>4. CASE pc[c][t] # "exit"
    <2>1. /\ pc[c][t] = "read"
          /\ ~(sWorkIdx[c][sched_buf[c][t]] < TotalWork)
      BY <1>1, <1>4, LeavesByRead DEF Read
    <2>2. /\ sWorkIdx[c][sched_buf[c][t]] = given[c][Len(given[c])]
          /\ sWorkIdx[c][sched_buf[c][t]] \in Int
      BY <1>1, <2>1, AtRead, BlockType
    <2> QED BY <1>2, <2>1, <2>2
  <1> QED BY <1>3, <1>4

\* A thread has left its loop only if the last number its block was given lies
\* beyond the work list (the exit test of the persistent loop).
THEOREM Leavings == Spec => []EInv
  <1>1. ASSUME Init, NEW c \in CTAs PROVE Leaving(c)
    BY <1>1 DEF Init, Leaving
  <1>2. Init => EInv
    BY <1>1, InitInv DEF EInv
  <1>3. EInv /\ [Next]_vars => EInv'
    BY NextInv, NextLeaving DEF EInv
  <1> QED BY <1>2, <1>3, PTL DEF Spec

\* At the end every unit was handled by all threads of one block
\* (EndsComplete): every block has left because the counter ran past the work
\* list, and no thread left before its block's last number.
THEOREM EndsCompleteAlways == Spec => []EndsComplete
  <1>1. EInv /\ Dispatch!Dealt => EndsComplete
    <2> SUFFICES ASSUME EInv, Dispatch!Dealt, AllExited,
                        NEW w \in 0 .. TotalWork - 1
                 PROVE  \E c \in CTAs : \A t \in Threads :
                           \E i \in 1 .. Len(handled[c][t]) :
                              handled[c][t][i] = w
      BY DEF EndsComplete
    <2>1. ASSUME NEW c \in CTAs, NEW t \in Threads
          PROVE  /\ Len(given[c]) \in 1 .. Len(given[c])
                 /\ given[c][Len(given[c])] >= TotalWork
                 /\ Len(handled[c][t]) = Len(given[c]) - 1
                 /\ \A i \in 1 .. Len(given[c]) - 1 :
                       handled[c][t][i] = given[c][i]
      <3>1. pc[c][t] = "exit"
        BY DEF AllExited, AllAt
      <3>2. TypeOK /\ BlockInv(c) /\ Leaving(c)
        BY DEF EInv, IInv
      <3>3. given[c][Len(given[c])] >= TotalWork
        BY <3>1, <3>2 DEF Leaving
      <3>4. round[c][t] = Len(given[c])
        BY <3>1, <3>2 DEF BlockInv, Counted
      <3>5. /\ Len(handled[c][t]) = Len(given[c]) - 1
            /\ Len(given[c]) > 0
            /\ \A i \in 1 .. Len(handled[c][t]) :
                  handled[c][t][i] = given[c][i]
        BY <3>1, <3>2, <3>4 DEF BlockInv, Handling
      <3> QED BY <3>2, <3>3, <3>5, BlockType
    <2>2. Leader \in Threads
      BY LeaderThread
    <2>3. w \in 0 .. workspace_iter - 1
      <3>1. PICK c \in CTAs : TRUE
        OBVIOUS
      <3>2. given[c][Len(given[c])] \in 0 .. workspace_iter - 1
            /\ given[c][Len(given[c])] >= TotalWork
        BY <2>1, <2>2 DEF Dispatch!Dealt
      <3>3. workspace_iter \in Nat
        BY DEF EInv, IInv, TypeOK
      <3> QED BY <3>2, <3>3
    <2>4. PICK c \in CTAs : \E i \in 1 .. Len(given[c]) : given[c][i] = w
      BY <2>3 DEF Dispatch!Dealt
    <2>5. PICK i \in 1 .. Len(given[c]) : given[c][i] = w
      BY <2>4
    <2>6. i # Len(given[c])
      BY <2>1, <2>2, <2>5
    <2>7. Len(given[c]) \in Nat
      BY BlockType DEF EInv, IInv
    <2>8. i \in 1 .. Len(given[c]) - 1
      BY <2>6, <2>7
    <2>9. \A t \in Threads : i \in 1 .. Len(handled[c][t])
                             /\ handled[c][t][i] = w
      BY <2>1, <2>5, <2>8
    <2> QED BY <2>9
  <1> QED BY <1>1, Leavings, GivenOnce, PTL
=============================================================================
