--------------------------- MODULE DynSchedProof ---------------------------
(***************************************************************************)
(* Proofs about DynSched, for any number of CTAs, Load lanes, consumer     *)
(* threads and work units.                                                 *)
(*                                                                         *)
(* The argument.  Let P be the number of slots published by the Load warp  *)
(* of a CTA (the phases both sched_mbar have completed) and F the number   *)
(* written.  The lanes move in step (Elect and SyncWarp gather them), so   *)
(* P <= F <= P + 1.  A consumer in round n has n <= P, and the             *)
(* back-pressure keeps F <= n + 2: hence a slot holds one of the last two  *)
(* numbers written, and the barrier a consumer waits on is at its own      *)
(* phase or one ahead, which is all a parity bit can tell apart.           *)
(*                                                                         *)
(* The histories follow: what a thread handled is the prefix of what its   *)
(* CTA was given that its round counts (HInv).  Hence the refinement of    *)
(* WorkDispatch, and through it that no unit is handled twice or missed.   *)
(***************************************************************************)
EXTENDS DynSched, FiniteSetTheorems, TLAPS

-----------------------------------------------------------------------------
(***************************************************************************)
(* How rounds and uses of a slot relate.                                   *)
(***************************************************************************)

\* Rounds and the slots they use.
LEMMA TurnsFacts ==
    ASSUME NEW n \in Nat
    PROVE  /\ Turns(n, 0) = (n + 1) \div 2 /\ Turns(n, 1) = n \div 2
           /\ Turns(n, 0) \in Nat /\ Turns(n, 1) \in Nat
           /\ n % 2 = 0 => /\ Turns(n + 1, 0) = Turns(n, 0) + 1
                           /\ Turns(n + 1, 1) = Turns(n, 1)
           /\ n % 2 = 1 => /\ Turns(n + 1, 1) = Turns(n, 1) + 1
                           /\ Turns(n + 1, 0) = Turns(n, 0)
           /\ n % 2 \in Bufs
           /\ (n + 1) % 2 = 1 - (n % 2)
  BY DEF Turns, Bufs

LEMMA TurnsOf ==
    ASSUME NEW n \in Nat, NEW b \in Bufs
    PROVE  Turns(n, b) \in Nat
  BY TurnsFacts DEF Bufs

\* A round uses one slot and leaves the other.
LEMMA TurnsStep ==
    ASSUME NEW n \in Nat
    PROVE  /\ 1 - (n % 2) \in Bufs /\ 1 - (n % 2) # n % 2
           /\ Turns(n + 1, n % 2) = Turns(n, n % 2) + 1
           /\ Turns(n + 1, 1 - (n % 2)) = Turns(n, 1 - (n % 2))
  <1>1. CASE n % 2 = 0
    <2>1. 1 - (n % 2) = 1
      BY <1>1
    <2>2. /\ Turns(n + 1, 0) = Turns(n, 0) + 1
          /\ Turns(n + 1, 1) = Turns(n, 1)
      BY <1>1, TurnsFacts
    <2> QED BY <1>1, <2>1, <2>2 DEF Bufs
  <1>2. CASE n % 2 = 1
    <2>1. 1 - (n % 2) = 0
      BY <1>2
    <2>2. /\ Turns(n + 1, 1) = Turns(n, 1) + 1
          /\ Turns(n + 1, 0) = Turns(n, 0)
      BY <1>2, TurnsFacts
    <2> QED BY <1>2, <2>1, <2>2 DEF Bufs
  <1> QED BY <1>1, <1>2, TurnsFacts DEF Bufs

\* Whoever is at most one round behind has used the slot as often.
LEMMA TurnsNear ==
    ASSUME NEW n \in Nat, NEW m \in Nat, n <= m + 1
    PROVE  Turns(n, n % 2) <= Turns(m, n % 2)
  <1>1. CASE n % 2 = 0
    BY <1>1 DEF Turns
  <1>2. CASE n % 2 = 1
    BY <1>2 DEF Turns
  <1> QED BY <1>1, <1>2, TurnsFacts DEF Bufs

-----------------------------------------------------------------------------

Published(c) == sched_mbar[c][0].phase + sched_mbar[c][1].phase
Written(c) == Len(given[c])

Mid == {"write", "arrive", "sync"}

-----------------------------------------------------------------------------
(***************************************************************************)
(* The inductive invariant, part by part.                                  *)
(***************************************************************************)

\* The lanes of a Load warp are in the same round, at most one slot ahead
\* of what is published.
LaneRounds(c) ==
    /\ \A l \in Lanes : load[c][l].pc \in {"work", "wait", "exit", "elect"} =>
          load[c][l].round = Published(c) /\ Written(c) = Published(c)
    /\ \A l \in Lanes : load[c][l].pc = "read" =>
          load[c][l].round + 1 = Published(c) /\ Written(c) = Published(c)
    /\ \A l \in Lanes : load[c][l].pc = "write" =>
          l = Leader /\ Written(c) = Published(c)
    /\ \A l, m \in Lanes : load[c][l].pc \in Mid =>
          load[c][m].pc \in Mid /\ load[c][m].round = load[c][l].round
    /\ \A l \in Lanes : load[c][l].pc \in {"write", "arrive"} =>
          load[c][l].round = Published(c)
    /\ \A l, m \in Lanes : load[c][l].pc = "sync" =>
          \/ load[c][l].round = Published(c)
          \/ /\ load[c][l].round + 1 = Published(c)
             /\ Written(c) = Published(c)
             /\ load[c][m].pc = "sync"
    /\ load[c][Leader].pc \in {"arrive", "sync"} =>
          Written(c) = load[c][Leader].round + 1

\* Entered rounds: the current one counts once its wait is over.
LaneEntered(c, l) ==
    load[c][l].round
      + (IF load[c][l].pc \in {"work", "wait", "exit"} THEN 0 ELSE 1)

\* The registers of a lane agree with its round.
LaneReg(c, l) ==
    LET m == LaneEntered(c, l) IN
    /\ load[c][l].sched_buf = load[c][l].round % 2
    /\ m >= 1
    /\ load[c][l].phase[0] = (Turns(m, 0) - 1) % 2
    /\ load[c][l].phase[1] = IF m < 2 THEN 0 ELSE (Turns(m, 1) - 1) % 2
    /\ load[c][l].first_wu <=>
          /\ load[c][l].round = 1
          /\ load[c][l].pc \in {"work", "wait", "exit"}

LaneRegs(c) == \A l \in Lanes : LaneReg(c, l)

ConsEntered(c, t) ==
    cons[c][t].round
      + (IF cons[c][t].pc \in {"read", "arrive"} THEN 1 ELSE 0)

\* The registers of a consumer agree with its round.
ConsReg(c, t) ==
    LET m == ConsEntered(c, t) IN
    /\ cons[c][t].sched_buf = cons[c][t].round % 2
    /\ cons[c][t].phase[0] = Turns(m, 0) % 2
    /\ cons[c][t].phase[1] = Turns(m, 1) % 2
    /\ m <= Published(c)

ConsRegs(c) == \A t \in Consumers : ConsReg(c, t)

\* Back-pressure: at most two slots are ahead of any consumer, and a lane
\* that is about to write leaves room for the slot it writes.
Window(c) ==
    \A t \in Consumers :
        /\ Written(c) <= cons[c][t].round + 2
        /\ \A l \in Lanes : load[c][l].pc \in {"elect", "write"} =>
              load[c][l].round <= cons[c][t].round + 1

\* The slots hold the last two numbers written.
Slots(c) ==
    \A k \in 1 .. Written(c) : k + 1 >= Written(c) =>
        sWorkIdx[c][(k + 1) % 2] = given[c][k]

\* Lanes that still have to arrive in the running phase of sched_mbar.
Absent(c) ==
    {l \in Lanes : ~(load[c][l].pc = "sync"
                       /\ load[c][l].round = Published(c))}

SchedBarrier(c) ==
    /\ sched_mbar[c][0].phase - sched_mbar[c][1].phase \in 0 .. 1
    /\ sched_mbar[c][Published(c) % 2].pending = Cardinality(Absent(c))
    /\ sched_mbar[c][1 - (Published(c) % 2)].pending = LaneCount

\* Consumers that still owe an arrival in the running phase of
\* sched_consumed_mbar[b].
Owing(c, b) ==
    {t \in Consumers :
        Turns(cons[c][t].round, b) = sched_consumed_mbar[c][b].phase}

ConsumedBarrier(c) ==
    \A b \in Bufs :
        /\ \A t \in Consumers :
              Turns(cons[c][t].round, b) - sched_consumed_mbar[c][b].phase
                 \in 0 .. 1
        /\ sched_consumed_mbar[c][b].pending = Cardinality(Owing(c, b))

CTAInv(c) ==
    /\ LaneRounds(c)
    /\ LaneRegs(c)
    /\ ConsRegs(c)
    /\ Window(c)
    /\ Slots(c)
    /\ SchedBarrier(c)
    /\ ConsumedBarrier(c)

IInv == TypeOK /\ \A c \in CTAs : CTAInv(c)

-----------------------------------------------------------------------------
USE CTAsAssumption, LanesAssumption, ConsumersAssumption, TotalWorkAssumption

\* Both barriers expect at least one arrival.
LEMMA Counts == LaneCount \in Nat \ {0} /\ ConsumerCount \in Nat \ {0}
  <1>1. LaneCount \in Nat /\ LaneCount # 0
    BY FS_CardinalityType, FS_EmptySet DEF LaneCount
  <1>2. ConsumerCount \in Nat /\ ConsumerCount # 0
    BY FS_CardinalityType, FS_EmptySet DEF ConsumerCount
  <1> QED BY <1>1, <1>2

\* An arrival keeps a barrier's pending count within its initial count.
LEMMA ArriveType ==
    ASSUME NEW count \in Nat \ {0}, NEW b \in MbarType(count)
    PROVE  MbarArrive(b, count) \in MbarType(count)
  BY DEF MbarArrive, MbarType

LEMMA InitType == Init => TypeOK
  <1> SUFFICES ASSUME Init PROVE TypeOK OBVIOUS
  <1>1. \A n \in Nat \ {0} : MbarInit(n) \in MbarType(n)
    BY DEF MbarInit, MbarType
  <1>2. LoadInit \in LoadType /\ ConsInit \in ConsType
    BY DEF LoadInit, ConsInit, LoadType, ConsType, Bufs, Unwritten
  <1> QED BY <1>1, <1>2, Counts DEF Init, TypeOK, Bufs, Unwritten

\* Registers stay typed when they are assigned typed values.
LoadPCs == {"wait", "elect", "write", "arrive", "sync", "read", "work", "exit"}
ConsPCs == {"wait", "read", "arrive", "work", "exit"}

LEMMA LoadFields ==
    ASSUME NEW r \in LoadType
    PROVE  /\ r.pc \in LoadPCs /\ r.sched_buf \in Bufs /\ r.round \in Nat
           /\ r.work_idx \in Int /\ r.first_wu \in BOOLEAN
           /\ r.phase \in [Bufs -> Bufs]
  BY DEF LoadType, LoadPCs

LEMMA ConsFields ==
    ASSUME NEW r \in ConsType
    PROVE  /\ r.pc \in ConsPCs /\ r.sched_buf \in Bufs /\ r.round \in Nat
           /\ r.work_idx \in Int /\ r.phase \in [Bufs -> Bufs]
  BY DEF ConsType, ConsPCs

LEMMA LoadPcType ==
    ASSUME NEW r \in LoadType, NEW p \in LoadPCs
    PROVE  [r EXCEPT !.pc = p] \in LoadType
  BY DEF LoadType, LoadPCs

LEMMA LoadReadType ==
    ASSUME NEW r \in LoadType, NEW w \in Int, NEW b \in Bufs,
           NEW f \in BOOLEAN, NEW n \in Nat, NEW p \in LoadPCs
    PROVE  [r EXCEPT !.work_idx = w, !.sched_buf = b, !.first_wu = f,
                     !.round = n, !.pc = p] \in LoadType
  BY DEF LoadType, LoadPCs

LEMMA ConsPcType ==
    ASSUME NEW r \in ConsType, NEW p \in ConsPCs
    PROVE  [r EXCEPT !.pc = p] \in ConsType
  BY DEF ConsType, ConsPCs

LEMMA ConsReadType ==
    ASSUME NEW r \in ConsType, NEW w \in Int
    PROVE  [r EXCEPT !.pc = "arrive", !.work_idx = w] \in ConsType
  BY DEF ConsType

LEMMA ConsArriveType ==
    ASSUME NEW r \in ConsType, NEW b \in Bufs, NEW n \in Nat,
           NEW p \in ConsPCs
    PROVE  [r EXCEPT !.sched_buf = b, !.round = n, !.pc = p] \in ConsType
  BY DEF ConsType, ConsPCs

LEMMA NextType == TypeOK /\ [Next]_vars => TypeOK'
  <1> SUFFICES ASSUME TypeOK, [Next]_vars PROVE TypeOK' OBVIOUS
  <1> USE DEF TypeOK
  <1>0. \A n \in Bufs : 1 - n \in Bufs
    BY DEF Bufs
  <1>1. ASSUME NEW c \in CTAs, NEW l \in Lanes, LoadWait(c, l) PROVE TypeOK'
    <2> DEFINE r == load[c][l]
    <2> DEFINE new == [r EXCEPT !.pc = "elect", !.first_wu = FALSE,
                         !.phase[r.sched_buf] = IF r.first_wu THEN @ ELSE 1 - @]
    <2>1. r \in LoadType OBVIOUS
    <2>2. new \in LoadType
      BY <2>1, <1>0 DEF LoadType
    <2>3. load' = [load EXCEPT ![c][l] = new]
      BY <1>1 DEF LoadWait
    <2> HIDE DEF new
    <2> QED BY <1>1, <2>2, <2>3 DEF LoadWait
  <1>2. ASSUME NEW c \in CTAs, Elect(c) PROVE TypeOK'
    <2>1. ASSUME NEW l \in Lanes, NEW p \in LoadPCs
          PROVE  [load[c][l] EXCEPT !.pc = p] \in LoadType
      BY LoadPcType
    <2> QED BY <1>2, <2>1 DEF Elect, LoadPCs
  <1>3. ASSUME NEW c \in CTAs, FetchAndWrite(c) PROVE TypeOK'
    <2>1. load' \in [CTAs -> [Lanes -> LoadType]]
      BY <1>3, LoadPcType DEF FetchAndWrite, LoadPCs
    <2>2. load[c][Leader].sched_buf \in Bufs
      BY LoadFields
    <2>3. /\ workspace_iter' \in Nat
          /\ sWorkIdx' \in [CTAs -> [Bufs -> Int]]
          /\ given' \in [CTAs -> Seq(Int)]
      BY <1>3, <2>2 DEF FetchAndWrite
    <2> QED BY <1>3, <2>1, <2>3 DEF FetchAndWrite
  <1>4. ASSUME NEW c \in CTAs, NEW l \in Lanes, LoadArrive(c, l) PROVE TypeOK'
    <2>1. load' \in [CTAs -> [Lanes -> LoadType]]
      BY <1>4, LoadPcType DEF LoadArrive, LoadPCs
    <2>2. load[c][l].sched_buf \in Bufs
      BY LoadFields
    <2>3. MbarArrive(sched_mbar[c][load[c][l].sched_buf], LaneCount)
             \in MbarType(LaneCount)
      BY <2>2, Counts, ArriveType
    <2>4. sched_mbar' \in [CTAs -> [Bufs -> MbarType(LaneCount)]]
      BY <1>4, <2>3 DEF LoadArrive
    <2> QED BY <1>4, <2>1, <2>4 DEF LoadArrive
  <1>5. ASSUME NEW c \in CTAs, SyncWarp(c) PROVE TypeOK'
    <2>1. ASSUME NEW l \in Lanes, NEW p \in LoadPCs
          PROVE  [load[c][l] EXCEPT !.pc = p] \in LoadType
      BY LoadPcType
    <2> QED BY <1>5, <2>1 DEF SyncWarp, LoadPCs
  <1>6. ASSUME NEW c \in CTAs, NEW l \in Lanes, LoadRead(c, l) PROVE TypeOK'
    <2> DEFINE r == load[c][l]
    <2> DEFINE w == sWorkIdx[c][r.sched_buf]
    <2> DEFINE b == 1 - r.sched_buf
    <2> DEFINE f == (r.round = 0)
    <2> DEFINE n == r.round + 1
    <2> DEFINE p == IF w < TotalWork THEN "work" ELSE "exit"
    <2> DEFINE new == [r EXCEPT !.work_idx = w, !.sched_buf = b,
                         !.first_wu = f, !.round = n, !.pc = p]
    <2>1. r \in LoadType OBVIOUS
    <2>2. /\ w \in Int /\ b \in Bufs /\ f \in BOOLEAN /\ n \in Nat
          /\ p \in LoadPCs
      BY <2>1, <1>0, LoadFields DEF LoadPCs
    <2>4. load' = [load EXCEPT ![c][l] = new]
      BY <1>6 DEF LoadRead
    <2> HIDE DEF r, w, b, f, n, p
    <2>3. new \in LoadType
      BY <2>1, <2>2, LoadReadType
    <2> HIDE DEF new
    <2> QED BY <1>6, <2>3, <2>4 DEF LoadRead
  <1>7. ASSUME NEW c \in CTAs, NEW l \in Lanes, LoadWork(c, l) PROVE TypeOK'
    <2>0. load[c][l].work_idx \in Int
      BY LoadFields
    <2>1. load' \in [CTAs -> [Lanes -> LoadType]]
      BY <1>7, LoadPcType DEF LoadWork, LoadPCs
    <2>2. handled' \in [CTAs -> [Threads -> Seq(Int)]]
      <3>1. l \in Threads /\ Append(handled[c][l], load[c][l].work_idx) \in Seq(Int)
        BY <2>0 DEF Threads
      <3> QED BY <1>7, <3>1 DEF LoadWork
    <2> QED BY <1>7, <2>1, <2>2 DEF LoadWork
  <1>8. ASSUME NEW c \in CTAs, NEW t \in Consumers, ConsWait(c, t) PROVE TypeOK'
    <2> DEFINE r == cons[c][t]
    <2> DEFINE new == [r EXCEPT !.pc = "read", !.phase[r.sched_buf] = 1 - @]
    <2>1. r \in ConsType OBVIOUS
    <2>2. new \in ConsType
      BY <2>1, <1>0 DEF ConsType
    <2>3. cons' = [cons EXCEPT ![c][t] = new]
      BY <1>8 DEF ConsWait
    <2> HIDE DEF new
    <2> QED BY <1>8, <2>2, <2>3 DEF ConsWait
  <1>9. ASSUME NEW c \in CTAs, NEW t \in Consumers, ConsRead(c, t) PROVE TypeOK'
    <2>1. cons' \in [CTAs -> [Consumers -> ConsType]]
      <3>1. sWorkIdx[c][cons[c][t].sched_buf] \in Int
        BY ConsFields
      <3> DEFINE r == cons[c][t]
      <3> DEFINE w == sWorkIdx[c][r.sched_buf]
      <3>2. r \in ConsType /\ w \in Int
        BY <3>1
      <3>3. cons' = [cons EXCEPT ![c][t] =
               [r EXCEPT !.pc = "arrive", !.work_idx = w]]
        BY <1>9 DEF ConsRead
      <3> HIDE DEF r, w
      <3>4. [r EXCEPT !.pc = "arrive", !.work_idx = w] \in ConsType
        BY <3>2, ConsReadType
      <3> QED BY <3>3, <3>4
    <2> QED BY <1>9, <2>1 DEF ConsRead
  <1>10. ASSUME NEW c \in CTAs, NEW t \in Consumers, ConsArrive(c, t) PROVE TypeOK'
    <2> DEFINE r == cons[c][t]
    <2> DEFINE b == 1 - r.sched_buf
    <2> DEFINE n == r.round + 1
    <2> DEFINE p == IF r.work_idx < TotalWork THEN "work" ELSE "exit"
    <2> DEFINE new == [r EXCEPT !.sched_buf = b, !.round = n, !.pc = p]
    <2>1. r \in ConsType OBVIOUS
    <2>2. /\ r.sched_buf \in Bufs /\ b \in Bufs /\ n \in Nat
          /\ p \in ConsPCs
      BY <2>1, <1>0, ConsFields DEF ConsPCs
    <2>3. MbarArrive(sched_consumed_mbar[c][r.sched_buf], ConsumerCount)
             \in MbarType(ConsumerCount)
      BY <2>2, Counts, ArriveType
    <2>4. sched_consumed_mbar' \in [CTAs -> [Bufs -> MbarType(ConsumerCount)]]
      BY <1>10, <2>3 DEF ConsArrive
    <2>5. cons' = [cons EXCEPT ![c][t] = new]
      BY <1>10 DEF ConsArrive
    <2> HIDE DEF r, b, n, p
    <2>6. new \in ConsType
      BY <2>1, <2>2, ConsArriveType
    <2> HIDE DEF new
    <2>7. cons' \in [CTAs -> [Consumers -> ConsType]]
      BY <2>5, <2>6
    <2> QED BY <1>10, <2>4, <2>7 DEF ConsArrive
  <1>11. ASSUME NEW c \in CTAs, NEW t \in Consumers, ConsWork(c, t) PROVE TypeOK'
    <2>0. cons[c][t].work_idx \in Int
      BY ConsFields
    <2>1. cons' \in [CTAs -> [Consumers -> ConsType]]
      BY <1>11, ConsPcType DEF ConsWork, ConsPCs
    <2>2. handled' \in [CTAs -> [Threads -> Seq(Int)]]
      <3>1. t \in Threads /\ Append(handled[c][t], cons[c][t].work_idx) \in Seq(Int)
        BY <2>0 DEF Threads
      <3> QED BY <1>11, <3>1 DEF ConsWork
    <2> QED BY <1>11, <2>1, <2>2 DEF ConsWork
  <1>12. CASE UNCHANGED vars
    BY <1>12 DEF vars
  <1> HIDE DEF TypeOK
  <1> QED
    BY <1>1, <1>2, <1>3, <1>4, <1>5, <1>6, <1>7, <1>8, <1>9, <1>10, <1>11,
       <1>12 DEF Next, WarpStep, LaneStep, ConsStep, KernelEnd

\* The registers, slots and barriers of DynSched always have their types.
THEOREM TypeCorrect == Spec => []TypeOK
  BY InitType, NextType, PTL DEF Spec

-----------------------------------------------------------------------------
\* A step of one CTA leaves the invariant of the others alone.
LEMMA OtherCTA ==
    ASSUME NEW d \in CTAs, CTAInv(d),
           sched_mbar'[d] = sched_mbar[d],
           sched_consumed_mbar'[d] = sched_consumed_mbar[d],
           load'[d] = load[d], cons'[d] = cons[d],
           given'[d] = given[d], sWorkIdx'[d] = sWorkIdx[d]
    PROVE  CTAInv(d)'
  <1>1. Published(d)' = Published(d) /\ Written(d)' = Written(d)
    BY DEF Published, Written
  <1>2. LaneRounds(d)'
    BY <1>1 DEF CTAInv, LaneRounds
  <1>3. LaneRegs(d)'
    BY DEF CTAInv, LaneRegs, LaneReg, LaneEntered, Turns
  <1>4. ConsRegs(d)'
    BY <1>1 DEF CTAInv, ConsRegs, ConsReg, ConsEntered, Turns
  <1>5. Window(d)'
    BY <1>1 DEF CTAInv, Window
  <1>6. Slots(d)'
    BY <1>1 DEF CTAInv, Slots
  <1>7. SchedBarrier(d)'
    BY <1>1 DEF CTAInv, SchedBarrier, Absent
  <1>8. ConsumedBarrier(d)'
    BY DEF CTAInv, ConsumedBarrier, Owing, Turns
  <1> QED BY <1>2, <1>3, <1>4, <1>5, <1>6, <1>7, <1>8 DEF CTAInv

\* What the types of the state say of one CTA.
LEMMA CTAType ==
    ASSUME TypeOK, NEW c \in CTAs
    PROVE  /\ \A l \in Lanes : load[c][l] \in LoadType
           /\ \A t \in Consumers : cons[c][t] \in ConsType
           /\ \A b \in Bufs :
                 /\ sched_mbar[c][b].pending \in 1 .. LaneCount
                 /\ sched_mbar[c][b].phase \in Nat
                 /\ sched_consumed_mbar[c][b].pending \in 1 .. ConsumerCount
                 /\ sched_consumed_mbar[c][b].phase \in Nat
           /\ Published(c) \in Nat /\ Written(c) \in Nat
  <1>1. \A b \in Bufs : sched_mbar[c][b] \in MbarType(LaneCount)
    BY DEF TypeOK
  <1>2. \A b \in Bufs : sched_consumed_mbar[c][b] \in MbarType(ConsumerCount)
    BY DEF TypeOK
  <1>3. 0 \in Bufs /\ 1 \in Bufs
    BY DEF Bufs
  <1>4. Published(c) \in Nat
    BY <1>1, <1>3 DEF Published, MbarType
  <1>5. Written(c) \in Nat
    BY DEF Written, TypeOK
  <1>6. \A l \in Lanes : load[c][l] \in LoadType
    BY DEF TypeOK
  <1>7. \A t \in Consumers : cons[c][t] \in ConsType
    BY DEF TypeOK
  <1> QED BY <1>1, <1>2, <1>4, <1>5, <1>6, <1>7 DEF MbarType

LEMMA InitInv == Init => IInv
  <1> SUFFICES ASSUME Init, NEW c \in CTAs PROVE CTAInv(c)
    BY InitType DEF IInv
  <1>1. /\ Published(c) = 0 /\ Written(c) = 0
        /\ \A b \in Bufs : /\ sched_mbar[c][b].phase = 0
                            /\ sched_mbar[c][b].pending = LaneCount
                            /\ sched_consumed_mbar[c][b].phase = 0
                            /\ sched_consumed_mbar[c][b].pending = ConsumerCount
    BY DEF Init, Published, Written, MbarInit, Bufs
  <1>2. \A l \in Lanes : /\ load[c][l].pc = "elect"
                         /\ load[c][l].round = 0
                         /\ load[c][l].sched_buf = 0
                         /\ load[c][l].first_wu = FALSE
                         /\ load[c][l].phase[0] = 0
                         /\ load[c][l].phase[1] = 0
    BY DEF Init, LoadInit, Bufs
  <1>3. \A t \in Consumers : /\ cons[c][t].pc = "wait"
                             /\ cons[c][t].round = 0
                             /\ cons[c][t].sched_buf = 0
                             /\ cons[c][t].phase[0] = 0
                             /\ cons[c][t].phase[1] = 0
    BY DEF Init, ConsInit, Bufs
  <1>4. LaneRounds(c)
    BY <1>1, <1>2 DEF LaneRounds, Mid
  <1>5. LaneRegs(c)
    BY <1>2 DEF LaneRegs, LaneReg, LaneEntered, Turns
  <1>6. ConsRegs(c)
    BY <1>1, <1>3 DEF ConsRegs, ConsReg, ConsEntered, Turns
  <1>7. Window(c)
    BY <1>1, <1>2, <1>3 DEF Window
  <1>8. Slots(c)
    BY <1>1 DEF Slots
  <1>9. SchedBarrier(c)
    <2>1. Absent(c) = Lanes
      BY <1>2 DEF Absent
    <2> QED BY <1>1, <2>1 DEF SchedBarrier, LaneCount, Bufs
  <1>10. ConsumedBarrier(c)
    <2>1. \A b \in Bufs : Owing(c, b) = Consumers
      BY <1>1, <1>3 DEF Owing, Turns, Bufs
    <2>2. \A b \in Bufs, t \in Consumers : Turns(cons[c][t].round, b) = 0
      BY <1>3 DEF Turns, Bufs
    <2> QED BY <1>1, <2>1, <2>2 DEF ConsumedBarrier, ConsumerCount
  <1> QED
    BY <1>4, <1>5, <1>6, <1>7, <1>8, <1>9, <1>10 DEF CTAInv

-----------------------------------------------------------------------------
(***************************************************************************)
(* Steps of the Load warp.                                                 *)
(***************************************************************************)

\* What no step of the Load warp touches.
LEMMA LoadFrame ==
    ASSUME TypeOK, NEW c \in CTAs, CTAInv(c),
           UNCHANGED <<cons, sched_consumed_mbar>>,
           Published(c)' \in Nat, Published(c)' >= Published(c)
    PROVE  ConsRegs(c)' /\ ConsumedBarrier(c)'
  <1>1. ConsRegs(c)'
    <2>1. \A t \in Consumers : ConsEntered(c, t) \in Nat
      BY CTAType, ConsFields DEF ConsEntered
    <2>2. \A t \in Consumers : ConsEntered(c, t)' = ConsEntered(c, t)
      BY DEF ConsEntered
    <2>3. Published(c) \in Nat
      BY CTAType
    <2> QED BY <2>1, <2>2, <2>3 DEF CTAInv, ConsRegs, ConsReg, Turns
  <1>2. ConsumedBarrier(c)'
    BY DEF CTAInv, ConsumedBarrier, Owing, Turns
  <1> QED BY <1>1, <1>2

\* The wait on sched_consumed_mbar is what bounds the lead of the Load warp.
LEMMA BackPressure ==
    ASSUME TypeOK, NEW c \in CTAs, CTAInv(c), NEW l \in Lanes,
           load[c][l].pc = "wait", ~load[c][l].first_wu,
           MbarWaitable(sched_consumed_mbar[c][load[c][l].sched_buf],
                        load[c][l].phase[load[c][l].sched_buf])
    PROVE  \A t \in Consumers : load[c][l].round <= cons[c][t].round + 1
  <1> DEFINE R == load[c][l].round
  <1> DEFINE b == R % 2
  <1> DEFINE Q == sched_consumed_mbar[c][b].phase
  <1> DEFINE W == Turns(R, b) - 1
  <1>1. R \in Nat /\ b \in Bufs /\ Q \in Nat
    BY CTAType, LoadFields, TurnsFacts
  <1>2. R >= 1 /\ R # 1 /\ R = Written(c) /\ R = Published(c)
    BY <1>1 DEF CTAInv, LaneRegs, LaneReg, LaneEntered, LaneRounds
  <1>3. load[c][l].sched_buf = b /\ load[c][l].phase[b] = W % 2
    BY <1>1, <1>2 DEF CTAInv, LaneRegs, LaneReg, LaneEntered, Bufs
  <1>4. Q % 2 # W % 2
    BY <1>3 DEF MbarWaitable
  <1>5. \A t \in Consumers :
           /\ cons[c][t].round \in Nat
           /\ cons[c][t].round <= R
           /\ R <= cons[c][t].round + 2
           /\ Turns(cons[c][t].round, b) - Q \in 0 .. 1
    <2> TAKE t \in Consumers
    <2>1. cons[c][t].round \in Nat
      BY CTAType, ConsFields
    <2>2. cons[c][t].round <= R
      BY <1>1, <1>2, <2>1 DEF CTAInv, ConsRegs, ConsReg, ConsEntered
    <2>3. R <= cons[c][t].round + 2
      BY <1>2 DEF CTAInv, Window
    <2>4. Turns(cons[c][t].round, b) - Q \in 0 .. 1
      BY <1>1 DEF CTAInv, ConsumedBarrier
    <2> QED BY <2>1, <2>2, <2>3, <2>4
  <1>6. \E t \in Consumers : Turns(cons[c][t].round, b) = Q
    <2>1. Cardinality(Owing(c, b)) # 0
      BY <1>1, CTAType DEF CTAInv, ConsumedBarrier
    <2>2. Owing(c, b) # {}
      BY <2>1, FS_EmptySet
    <2> QED BY <2>2 DEF Owing
  <1>7. Q = W + 1
    <2> PICK t \in Consumers : Turns(cons[c][t].round, b) = Q
      BY <1>6
    <2>1. Q \in W .. W + 1
      BY <1>1, <1>2, <1>5 DEF Turns
    <2>2. W \in Int
      BY <1>1 DEF Turns
    <2> HIDE DEF W, Q
    <2> QED BY <1>4, <2>1, <2>2
  <1> QED
    BY <1>1, <1>5, <1>7 DEF Turns

LEMMA LoadWaitInv ==
    ASSUME TypeOK, NEW c \in CTAs, CTAInv(c), NEW l \in Lanes, LoadWait(c, l)
    PROVE  CTAInv(c)'
  <1> DEFINE r == load[c][l]
  <1> USE DEF CTAInv
  <1>1. r \in LoadType /\ r.pc = "wait" /\ r.sched_buf \in Bufs
    BY CTAType, LoadFields DEF LoadWait
  <1>2. \A m \in Lanes : m # l => load'[c][m] = load[c][m]
    BY DEF LoadWait, TypeOK
  <1>3. load'[c][l] = [r EXCEPT !.pc = "elect", !.first_wu = FALSE,
            !.phase[r.sched_buf] = IF r.first_wu THEN @ ELSE 1 - @]
    BY DEF LoadWait, TypeOK
  <1>4. /\ load'[c][l].pc = "elect" /\ load'[c][l].first_wu = FALSE
        /\ load'[c][l].round = r.round /\ load'[c][l].sched_buf = r.sched_buf
    BY <1>1, <1>3 DEF LoadType
  <1>5. load'[c][l].phase =
           [r.phase EXCEPT ![r.sched_buf] = IF r.first_wu THEN @ ELSE 1 - @]
    BY <1>1, <1>3 DEF LoadType
  <1>6. /\ Published(c)' = Published(c) /\ Written(c)' = Written(c)
        /\ UNCHANGED <<cons, sched_mbar, sched_consumed_mbar, sWorkIdx, given>>
    BY DEF LoadWait, Published, Written
  <1>7. LaneRounds(c)'
    BY <1>1, <1>2, <1>4, <1>6 DEF LaneRounds, Mid
  <1>8. LaneRegs(c)'
    <2>1. ASSUME NEW m \in Lanes, m # l
          PROVE  LaneEntered(c, m)' = LaneEntered(c, m)
      BY <1>2, <2>1 DEF LaneEntered
    <2>2. /\ LaneEntered(c, l)' = r.round + 1
          /\ LaneEntered(c, l) = r.round
          /\ r.round \in Nat /\ r.round >= 1
      BY <1>1, <1>4, LoadFields DEF LaneEntered, LaneRegs, LaneReg
    <2>3. /\ r.sched_buf = r.round % 2
          /\ r.phase \in [Bufs -> Bufs]
          /\ r.phase[0] = (Turns(r.round, 0) - 1) % 2
          /\ r.phase[1] = IF r.round < 2 THEN 0 ELSE (Turns(r.round, 1) - 1) % 2
          /\ r.first_wu <=> r.round = 1
      BY <1>1, <2>2, LoadFields DEF LaneRegs, LaneReg
    <2> DEFINE ph == r.phase
    <2> DEFINE new == load'[c][l].phase
    <2> DEFINE R == r.round
    <2>7. /\ R % 2 = 0 => ~r.first_wu /\ new[0] = 1 - ph[0] /\ new[1] = ph[1]
          /\ R = 1 => new[0] = ph[0] /\ new[1] = ph[1]
          /\ R % 2 = 1 /\ R # 1 => new[0] = ph[0] /\ new[1] = 1 - ph[1]
      BY <1>5, <2>2, <2>3 DEF Bufs
    <2>8. R \in Nat /\ R >= 1 /\ ph[0] = (Turns(R, 0) - 1) % 2
             /\ ph[1] = IF R < 2 THEN 0 ELSE (Turns(R, 1) - 1) % 2
      BY <2>2, <2>3
    <2> HIDE DEF ph, new, R
    <2>4. new[0] = (Turns(R + 1, 0) - 1) % 2
      <3>1. CASE R % 2 = 0
        <4>1. Turns(R + 1, 0) = Turns(R, 0) + 1 /\ Turns(R, 0) \in Nat
          BY <2>8, <3>1, TurnsFacts
        <4> QED BY <2>7, <2>8, <3>1, <4>1
      <3>2. CASE R % 2 = 1
        <4>1. Turns(R + 1, 0) = Turns(R, 0)
          BY <2>8, <3>2, TurnsFacts
        <4> QED BY <2>7, <2>8, <3>2, <4>1
      <3> QED BY <2>8, <3>1, <3>2
    <2>5. new[1] = IF R + 1 < 2 THEN 0 ELSE (Turns(R + 1, 1) - 1) % 2
      <3>1. CASE R % 2 = 0
        <4>1. Turns(R + 1, 1) = Turns(R, 1) /\ R # 1
          BY <2>8, <3>1, TurnsFacts
        <4> QED BY <2>7, <2>8, <3>1, <4>1
      <3>2. CASE R = 1
        BY <2>7, <2>8, <3>2 DEF Turns
      <3>3. CASE R % 2 = 1 /\ R # 1
        <4>1. Turns(R + 1, 1) = Turns(R, 1) + 1 /\ Turns(R, 1) \in Nat
          BY <2>8, <3>3, TurnsFacts
        <4> QED BY <2>7, <2>8, <3>3, <4>1
      <3> QED BY <2>8, <3>1, <3>2, <3>3
    <2>9. /\ load'[c][l].sched_buf = load'[c][l].round % 2
          /\ R + 1 >= 1
          /\ load'[c][l].first_wu <=>
                       /\ load'[c][l].round = 1
                       /\ load'[c][l].pc \in {"work", "wait", "exit"}
      BY <1>4, <2>3, <2>8 DEF R
    <2>10. LaneEntered(c, l)' = R + 1
      BY <2>2 DEF R
    <2>6. ASSUME NEW m \in Lanes, m # l PROVE LaneReg(c, m)'
      BY <1>2, <2>1, <2>6 DEF LaneRegs, LaneReg, Turns
    <2>11. LaneReg(c, l)'
      BY <2>4, <2>5, <2>9, <2>10 DEF LaneReg, Turns, new
    <2> QED
      BY <2>6, <2>11 DEF LaneRegs
  <1>9. Window(c)'
    <2>1. \A t \in Consumers : r.round <= cons[c][t].round + 1
      <3>1. CASE r.first_wu
        <4>1. r.round = 1
          BY <1>1, <3>1 DEF LaneRegs, LaneReg
        <4> QED BY <4>1, CTAType, ConsFields
      <3>2. CASE ~r.first_wu
        BY <1>1, <3>2, BackPressure DEF LoadWait
      <3> QED BY <3>1, <3>2
    <2> QED BY <1>2, <1>4, <1>6, <2>1 DEF Window
  <1>10. Slots(c)'
    BY <1>6 DEF Slots
  <1>11. SchedBarrier(c)'
    <2>1. Absent(c)' = Absent(c)
      BY <1>1, <1>2, <1>4, <1>6 DEF Absent
    <2> QED BY <1>6, <2>1 DEF SchedBarrier
  <1>12. ConsRegs(c)' /\ ConsumedBarrier(c)'
    BY <1>6, LoadFrame, CTAType
  <1> QED BY <1>7, <1>8, <1>9, <1>10, <1>11, <1>12

\* The registers of a lane that moves without entering or leaving a round.
LEMMA LaneRegMove ==
    ASSUME TypeOK, NEW c \in CTAs, NEW l \in Lanes, LaneReg(c, l),
           NEW p, load'[c][l] = [load[c][l] EXCEPT !.pc = p],
           \/ load[c][l].pc \in {"work", "wait", "exit"}
                 /\ p \in {"work", "wait", "exit"}
           \/ load[c][l].pc \notin {"work", "wait", "exit"}
                 /\ p \notin {"work", "wait", "exit"}
    PROVE  LaneReg(c, l)'
  <1>1. load[c][l] \in LoadType
    BY CTAType
  <1>2. /\ load'[c][l].pc = p
        /\ load'[c][l].round = load[c][l].round
        /\ load'[c][l].sched_buf = load[c][l].sched_buf
        /\ load'[c][l].phase = load[c][l].phase
        /\ load'[c][l].first_wu = load[c][l].first_wu
    BY <1>1 DEF LoadType
  <1>3. LaneEntered(c, l)' = LaneEntered(c, l)
    BY <1>2 DEF LaneEntered
  <1> QED BY <1>2, <1>3 DEF LaneReg, Turns

LEMMA ElectInv ==
    ASSUME TypeOK, NEW c \in CTAs, CTAInv(c), Elect(c)
    PROVE  CTAInv(c)'
  <1> USE DEF CTAInv
  <1> DEFINE to(l) == IF l = Leader THEN "write" ELSE "arrive"
  <1>1. \A l \in Lanes : /\ load[c][l] \in LoadType
                         /\ load[c][l].pc = "elect"
                         /\ load'[c][l] = [load[c][l] EXCEPT !.pc = to(l)]
    BY CTAType DEF Elect, AllLanesAt, TypeOK
  <1>2. \A l \in Lanes : /\ load'[c][l].pc = to(l)
                         /\ load'[c][l].round = load[c][l].round
    <2> HIDE DEF to
    <2> QED BY <1>1 DEF LoadType
  <1>3. /\ Published(c)' = Published(c) /\ Written(c)' = Written(c)
        /\ UNCHANGED <<cons, sched_mbar, sched_consumed_mbar, sWorkIdx, given>>
    BY DEF Elect, Published, Written
  <1>4. LaneRounds(c)'
    <2>1. \A l \in Lanes : load[c][l].round = Published(c)
      BY <1>1 DEF LaneRounds
    <2>2. Written(c) = Published(c)
      BY <1>1 DEF LaneRounds
    <2>3. load'[c][Leader].pc = "write"
      BY <1>2
    <2>4. \A l \in Lanes : /\ load'[c][l].pc \in {"write", "arrive"}
                           /\ load'[c][l].pc = "write" => l = Leader
      BY <1>2
    <2> HIDE DEF to
    <2> QED BY <1>2, <1>3, <2>1, <2>2, <2>3, <2>4 DEF LaneRounds, Mid
  <1>5. LaneRegs(c)'
    <2>1. ASSUME NEW l \in Lanes, NEW p, p \in {"write", "arrive"},
                 load'[c][l] = [load[c][l] EXCEPT !.pc = p]
          PROVE  LaneReg(c, l)'
      <3>1. LaneReg(c, l) /\ load[c][l].pc = "elect"
        BY <1>1 DEF LaneRegs
      <3> QED BY <2>1, <3>1, LaneRegMove
    <2>2. \A l \in Lanes : to(l) \in {"write", "arrive"}
      OBVIOUS
    <2> HIDE DEF to
    <2> QED BY <1>1, <2>1, <2>2 DEF LaneRegs
  <1>6. Window(c)'
    BY <1>1, <1>2, <1>3 DEF Window
  <1>7. Slots(c)'
    BY <1>3 DEF Slots
  <1>8. SchedBarrier(c)'
    <2>1. Absent(c)' = Absent(c)
      BY <1>1, <1>2, <1>3 DEF Absent
    <2> QED BY <1>3, <2>1 DEF SchedBarrier
  <1>9. ConsRegs(c)' /\ ConsumedBarrier(c)'
    BY <1>3, LoadFrame, CTAType
  <1> QED BY <1>4, <1>5, <1>6, <1>7, <1>8, <1>9

LEMMA FetchAndWriteInv ==
    ASSUME TypeOK, NEW c \in CTAs, CTAInv(c), FetchAndWrite(c)
    PROVE  CTAInv(c)'
  <1> USE DEF CTAInv
  <1> DEFINE r == load[c][Leader]
  <1>1. r \in LoadType /\ r.pc = "write" /\ r.sched_buf = r.round % 2
        /\ r.round \in Nat /\ r.round = Published(c) /\ r.round = Written(c)
    BY CTAType, LoadFields DEF FetchAndWrite, LaneRegs, LaneReg, LaneRounds
  <1>2. \A m \in Lanes : m # Leader => load'[c][m] = load[c][m]
    BY DEF FetchAndWrite, TypeOK
  <1>3. load'[c][Leader] = [r EXCEPT !.pc = "arrive"]
    BY DEF FetchAndWrite, TypeOK
  <1>4. load'[c][Leader].pc = "arrive" /\ load'[c][Leader].round = r.round
    BY <1>1, <1>3 DEF LoadType
  <1>5. /\ given'[c] = Append(given[c], workspace_iter)
        /\ given[c] \in Seq(Int) /\ workspace_iter \in Int
        /\ sWorkIdx'[c] = [sWorkIdx[c] EXCEPT ![r.sched_buf] = workspace_iter]
        /\ sWorkIdx[c] \in [Bufs -> Int]
        /\ UNCHANGED <<cons, sched_mbar, sched_consumed_mbar>>
    BY DEF FetchAndWrite, TypeOK
  <1>6. Published(c)' = Published(c) /\ Written(c)' = Written(c) + 1
    BY <1>5 DEF Published, Written
  <1>7. \A m \in Lanes : load[c][m].pc \in Mid /\ load[c][m].round = r.round
    BY <1>1 DEF LaneRounds, Mid
  <1>8. LaneRounds(c)'
    <2>1. \A m \in Lanes : m # Leader => load[c][m].pc # "write"
      BY DEF LaneRounds
    <2>2. \A m \in Lanes : /\ load'[c][m].pc \in {"arrive", "sync"}
                           /\ load'[c][m].round = r.round
      BY <1>2, <1>4, <1>7, <2>1 DEF Mid
    <2> QED BY <1>1, <1>6, <2>2 DEF LaneRounds, Mid
  <1>9. LaneRegs(c)'
    <2>1. LaneReg(c, Leader)'
      BY <1>1, <1>3, LaneRegMove DEF LaneRegs
    <2>2. ASSUME NEW m \in Lanes, m # Leader PROVE LaneReg(c, m)'
      BY <1>2, <2>2 DEF LaneRegs, LaneReg, LaneEntered, Turns
    <2> QED BY <2>1, <2>2 DEF LaneRegs
  <1>10. Window(c)'
    <2>1. \A t \in Consumers : /\ cons[c][t].round \in Nat
                               /\ r.round <= cons[c][t].round + 1
      BY <1>1, CTAType, ConsFields DEF Window
    <2>2. \A m \in Lanes : load'[c][m].pc \notin {"elect", "write"}
      <3>1. \A m \in Lanes : m # Leader => load[c][m].pc # "write"
        BY DEF LaneRounds
      <3> QED BY <1>2, <1>4, <1>7, <3>1 DEF Mid
    <2> QED BY <1>1, <1>5, <1>6, <2>1, <2>2 DEF Window
  <1>11. Slots(c)'
    <2> DEFINE F == Written(c)
    <2>1. F \in Nat /\ F = Len(given[c]) /\ r.sched_buf = F % 2
      BY <1>1 DEF Written
    <2>2. SUFFICES ASSUME NEW k \in 1 .. F + 1, k + 1 >= F + 1
                   PROVE  sWorkIdx'[c][(k + 1) % 2] = given'[c][k]
      BY <1>6 DEF Slots
    <2> HIDE DEF F
    <2>5. /\ F % 2 \in Bufs /\ (F + 1) % 2 = 1 - (F % 2)
          /\ (F + 1 + 1) % 2 = F % 2
      <3>1. F + 1 \in Nat
        BY <2>1
      <3>2. F % 2 \in Bufs /\ (F + 1) % 2 = 1 - (F % 2)
        BY <2>1, TurnsFacts
      <3>3. (F + 1 + 1) % 2 = 1 - ((F + 1) % 2)
        BY <3>1, TurnsFacts
      <3> QED BY <3>2, <3>3 DEF Bufs
    <2>3. CASE k = F + 1
      <3>1. (k + 1) % 2 = F % 2 /\ F % 2 \in Bufs
        BY <2>3, <2>5
      <3>2. given'[c][k] = workspace_iter
        BY <1>5, <2>1, <2>3
      <3> QED BY <1>5, <2>1, <3>1, <3>2
    <2>4. CASE k = F
      <3>1. (k + 1) % 2 # F % 2 /\ (k + 1) % 2 \in Bufs
        BY <2>4, <2>5 DEF Bufs
      <3>2. given'[c][k] = given[c][k] /\ k \in 1 .. F
        BY <1>5, <2>1, <2>2, <2>4
      <3>3. sWorkIdx[c][(k + 1) % 2] = given[c][k]
        <4>1. Slots(c) /\ k \in 1 .. Written(c) /\ k + 1 >= Written(c)
          BY <2>1, <2>4, <3>2 DEF F
        <4> QED BY <4>1 DEF Slots
      <3> QED BY <1>5, <2>1, <3>1, <3>2, <3>3
    <2> QED BY <2>1, <2>2, <2>3, <2>4
  <1>12. SchedBarrier(c)'
    <2>1. Absent(c)' = Absent(c)
      BY <1>1, <1>2, <1>4, <1>6 DEF Absent
    <2> QED BY <1>5, <1>6, <2>1 DEF SchedBarrier
  <1>13. ConsRegs(c)' /\ ConsumedBarrier(c)'
    BY <1>5, <1>6, LoadFrame, CTAType
  <1> QED BY <1>8, <1>9, <1>10, <1>11, <1>12, <1>13

\* One lane less is missing once a lane has arrived.
LEMMA AbsentShrinks ==
    ASSUME NEW S, IsFiniteSet(S), NEW x \in S
    PROVE  /\ Cardinality(S \ {x}) = Cardinality(S) - 1
           /\ Cardinality(S) \in Nat
           /\ Cardinality(S) = 1 => S = {x}
  <1>1. Cardinality(S \ {x}) = Cardinality(S) - 1 /\ Cardinality(S) \in Nat
    BY FS_RemoveElement, FS_CardinalityType
  <1>2. ASSUME Cardinality(S) = 1 PROVE S = {x}
    <2>1. IsFiniteSet(S \ {x}) /\ Cardinality(S \ {x}) = 0
      BY <1>1, <1>2, FS_RemoveElement
    <2> QED BY <2>1, FS_EmptySet
  <1> QED BY <1>1, <1>2

LEMMA LoadArriveInv ==
    ASSUME TypeOK, NEW c \in CTAs, CTAInv(c), NEW l \in Lanes, LoadArrive(c, l)
    PROVE  CTAInv(c)'
  <1> USE DEF CTAInv
  <1> DEFINE r == load[c][l]
  <1> DEFINE P == Published(c)
  <1> DEFINE b == P % 2
  <1>1. r \in LoadType /\ r.pc = "arrive" /\ P \in Nat
        /\ r.round = P /\ r.sched_buf = b /\ b \in Bufs
    BY CTAType, TurnsFacts DEF LoadArrive, LaneRegs, LaneReg, LaneRounds
  <1>2. \A m \in Lanes : m # l => load'[c][m] = load[c][m]
    BY DEF LoadArrive, TypeOK
  <1>3. load'[c][l] = [r EXCEPT !.pc = "sync"]
    BY DEF LoadArrive, TypeOK
  <1>4. load'[c][l].pc = "sync" /\ load'[c][l].round = r.round
    BY <1>1, <1>3 DEF LoadType
  <1>5. UNCHANGED <<cons, sched_consumed_mbar, sWorkIdx, given>>
        /\ Written(c)' = Written(c)
    BY DEF LoadArrive, Written
  <1>6. sched_mbar'[c] =
           [sched_mbar[c] EXCEPT ![b] = MbarArrive(@, LaneCount)]
    BY <1>1 DEF LoadArrive, TypeOK
  <1>7. /\ sched_mbar[c] \in [Bufs -> MbarType(LaneCount)]
        /\ sched_mbar[c][b].pending = Cardinality(Absent(c))
        /\ sched_mbar[c][1 - b].pending = LaneCount
    BY DEF TypeOK, SchedBarrier
  <1>8. l \in Absent(c) /\ IsFiniteSet(Absent(c))
    BY <1>1, FS_Subset DEF Absent
  <1>9. \A m \in Lanes : load[c][m].pc \in Mid /\ load[c][m].round = P
    BY <1>1 DEF LaneRounds, Mid
  <1>10. LaneRegs(c)'
    <2>1. LaneReg(c, l)'
      BY <1>1, <1>3, LaneRegMove DEF LaneRegs
    <2>2. ASSUME NEW m \in Lanes, m # l PROVE LaneReg(c, m)'
      BY <1>2, <2>2 DEF LaneRegs, LaneReg, LaneEntered, Turns
    <2> QED BY <2>1, <2>2 DEF LaneRegs
  <1>11. Window(c)'
    BY <1>2, <1>4, <1>5 DEF Window
  <1>12. Slots(c)'
    BY <1>5 DEF Slots
  <1>13. load'[c][Leader].pc \in {"arrive", "sync"} =>
            Written(c)' = load'[c][Leader].round + 1
    BY <1>1, <1>2, <1>4, <1>5 DEF LaneRounds
  <1>14. CASE sched_mbar[c][b].pending # 1
    <2>1. /\ sched_mbar'[c][b].pending = sched_mbar[c][b].pending - 1
          /\ sched_mbar'[c][b].phase = sched_mbar[c][b].phase
          /\ sched_mbar'[c][1 - b] = sched_mbar[c][1 - b]
      BY <1>1, <1>6, <1>7, <1>14 DEF MbarArrive, MbarType, Bufs
    <2>2. P' = P /\ sched_mbar'[c][0].phase = sched_mbar[c][0].phase
          /\ sched_mbar'[c][1].phase = sched_mbar[c][1].phase
      BY <1>1, <2>1 DEF Published, Bufs
    <2>3. Absent(c)' = Absent(c) \ {l}
      BY <1>1, <1>2, <1>4, <2>2 DEF Absent
    <2>4. SchedBarrier(c)'
      BY <1>7, <1>8, <2>1, <2>2, <2>3, AbsentShrinks DEF SchedBarrier
    <2>5. LaneRounds(c)'
      <3>1. \A m \in Lanes : load'[c][m].pc \in Mid /\ load'[c][m].round = P
        BY <1>1, <1>2, <1>4, <1>9 DEF Mid
      <3>2. \A m \in Lanes : load'[c][m].pc = "write" =>
               m = Leader /\ Written(c)' = P'
        BY <1>2, <1>4, <1>5, <2>2 DEF LaneRounds
      <3> QED BY <1>1, <1>13, <2>2, <3>1, <3>2 DEF LaneRounds, Mid
    <2>6. ConsRegs(c)' /\ ConsumedBarrier(c)'
      BY <1>1, <1>5, <2>2, LoadFrame
    <2> QED BY <1>10, <1>11, <1>12, <2>4, <2>5, <2>6
  <1>15. CASE sched_mbar[c][b].pending = 1
    <2>1. /\ sched_mbar'[c][b].pending = LaneCount
          /\ sched_mbar'[c][b].phase = sched_mbar[c][b].phase + 1
          /\ sched_mbar'[c][1 - b] = sched_mbar[c][1 - b]
      BY <1>1, <1>6, <1>7, <1>15 DEF MbarArrive, MbarType, Bufs
    <2>2. P' = P + 1 /\ P' \in Nat
      BY <1>1, <1>7, <2>1 DEF Published, Bufs, MbarType
    <2>3. P' % 2 = 1 - b
      BY <1>1, <2>2, TurnsFacts
    <2>4. Absent(c) = {l}
      BY <1>7, <1>8, <1>15, AbsentShrinks
    <2>5. \A m \in Lanes : load'[c][m].pc = "sync" /\ load'[c][m].round = P
      BY <1>1, <1>2, <1>4, <2>4 DEF Absent
    <2>6. Absent(c)' = Lanes
      BY <1>1, <2>2, <2>5 DEF Absent
    <2>7. SchedBarrier(c)'
      <3>1. sched_mbar'[c][0].phase - sched_mbar'[c][1].phase \in 0 .. 1
        BY <1>1, <1>7, <2>1 DEF SchedBarrier, Published, Bufs, MbarType
      <3>2. 1 - (P' % 2) = b
        BY <1>1, <2>3 DEF Bufs
      <3> QED BY <1>7, <2>1, <2>3, <2>6, <3>1, <3>2 DEF SchedBarrier, LaneCount
    <2>8. LaneRounds(c)'
      <3>1. Written(c)' = P + 1
        BY <1>13, <2>5
      <3> QED BY <1>1, <1>13, <2>2, <2>5, <3>1 DEF LaneRounds, Mid
    <2>9. ConsRegs(c)' /\ ConsumedBarrier(c)'
      BY <1>1, <1>5, <2>2, LoadFrame
    <2> QED BY <1>10, <1>11, <1>12, <2>7, <2>8, <2>9
  <1> QED BY <1>14, <1>15

LEMMA SyncWarpInv ==
    ASSUME TypeOK, NEW c \in CTAs, CTAInv(c), SyncWarp(c)
    PROVE  CTAInv(c)'
  <1> USE DEF CTAInv
  <1> DEFINE P == Published(c)
  <1>1. \A l \in Lanes : /\ load[c][l] \in LoadType
                         /\ load[c][l].pc = "sync"
                         /\ load'[c][l] = [load[c][l] EXCEPT !.pc = "read"]
    BY CTAType DEF SyncWarp, AllLanesAt, TypeOK
  <1>2. \A l \in Lanes : /\ load'[c][l].pc = "read"
                         /\ load'[c][l].round = load[c][l].round
    BY <1>1 DEF LoadType
  <1>3. /\ P' = P /\ Written(c)' = Written(c) /\ P \in Nat
        /\ UNCHANGED <<cons, sched_mbar, sched_consumed_mbar, sWorkIdx, given>>
    BY CTAType DEF SyncWarp, Published, Written
  \* Not everybody may be missing from a barrier that is about to complete.
  <1>4. \A l \in Lanes : load[c][l].round + 1 = P /\ Written(c) = P
    <2> SUFFICES ASSUME NEW l \in Lanes, load[c][l].round = P PROVE FALSE
      BY <1>1 DEF LaneRounds
    <2>1. \A m \in Lanes : load[c][m].pc = "sync" /\ load[c][m].round = P
      BY <1>1 DEF LaneRounds, Mid
    <2>2. Absent(c) = {}
      BY <2>1 DEF Absent
    <2>3. P % 2 \in Bufs
      BY <1>3, TurnsFacts
    <2> QED BY <2>2, <2>3, FS_EmptySet, CTAType DEF SchedBarrier
  <1>5. LaneRounds(c)'
    BY <1>2, <1>3, <1>4 DEF LaneRounds, Mid
  <1>6. LaneRegs(c)'
    <2> SUFFICES ASSUME NEW l \in Lanes PROVE LaneReg(c, l)'
      BY DEF LaneRegs
    <2> QED BY <1>1, LaneRegMove DEF LaneRegs
  <1>7. Window(c)'
    BY <1>2, <1>3 DEF Window
  <1>8. Slots(c)'
    BY <1>3 DEF Slots
  <1>9. SchedBarrier(c)'
    <2>1. Absent(c)' = Absent(c)
      BY <1>2, <1>3, <1>4 DEF Absent
    <2> QED BY <1>3, <2>1 DEF SchedBarrier
  <1>10. ConsRegs(c)' /\ ConsumedBarrier(c)'
    BY <1>3, LoadFrame
  <1> QED BY <1>5, <1>6, <1>7, <1>8, <1>9, <1>10

LEMMA LoadReadInv ==
    ASSUME TypeOK, NEW c \in CTAs, CTAInv(c), NEW l \in Lanes, LoadRead(c, l)
    PROVE  CTAInv(c)'
  <1> USE DEF CTAInv
  <1> DEFINE r == load[c][l]
  <1> DEFINE new == load'[c][l]
  <1>1. r \in LoadType /\ r.pc = "read" /\ r.round \in Nat
    BY CTAType, LoadFields DEF LoadRead
  <1>2. \A m \in Lanes : m # l => load'[c][m] = load[c][m]
    BY DEF LoadRead, TypeOK
  <1>3. /\ new.pc \in {"work", "exit"} /\ new.round = r.round + 1
        /\ new.sched_buf = 1 - r.sched_buf /\ new.phase = r.phase
        /\ new.first_wu = (r.round = 0)
    BY <1>1 DEF LoadRead, TypeOK
  <1>4. /\ Published(c)' = Published(c) /\ Written(c)' = Written(c)
        /\ Published(c) \in Nat
        /\ UNCHANGED <<cons, sched_mbar, sched_consumed_mbar, sWorkIdx, given>>
    BY CTAType DEF LoadRead, Published, Written
  <1>5. LaneRounds(c)'
    <2>1. \A m \in Lanes : load[c][m].pc \notin Mid
      BY <1>1 DEF LaneRounds, Mid
    <2> QED BY <1>1, <1>2, <1>3, <1>4, <2>1 DEF LaneRounds, Mid
  <1>6. LaneRegs(c)'
    <2>1. ASSUME NEW m \in Lanes, m # l PROVE LaneReg(c, m)'
      BY <1>2, <2>1 DEF LaneRegs, LaneReg, LaneEntered, Turns
    <2>2. LaneEntered(c, l)' = LaneEntered(c, l)
      BY <1>1, <1>3 DEF LaneEntered
    <2>3. new.sched_buf = new.round % 2
      <3>1. r.sched_buf = r.round % 2
        BY DEF LaneRegs, LaneReg
      <3> QED BY <1>1, <1>3, <3>1, TurnsFacts
    <2>4. new.first_wu <=> new.round = 1 /\ new.pc \in {"work", "wait", "exit"}
      <3>1. (r.round = 0) <=> (new.round = 1)
        BY <1>1, <1>3
      <3>2. new.pc \in {"work", "wait", "exit"} /\ new.first_wu = (r.round = 0)
        BY <1>3
      <3> HIDE DEF new, r
      <3> QED BY <3>1, <3>2
    <2>5. LaneReg(c, l)'
      BY <1>3, <2>2, <2>3, <2>4 DEF LaneRegs, LaneReg, Turns
    <2> QED BY <2>1, <2>5 DEF LaneRegs
  <1>7. Window(c)'
    BY <1>2, <1>3, <1>4 DEF Window
  <1>8. Slots(c)'
    BY <1>4 DEF Slots
  <1>9. SchedBarrier(c)'
    <2>1. Absent(c)' = Absent(c)
      BY <1>1, <1>2, <1>3, <1>4 DEF Absent
    <2> QED BY <1>4, <2>1 DEF SchedBarrier
  <1>10. ConsRegs(c)' /\ ConsumedBarrier(c)'
    BY <1>4, LoadFrame
  <1> QED BY <1>5, <1>6, <1>7, <1>8, <1>9, <1>10

LEMMA LoadWorkInv ==
    ASSUME TypeOK, NEW c \in CTAs, CTAInv(c), NEW l \in Lanes, LoadWork(c, l)
    PROVE  CTAInv(c)'
  <1> USE DEF CTAInv
  <1> DEFINE r == load[c][l]
  <1>1. r \in LoadType /\ r.pc = "work"
    BY CTAType DEF LoadWork
  <1>2. \A m \in Lanes : m # l => load'[c][m] = load[c][m]
    BY DEF LoadWork, TypeOK
  <1>3. load'[c][l] = [r EXCEPT !.pc = "wait"]
    BY DEF LoadWork, TypeOK
  <1>4. load'[c][l].pc = "wait" /\ load'[c][l].round = r.round
    BY <1>1, <1>3 DEF LoadType
  <1>5. /\ Published(c)' = Published(c) /\ Written(c)' = Written(c)
        /\ Published(c) \in Nat
        /\ UNCHANGED <<cons, sched_mbar, sched_consumed_mbar, sWorkIdx, given>>
    BY CTAType DEF LoadWork, Published, Written
  <1>6. LaneRounds(c)'
    BY <1>1, <1>2, <1>4, <1>5 DEF LaneRounds, Mid
  <1>7. LaneRegs(c)'
    <2>1. ASSUME NEW m \in Lanes, m # l PROVE LaneReg(c, m)'
      BY <1>2, <2>1 DEF LaneRegs, LaneReg, LaneEntered, Turns
    <2>2. LaneReg(c, l)'
      BY <1>1, <1>3, LaneRegMove DEF LaneRegs
    <2> QED BY <2>1, <2>2 DEF LaneRegs
  <1>8. Window(c)'
    BY <1>2, <1>4, <1>5 DEF Window
  <1>9. Slots(c)'
    BY <1>5 DEF Slots
  <1>10. SchedBarrier(c)'
    <2>1. Absent(c)' = Absent(c)
      BY <1>1, <1>2, <1>4, <1>5 DEF Absent
    <2> QED BY <1>5, <2>1 DEF SchedBarrier
  <1>11. ConsRegs(c)' /\ ConsumedBarrier(c)'
    BY <1>5, LoadFrame
  <1> QED BY <1>6, <1>7, <1>8, <1>9, <1>10, <1>11

-----------------------------------------------------------------------------
(***************************************************************************)
(* Steps of a consumer thread.                                             *)
(***************************************************************************)

\* What no step of a consumer touches.
LEMMA ConsFrame ==
    ASSUME TypeOK, NEW c \in CTAs, CTAInv(c),
           UNCHANGED <<load, sched_mbar, sWorkIdx, given>>
    PROVE  /\ Published(c)' = Published(c) /\ Written(c)' = Written(c)
           /\ LaneRounds(c)' /\ LaneRegs(c)' /\ Slots(c)' /\ SchedBarrier(c)'
  <1>1. Published(c)' = Published(c) /\ Written(c)' = Written(c)
    BY DEF Published, Written
  <1>2. LaneRounds(c)'
    BY <1>1 DEF CTAInv, LaneRounds
  <1>3. LaneRegs(c)'
    BY DEF CTAInv, LaneRegs, LaneReg, LaneEntered, Turns
  <1>4. Slots(c)'
    BY <1>1 DEF CTAInv, Slots
  <1>5. SchedBarrier(c)'
    BY <1>1 DEF CTAInv, SchedBarrier, Absent
  <1> QED BY <1>1, <1>2, <1>3, <1>4, <1>5

\* A consumer that stays in its round leaves windows and barriers alone.
LEMMA SameRound ==
    ASSUME TypeOK, NEW c \in CTAs, CTAInv(c),
           UNCHANGED <<load, sched_mbar, sWorkIdx, given, sched_consumed_mbar>>,
           \A t \in Consumers : cons'[c][t].round = cons[c][t].round
    PROVE  Window(c)' /\ ConsumedBarrier(c)'
  <1>1. Written(c)' = Written(c)
    BY DEF Written
  <1>2. Window(c)'
    BY <1>1 DEF CTAInv, Window
  <1>3. \A b \in Bufs, t \in Consumers :
           Turns(cons[c][t].round, b)' = Turns(cons[c][t].round, b)
    BY DEF Turns
  <1>4. \A b \in Bufs : Owing(c, b)' = Owing(c, b)
    BY <1>3 DEF Owing
  <1> QED BY <1>2, <1>3, <1>4 DEF CTAInv, ConsumedBarrier

\* A published slot lies at most two rounds ahead of the consumer.
LEMMA PublishedAhead ==
    ASSUME TypeOK, NEW c \in CTAs, CTAInv(c), NEW t \in Consumers
    PROVE  /\ cons[c][t].round \in Nat /\ Published(c) \in Nat
           /\ Written(c) \in Nat
           /\ cons[c][t].round <= Published(c)
           /\ Published(c) <= Written(c)
           /\ Written(c) <= cons[c][t].round + 2
           /\ sched_mbar[c][0].phase = Turns(Published(c), 0)
           /\ sched_mbar[c][1].phase = Turns(Published(c), 1)
  <1>1. /\ cons[c][t].round \in Nat /\ Published(c) \in Nat
        /\ Written(c) \in Nat
    BY CTAType, ConsFields
  <1>2. cons[c][t].round <= Published(c)
    BY <1>1 DEF CTAInv, ConsRegs, ConsReg, ConsEntered
  <1>3. Written(c) <= cons[c][t].round + 2
    BY DEF CTAInv, Window
  <1>4. Published(c) <= Written(c)
    <2>1. load[c][Leader].round \in Nat /\ load[c][Leader].pc \in LoadPCs
      BY CTAType, LoadFields
    <2> QED BY <1>1, <2>1 DEF CTAInv, LaneRounds, LoadPCs
  <1>5. /\ sched_mbar[c][0].phase \in Nat /\ sched_mbar[c][1].phase \in Nat
        /\ sched_mbar[c][0].phase - sched_mbar[c][1].phase \in 0 .. 1
    BY CTAType DEF CTAInv, SchedBarrier, Bufs
  <1>6. /\ sched_mbar[c][0].phase = Turns(Published(c), 0)
        /\ sched_mbar[c][1].phase = Turns(Published(c), 1)
    <2> DEFINE p0 == sched_mbar[c][0].phase
    <2> DEFINE p1 == sched_mbar[c][1].phase
    <2>1. p0 \in Nat /\ p1 \in Nat /\ (p0 = p1 \/ p0 = p1 + 1)
             /\ Published(c) = p0 + p1
      BY <1>5 DEF Published
    <2> HIDE DEF p0, p1
    <2>2. Turns(p0 + p1, 0) = p0 /\ Turns(p0 + p1, 1) = p1
      BY <2>1 DEF Turns
    <2> QED BY <2>1, <2>2 DEF p0, p1
  <1> QED BY <1>1, <1>2, <1>3, <1>4, <1>6

LEMMA ConsWaitInv ==
    ASSUME TypeOK, NEW c \in CTAs, CTAInv(c), NEW t \in Consumers, ConsWait(c, t)
    PROVE  CTAInv(c)'
  <1> USE DEF CTAInv
  <1> DEFINE r == cons[c][t]
  <1> DEFINE n == r.round
  <1> DEFINE b == n % 2
  <1>1. r \in ConsType /\ r.pc = "wait" /\ n \in Nat /\ b \in Bufs
        /\ r.phase \in [Bufs -> Bufs]
    BY CTAType, ConsFields, TurnsFacts DEF ConsWait
  <1>2. /\ r.sched_buf = b
        /\ r.phase[0] = Turns(n, 0) % 2 /\ r.phase[1] = Turns(n, 1) % 2
    BY <1>1 DEF ConsRegs, ConsReg, ConsEntered
  <1>3. \A u \in Consumers : u # t => cons'[c][u] = cons[c][u]
    BY DEF ConsWait, TypeOK
  <1>4. /\ cons'[c][t].pc = "read" /\ cons'[c][t].round = n
        /\ cons'[c][t].sched_buf = b
        /\ cons'[c][t].phase = [r.phase EXCEPT ![b] = 1 - @]
    BY <1>1, <1>2 DEF ConsWait, TypeOK, ConsType
  <1>5. UNCHANGED <<load, sched_mbar, sched_consumed_mbar, sWorkIdx, given>>
    BY DEF ConsWait
  <1>6. n + 1 <= Published(c)
    <2>1. sched_mbar[c][b].phase % 2 # Turns(n, b) % 2
      BY <1>1, <1>2 DEF ConsWait, MbarWaitable, Bufs
    <2>2. sched_mbar[c][b].phase = Turns(Published(c), b)
      BY <1>1, PublishedAhead DEF Bufs
    <2>3. Published(c) # n
      BY <2>1, <2>2
    <2> QED BY <2>3, PublishedAhead
  <1>7. ConsRegs(c)'
    <2>1. ASSUME NEW u \in Consumers, u # t PROVE ConsReg(c, u)'
      BY <1>3, <1>5, <2>1, ConsFrame DEF ConsRegs, ConsReg, ConsEntered, Turns
    <2>2. ConsEntered(c, t)' = n + 1
      BY <1>4 DEF ConsEntered
    <2>3. /\ cons'[c][t].phase[0] = Turns(n + 1, 0) % 2
          /\ cons'[c][t].phase[1] = Turns(n + 1, 1) % 2
      <3> DEFINE ph == r.phase
      <3> DEFINE new == cons'[c][t].phase
      <3>1. /\ b = 0 => new[0] = 1 - ph[0] /\ new[1] = ph[1]
            /\ b = 1 => new[0] = ph[0] /\ new[1] = 1 - ph[1]
            /\ ph[0] = Turns(n, 0) % 2 /\ ph[1] = Turns(n, 1) % 2
        BY <1>1, <1>2, <1>4 DEF Bufs
      <3> HIDE DEF ph, new
      <3>2. new[0] = Turns(n + 1, 0) % 2 /\ new[1] = Turns(n + 1, 1) % 2
        <4>1. CASE b = 0
          BY <1>1, <3>1, <4>1, TurnsFacts
        <4>2. CASE b = 1
          BY <1>1, <3>1, <4>2, TurnsFacts
        <4> QED BY <1>1, <4>1, <4>2 DEF Bufs
      <3> QED BY <3>2 DEF new
    <2>4. ConsReg(c, t)'
      BY <1>4, <1>5, <1>6, <2>2, <2>3, ConsFrame DEF ConsReg, Turns
    <2> QED BY <2>1, <2>4 DEF ConsRegs
  <1>8. Window(c)' /\ ConsumedBarrier(c)'
    BY <1>3, <1>4, <1>5, SameRound
  <1> QED BY <1>5, <1>7, <1>8, ConsFrame

\* A consumer that moves inside its round keeps its registers in order.
LEMMA ConsMoveInv ==
    ASSUME TypeOK, NEW c \in CTAs, CTAInv(c), NEW t \in Consumers,
           UNCHANGED <<load, sched_mbar, sched_consumed_mbar, sWorkIdx, given>>,
           \A u \in Consumers : u # t => cons'[c][u] = cons[c][u],
           cons'[c][t].round = cons[c][t].round,
           cons'[c][t].sched_buf = cons[c][t].sched_buf,
           cons'[c][t].phase = cons[c][t].phase,
           ConsEntered(c, t)' = ConsEntered(c, t)
    PROVE  CTAInv(c)'
  <1> USE DEF CTAInv
  <1>1. ConsRegs(c)'
    <2>1. ASSUME NEW u \in Consumers, u # t PROVE ConsReg(c, u)'
      BY <2>1, ConsFrame DEF ConsRegs, ConsReg, ConsEntered, Turns
    <2>2. ConsReg(c, t)'
      BY ConsFrame DEF ConsRegs, ConsReg, Turns
    <2> QED BY <2>1, <2>2 DEF ConsRegs
  <1>2. Window(c)' /\ ConsumedBarrier(c)'
    BY SameRound
  <1> QED BY <1>1, <1>2, ConsFrame

LEMMA ConsReadInv ==
    ASSUME TypeOK, NEW c \in CTAs, CTAInv(c), NEW t \in Consumers, ConsRead(c, t)
    PROVE  CTAInv(c)'
  <1>1. cons[c][t] \in ConsType /\ cons[c][t].pc = "read"
    BY CTAType DEF ConsRead
  <1>2. \A u \in Consumers : u # t => cons'[c][u] = cons[c][u]
    BY DEF ConsRead, TypeOK
  <1>3. /\ cons'[c][t].pc = "arrive" /\ cons'[c][t].round = cons[c][t].round
        /\ cons'[c][t].sched_buf = cons[c][t].sched_buf
        /\ cons'[c][t].phase = cons[c][t].phase
    BY <1>1 DEF ConsRead, TypeOK
  <1>4. ConsEntered(c, t)' = ConsEntered(c, t)
    BY <1>1, <1>3 DEF ConsEntered
  <1> QED BY <1>2, <1>3, <1>4, ConsMoveInv DEF ConsRead

LEMMA ConsWorkInv ==
    ASSUME TypeOK, NEW c \in CTAs, CTAInv(c), NEW t \in Consumers, ConsWork(c, t)
    PROVE  CTAInv(c)'
  <1>1. cons[c][t] \in ConsType /\ cons[c][t].pc = "work"
    BY CTAType DEF ConsWork
  <1>2. \A u \in Consumers : u # t => cons'[c][u] = cons[c][u]
    BY DEF ConsWork, TypeOK
  <1>3. /\ cons'[c][t].pc = "wait" /\ cons'[c][t].round = cons[c][t].round
        /\ cons'[c][t].sched_buf = cons[c][t].sched_buf
        /\ cons'[c][t].phase = cons[c][t].phase
    BY <1>1 DEF ConsWork, TypeOK
  <1>4. ConsEntered(c, t)' = ConsEntered(c, t)
    BY <1>1, <1>3 DEF ConsEntered
  <1> QED BY <1>2, <1>3, <1>4, ConsMoveInv DEF ConsWork

LEMMA ConsArriveInv ==
    ASSUME TypeOK, NEW c \in CTAs, CTAInv(c), NEW t \in Consumers,
           ConsArrive(c, t)
    PROVE  CTAInv(c)'
  <1> USE DEF CTAInv
  <1>a. cons[c][t] \in ConsType /\ cons[c][t].round \in Nat
        /\ cons[c][t].pc = "arrive"
    BY CTAType, ConsFields DEF ConsArrive
  <1>b. PICK b \in Bufs : b = cons[c][t].round % 2
    BY <1>a, TurnsFacts
  <1>c. PICK n \in Nat : n = cons[c][t].round
    BY <1>a
  <1> DEFINE r == cons[c][t]
  <1> DEFINE bar == sched_consumed_mbar[c]
  <1>d. PICK Q \in Nat : Q = bar[b].phase
    BY CTAType
  <1>1. r \in ConsType /\ r.pc = "arrive" /\ n \in Nat /\ b \in Bufs
        /\ r.round = n /\ b = n % 2 /\ bar[b].phase = Q
        /\ bar[b].pending \in 1 .. ConsumerCount
        /\ bar \in [Bufs -> MbarType(ConsumerCount)]
        /\ 1 - b \in Bufs /\ 1 - b # b
    <2>1. b = n % 2 /\ 1 - b \in Bufs /\ 1 - b # b
      BY <1>b, <1>c, TurnsStep
    <2>2. bar[b].pending \in 1 .. ConsumerCount
      BY CTAType
    <2>3. bar \in [Bufs -> MbarType(ConsumerCount)]
      BY DEF TypeOK
    <2> QED BY <1>a, <1>c, <1>d, <2>1, <2>2, <2>3
  <1>2. /\ r.sched_buf = b /\ n + 1 <= Published(c)
        /\ r.phase[0] = Turns(n + 1, 0) % 2 /\ r.phase[1] = Turns(n + 1, 1) % 2
    BY <1>1 DEF ConsRegs, ConsReg, ConsEntered
  <1>3. \A u \in Consumers : u # t => cons'[c][u] = cons[c][u]
    BY DEF ConsArrive, TypeOK
  <1>4. /\ cons'[c][t].pc \in {"work", "exit"} /\ cons'[c][t].round = n + 1
        /\ cons'[c][t].sched_buf = 1 - b /\ cons'[c][t].phase = r.phase
    BY <1>1, <1>2 DEF ConsArrive, TypeOK
  <1>5. /\ UNCHANGED <<load, sched_mbar, sWorkIdx, given>>
        /\ sched_consumed_mbar'[c] =
              [bar EXCEPT ![b] = MbarArrive(@, ConsumerCount)]
    BY <1>1, <1>2 DEF ConsArrive, TypeOK
  <1>6. ConsRegs(c)'
    <2>1. ASSUME NEW u \in Consumers, u # t PROVE ConsReg(c, u)'
      BY <1>3, <1>5, <2>1, ConsFrame DEF ConsRegs, ConsReg, ConsEntered, Turns
    <2>2. ConsEntered(c, t)' = n + 1 /\ 1 - b = (n + 1) % 2
      <3>1. 1 - b = (n + 1) % 2
        BY <1>1, TurnsFacts
      <3>2. cons'[c][t].pc \notin {"read", "arrive"} /\ n + 1 + 0 = n + 1
        BY <1>1, <1>4
      <3> QED BY <1>4, <3>1, <3>2 DEF ConsEntered
    <2>3. ConsReg(c, t)'
      BY <1>2, <1>4, <1>5, <2>2, ConsFrame DEF ConsReg, Turns
    <2> QED BY <2>1, <2>3 DEF ConsRegs
  <1>7. Window(c)'
    <2>1. \A u \in Consumers : cons'[c][u].round >= cons[c][u].round
                               /\ cons[c][u].round \in Nat
                               /\ cons'[c][u].round \in Nat
      BY <1>1, <1>3, <1>4, PublishedAhead
    <2>2. Written(c)' = Written(c) /\ Written(c) \in Nat
             /\ \A l \in Lanes : load[c][l].round \in Nat
      BY <1>5, ConsFrame, CTAType, LoadFields
    <2> QED BY <1>5, <2>1, <2>2 DEF Window
  \* No thread arrives twice in one phase: it would be two rounds ahead of
  \* a thread that has not arrived, past the window.
  <1>8. Turns(n, b) = Q /\ \A u \in Consumers : Turns(cons[c][u].round, b) \in Nat
    <2>1. Turns(n, b) - Q \in 0 .. 1
      BY <1>1 DEF ConsumedBarrier
    <2>2. PICK u \in Consumers : Turns(cons[c][u].round, b) = Q
      <3>1. Cardinality(Owing(c, b)) # 0
        BY <1>1 DEF ConsumedBarrier
      <3> QED BY <1>1, <3>1, FS_EmptySet DEF Owing
    <2>3. n <= cons[c][u].round + 1 /\ cons[c][u].round \in Nat
      BY <1>1, <1>2, PublishedAhead
    <2>4. Turns(n, b) <= Q
      BY <1>1, <2>2, <2>3, TurnsNear
    <2>5. \A v \in Consumers : Turns(cons[c][v].round, b) \in Nat
      BY <1>1, TurnsOf, PublishedAhead
    <2>6. Turns(n, b) \in Nat
      BY TurnsOf
    <2> QED BY <2>1, <2>4, <2>5, <2>6
  <1>9. /\ Turns(n + 1, b) = Turns(n, b) + 1
        /\ Turns(n + 1, 1 - b) = Turns(n, 1 - b)
    BY <1>1, TurnsStep
  <1>10. t \in Owing(c, b) /\ IsFiniteSet(Owing(c, b))
         /\ bar[b].pending = Cardinality(Owing(c, b))
    BY <1>1, <1>8, FS_Subset DEF Owing, ConsumedBarrier
  \* The other barrier.
  <1>11. /\ \A u \in Consumers :
               Turns(cons'[c][u].round, 1 - b) = Turns(cons[c][u].round, 1 - b)
         /\ sched_consumed_mbar'[c][1 - b] = bar[1 - b]
    BY <1>1, <1>3, <1>4, <1>5, <1>9
  \* The barrier on which t arrives.
  <1>12. \A u \in Consumers : u # t =>
            Turns(cons'[c][u].round, b) = Turns(cons[c][u].round, b)
    BY <1>3
  <1>13. Turns(cons'[c][t].round, b) = Q + 1
    BY <1>4, <1>8, <1>9
  <1>14. Owing(c, 1 - b)' = Owing(c, 1 - b)
    BY <1>1, <1>11 DEF Owing, Turns
  <1>15. ConsumedBarrier(c)' =
            \A x \in Bufs :
               /\ \A u \in Consumers :
                     Turns(cons'[c][u].round, x)
                        - sched_consumed_mbar'[c][x].phase \in 0 .. 1
               /\ sched_consumed_mbar'[c][x].pending = Cardinality(Owing(c, x)')
    BY DEF ConsumedBarrier, Turns, Owing
  <1>16. /\ \A u \in Consumers :
               Turns(cons'[c][u].round, 1 - b)
                  - sched_consumed_mbar'[c][1 - b].phase \in 0 .. 1
         /\ sched_consumed_mbar'[c][1 - b].pending = Cardinality(Owing(c, 1 - b)')
    BY <1>1, <1>11, <1>14 DEF ConsumedBarrier
  <1>17. /\ \A u \in Consumers :
               Turns(cons'[c][u].round, b) - sched_consumed_mbar'[c][b].phase
                  \in 0 .. 1
         /\ sched_consumed_mbar'[c][b].pending = Cardinality(Owing(c, b)')
    <2>1. Q \in Nat OBVIOUS
    <2>2. CASE bar[b].pending # 1
      <3>1. /\ sched_consumed_mbar'[c][b].pending = bar[b].pending - 1
            /\ sched_consumed_mbar'[c][b].phase = Q
        BY <1>1, <1>5, <2>2 DEF MbarArrive, MbarType
      <3>2. Owing(c, b)' = Owing(c, b) \ {t}
        BY <1>1, <1>8, <1>12, <1>13, <2>1, <3>1 DEF Owing, Turns
      <3>3. \A u \in Consumers :
               Turns(cons[c][u].round, b) - Q \in 0 .. 1
        BY <1>1 DEF ConsumedBarrier
      <3>4. sched_consumed_mbar'[c][b].pending = Cardinality(Owing(c, b)')
        BY <1>10, <3>1, <3>2, AbsentShrinks
      <3> QED BY <1>12, <1>13, <2>1, <3>1, <3>3, <3>4
    <2>3. CASE bar[b].pending = 1
      <3>1. /\ sched_consumed_mbar'[c][b].pending = ConsumerCount
            /\ sched_consumed_mbar'[c][b].phase = Q + 1
        BY <1>1, <1>5, <2>3 DEF MbarArrive, MbarType
      <3>2. Owing(c, b) = {t}
        BY <1>10, <2>3, AbsentShrinks
      <3>3. \A u \in Consumers :
               Turns(cons[c][u].round, b) - Q \in 0 .. 1
        BY <1>1 DEF ConsumedBarrier
      <3>4. \A u \in Consumers : Turns(cons'[c][u].round, b) = Q + 1
        BY <1>1, <1>8, <1>12, <1>13, <2>1, <3>2, <3>3 DEF Owing
      <3>5. Owing(c, b)' = Consumers
        BY <3>1, <3>4 DEF Owing, Turns
      <3> QED BY <2>1, <3>1, <3>4, <3>5 DEF ConsumerCount
    <2> QED BY <2>2, <2>3
  <1>18. \A x \in Bufs : x = b \/ x = 1 - b
    BY <1>1 DEF Bufs
  <1>19. ConsumedBarrier(c)'
    BY <1>15, <1>16, <1>17, <1>18
  <1> QED BY <1>5, <1>6, <1>7, <1>19, ConsFrame

-----------------------------------------------------------------------------
\* A step of the threads of one CTA.
CTAStep(c) ==
    \/ WarpStep(c)
    \/ \E l \in Lanes : LaneStep(c, l)
    \/ \E t \in Consumers : ConsStep(c, t)

LEMMA CTAStepFrame ==
    ASSUME TypeOK, NEW c \in CTAs, CTAStep(c), NEW d \in CTAs, d # c
    PROVE  /\ sched_mbar'[d] = sched_mbar[d]
           /\ sched_consumed_mbar'[d] = sched_consumed_mbar[d]
           /\ load'[d] = load[d] /\ cons'[d] = cons[d]
           /\ given'[d] = given[d] /\ sWorkIdx'[d] = sWorkIdx[d]
  <1> USE DEF TypeOK
  <1>1. CASE WarpStep(c)
    BY <1>1 DEF WarpStep, Elect, FetchAndWrite, SyncWarp
  <1>2. ASSUME NEW l \in Lanes, LaneStep(c, l)
        PROVE  /\ sched_mbar'[d] = sched_mbar[d]
               /\ sched_consumed_mbar'[d] = sched_consumed_mbar[d]
               /\ load'[d] = load[d] /\ cons'[d] = cons[d]
               /\ given'[d] = given[d] /\ sWorkIdx'[d] = sWorkIdx[d]
    BY <1>2 DEF LaneStep, LoadWait, LoadArrive, LoadRead, LoadWork
  <1>3. ASSUME NEW t \in Consumers, ConsStep(c, t)
        PROVE  /\ sched_mbar'[d] = sched_mbar[d]
               /\ sched_consumed_mbar'[d] = sched_consumed_mbar[d]
               /\ load'[d] = load[d] /\ cons'[d] = cons[d]
               /\ given'[d] = given[d] /\ sWorkIdx'[d] = sWorkIdx[d]
    BY <1>3 DEF ConsStep, ConsWait, ConsRead, ConsArrive, ConsWork
  <1> QED BY <1>1, <1>2, <1>3 DEF CTAStep

LEMMA CTAStepInv ==
    ASSUME TypeOK, NEW c \in CTAs, CTAInv(c), CTAStep(c)
    PROVE  CTAInv(c)'
  <1>1. CASE WarpStep(c)
    BY <1>1, ElectInv, FetchAndWriteInv, SyncWarpInv DEF WarpStep
  <1>2. ASSUME NEW l \in Lanes, LaneStep(c, l) PROVE CTAInv(c)'
    BY <1>2, LoadWaitInv, LoadArriveInv, LoadReadInv, LoadWorkInv DEF LaneStep
  <1>3. ASSUME NEW t \in Consumers, ConsStep(c, t) PROVE CTAInv(c)'
    BY <1>3, ConsWaitInv, ConsReadInv, ConsArriveInv, ConsWorkInv DEF ConsStep
  <1> QED BY <1>1, <1>2, <1>3 DEF CTAStep

LEMMA NextInv == IInv /\ [Next]_vars => IInv'
  <1> SUFFICES ASSUME IInv, [Next]_vars PROVE IInv' OBVIOUS
  <1>1. TypeOK /\ TypeOK'
    BY NextType DEF IInv
  <1>2. ASSUME NEW c \in CTAs, CTAStep(c), NEW d \in CTAs PROVE CTAInv(d)'
    <2>1. CASE d = c
      BY <1>1, <1>2, <2>1, CTAStepInv DEF IInv
    <2>2. CASE d # c
      <3>1. CTAInv(d)
        BY DEF IInv
      <3> QED BY <1>1, <1>2, <2>2, <3>1, CTAStepFrame, OtherCTA
    <2> QED BY <2>1, <2>2
  <1>3. ASSUME UNCHANGED vars, NEW d \in CTAs PROVE CTAInv(d)'
    <2>1. CTAInv(d)
      BY DEF IInv
    <2> QED BY <1>3, <2>1, OtherCTA DEF vars
  <1> QED
    BY <1>1, <1>2, <1>3 DEF Next, CTAStep, KernelEnd, IInv

\* The strengthened invariant holds in every reachable state.
THEOREM Invariance == Spec => []IInv
  BY InitInv, NextInv, PTL DEF Spec

-----------------------------------------------------------------------------
\* What the invariant says of a slot about to be read.
LEMMA OwnRound == IInv => ReadsOwnRound
  <1> SUFFICES ASSUME IInv, NEW c \in CTAs
               PROVE  /\ \A l \in Lanes : load[c][l].pc = "read" =>
                           /\ load[c][l].round < Len(given[c])
                           /\ sWorkIdx[c][load[c][l].sched_buf] =
                                 given[c][load[c][l].round + 1]
                      /\ \A t \in Consumers : cons[c][t].pc = "read" =>
                           /\ cons[c][t].round < Len(given[c])
                           /\ sWorkIdx[c][cons[c][t].sched_buf] =
                                 given[c][cons[c][t].round + 1]
    BY DEF ReadsOwnRound
  <1> USE DEF IInv, CTAInv
  <1>1. \A n \in Nat : n < Written(c) /\ Written(c) <= n + 2 =>
           sWorkIdx[c][n % 2] = given[c][n + 1]
    <2> TAKE n \in Nat
    <2> HAVE n < Written(c) /\ Written(c) <= n + 2
    <2>1. n + 1 \in 1 .. Written(c) /\ (n + 1) + 1 >= Written(c)
      BY CTAType
    <2>2. ((n + 1) + 1) % 2 = n % 2
      OBVIOUS
    <2> QED BY <2>1, <2>2 DEF Slots
  <1>2. ASSUME NEW l \in Lanes, load[c][l].pc = "read"
        PROVE  /\ load[c][l].round < Len(given[c])
               /\ sWorkIdx[c][load[c][l].sched_buf] =
                     given[c][load[c][l].round + 1]
    <2>1. load[c][l].round \in Nat /\ Written(c) = load[c][l].round + 1
      BY <1>2, CTAType, LoadFields DEF LaneRounds
    <2>2. load[c][l].sched_buf = load[c][l].round % 2
      BY DEF LaneRegs, LaneReg
    <2> QED BY <1>1, <2>1, <2>2 DEF Written
  <1>3. ASSUME NEW t \in Consumers, cons[c][t].pc = "read"
        PROVE  /\ cons[c][t].round < Len(given[c])
               /\ sWorkIdx[c][cons[c][t].sched_buf] =
                     given[c][cons[c][t].round + 1]
    <2>1. cons[c][t].sched_buf = cons[c][t].round % 2
      BY DEF ConsRegs, ConsReg
    <2>2. cons[c][t].round + 1 <= Published(c)
      BY <1>3 DEF ConsRegs, ConsReg, ConsEntered
    <2>3. /\ cons[c][t].round \in Nat
          /\ cons[c][t].round < Written(c)
          /\ Written(c) <= cons[c][t].round + 2
      BY <2>2, PublishedAhead
    <2> QED BY <1>1, <2>1, <2>3 DEF Written
  <1> QED BY <1>2, <1>3

\* What a lane or a consumer thread reads from a slot is the work number of
\* its own round (ReadsOwnRound), in every CTA of any size.
THEOREM ReadsOwnRoundAlways == Spec => []ReadsOwnRound
  BY OwnRound, Invariance, PTL

\* No scheduling barrier laps a thread that waits on it (NeverLapped).
THEOREM NeverLappedAlways == Spec => []NeverLapped
  <1>1. IInv => NeverLapped
    <2> SUFFICES ASSUME IInv, NEW c \in CTAs
                 PROVE  /\ \A t \in Consumers : cons[c][t].pc = "wait" =>
                             LET b == cons[c][t].sched_buf IN
                             sched_mbar[c][b].phase
                                - Turns(cons[c][t].round, b) \in 0 .. 1
                        /\ \A l \in Lanes :
                             load[c][l].pc = "wait" /\ ~load[c][l].first_wu =>
                             LET b == load[c][l].sched_buf IN
                             sched_consumed_mbar[c][b].phase
                                - (Turns(load[c][l].round, b) - 1) \in 0 .. 1
      BY DEF NeverLapped
    <2> USE DEF IInv, CTAInv
    <2>1. ASSUME NEW t \in Consumers, NEW b \in Bufs, cons[c][t].sched_buf = b
          PROVE  sched_mbar[c][b].phase - Turns(cons[c][t].round, b) \in 0 .. 1
      <3> DEFINE n == cons[c][t].round
      <3> DEFINE P == Published(c)
      <3>1. n \in Nat /\ P \in Nat /\ n <= P /\ P <= n + 2
        BY PublishedAhead
      <3>2. sched_mbar[c][b].phase = Turns(P, b)
        BY PublishedAhead DEF Bufs
      <3> HIDE DEF n, P
      <3>3. Turns(P, b) - Turns(n, b) \in 0 .. 1
        BY <3>1 DEF Turns, Bufs
      <3> QED BY <3>2, <3>3 DEF n, Turns
    <2>2. ASSUME NEW l \in Lanes, load[c][l].pc = "wait", ~load[c][l].first_wu,
                 NEW b \in Bufs, load[c][l].sched_buf = b
          PROVE  sched_consumed_mbar[c][b].phase
                    - (Turns(load[c][l].round, b) - 1) \in 0 .. 1
      <3> DEFINE R == load[c][l].round
      <3> DEFINE Q == sched_consumed_mbar[c][b].phase
      <3>1. R \in Nat /\ Q \in Nat /\ R = Written(c) /\ R = Published(c)
            /\ b = R % 2
        BY <2>2, CTAType, LoadFields DEF LaneRounds, LaneRegs, LaneReg
      <3>2. PICK t \in Consumers : Turns(cons[c][t].round, b) = Q
        <4>1. Cardinality(Owing(c, b)) # 0
          BY CTAType DEF ConsumedBarrier
        <4> QED BY <4>1, FS_EmptySet DEF Owing
      <3> DEFINE n == cons[c][t].round
      <3>3. n \in Nat /\ n <= R /\ R <= n + 2
        BY <3>1, PublishedAhead
      <3>4. Turns(n, b) = Q
        BY <3>2
      <3> HIDE DEF R, Q, n
      <3>5. Turns(n, b) - (Turns(R, b) - 1) \in 0 .. 1
        BY <3>1, <3>3 DEF Turns, Bufs
      <3> QED BY <3>4, <3>5 DEF R, Q, Turns
    <2>3. /\ \A t \in Consumers : cons[c][t].sched_buf \in Bufs
          /\ \A l \in Lanes : load[c][l].sched_buf \in Bufs
      BY CTAType, ConsFields, LoadFields
    <2> QED BY <2>1, <2>2, <2>3
  <1> QED BY <1>1, Invariance, PTL

\* The Load warp overwrites a slot only after every consumer thread has
\* acknowledged the number it held (OverwriteAfterRead).
THEOREM OverwritesAfterRead == Spec => OverwriteAfterRead
  <1> DEFINE A == \A c \in CTAs : given'[c] # given[c] =>
                    \A t \in Consumers :
                       cons[c][t].round >= Len(given[c]) - 1
  <1>1. IInv /\ [Next]_vars => [A]_vars
    <2> SUFFICES ASSUME IInv, Next, NEW c \in CTAs, given'[c] # given[c],
                        NEW t \in Consumers
                 PROVE  cons[c][t].round >= Len(given[c]) - 1
      OBVIOUS
    <2>1. FetchAndWrite(c)
      <3>1. PICK d \in CTAs : FetchAndWrite(d)
        BY DEF Next, WarpStep, LaneStep, ConsStep, KernelEnd, Elect, SyncWarp,
               LoadWait, LoadArrive, LoadRead, LoadWork, ConsWait, ConsRead,
               ConsArrive, ConsWork, vars
      <3>2. d = c
        BY <3>1 DEF FetchAndWrite, IInv, TypeOK
      <3> QED BY <3>1, <3>2
    <2>2. load[c][Leader].pc = "write"
      BY <2>1 DEF FetchAndWrite
    <2>3. load[c][Leader].round <= cons[c][t].round + 1
      BY <2>2 DEF IInv, CTAInv, Window
    <2>4. load[c][Leader].round = Written(c)
      BY <2>2 DEF IInv, CTAInv, LaneRounds
    <2>5. Written(c) \in Nat /\ cons[c][t].round \in Nat
      BY CTAType, ConsFields DEF IInv
    <2> QED BY <2>3, <2>4, <2>5 DEF Written
  <1> QED BY <1>1, Invariance, PTL DEF Spec, OverwriteAfterRead

-----------------------------------------------------------------------------
(***************************************************************************)
(* Which numbers a CTA was given, and what its threads made of them.  The  *)
(* invariant above says where a thread finds the number of its round; this *)
(* one follows the numbers into the registers and the histories.  It is    *)
(* inductive relative to IInv: a thread reads what ReadsOwnRound says.     *)
(***************************************************************************)

\* Units a thread with registers r finished: every round it has read but
\* the one it is about to work on or the one that told it to leave.
Finished(r) == IF r.pc \in {"work", "exit"} THEN r.round - 1 ELSE r.round

\* What registers r and history h of a thread say of the numbers g its CTA
\* was given: it handled, in order, the units it finished.
Follows(g, h, r) ==
    /\ Len(h) = Finished(r)
    /\ Len(h) <= Len(g)
    /\ \A i \in 1 .. Len(h) : h[i] = g[i] /\ g[i] < TotalWork
    /\ r.pc \in {"work", "exit"} => r.round \in 1 .. Len(g)
    /\ r.pc = "work" => r.work_idx = g[r.round] /\ r.work_idx < TotalWork
    /\ r.pc = "exit" => g[r.round] >= TotalWork

LaneHandling(c) ==
    \A l \in Lanes : Follows(given[c], handled[c][l], load[c][l])

ConsHandling(c) ==
    \A t \in Consumers :
        /\ Follows(given[c], handled[c][t], cons[c][t])
        /\ cons[c][t].pc = "arrive" =>
              /\ cons[c][t].round < Len(given[c])
              /\ cons[c][t].work_idx = given[c][cons[c][t].round + 1]

Handling(c) == LaneHandling(c) /\ ConsHandling(c)

HInv == IInv /\ \A c \in CTAs : Handling(c)

(***************************************************************************)
(* The four ways a thread's registers move against the numbers given.      *)
(***************************************************************************)

\* A step within a round.
LEMMA FollowsOn ==
    ASSUME NEW g, NEW h, NEW r, NEW s, Follows(g, h, r),
           r.pc \notin {"work", "exit"}, s.pc \notin {"work", "exit"},
           s.round = r.round
    PROVE  Follows(g, h, s)
  BY DEF Follows, Finished

\* A round ends: the number read decides between work and exit.
LEMMA FollowsRead ==
    ASSUME NEW g \in Seq(Int), NEW h \in Seq(Int), NEW r, NEW s,
           r.round \in Nat, Follows(g, h, r), r.pc \notin {"work", "exit"},
           r.round < Len(g), s.round = r.round + 1,
           s.work_idx = g[r.round + 1],
           s.pc = IF g[r.round + 1] < TotalWork THEN "work" ELSE "exit"
    PROVE  Follows(g, h, s)
  <1>1. r.round + 1 \in 1 .. Len(g) /\ Len(h) = r.round
    BY DEF Follows, Finished
  <1>2. g[r.round + 1] \in Int
    BY <1>1
  <1>3. Finished(s) = r.round /\ s.pc \in {"work", "exit"}
    BY DEF Finished
  <1>4. s.pc = "work" => g[s.round] < TotalWork
    OBVIOUS
  <1>5. s.pc = "exit" => g[s.round] >= TotalWork
    BY <1>2
  <1> QED BY <1>1, <1>3, <1>4, <1>5 DEF Follows

\* The unit is worked on.
LEMMA FollowsWork ==
    ASSUME NEW g \in Seq(Int), NEW h \in Seq(Int), NEW r, NEW s,
           r.round \in Nat, Follows(g, h, r), r.pc = "work",
           s.pc \notin {"work", "exit"}, s.round = r.round
    PROVE  Follows(g, Append(h, r.work_idx), s)
  <1> DEFINE k == Append(h, r.work_idx)
  <1>1. Len(h) = r.round - 1 /\ r.round \in 1 .. Len(g)
    BY DEF Follows, Finished
  <1>2. Len(k) = r.round /\ Len(h) \in Nat
    BY <1>1
  <1>3. r.work_idx = g[r.round] /\ g[r.round] < TotalWork
    BY DEF Follows
  <1>4. \A i \in 1 .. Len(h) : k[i] = h[i]
    OBVIOUS
  <1>5. k[r.round] = r.work_idx
    BY <1>1
  <1>6. ASSUME NEW i \in 1 .. Len(k) PROVE k[i] = g[i] /\ g[i] < TotalWork
    <2>1. CASE i = r.round
      BY <1>3, <1>5, <2>1
    <2>2. CASE i # r.round
      <3>1. i \in 1 .. Len(h)
        BY <1>1, <1>2, <2>2
      <3> QED BY <1>4, <3>1 DEF Follows
    <2> QED BY <2>1, <2>2
  <1> HIDE DEF k
  <1>7. Finished(s) = r.round
    BY DEF Finished
  <1> QED BY <1>1, <1>2, <1>6, <1>7 DEF Follows, k

\* The CTA is given one more number.
LEMMA FollowsGrowth ==
    ASSUME NEW g \in Seq(Int), NEW h \in Seq(Int), NEW r, NEW n \in Int,
           Follows(g, h, r)
    PROVE  Follows(Append(g, n), h, r)
  <1> DEFINE k == Append(g, n)
  <1>1. Len(k) = Len(g) + 1 /\ Len(g) \in Nat /\ Len(h) \in Nat
    OBVIOUS
  <1>2. \A i \in 1 .. Len(g) : k[i] = g[i]
    OBVIOUS
  <1> HIDE DEF k
  <1>3. \A i \in 1 .. Len(h) : i \in 1 .. Len(g)
    BY <1>1 DEF Follows
  <1>4. \A i \in 1 .. Len(h) : h[i] = k[i] /\ k[i] < TotalWork
    BY <1>2, <1>3 DEF Follows
  <1>5. r.pc \in {"work", "exit"} => r.round \in 1 .. Len(g)
    BY DEF Follows
  <1>6. r.pc \in {"work", "exit"} => k[r.round] = g[r.round]
    BY <1>2, <1>5
  <1> QED BY <1>1, <1>4, <1>5, <1>6 DEF Follows, k

(***************************************************************************)
(* What the steps leave, and what they do to the thread that takes them.   *)
(***************************************************************************)
\* A step of one CTA leaves the others' histories.
LEMMA HistoryFrame ==
    ASSUME TypeOK, NEW c \in CTAs, CTAStep(c), NEW d \in CTAs, d # c
    PROVE  handled'[d] = handled[d]
  BY DEF TypeOK, CTAStep, WarpStep, Elect, FetchAndWrite, SyncWarp,
         LaneStep, LoadWait, LoadArrive, LoadRead, LoadWork,
         ConsStep, ConsWait, ConsRead, ConsArrive, ConsWork

LEMMA LaneStepEffect ==
    ASSUME TypeOK, NEW c \in CTAs, NEW l \in Lanes, LaneStep(c, l)
    PROVE  /\ UNCHANGED <<cons, given, workspace_iter>>
           /\ \A m \in Lanes : m # l => load'[c][m] = load[c][m]
           /\ \A t \in Threads : t # l => handled'[c][t] = handled[c][t]
  BY DEF TypeOK, LaneStep, LoadWait, LoadArrive, LoadRead, LoadWork

LEMMA ConsStepEffect ==
    ASSUME TypeOK, NEW c \in CTAs, NEW t \in Consumers, ConsStep(c, t)
    PROVE  /\ UNCHANGED <<load, given, workspace_iter>>
           /\ \A u \in Consumers : u # t => cons'[c][u] = cons[c][u]
           /\ \A u \in Threads : u # t => handled'[c][u] = handled[c][u]
  BY DEF TypeOK, ConsStep, ConsWait, ConsRead, ConsArrive, ConsWork

\* The types of one thread's histories and registers.
LEMMA HistoryType ==
    ASSUME TypeOK, NEW c \in CTAs
    PROVE  /\ given[c] \in Seq(Int) /\ Len(given[c]) \in Nat
           /\ \A t \in Threads :
                 handled[c][t] \in Seq(Int) /\ Len(handled[c][t]) \in Nat
           /\ \A l \in Lanes : load[c][l].round \in Nat /\ l \in Threads
           /\ \A t \in Consumers : cons[c][t].round \in Nat /\ t \in Threads
  BY CTAType, LoadFields, ConsFields DEF TypeOK, Threads

\* A lane and a consumer thread are different threads.
LEMMA Disjoint == \A l \in Lanes, t \in Consumers : l # t
  OBVIOUS

(***************************************************************************)
(* The histories, step by step.                                            *)
(***************************************************************************)

\* A step of a lane that takes it on within its round.
LEMMA LaneMoves ==
    ASSUME IInv, NEW c \in CTAs, Handling(c), NEW l \in Lanes,
           LoadWait(c, l) \/ LoadArrive(c, l)
    PROVE  Follows(given'[c], handled'[c][l], load'[c][l])
  <1>1. load[c][l] \in LoadType /\ TypeOK
    BY CTAType DEF IInv
  <1>2. /\ load[c][l].pc \in {"wait", "arrive"}
        /\ load'[c][l].pc \in {"elect", "sync"}
        /\ load'[c][l].round = load[c][l].round
    <2>1. CASE LoadWait(c, l)
      <3> DEFINE ph == [load[c][l].phase EXCEPT ![load[c][l].sched_buf] =
                          IF load[c][l].first_wu THEN @ ELSE 1 - @]
                 new == [load[c][l] EXCEPT !.pc = "elect", !.first_wu = FALSE,
                                           !.phase = ph]
      <3>1. load'[c][l] = new /\ load[c][l].pc = "wait"
        BY <1>1, <2>1 DEF LoadWait, TypeOK
      <3>2. new.pc = "elect" /\ new.round = load[c][l].round
        BY <1>1 DEF LoadType
      <3> HIDE DEF new
      <3> QED BY <3>1, <3>2
    <2>2. CASE LoadArrive(c, l)
      BY <1>1, <2>2 DEF LoadArrive, TypeOK, LoadType
    <2> QED BY <2>1, <2>2
  <1>3. given' = given /\ handled' = handled
    BY DEF LoadWait, LoadArrive
  <1>4. Follows(given[c], handled[c][l], load[c][l])
    BY DEF Handling, LaneHandling
  <1>5. Follows(given[c], handled[c][l], load'[c][l])
    BY <1>2, <1>4, FollowsOn
  <1> QED BY <1>3, <1>5

LEMMA LaneReads ==
    ASSUME IInv, NEW c \in CTAs, Handling(c), NEW l \in Lanes, LoadRead(c, l)
    PROVE  Follows(given'[c], handled'[c][l], load'[c][l])
  <1> DEFINE r == load[c][l]
             s == load'[c][l]
             g == given[c]
             h == handled[c][l]
  <1>1. r \in LoadType /\ r.round \in Nat /\ TypeOK
    BY CTAType, LoadFields DEF IInv
  <1>2. g \in Seq(Int) /\ h \in Seq(Int)
    BY <1>1, HistoryType
  <1>3. r.pc = "read" /\ given' = given /\ handled' = handled
    BY DEF LoadRead
  <1>4. r.round < Len(g) /\ sWorkIdx[c][r.sched_buf] = g[r.round + 1]
    BY <1>3, OwnRound DEF ReadsOwnRound
  <1>5. /\ s.round = r.round + 1
        /\ s.work_idx = sWorkIdx[c][r.sched_buf]
        /\ s.pc = IF sWorkIdx[c][r.sched_buf] < TotalWork
                  THEN "work" ELSE "exit"
    BY <1>1 DEF LoadRead, TypeOK, LoadType
  <1>6. Follows(g, h, r)
    BY DEF Handling, LaneHandling
  <1> HIDE DEF r, s, g, h
  <1>7. Follows(g, h, s)
    BY <1>1, <1>2, <1>3, <1>4, <1>5, <1>6, FollowsRead
  <1> QED BY <1>3, <1>7 DEF g, h, s

LEMMA LaneWorks ==
    ASSUME IInv, NEW c \in CTAs, Handling(c), NEW l \in Lanes, LoadWork(c, l)
    PROVE  Follows(given'[c], handled'[c][l], load'[c][l])
  <1> DEFINE r == load[c][l]
             s == load'[c][l]
             g == given[c]
             h == handled[c][l]
  <1>1. r \in LoadType /\ r.round \in Nat /\ TypeOK /\ l \in Threads
    BY CTAType, LoadFields DEF IInv, Threads
  <1>2. g \in Seq(Int) /\ h \in Seq(Int)
    BY <1>1, HistoryType
  <1>3. r.pc = "work" /\ s.pc = "wait" /\ s.round = r.round
    BY <1>1 DEF LoadWork, TypeOK, LoadType
  <1>4. given' = given /\ handled'[c][l] = Append(h, r.work_idx)
    BY <1>1 DEF LoadWork, TypeOK
  <1>5. Follows(g, h, r)
    BY DEF Handling, LaneHandling
  <1> HIDE DEF r, s, g, h
  <1>6. Follows(g, Append(h, r.work_idx), s)
    BY <1>1, <1>2, <1>3, <1>5, FollowsWork
  <1> QED BY <1>4, <1>6 DEF g, s

LEMMA LaneStepHandling ==
    ASSUME IInv, NEW c \in CTAs, Handling(c), NEW l \in Lanes, LaneStep(c, l)
    PROVE  Handling(c)'
  <1>1. TypeOK
    BY DEF IInv
  <1>2. Follows(given'[c], handled'[c][l], load'[c][l])
    BY LaneMoves, LaneReads, LaneWorks DEF LaneStep
  <1>3. ASSUME NEW m \in Lanes, m # l
        PROVE  Follows(given'[c], handled'[c][m], load'[c][m])
    BY <1>1, <1>3, LaneStepEffect DEF Handling, LaneHandling, Threads
  <1>4. LaneHandling(c)'
    BY <1>2, <1>3 DEF LaneHandling
  <1>5. cons' = cons /\ given' = given
        /\ \A t \in Consumers : handled'[c][t] = handled[c][t]
    BY <1>1, LaneStepEffect, Disjoint DEF Threads
  <1>6. ConsHandling(c)'
    BY <1>5 DEF Handling, ConsHandling
  <1> QED BY <1>4, <1>6 DEF Handling

\* Gathering the lanes takes each of them on within its round.
LEMMA GatherHandling ==
    ASSUME IInv, NEW c \in CTAs, Handling(c), Elect(c) \/ SyncWarp(c)
    PROVE  Handling(c)'
  <1>1. UNCHANGED <<cons, given, handled>>
    BY DEF Elect, SyncWarp
  <1>2. ASSUME NEW l \in Lanes
        PROVE  Follows(given'[c], handled'[c][l], load'[c][l])
    <2>1. load[c][l] \in LoadType /\ TypeOK
      BY CTAType DEF IInv
    <2>2. /\ load[c][l].pc \in {"elect", "sync"}
          /\ load'[c][l].pc \in {"write", "arrive", "read"}
          /\ load'[c][l].round = load[c][l].round
      <3>1. CASE Elect(c)
        BY <2>1, <3>1 DEF Elect, AllLanesAt, TypeOK, LoadType
      <3>2. CASE SyncWarp(c)
        BY <2>1, <3>2 DEF SyncWarp, AllLanesAt, TypeOK, LoadType
      <3> QED BY <3>1, <3>2
    <2>3. Follows(given[c], handled[c][l], load[c][l])
      BY DEF Handling, LaneHandling
    <2>4. Follows(given[c], handled[c][l], load'[c][l])
      BY <2>2, <2>3, FollowsOn
    <2> QED BY <1>1, <2>4
  <1>3. LaneHandling(c)'
    BY <1>2 DEF LaneHandling
  <1>4. ConsHandling(c)'
    BY <1>1 DEF Handling, ConsHandling
  <1> QED BY <1>3, <1>4 DEF Handling

\* The number taken is appended to what the CTA was given: no thread's
\* history reaches that far.
LEMMA FetchHandling ==
    ASSUME IInv, NEW c \in CTAs, Handling(c), FetchAndWrite(c)
    PROVE  Handling(c)'
  <1>1. TypeOK /\ given[c] \in Seq(Int) /\ workspace_iter \in Int
    BY HistoryType DEF IInv, TypeOK
  <1>2. /\ given'[c] = Append(given[c], workspace_iter)
        /\ cons' = cons /\ handled' = handled
    BY <1>1 DEF FetchAndWrite, TypeOK
  <1>3. ASSUME NEW l \in Lanes
        PROVE  Follows(given[c], handled[c][l], load'[c][l])
    <2>1. Follows(given[c], handled[c][l], load[c][l])
      BY DEF Handling, LaneHandling
    <2>2. CASE l = Leader
      <3>1. load[c][l] \in LoadType
        BY <1>1, CTAType
      <3>2. /\ load[c][l].pc = "write" /\ load'[c][l].pc = "arrive"
            /\ load'[c][l].round = load[c][l].round
        BY <1>1, <2>2, <3>1 DEF FetchAndWrite, TypeOK, LoadType
      <3> QED BY <2>1, <3>2, FollowsOn
    <2>3. CASE l # Leader
      <3>1. load'[c][l] = load[c][l]
        BY <1>1, <2>3 DEF FetchAndWrite, TypeOK
      <3> QED BY <2>1, <3>1
    <2> QED BY <2>2, <2>3
  <1>4. ASSUME NEW l \in Lanes
        PROVE  Follows(given'[c], handled'[c][l], load'[c][l])
    BY <1>1, <1>2, <1>3, FollowsGrowth, HistoryType
  <1>5. ASSUME NEW t \in Consumers
        PROVE  Follows(given'[c], handled'[c][t], cons'[c][t])
    <2>1. Follows(given[c], handled[c][t], cons[c][t])
      BY DEF Handling, ConsHandling
    <2> QED BY <1>1, <1>2, <2>1, FollowsGrowth, HistoryType
  <1>6. ASSUME NEW t \in Consumers, cons'[c][t].pc = "arrive"
        PROVE  /\ cons'[c][t].round < Len(given'[c])
               /\ cons'[c][t].work_idx = given'[c][cons'[c][t].round + 1]
    <2>1. /\ cons[c][t].round < Len(given[c]) /\ cons[c][t].round \in Nat
          /\ cons[c][t].work_idx = given[c][cons[c][t].round + 1]
      BY <1>1, <1>2, <1>6, HistoryType DEF Handling, ConsHandling
    <2>2. cons[c][t].round + 1 \in 1 .. Len(given[c])
      BY <1>1, <2>1, HistoryType
    <2> QED BY <1>1, <1>2, <2>1, <2>2
  <1>7. LaneHandling(c)'
    BY <1>4 DEF LaneHandling
  <1>8. ConsHandling(c)'
    BY <1>5, <1>6 DEF ConsHandling
  <1> QED BY <1>7, <1>8 DEF Handling

\* What one consumer's step must show of the consumer itself.
Hands(c, t) ==
    /\ Follows(given[c], handled[c][t], cons[c][t])
    /\ cons[c][t].pc = "arrive" =>
          /\ cons[c][t].round < Len(given[c])
          /\ cons[c][t].work_idx = given[c][cons[c][t].round + 1]

LEMMA ConsHands ==
    ASSUME IInv, NEW c \in CTAs, Handling(c), NEW t \in Consumers,
           ConsStep(c, t)
    PROVE  Hands(c, t)'
  <1> DEFINE r == cons[c][t]
             s == cons'[c][t]
             g == given[c]
             h == handled[c][t]
  <1>1. r \in ConsType /\ r.round \in Nat /\ TypeOK /\ t \in Threads
    BY CTAType, ConsFields DEF IInv, Threads
  <1>2. g \in Seq(Int) /\ h \in Seq(Int)
    BY <1>1, HistoryType
  <1>3. Follows(g, h, r)
    BY DEF Handling, ConsHandling
  <1>4. CASE ConsWait(c, t)
    <2>1. r.pc = "wait" /\ s.pc = "read" /\ s.round = r.round
      BY <1>1, <1>4 DEF ConsWait, TypeOK, ConsType
    <2>2. given' = given /\ handled' = handled
      BY <1>4 DEF ConsWait
    <2> HIDE DEF r, s, g, h
    <2>3. Follows(g, h, s)
      BY <1>3, <2>1, FollowsOn
    <2> QED BY <2>1, <2>2, <2>3 DEF Hands, g, h, s
  <1>5. CASE ConsRead(c, t)
    <2>1. /\ r.pc = "read" /\ s.pc = "arrive" /\ s.round = r.round
          /\ s.work_idx = sWorkIdx[c][r.sched_buf]
      BY <1>1, <1>5 DEF ConsRead, TypeOK, ConsType
    <2>2. given' = given /\ handled' = handled
      BY <1>5 DEF ConsRead
    <2>3. r.round < Len(g) /\ sWorkIdx[c][r.sched_buf] = g[r.round + 1]
      BY <2>1, OwnRound DEF ReadsOwnRound
    <2> HIDE DEF r, s, g, h
    <2>4. Follows(g, h, s)
      BY <1>3, <2>1, FollowsOn
    <2> QED BY <2>1, <2>2, <2>3, <2>4 DEF Hands, g, h, s
  <1>6. CASE ConsArrive(c, t)
    <2>1. /\ r.pc = "arrive" /\ s.round = r.round + 1
          /\ s.work_idx = r.work_idx
          /\ s.pc = IF r.work_idx < TotalWork THEN "work" ELSE "exit"
      BY <1>1, <1>6 DEF ConsArrive, TypeOK, ConsType
    <2>2. given' = given /\ handled' = handled
      BY <1>6 DEF ConsArrive
    <2>3. r.round < Len(g) /\ r.work_idx = g[r.round + 1]
      BY <2>1 DEF Handling, ConsHandling
    <2> HIDE DEF r, s, g, h
    <2>4. Follows(g, h, s)
      BY <1>1, <1>2, <1>3, <2>1, <2>3, FollowsRead
    <2>5. s.pc # "arrive"
      BY <2>1
    <2> QED BY <2>2, <2>4, <2>5 DEF Hands, g, h, s
  <1>7. CASE ConsWork(c, t)
    <2>1. r.pc = "work" /\ s.pc = "wait" /\ s.round = r.round
      BY <1>1, <1>7 DEF ConsWork, TypeOK, ConsType
    <2>2. given' = given /\ handled'[c][t] = Append(h, r.work_idx)
      BY <1>1, <1>7 DEF ConsWork, TypeOK
    <2> HIDE DEF r, s, g, h
    <2>3. Follows(g, Append(h, r.work_idx), s)
      BY <1>1, <1>2, <1>3, <2>1, FollowsWork
    <2> QED BY <2>1, <2>2, <2>3 DEF Hands, g, s
  <1> QED BY <1>4, <1>5, <1>6, <1>7 DEF ConsStep

LEMMA ConsStepHandling ==
    ASSUME IInv, NEW c \in CTAs, Handling(c), NEW t \in Consumers,
           ConsStep(c, t)
    PROVE  Handling(c)'
  <1>1. TypeOK
    BY DEF IInv
  <1>2. Hands(c, t)'
    BY ConsHands
  <1>3. ASSUME NEW u \in Consumers, u # t PROVE Hands(c, u)'
    BY <1>1, <1>3, ConsStepEffect DEF Handling, ConsHandling, Hands, Threads
  <1>4. ConsHandling(c)'
    BY <1>2, <1>3 DEF ConsHandling, Hands
  <1>5. load' = load /\ given' = given
        /\ \A l \in Lanes : handled'[c][l] = handled[c][l]
    BY <1>1, ConsStepEffect, Disjoint DEF Threads
  <1>6. LaneHandling(c)'
    BY <1>5 DEF Handling, LaneHandling
  <1> QED BY <1>4, <1>6 DEF Handling

LEMMA InitHInv == Init => HInv
  <1> SUFFICES ASSUME Init PROVE HInv
    OBVIOUS
  <1>1. /\ \A c \in CTAs : given[c] = <<>>
        /\ \A c \in CTAs : \A t \in Threads : handled[c][t] = <<>>
    BY DEF Init
  <1>2. ASSUME NEW c \in CTAs PROVE Handling(c)
    <2>1. \A l \in Lanes : load[c][l].pc = "elect" /\ load[c][l].round = 0
      BY DEF Init, LoadInit
    <2>2. \A t \in Consumers : cons[c][t].pc = "wait" /\ cons[c][t].round = 0
      BY DEF Init, ConsInit
    <2>3. Len(given[c]) = 0 /\ \A t \in Threads : Len(handled[c][t]) = 0
      BY <1>1
    <2>4. \A l \in Lanes : Follows(given[c], handled[c][l], load[c][l])
      BY <2>1, <2>3 DEF Follows, Finished, Threads
    <2>5. \A t \in Consumers : Follows(given[c], handled[c][t], cons[c][t])
      BY <2>2, <2>3 DEF Follows, Finished, Threads
    <2> QED BY <2>2, <2>4, <2>5 DEF Handling, LaneHandling, ConsHandling
  <1> QED BY <1>2, InitInv DEF HInv

LEMMA NextHInv == HInv /\ [Next]_vars => HInv'
  <1> SUFFICES ASSUME HInv, [Next]_vars PROVE HInv'
    OBVIOUS
  <1>1. IInv /\ TypeOK /\ IInv'
    BY NextInv DEF HInv, IInv
  <1>2. ASSUME NEW c \in CTAs, CTAStep(c), NEW d \in CTAs PROVE Handling(d)'
    <2>0. Handling(c) /\ Handling(d)
      BY DEF HInv
    <2>1. CASE d = c
      <3>1. CASE WarpStep(c)
        BY <1>1, <2>0, <2>1, <3>1, GatherHandling, FetchHandling DEF WarpStep
      <3>2. ASSUME NEW l \in Lanes, LaneStep(c, l) PROVE Handling(c)'
        BY <1>1, <2>0, <3>2, LaneStepHandling
      <3>3. ASSUME NEW t \in Consumers, ConsStep(c, t) PROVE Handling(c)'
        BY <1>1, <2>0, <3>3, ConsStepHandling
      <3> QED BY <1>2, <2>1, <3>1, <3>2, <3>3 DEF CTAStep
    <2>2. CASE d # c
      <3>1. /\ given'[d] = given[d] /\ handled'[d] = handled[d]
            /\ load'[d] = load[d] /\ cons'[d] = cons[d]
        BY <1>1, <1>2, <2>2, CTAStepFrame, HistoryFrame
      <3> QED BY <2>0, <3>1 DEF Handling, LaneHandling, ConsHandling
    <2> QED BY <2>1, <2>2
  <1>3. ASSUME UNCHANGED vars, NEW d \in CTAs PROVE Handling(d)'
    BY <1>3 DEF vars, HInv, Handling, LaneHandling, ConsHandling
  <1>4. \A d \in CTAs : Handling(d)'
    BY <1>2, <1>3 DEF Next, CTAStep, KernelEnd
  <1> QED BY <1>1, <1>4 DEF HInv

\* The histories agree with the registers in every reachable state.
THEOREM Histories == Spec => []HInv
  BY InitHInv, NextHInv, PTL DEF Spec

-----------------------------------------------------------------------------
(***************************************************************************)
(* The broadcast protocol implements plain dealing: FetchAndWrite deals,   *)
(* the work on a unit handles it, every other step is invisible.           *)
(***************************************************************************)
LEMMA FetchDeals ==
    ASSUME HInv, NEW c \in CTAs, FetchAndWrite(c)
    PROVE  Dispatch!Deal(c)
  <1> DEFINE r == load[c][Leader]
             W == Len(given[c])
  <1>1. TypeOK /\ CTAInv(c) /\ Handling(c)
    BY DEF HInv, IInv
  <1>2. r.pc = "write" /\ r.round \in Nat /\ W \in Nat
    BY <1>1, HistoryType DEF FetchAndWrite
  <1>3. W = r.round
    BY <1>1, <1>2 DEF CTAInv, LaneRounds, Written
  \* The leader has handled all its CTA was given: there is more to ask for.
  <1>4. ~Dispatch!Exhausted(c)
    <2>1. Follows(given[c], handled[c][Leader], r)
      BY <1>1 DEF Handling, LaneHandling
    <2>2. \A i \in 1 .. W : given[c][i] < TotalWork
      BY <1>2, <1>3, <2>1 DEF Follows, Finished
    <2> SUFFICES ASSUME given[c] # <<>>, given[c][W] >= TotalWork
                 PROVE  FALSE
      BY DEF Dispatch!Exhausted
    <2>3. given[c] \in Seq(Int)
      BY <1>1, HistoryType
    <2>4. W \in 1 .. W
      BY <2>3
    <2>5. given[c][W] < TotalWork /\ given[c][W] \in Int
      BY <2>2, <2>3, <2>4
    <2> QED BY <2>5
  <1>5. ASSUME NEW l \in Lanes PROVE W - Len(handled[c][l]) <= 2
    <2>1. load[c][l].pc \in Mid /\ load[c][l].round = r.round
      BY <1>1, <1>2 DEF CTAInv, LaneRounds, Mid
    <2>2. Follows(given[c], handled[c][l], load[c][l])
      BY <1>1 DEF Handling, LaneHandling
    <2>3. Len(handled[c][l]) = W
      BY <1>3, <2>1, <2>2 DEF Follows, Finished, Mid
    <2> QED BY <1>2, <2>3
  <1>6. ASSUME NEW t \in Consumers PROVE W - Len(handled[c][t]) <= 2
    <2>1. r.round <= cons[c][t].round + 1 /\ cons[c][t].round \in Nat
      BY <1>1, <1>2, HistoryType DEF CTAInv, Window
    <2>2. Follows(given[c], handled[c][t], cons[c][t])
      BY <1>1 DEF Handling, ConsHandling
    <2>3. Len(handled[c][t]) >= cons[c][t].round - 1
          /\ Len(handled[c][t]) \in Nat
      <3>1. Len(handled[c][t]) = Finished(cons[c][t])
        BY <2>2 DEF Follows
      <3>2. Finished(cons[c][t]) \in {cons[c][t].round, cons[c][t].round - 1}
        BY DEF Finished
      <3>3. Len(handled[c][t]) \in Nat
        BY <1>1, HistoryType
      <3> QED BY <2>1, <3>1, <3>2, <3>3
    <2> DEFINE L == Len(handled[c][t])
               n == cons[c][t].round
    <2>4. /\ W \in Nat /\ n \in Nat /\ L \in Nat
          /\ W <= n + 1 /\ L >= n - 1
      BY <1>2, <1>3, <2>1, <2>3
    <2> HIDE DEF L, n, W
    <2> QED BY <2>4 DEF L
  <1>7. \A t \in Threads : W - Len(handled[c][t]) <= 2
    BY <1>5, <1>6 DEF Threads
  <1> QED BY <1>4, <1>7 DEF FetchAndWrite, Dispatch!Deal

\* The work of a thread whose registers follow its CTA's numbers.
LEMMA FollowerHandles ==
    ASSUME HInv, NEW c \in CTAs, NEW t \in Threads, NEW r,
           Follows(given[c], handled[c][t], r), r.pc = "work", r.round \in Nat,
           handled' = [handled EXCEPT ![c][t] = Append(@, r.work_idx)],
           UNCHANGED <<workspace_iter, given>>
    PROVE  Dispatch!Handle(c, t)
  <1> DEFINE next == Len(handled[c][t]) + 1
  <1>1. /\ r.round \in 1 .. Len(given[c])
        /\ Len(handled[c][t]) = r.round - 1
        /\ r.work_idx = given[c][r.round] /\ r.work_idx < TotalWork
    BY DEF Follows, Finished
  <1>2. Len(given[c]) \in Nat
    BY HistoryType DEF HInv, IInv
  <1>3. next = r.round /\ next <= Len(given[c])
    BY <1>1, <1>2
  <1>4. handled' = [handled EXCEPT ![c][t] = Append(@, given[c][next])]
    BY <1>1, <1>3
  <1> QED BY <1>1, <1>3, <1>4 DEF Dispatch!Handle

LEMMA WorkHandles ==
    ASSUME HInv, NEW c \in CTAs
    PROVE  /\ \A l \in Lanes : LoadWork(c, l) => Dispatch!Handle(c, l)
           /\ \A t \in Consumers : ConsWork(c, t) => Dispatch!Handle(c, t)
  <1>1. TypeOK
    BY DEF HInv, IInv
  <1>2. ASSUME NEW l \in Lanes, LoadWork(c, l) PROVE Dispatch!Handle(c, l)
    <2> DEFINE r == load[c][l]
    <2>1. l \in Threads /\ r.round \in Nat /\ r.pc = "work"
      BY <1>1, <1>2, HistoryType DEF LoadWork
    <2>2. Follows(given[c], handled[c][l], r)
      BY DEF HInv, Handling, LaneHandling
    <2>3. /\ handled' = [handled EXCEPT ![c][l] = Append(@, r.work_idx)]
          /\ UNCHANGED <<workspace_iter, given>>
      BY <1>2 DEF LoadWork
    <2> HIDE DEF r
    <2> QED BY <2>1, <2>2, <2>3, FollowerHandles
  <1>3. ASSUME NEW t \in Consumers, ConsWork(c, t) PROVE Dispatch!Handle(c, t)
    <2> DEFINE r == cons[c][t]
    <2>1. t \in Threads /\ r.round \in Nat /\ r.pc = "work"
      BY <1>1, <1>3, HistoryType DEF ConsWork
    <2>2. Follows(given[c], handled[c][t], r)
      BY DEF HInv, Handling, ConsHandling
    <2>3. /\ handled' = [handled EXCEPT ![c][t] = Append(@, r.work_idx)]
          /\ UNCHANGED <<workspace_iter, given>>
      BY <1>3 DEF ConsWork
    <2> HIDE DEF r
    <2> QED BY <2>1, <2>2, <2>3, FollowerHandles
  <1> QED BY <1>2, <1>3

\* Every behaviour of the scheduler is one of the plain dealer, in which no
\* CTA runs more than two numbers ahead of its slowest thread.
THEOREM DispatchImplemented == Spec => ImplementsDispatch
  <1>1. Init => Dispatch!Init
    BY DEF Init, Dispatch!Init
  <1>2. ASSUME HInv, [Next]_vars
        PROVE  [Dispatch!Next]_(Dispatch!vars)
    <2>1. CASE UNCHANGED vars
      BY <2>1 DEF vars, Dispatch!vars
    <2>2. ASSUME NEW c \in CTAs, WarpStep(c)
          PROVE  [Dispatch!Next]_(Dispatch!vars)
      <3>1. CASE FetchAndWrite(c)
        BY <1>2, <3>1, FetchDeals DEF Dispatch!Next
      <3>2. CASE Elect(c) \/ SyncWarp(c)
        BY <3>2 DEF Elect, SyncWarp, Dispatch!vars
      <3> QED BY <2>2, <3>1, <3>2 DEF WarpStep
    <2>3. ASSUME NEW c \in CTAs, NEW l \in Lanes, LaneStep(c, l)
          PROVE  [Dispatch!Next]_(Dispatch!vars)
      <3>1. CASE LoadWork(c, l)
        <4>1. l \in Threads
          BY DEF Threads
        <4> QED BY <1>2, <3>1, <4>1, WorkHandles DEF Dispatch!Next
      <3>2. CASE LoadWait(c, l) \/ LoadArrive(c, l) \/ LoadRead(c, l)
        BY <3>2 DEF LoadWait, LoadArrive, LoadRead, Dispatch!vars
      <3> QED BY <2>3, <3>1, <3>2 DEF LaneStep
    <2>4. ASSUME NEW c \in CTAs, NEW t \in Consumers, ConsStep(c, t)
          PROVE  [Dispatch!Next]_(Dispatch!vars)
      <3>1. CASE ConsWork(c, t)
        <4>1. t \in Threads
          BY DEF Threads
        <4> QED BY <1>2, <3>1, <4>1, WorkHandles DEF Dispatch!Next
      <3>2. CASE ConsWait(c, t) \/ ConsRead(c, t) \/ ConsArrive(c, t)
        BY <3>2 DEF ConsWait, ConsRead, ConsArrive, Dispatch!vars
      <3> QED BY <2>4, <3>1, <3>2 DEF ConsStep
    <2> QED BY <1>2, <2>1, <2>2, <2>3, <2>4 DEF Next, KernelEnd
  <1> QED BY <1>1, <1>2, Histories, PTL
          DEF Spec, ImplementsDispatch, Dispatch!Spec

\* Dealing the next number keeps the numbers dealt once, each to one CTA.
LEMMA DealDealt ==
    ASSUME Dispatch!TypeOK, Dispatch!Dealt, NEW c \in CTAs, Dispatch!Deal(c)
    PROVE  Dispatch!TypeOK' /\ Dispatch!Dealt'
  <1> DEFINE g == given[c]
  <1>1. workspace_iter \in Nat /\ g \in Seq(Nat) /\ Len(g) \in Nat
    BY DEF Dispatch!TypeOK
  <1>2. /\ workspace_iter' = workspace_iter + 1
        /\ given'[c] = Append(g, workspace_iter)
        /\ \A d \in CTAs : d # c => given'[d] = given[d]
    BY DEF Dispatch!Deal, Dispatch!TypeOK
  <1>3. /\ Len(given'[c]) = Len(g) + 1
        /\ given'[c][Len(g) + 1] = workspace_iter
        /\ \A i \in 1 .. Len(g) : given'[c][i] = g[i]
    BY <1>1, <1>2
  \* An entry of the new table is an old one, or the number just dealt.
  <1>4. ASSUME NEW d \in CTAs, NEW i \in 1 .. Len(given'[d])
        PROVE  \/ /\ i \in 1 .. Len(given[d])
                  /\ given'[d][i] = given[d][i]
                  /\ given[d][i] \in 0 .. workspace_iter - 1
               \/ d = c /\ i = Len(g) + 1 /\ given'[d][i] = workspace_iter
    <2>1. CASE d # c
      BY <1>2, <2>1 DEF Dispatch!Dealt
    <2>2. CASE d = c /\ i # Len(g) + 1
      <3>1. i \in 1 .. Len(g)
        BY <1>1, <1>3, <2>2
      <3> QED BY <1>3, <2>2, <3>1 DEF Dispatch!Dealt
    <2>3. CASE d = c /\ i = Len(g) + 1
      BY <1>3, <2>3
    <2> QED BY <2>1, <2>2, <2>3
  <1>5. ASSUME NEW d \in CTAs, NEW i \in 1 .. Len(given'[d])
        PROVE  given'[d][i] \in 0 .. workspace_iter' - 1
    <2>1. \/ given'[d][i] \in 0 .. workspace_iter - 1
          \/ given'[d][i] = workspace_iter
      BY <1>4
    <2> QED BY <1>1, <1>2, <2>1
  <1>6. ASSUME NEW d \in CTAs, NEW e \in CTAs,
               NEW i \in 1 .. Len(given'[d]), NEW j \in 1 .. Len(given'[e]),
               given'[d][i] = given'[e][j]
        PROVE  d = e /\ i = j
    <2>1. CASE given'[d][i] = workspace_iter
      <3>1. d = c /\ i = Len(g) + 1
        BY <1>1, <1>4, <2>1
      <3>2. given'[e][j] = workspace_iter
        BY <1>6, <2>1
      <3>3. e = c /\ j = Len(g) + 1
        BY <1>1, <1>4, <3>2
      <3> QED BY <3>1, <3>3
    <2>2. CASE given'[d][i] # workspace_iter
      <3>1. /\ i \in 1 .. Len(given[d]) /\ given'[d][i] = given[d][i]
            /\ j \in 1 .. Len(given[e]) /\ given'[e][j] = given[e][j]
        BY <1>4, <1>6, <2>2
      <3>2. given[d][i] = given[e][j]
        BY <1>6, <3>1
      <3> QED BY <3>1, <3>2 DEF Dispatch!Dealt
    <2> QED BY <2>1, <2>2
  <1>7. ASSUME NEW n \in 0 .. workspace_iter' - 1
        PROVE  \E d \in CTAs : \E i \in 1 .. Len(given'[d]) : given'[d][i] = n
    <2>1. CASE n = workspace_iter
      <3>1. Len(g) + 1 \in 1 .. Len(given'[c])
        BY <1>1, <1>3
      <3> QED BY <1>3, <2>1, <3>1
    <2>2. CASE n # workspace_iter
      <3>1. n \in 0 .. workspace_iter - 1
        BY <1>1, <1>2, <2>2
      <3>2. PICK d \in CTAs : \E i \in 1 .. Len(given[d]) : given[d][i] = n
        BY <3>1 DEF Dispatch!Dealt
      <3>3. PICK i \in 1 .. Len(given[d]) : given[d][i] = n
        BY <3>2
      <3>4. i \in 1 .. Len(given'[d]) /\ given'[d][i] = given[d][i]
        <4>1. CASE d = c
          BY <1>1, <1>3, <4>1
        <4>2. CASE d # c
          BY <1>2, <4>2
        <4> QED BY <4>1, <4>2
      <3> QED BY <3>3, <3>4
    <2> QED BY <2>1, <2>2
  <1>8. Dispatch!TypeOK'
    <2>1. Append(g, workspace_iter) \in Seq(Nat)
      BY <1>1
    <2> QED BY <1>1, <2>1 DEF Dispatch!TypeOK, Dispatch!Deal
  <1> QED BY <1>5, <1>6, <1>7, <1>8 DEF Dispatch!Dealt

\* Each number the counter has passed was given once, to one CTA, and no other
\* was: an invariant of plain dealing, whose behaviours those of the scheduler are.
THEOREM GivenOnce == Spec => []Dispatch!Dealt
  <1> DEFINE Inv == Dispatch!TypeOK /\ Dispatch!Dealt
  <1>1. Dispatch!Init => Inv
    BY DEF Dispatch!Init, Dispatch!TypeOK, Dispatch!Dealt
  <1>2. Inv /\ [Dispatch!Next]_(Dispatch!vars) => Inv'
    <2> SUFFICES ASSUME Dispatch!TypeOK, Dispatch!Dealt,
                        [Dispatch!Next]_(Dispatch!vars)
                 PROVE  Dispatch!TypeOK' /\ Dispatch!Dealt'
      OBVIOUS
    <2>1. ASSUME NEW c \in CTAs, Dispatch!Deal(c)
          PROVE  Dispatch!TypeOK' /\ Dispatch!Dealt'
      BY <2>1, DealDealt
    <2>2. ASSUME UNCHANGED <<workspace_iter, given>>
          PROVE  Dispatch!TypeOK' /\ Dispatch!Dealt'
      BY <2>2 DEF Dispatch!TypeOK, Dispatch!Dealt
    <2>3. ASSUME NEW c \in CTAs, NEW t \in Threads, Dispatch!Handle(c, t)
          PROVE  UNCHANGED <<workspace_iter, given>>
      BY <2>3 DEF Dispatch!Handle
    <2> QED BY <2>1, <2>2, <2>3 DEF Dispatch!Next, Dispatch!vars
  <1> QED BY <1>1, <1>2, DispatchImplemented, PTL
          DEF ImplementsDispatch, Dispatch!Spec

\* No unit is handled twice by threads of one role (HandledOnce): a history
\* is a prefix of what the CTA was given, and nothing is given twice.
THEOREM HandledOnceAlways == Spec => []HandledOnce
  <1>1. HInv /\ Dispatch!Dealt => HandledOnce
    <2> SUFFICES ASSUME HInv, Dispatch!Dealt, NEW t \in Threads,
                        NEW c \in CTAs, NEW d \in CTAs,
                        NEW i \in 1 .. Len(handled[c][t]),
                        NEW j \in 1 .. Len(handled[d][t]),
                        handled[c][t][i] = handled[d][t][j]
                 PROVE  c = d /\ i = j
      BY DEF HandledOnce
    <2>1. ASSUME NEW e \in CTAs, NEW k \in 1 .. Len(handled[e][t])
          PROVE  k \in 1 .. Len(given[e]) /\ handled[e][t][k] = given[e][k]
      <3>1. /\ Len(handled[e][t]) <= Len(given[e])
            /\ handled[e][t][k] = given[e][k]
        BY DEF HInv, Handling, LaneHandling, ConsHandling, Follows, Threads
      <3>2. Len(handled[e][t]) \in Nat /\ Len(given[e]) \in Nat
        BY HistoryType DEF HInv, IInv
      <3> QED BY <3>1, <3>2
    <2>2. given[c][i] = given[d][j]
      BY <2>1
    <2> QED BY <2>1, <2>2 DEF Dispatch!Dealt
  <1> QED BY <1>1, Histories, GivenOnce, PTL

\* The numbers given to a CTA before the last one are all work units.
LEMMA GivenWork ==
    ASSUME HInv, NEW c \in CTAs
    PROVE  \A i \in 1 .. Len(given[c]) : given[c][i] >= TotalWork =>
              i = Len(given[c])
  <1> SUFFICES ASSUME NEW i \in 1 .. Len(given[c]), given[c][i] >= TotalWork
               PROVE  i = Len(given[c])
    OBVIOUS
  <1> DEFINE r == load[c][Leader]
             h == handled[c][Leader]
             W == Len(given[c])
  <1>1. Follows(given[c], h, r) /\ TypeOK /\ CTAInv(c)
    BY DEF HInv, Handling, LaneHandling, IInv
  <1>2. r \in LoadType /\ r.round \in Nat /\ r.pc \in LoadPCs
    BY <1>1, CTAType, LoadFields
  <1>3. W \in Nat /\ Len(h) \in Nat /\ given[c][i] \in Int
    BY <1>1, HistoryType DEF Threads
  <1>4. \A k \in 1 .. Len(h) : given[c][k] < TotalWork
    BY <1>1 DEF Follows
  <1>5. Len(h) = Finished(r)
    BY <1>1 DEF Follows
  <1>6. W <= Len(h) + 1
    <2>1. CASE r.pc \in {"work", "wait", "exit", "elect"}
      BY <1>1, <1>2, <1>3, <1>5, <2>1 DEF CTAInv, LaneRounds, Written, Finished
    <2>2. CASE r.pc = "read"
      BY <1>1, <1>2, <1>3, <1>5, <2>2 DEF CTAInv, LaneRounds, Written, Finished
    <2>3. CASE r.pc \in {"write", "arrive", "sync"}
      <3>1. W \in {r.round, r.round + 1}
        BY <1>1, <1>2, <2>3 DEF CTAInv, LaneRounds, Written
      <3> QED BY <1>2, <1>3, <1>5, <2>3, <3>1 DEF Finished
    <2> QED BY <1>2, <2>1, <2>2, <2>3 DEF LoadPCs
  <1>7. ~(i \in 1 .. Len(h))
    BY <1>3, <1>4
  <1> QED BY <1>3, <1>6, <1>7

\* At the end, every unit was handled by all threads of one CTA
\* (EndsComplete): every CTA has left because the counter ran past the
\* work list, and no thread left before its CTA's last number.
THEOREM EndsCompleteAlways == Spec => []EndsComplete
  <1>1. HInv /\ Dispatch!Dealt => EndsComplete
    <2> SUFFICES ASSUME HInv, Dispatch!Dealt, AllExited,
                        NEW w \in 0 .. TotalWork - 1
                 PROVE  \E c \in CTAs : \A t \in Threads :
                           \E i \in 1 .. Len(handled[c][t]) :
                              handled[c][t][i] = w
      BY DEF EndsComplete
    <2>1. ASSUME NEW c \in CTAs, NEW t \in Threads
          PROVE  /\ Len(given[c]) \in 1 .. Len(given[c])
                 /\ given[c][Len(given[c])] >= TotalWork
                 /\ Len(handled[c][t]) = Len(given[c]) - 1
                 /\ \A i \in 1 .. Len(given[c]) - 1 :
                       handled[c][t][i] = given[c][i]
      <3>1. PICK r : /\ Follows(given[c], handled[c][t], r)
                     /\ r.pc = "exit" /\ r.round \in Nat
        <4>1. CASE t \in Lanes
          BY <4>1, HistoryType
             DEF HInv, IInv, Handling, LaneHandling, AllExited
        <4>2. CASE t \in Consumers
          BY <4>2, HistoryType
             DEF HInv, IInv, Handling, ConsHandling, AllExited
        <4> QED BY <4>1, <4>2 DEF Threads
      <3>2. /\ r.round \in 1 .. Len(given[c])
            /\ given[c][r.round] >= TotalWork
            /\ Len(handled[c][t]) = r.round - 1
            /\ \A i \in 1 .. Len(handled[c][t]) :
                  handled[c][t][i] = given[c][i]
        BY <3>1 DEF Follows, Finished
      <3>3. r.round = Len(given[c])
        BY <3>2, GivenWork
      <3> QED BY <3>2, <3>3
    <2>2. Leader \in Threads
      BY DEF Threads
    <2>3. workspace_iter \in Nat
      BY DEF HInv, IInv, TypeOK
    <2>4. w \in 0 .. workspace_iter - 1
      <3>1. PICK c \in CTAs : TRUE
        OBVIOUS
      <3>2. Len(given[c]) \in 1 .. Len(given[c])
            /\ given[c][Len(given[c])] >= TotalWork
        BY <2>1, <2>2
      <3>3. given[c][Len(given[c])] \in 0 .. workspace_iter - 1
        BY <3>2 DEF Dispatch!Dealt
      <3> QED BY <2>3, <3>2, <3>3
    <2>5. PICK c \in CTAs : \E i \in 1 .. Len(given[c]) : given[c][i] = w
      BY <2>4 DEF Dispatch!Dealt
    <2>6. PICK i \in 1 .. Len(given[c]) : given[c][i] = w
      BY <2>5
    <2>7. i # Len(given[c])
      BY <2>1, <2>2, <2>6
    <2>8. Len(given[c]) \in Nat
      BY HistoryType DEF HInv, IInv
    <2>9. i \in 1 .. Len(given[c]) - 1
      BY <2>7, <2>8
    <2>10. \A t \in Threads : i \in 1 .. Len(handled[c][t])
                              /\ handled[c][t][i] = w
      BY <2>1, <2>6, <2>9
    <2> QED BY <2>10
  <1> QED BY <1>1, Histories, GivenOnce, PTL
=============================================================================
