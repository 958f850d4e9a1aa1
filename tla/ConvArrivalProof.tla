-------------------------- MODULE ConvArrivalProof --------------------------
(***************************************************************************)
(* Proofs about ConvArrival, for any streams, blocks, warps and number of  *)
(* launches.  The counter counts the blocks that announced (Counts), so    *)
(* the block that finds it one short of all is the last one; by then every *)
(* warp of every block has read (Gathered), and no other block rolls       *)
(* (OneRoller).  The history is the old one until then (HistoryOf).        *)
(***************************************************************************)
EXTENDS ConvArrival, FiniteSetTheorems, TLAPS

Announced(s) == {c \in CTAs : pc[s][c][Leader] \in {"roll", "reset", "exit"}}
Rolling(s) == {c \in CTAs : pc[s][c][Leader] \in {"roll", "reset"}}
Rolled(s) == \A c \in CTAs : pc[s][c][Leader] \in {"reset", "exit"}

Counts(s) ==
    counter[Key(s)] = IF Announced(s) = CTAs /\ Rolling(s) = {}
                      THEN 0 ELSE Cardinality(Announced(s))
OneRoller(s) == \A c, d \in Rolling(s) : Announced(s) = CTAs /\ c = d
HistoryOf(s) == history[s] = IF Rolled(s) THEN launched[s] ELSE launched[s] - 1
Gathered(s) ==
    \A c \in CTAs : \A w \in Warps :
        /\ pc[s][c][Leader] \notin Reading => pc[s][c][w] \notin Reading
        /\ pc[s][c][w] \in {"announce", "roll", "reset"} => w = Leader
ReadsOf(s) ==
    \A c \in CTAs : \A w \in Warps : seen[s][c][w] \subseteq {launched[s] - 1}

StreamInv(s) ==
    Counts(s) /\ OneRoller(s) /\ HistoryOf(s) /\ Gathered(s) /\ ReadsOf(s)

IInv == TypeOK /\ \A s \in Streams : StreamInv(s)

USE ConvAssumption

-----------------------------------------------------------------------------
\* Blocks can be counted, and the set of those that announced is all of them
\* when it is as large.
LEMMA AnnouncedFinite ==
    ASSUME NEW s \in Streams
    PROVE  /\ IsFiniteSet(Announced(s)) /\ Announced(s) \subseteq CTAs
           /\ Cardinality(Announced(s)) \in Nat /\ Cardinality(CTAs) \in Nat
           /\ Cardinality(Announced(s)) = Cardinality(CTAs) => Announced(s) = CTAs
  <1>1. Announced(s) \subseteq CTAs BY DEF Announced
  <1>2. IsFiniteSet(Announced(s)) BY <1>1, FS_Subset
  <1> QED BY <1>1, <1>2, FS_Subset, FS_CardinalityType

\* The same for the next state.
LEMMA AnnouncedFiniteNext ==
    ASSUME NEW s \in Streams
    PROVE  /\ Cardinality(Announced(s)') \in Nat
           /\ Cardinality(Announced(s)') = Cardinality(CTAs) => Announced(s)' = CTAs
  <1>1. Announced(s)' \subseteq CTAs BY DEF Announced
  <1>2. IsFiniteSet(Announced(s)') BY <1>1, FS_Subset
  <1> QED BY <1>1, <1>2, FS_Subset, FS_CardinalityType

\* A step leaves the streams alone that it does not change.
LEMMA OtherStream ==
    ASSUME NEW t \in Streams, StreamInv(t),
           pc'[t] = pc[t], seen'[t] = seen[t], counter'[Key(t)] = counter[Key(t)],
           history'[t] = history[t], launched'[t] = launched[t]
    PROVE  StreamInv(t)'
  BY DEF StreamInv, Counts, OneRoller, HistoryOf, Gathered, ReadsOf,
         Announced, Rolling, Rolled, Key

\* A step of the warps before the announcement changes nothing in the count,
\* the roller and the history.
LEMMA BeforeAnnouncing ==
    ASSUME NEW s \in Streams, StreamInv(s),
           UNCHANGED <<launched, counter, history>>,
           \A c \in CTAs :
              pc'[s][c][Leader] = pc[s][c][Leader]
                \/ {pc'[s][c][Leader], pc[s][c][Leader]} \subseteq Reading \cup {"announce"}
    PROVE  Counts(s)' /\ OneRoller(s)' /\ HistoryOf(s)'
  <1>1. Announced(s)' = Announced(s) BY DEF Announced, Reading
  <1>2. Rolling(s)' = Rolling(s) BY DEF Rolling, Reading
  <1>3. Rolled(s)' = Rolled(s) BY DEF Rolled, Reading
  <1> QED BY <1>1, <1>2, <1>3 DEF StreamInv, Counts, OneRoller, HistoryOf, Key

\* While a warp still reads, the history is the one the last launch left.
LEMMA OldHistory ==
    ASSUME NEW s \in Streams, NEW c \in CTAs, NEW w \in Warps, StreamInv(s),
           pc[s][c][w] \in Reading
    PROVE  history[s] = launched[s] - 1
  <1>1. pc[s][c][Leader] \in Reading BY DEF StreamInv, Gathered
  <1>2. ~Rolled(s) BY <1>1 DEF Rolled, Reading
  <1> QED BY <1>2 DEF StreamInv, HistoryOf

-----------------------------------------------------------------------------
\* Initially no launch has begun.
LEMMA InitIInv == Init => IInv
  <1> SUFFICES ASSUME Init PROVE IInv OBVIOUS
  <1>1. TypeOK BY DEF Init, TypeOK, Steps
  <1>2. ASSUME NEW s \in Streams PROVE StreamInv(s)
    <2>1. Announced(s) = CTAs /\ Rolling(s) = {} /\ Rolled(s)
      BY DEF Init, Announced, Rolling, Rolled
    <2>2. Key(s) \in Streams BY DEF Key
    <2> QED BY <2>1, <2>2 DEF Init, StreamInv, Counts, OneRoller, HistoryOf, Gathered,
                              ReadsOf, Reading
  <1> QED BY <1>1, <1>2 DEF IInv

\* A launch finds the counter at 0 and the history rolled.
LEMMA LaunchStep ==
    ASSUME IInv, NEW s \in Streams, Launch(s)
    PROVE  TypeOK' /\ StreamInv(s)'
  <1>1. TypeOK' BY DEF IInv, TypeOK, Launch, Steps
  <1>2. Announced(s) = CTAs /\ Rolling(s) = {} /\ Rolled(s)
    BY DEF Launch, Ended, Announced, Rolling, Rolled
  <1>3. counter[Key(s)] = 0 /\ history[s] = launched[s]
    BY <1>2 DEF IInv, StreamInv, Counts, HistoryOf
  <1>4. pc'[s] = [c \in CTAs |-> [w \in Warps |-> "queued"]]
    BY DEF IInv, TypeOK, Launch
  <1>5. Announced(s)' = {} /\ Rolling(s)' = {} /\ ~Rolled(s)'
    BY <1>4 DEF Announced, Rolling, Rolled
  <1>6. launched'[s] = launched[s] + 1 /\ history'[s] = history[s]
    BY DEF IInv, TypeOK, Launch
  <1>7. Counts(s)' BY <1>3, <1>5, FS_EmptySet DEF Counts, Launch, Key
  <1>8. OneRoller(s)' BY <1>5 DEF OneRoller
  <1>9. HistoryOf(s)' BY <1>3, <1>5, <1>6 DEF HistoryOf, IInv, TypeOK
  <1>10. Gathered(s)' BY <1>4 DEF Gathered, Reading
  <1>11. ReadsOf(s)' BY DEF ReadsOf, Launch, IInv, TypeOK
  <1> QED BY <1>1, <1>7, <1>8, <1>9, <1>10, <1>11 DEF StreamInv

\* A block begins.
LEMMA BeginStep ==
    ASSUME IInv, NEW s \in Streams, NEW c \in CTAs, Begin(s, c)
    PROVE  TypeOK' /\ StreamInv(s)'
  <1>1. TypeOK' BY DEF IInv, TypeOK, Begin, Steps
  <1>2. pc'[s] = [pc[s] EXCEPT ![c] = [w \in Warps |-> "read"]]
    BY DEF IInv, TypeOK, Begin
  <1>3. Counts(s)' /\ OneRoller(s)' /\ HistoryOf(s)'
    <2>1. \A d \in CTAs :
             pc'[s][d][Leader] = pc[s][d][Leader]
                \/ {pc'[s][d][Leader], pc[s][d][Leader]} \subseteq Reading \cup {"announce"}
      BY <1>2 DEF IInv, TypeOK, Begin, Reading
    <2> QED BY <2>1, BeforeAnnouncing DEF IInv, Begin
  <1>4. Gathered(s)' BY <1>2 DEF IInv, StreamInv, TypeOK, Gathered, Reading
  <1>5. ReadsOf(s)' BY DEF IInv, StreamInv, ReadsOf, Begin
  <1> QED BY <1>1, <1>3, <1>4, <1>5 DEF StreamInv

\* A warp reads, for its tokens or for the snapshots.
LEMMA ReadStep ==
    ASSUME IInv, NEW s \in Streams, NEW c \in CTAs, NEW w \in Warps,
           Read(s, c, w) \/ Snapshot(s, c, w)
    PROVE  TypeOK' /\ StreamInv(s)'
  <1>0. pc[s][c][w] \in {"read", "snapshot"} BY DEF Read, Snapshot
  <1>1. PICK next \in {"snapshot", "barrier"} : pc' = [pc EXCEPT ![s][c][w] = next]
    BY DEF Read, Snapshot
  <1>2. /\ seen' = [seen EXCEPT ![s][c][w] = @ \cup {history[s]}]
        /\ UNCHANGED <<launched, counter, history>>
    BY DEF Read, Snapshot
  <1>3. TypeOK' BY <1>1, <1>2 DEF IInv, TypeOK, Steps
  <1>4. Counts(s)' /\ OneRoller(s)' /\ HistoryOf(s)'
    <2>1. \A d \in CTAs :
             pc'[s][d][Leader] = pc[s][d][Leader]
                \/ {pc'[s][d][Leader], pc[s][d][Leader]} \subseteq Reading \cup {"announce"}
      BY <1>0, <1>1 DEF IInv, TypeOK, Reading
    <2> QED BY <1>2, <2>1, BeforeAnnouncing DEF IInv
  <1>5. Gathered(s)'
    <2>1. pc[s][c][Leader] \in Reading
      BY <1>0 DEF IInv, StreamInv, Gathered, Reading
    <2>2. pc'[s][c][Leader] \in Reading
      BY <1>1, <2>1 DEF IInv, TypeOK, Reading
    <2> QED BY <1>0, <1>1, <2>2 DEF IInv, StreamInv, TypeOK, Gathered, Reading
  <1>6. history[s] = launched[s] - 1 BY <1>0, OldHistory DEF IInv, Reading
  <1>7. ReadsOf(s)' BY <1>2, <1>6 DEF IInv, StreamInv, TypeOK, ReadsOf
  <1> QED BY <1>3, <1>4, <1>5, <1>7 DEF StreamInv

\* The warps of a block have gathered.
LEMMA BarrierStep ==
    ASSUME IInv, NEW s \in Streams, NEW c \in CTAs, Barrier(s, c)
    PROVE  TypeOK' /\ StreamInv(s)'
  <1>1. TypeOK' BY DEF IInv, TypeOK, Barrier, Steps
  <1>2. pc'[s] = [pc[s] EXCEPT ![c] =
                     [w \in Warps |-> IF w = Leader THEN "announce" ELSE "exit"]]
    BY DEF IInv, TypeOK, Barrier
  <1>3. Counts(s)' /\ OneRoller(s)' /\ HistoryOf(s)'
    <2>1. \A d \in CTAs :
             pc'[s][d][Leader] = pc[s][d][Leader]
                \/ {pc'[s][d][Leader], pc[s][d][Leader]} \subseteq Reading \cup {"announce"}
      BY <1>2 DEF IInv, TypeOK, Barrier, Reading
    <2> QED BY <2>1, BeforeAnnouncing DEF IInv, Barrier
  <1>4. Gathered(s)' BY <1>2 DEF IInv, StreamInv, TypeOK, Gathered, Reading
  <1>5. ReadsOf(s)' BY DEF IInv, StreamInv, ReadsOf, Barrier
  <1> QED BY <1>1, <1>3, <1>4, <1>5 DEF StreamInv

\* A block announces: it is the last if the counter says so.
LEMMA AnnounceStep ==
    ASSUME IInv, NEW s \in Streams, NEW c \in CTAs, Announce(s, c)
    PROVE  TypeOK' /\ StreamInv(s)'
  <1> DEFINE last == counter[Key(s)] = Expected - 1
  <1>1. TypeOK' BY DEF IInv, TypeOK, Announce, Steps, Key
  <1>2. pc'[s] = [pc[s] EXCEPT ![c][Leader] = IF last THEN "roll" ELSE "exit"]
    BY DEF IInv, TypeOK, Announce
  <1>3. c \notin Announced(s) BY DEF Announce, Announced
  <1>4. Rolling(s) = {} /\ ~Rolled(s) /\ Announced(s) # CTAs
    BY <1>3 DEF IInv, StreamInv, OneRoller, Rolling, Rolled, Announce
  <1>5. counter[Key(s)] = Cardinality(Announced(s))
    BY <1>4 DEF IInv, StreamInv, Counts
  <1>6. Announced(s)' = Announced(s) \cup {c}
    BY <1>2, <1>3 DEF IInv, TypeOK, Announced
  <1>7. Cardinality(Announced(s)') = Cardinality(Announced(s)) + 1
    BY <1>3, <1>6, AnnouncedFinite, FS_AddElement
  <1>8. counter'[Key(s)] = Cardinality(Announced(s)')
    BY <1>5, <1>7 DEF IInv, TypeOK, Announce, Key
  <1>9. CASE last
    <2>1. Announced(s)' = CTAs
      BY <1>5, <1>7, <1>9, AnnouncedFinite, AnnouncedFiniteNext DEF Expected
    <2>2. Rolling(s)' = {c} /\ ~Rolled(s)'
      BY <1>2, <1>4, <1>9 DEF IInv, TypeOK, Rolling, Rolled
    <2> QED BY <1>1, <1>2, <1>4, <1>8, <2>1, <2>2
            DEF IInv, StreamInv, TypeOK, Counts, OneRoller, HistoryOf, Gathered, ReadsOf,
                Reading, Announce
  <1>10. CASE ~last
    <2>1. Announced(s)' # CTAs
      BY <1>5, <1>7, <1>10, AnnouncedFinite, AnnouncedFiniteNext DEF Expected
    <2>2. Rolling(s)' = {}
      BY <1>2, <1>4, <1>10 DEF IInv, TypeOK, Rolling
    <2>3. ~Rolled(s)' BY <2>1 DEF Announced, Rolled
    <2> QED BY <1>1, <1>2, <1>4, <1>8, <2>1, <2>2, <2>3
            DEF IInv, StreamInv, TypeOK, Counts, OneRoller, HistoryOf, Gathered, ReadsOf,
                Reading, Announce
  <1> QED BY <1>9, <1>10

\* The last block rolls the history.
LEMMA RollStep ==
    ASSUME IInv, NEW s \in Streams, NEW c \in CTAs, Roll(s, c)
    PROVE  TypeOK' /\ StreamInv(s)'
  <1>1. TypeOK' BY DEF IInv, TypeOK, Roll, Steps
  <1>2. pc'[s] = [pc[s] EXCEPT ![c][Leader] = "reset"]
    BY DEF IInv, TypeOK, Roll
  <1>3. c \in Rolling(s) /\ ~Rolled(s) BY DEF Roll, Rolling, Rolled
  <1>4. Announced(s) = CTAs /\ \A d \in CTAs \ {c} : pc[s][d][Leader] = "exit"
    BY <1>3 DEF IInv, StreamInv, OneRoller, Rolling, Announced
  <1>5. Announced(s)' = CTAs /\ Rolling(s)' = {c} /\ Rolled(s)'
    BY <1>2, <1>4 DEF IInv, TypeOK, Announced, Rolling, Rolled
  <1>6. history'[s] = launched'[s]
    BY <1>3 DEF IInv, StreamInv, TypeOK, HistoryOf, Roll
  <1>7. Counts(s)' BY <1>3, <1>4, <1>5 DEF IInv, StreamInv, Counts, Roll, Key
  <1> QED BY <1>1, <1>2, <1>5, <1>6, <1>7
          DEF IInv, StreamInv, TypeOK, OneRoller, HistoryOf, Gathered, ReadsOf, Reading, Roll

\* It sets the counter back and leaves.
LEMMA ResetStep ==
    ASSUME IInv, NEW s \in Streams, NEW c \in CTAs, Reset(s, c)
    PROVE  TypeOK' /\ StreamInv(s)'
  <1>1. TypeOK' BY DEF IInv, TypeOK, Reset, Steps, Key
  <1>2. pc'[s] = [pc[s] EXCEPT ![c][Leader] = "exit"]
    BY DEF IInv, TypeOK, Reset
  <1>3. c \in Rolling(s) BY DEF Reset, Rolling
  <1>4. Announced(s) = CTAs /\ \A d \in CTAs \ {c} : pc[s][d][Leader] = "exit"
    BY <1>3 DEF IInv, StreamInv, OneRoller, Rolling, Announced
  <1>5. Rolled(s) BY <1>4 DEF Reset, Rolled
  <1>6. Announced(s)' = CTAs /\ Rolling(s)' = {} /\ Rolled(s)'
    BY <1>2, <1>4 DEF IInv, TypeOK, Announced, Rolling, Rolled
  <1>7. counter'[Key(s)] = 0 BY DEF IInv, TypeOK, Reset, Key
  <1> QED BY <1>1, <1>2, <1>5, <1>6, <1>7
          DEF IInv, StreamInv, TypeOK, Counts, OneRoller, HistoryOf, Gathered, ReadsOf,
              Reading, Reset

-----------------------------------------------------------------------------
\* Every step is one of a stream, and leaves the others as they are; no two
\* streams share a counter.
LEMMA NextIInv == IInv /\ [Next]_vars => IInv'
  <1> SUFFICES ASSUME IInv, [Next]_vars PROVE IInv' OBVIOUS
  <1>1. ASSUME NEW s \in Streams, TypeOK', StreamInv(s)',
               \A t \in Streams \ {s} :
                  /\ pc'[t] = pc[t] /\ seen'[t] = seen[t]
                  /\ history'[t] = history[t] /\ launched'[t] = launched[t]
                  /\ counter'[Key(t)] = counter[Key(t)]
        PROVE  IInv'
    BY <1>1, OtherStream DEF IInv
  <1>2. ASSUME NEW s \in Streams, Launch(s) PROVE IInv'
    BY <1>1, <1>2, LaunchStep DEF IInv, TypeOK, Launch
  <1>3. ASSUME NEW s \in Streams, NEW c \in CTAs, Begin(s, c) PROVE IInv'
    <2>1. TypeOK' /\ StreamInv(s)' BY <1>3, BeginStep
    <2>2. /\ pc' = [pc EXCEPT ![s][c] = [w \in Warps |-> "read"]]
          /\ UNCHANGED <<launched, seen, counter, history>>
      BY <1>3 DEF Begin
    <2> QED BY <1>1, <2>1, <2>2 DEF IInv, TypeOK
  <1>4. ASSUME NEW s \in Streams, NEW c \in CTAs, NEW w \in Warps,
               Read(s, c, w) \/ Snapshot(s, c, w)
        PROVE  IInv'
    BY <1>1, <1>4, ReadStep DEF IInv, TypeOK, Read, Snapshot
  <1>5. ASSUME NEW s \in Streams, NEW c \in CTAs, Barrier(s, c) PROVE IInv'
    BY <1>1, <1>5, BarrierStep DEF IInv, TypeOK, Barrier
  <1>6. ASSUME NEW s \in Streams, NEW c \in CTAs, Announce(s, c) PROVE IInv'
    BY <1>1, <1>6, AnnounceStep DEF IInv, TypeOK, Announce, Key
  <1>7. ASSUME NEW s \in Streams, NEW c \in CTAs, Roll(s, c) PROVE IInv'
    BY <1>1, <1>7, RollStep DEF IInv, TypeOK, Roll
  <1>8. ASSUME NEW s \in Streams, NEW c \in CTAs, Reset(s, c) PROVE IInv'
    BY <1>1, <1>8, ResetStep DEF IInv, TypeOK, Reset, Key
  <1>9. CASE UNCHANGED vars
    BY <1>9, OtherStream DEF vars, IInv, TypeOK
  <1> QED BY <1>2, <1>3, <1>4, <1>5, <1>6, <1>7, <1>8, <1>9 DEF Next, Progress

LEMMA Invariance == Spec => []IInv
  BY InitIInv, NextIInv, PTL DEF Spec

\* Every warp of every launch reads the history the launch before it left, for
\* any number of blocks that share a key head: the last of them to announce is
\* the only one that overwrites it, whatever order they run in.
THEOREM HistoryRead == Spec => []ReadsLastHistory
  <1>1. IInv => ReadsLastHistory BY DEF IInv, StreamInv, ReadsOf, ReadsLastHistory
  <1> QED BY <1>1, Invariance, PTL

\* Between launches the history has been rolled once per launch and the counter
\* is back at 0.
THEOREM HistoryRolledOnce == Spec => []RolledOnce
  <1>1. ASSUME IInv PROVE RolledOnce
    <2> SUFFICES ASSUME NEW s \in Streams, Ended(s)
                 PROVE  history[s] = launched[s] /\ counter[Key(s)] = 0
      BY DEF RolledOnce
    <2>1. Announced(s) = CTAs /\ Rolling(s) = {} /\ Rolled(s)
      BY DEF Ended, Announced, Rolling, Rolled
    <2> QED BY <1>1, <2>1 DEF IInv, StreamInv, Counts, HistoryOf
  <1> QED BY <1>1, Invariance, PTL

\* At most one block rolls, and only when all have announced: the counter is
\* neither lost nor left behind by a launch.
THEOREM OneBlockRolls == Spec => [](\A s \in Streams : OneRoller(s))
  <1>1. IInv => \A s \in Streams : OneRoller(s) BY DEF IInv, StreamInv
  <1> QED BY <1>1, Invariance, PTL
=============================================================================
