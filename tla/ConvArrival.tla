----------------------------- MODULE ConvArrival -----------------------------
(***************************************************************************)
(* Who rolls the convolution history.  The thread blocks that share a key  *)
(* head of a sequence all convolve q and k, so all of them read the same   *)
(* history of conv_state, and one must replace it for the next launch.     *)
(* A block announces on a counter that it has read; the last to do so      *)
(* rolls the history and sets the counter back for the next launch         *)
(* (src/cula/ops/kda/decode/mtp_conv.py, mtp_conv_kvbuffer.py).            *)
(*                                                                         *)
(* The module follows one such group of blocks on every stream.  Launches  *)
(* on one stream run one after another, streams run side by side; a block  *)
(* may begin before or after another has ended.  The history is known by   *)
(* the number of launches that rolled it.                                  *)
(***************************************************************************)
EXTENDS Integers, FiniteSets

CONSTANTS
    Streams,        \* each verifies a sequence of its own
    KeyStream,      \* [stream -> the stream the counters were looked up for]
    CTAs,           \* the thread blocks of the group
    Owner,          \* the one that saves the snapshots of the window
    Warps, Leader,  \* the warps that read the history; warp 0
    Resident,       \* how many blocks the device has room for
    MaxLaunches     \* bound on the launches of a stream

\* A call looks its counters up for the stream it runs on.  A captured graph
\* keeps those of the stream it was captured on: graphs captured on one stream
\* may only be replayed one after another.
ASSUME ConvAssumption ==
    /\ KeyStream \in [Streams -> Streams]
    /\ \A s, t \in Streams : KeyStream[s] = KeyStream[t] => s = t
    /\ IsFiniteSet(CTAs)
    /\ Owner \in CTAs
    /\ Leader \in Warps
    /\ Resident \in Nat \ {0}
    /\ MaxLaunches \in Nat

VARIABLES
    launched,   \* [stream]: how many launches began
    pc,         \* [stream][CTA][warp]
    seen,       \* [stream][CTA][warp]: the histories the warp read
    counter,    \* [stream]: qk_arrival_counters
    history     \* [stream]: conv_state

vars == <<launched, pc, seen, counter, history>>

Steps == {"queued", "read", "snapshot", "barrier", "announce", "roll", "reset", "exit"}
Reading == {"queued", "read", "snapshot", "barrier"}

TypeOK ==
    /\ launched \in [Streams -> Nat]
    /\ pc \in [Streams -> [CTAs -> [Warps -> Steps]]]
    /\ seen \in [Streams -> [CTAs -> [Warps -> SUBSET Int]]]
    /\ counter \in [Streams -> Nat]
    /\ history \in [Streams -> Nat]

Expected == Cardinality(CTAs)

\* The counters a launch on stream s works with.
Key(s) == KeyStream[s]

Ended(s) == \A c \in CTAs : \A w \in Warps : pc[s][c][w] = "exit"

Init ==
    /\ launched = [s \in Streams |-> 0]
    /\ pc = [s \in Streams |-> [c \in CTAs |-> [w \in Warps |-> "exit"]]]
    /\ seen = [s \in Streams |-> [c \in CTAs |-> [w \in Warps |-> {}]]]
    /\ counter = [s \in Streams |-> 0]
    /\ history = [s \in Streams |-> 0]

\* The next kernel of a stream starts when the one before it has ended.
Launch(s) ==
    /\ Ended(s)
    /\ launched[s] < MaxLaunches
    /\ launched' = [launched EXCEPT ![s] = @ + 1]
    /\ pc' = [pc EXCEPT ![s] = [c \in CTAs |-> [w \in Warps |-> "queued"]]]
    /\ seen' = [seen EXCEPT ![s] = [c \in CTAs |-> [w \in Warps |-> {}]]]
    /\ UNCHANGED <<counter, history>>

Running == {a \in Streams \X CTAs :
               \E w \in Warps : pc[a[1]][a[2]][w] \notin {"queued", "exit"}}

\* The device begins blocks in any order, as it has room for them.
Begin(s, c) ==
    /\ \A w \in Warps : pc[s][c][w] = "queued"
    /\ Cardinality(Running) < Resident
    /\ pc' = [pc EXCEPT ![s][c] = [w \in Warps |-> "read"]]
    /\ UNCHANGED <<launched, seen, counter, history>>

\* A warp loads the history of its tokens and channels.
Read(s, c, w) ==
    /\ pc[s][c][w] = "read"
    /\ seen' = [seen EXCEPT ![s][c][w] = @ \cup {history[s]}]
    /\ pc' = [pc EXCEPT ![s][c][w] = IF c = Owner THEN "snapshot" ELSE "barrier"]
    /\ UNCHANGED <<launched, counter, history>>

\* The owner takes from it what its snapshots of the window need, once more.
Snapshot(s, c, w) ==
    /\ pc[s][c][w] = "snapshot"
    /\ seen' = [seen EXCEPT ![s][c][w] = @ \cup {history[s]}]
    /\ pc' = [pc EXCEPT ![s][c][w] = "barrier"]
    /\ UNCHANGED <<launched, counter, history>>

\* After the barrier of the block only warp 0 touches the history again.
Barrier(s, c) ==
    /\ \A w \in Warps : pc[s][c][w] = "barrier"
    /\ pc' = [pc EXCEPT ![s][c] =
                 [w \in Warps |-> IF w = Leader THEN "announce" ELSE "exit"]]
    /\ UNCHANGED <<launched, seen, counter, history>>

\* Mutant of Announce: a fixed block rolls, whoever comes last.
AnnounceOwner(s, c) ==
    /\ pc[s][c][Leader] = "announce"
    /\ counter' = [counter EXCEPT ![Key(s)] = @ + 1]
    /\ pc' = [pc EXCEPT ![s][c][Leader] = IF c = Owner THEN "roll" ELSE "exit"]
    /\ UNCHANGED <<launched, seen, history>>

\* Mutant of Announce: the blocks meet before one of them rolls.
AnnounceTogether(s, c) ==
    /\ \A d \in CTAs : pc[s][d][Leader] \in {"announce", "roll", "reset", "exit"}
    /\ pc[s][c][Leader] = "announce"
    /\ counter' = [counter EXCEPT ![Key(s)] = @ + 1]
    /\ pc' = [pc EXCEPT ![s][c][Leader] =
                 IF counter[Key(s)] = Expected - 1 THEN "roll" ELSE "exit"]
    /\ UNCHANGED <<launched, seen, history>>

\* atomicAdd; the last to arrive goes on.
Announce(s, c) ==
    /\ pc[s][c][Leader] = "announce"
    /\ counter' = [counter EXCEPT ![Key(s)] = @ + 1]
    /\ pc' = [pc EXCEPT ![s][c][Leader] =
                 IF counter[Key(s)] = Expected - 1 THEN "roll" ELSE "exit"]
    /\ UNCHANGED <<launched, seen, history>>

\* Mutant of Roll: the counter is left as it is.
RollOnly(s, c) ==
    /\ pc[s][c][Leader] = "roll"
    /\ history' = [history EXCEPT ![s] = @ + 1]
    /\ pc' = [pc EXCEPT ![s][c][Leader] = "exit"]
    /\ UNCHANGED <<launched, seen, counter>>

Roll(s, c) ==
    /\ pc[s][c][Leader] = "roll"
    /\ history' = [history EXCEPT ![s] = @ + 1]
    /\ pc' = [pc EXCEPT ![s][c][Leader] = "reset"]
    /\ UNCHANGED <<launched, seen, counter>>

Reset(s, c) ==
    /\ pc[s][c][Leader] = "reset"
    /\ counter' = [counter EXCEPT ![Key(s)] = 0]
    /\ pc' = [pc EXCEPT ![s][c][Leader] = "exit"]
    /\ UNCHANGED <<launched, seen, history>>

Progress ==
    \E s \in Streams : \E c \in CTAs :
        \/ \E w \in Warps : Read(s, c, w) \/ Snapshot(s, c, w)
        \/ Begin(s, c)
        \/ Barrier(s, c)
        \/ Announce(s, c)
        \/ Roll(s, c)
        \/ Reset(s, c)

Next == Progress \/ \E s \in Streams : Launch(s)

Spec == Init /\ [][Next]_vars

\* Some block goes on as long as one can; which one is left to the device.
FairSpec == Spec /\ WF_vars(Progress)

-----------------------------------------------------------------------------
\* All reads of a launch find the history that the launch before it left, and
\* never the one that a faster block of the same launch has already rolled.
ReadsLastHistory ==
    \A s \in Streams : \A c \in CTAs : \A w \in Warps :
        seen[s][c][w] \subseteq {launched[s] - 1}

\* When a launch has ended its history was rolled exactly once and its counter
\* is 0, as the next launch on the counter takes for granted.
RolledOnce ==
    \A s \in Streams : Ended(s) => /\ history[s] = launched[s]
                                   /\ counter[Key(s)] = 0

\* Every launch ends, in whatever order the device begins its blocks and however
\* few it has room for: no block waits for another.
LaunchesEnd == \A s \in Streams : []<>Ended(s)

=============================================================================
