------------------------------- MODULE DeltaH -------------------------------
(***************************************************************************)
(* One thread block of the SM100 delta_h kernel (ChunkDeltaRuleFwdH.kernel *)
(* in src/cula/ops/kda/sm100/delta_h.py): the warps that compute the chunk *)
(* recurrence of the gated delta rule, and the pipelines between them.     *)
(*                                                                         *)
(*   load  -h0,u,gk-> cc      load -w,kt-> mma      (tiles, by TMA)        *)
(*   cc    -state->   mma     -wh->  cc             WH = W h               *)
(*   cc    -vnew->    mma     -kv->  cc             KV = K^T v_new         *)
(*   cc    -hout,vst-> store                        (tiles, to TMA)        *)
(*                                                                         *)
(* The TMA unit and the tensor cores run on their own: a copy or a matrix  *)
(* product is issued in one step and done in a later one, and the barrier  *)
(* of its pipeline is signalled then.  A warp is one process.              *)
(*                                                                         *)
(* Data is a name: <<u, c>> stands for what the serial algorithm has at    *)
(* chunk c of unit u, and whatever combines data of two names is Bad.      *)
(***************************************************************************)
EXTENDS Integers, Sequences, FiniteSets, Mbarrier

CONSTANTS
    Units,              \* chunk counts (NT) of the units this block takes
    CCs,                \* the CUDA-core warps (4)
    Stages,             \* [pipe -> number of stages]
    UseGk, UseInitialState, StoreFinalState, SaveVNew,
    Persistent          \* the units come from the dynamic scheduler

Tiles == {"h0", "w", "kt", "u", "gk"}                   \* filled by TMA
Parts == {"state", "wh", "vnew", "kv", "hout", "vst"}   \* a part per CC warp
Pipes == Tiles \cup Parts

ASSUME UnitsAssumption == Units \in Seq(Nat)
ASSUME CCsAssumption ==
    /\ IsFiniteSet(CCs) /\ CCs # {}
    /\ CCs \cap {"load", "mma", "store", "empty"} = {}
ASSUME StagesAssumption == Stages \in [Pipes -> Nat \ {0}]
ASSUME FlagsAssumption ==
    /\ {UseGk, UseInitialState, StoreFinalState, SaveVNew, Persistent}
          \subseteq BOOLEAN
    /\ ~Persistent => Len(Units) <= 1       \* grid = total_work_units

VARIABLES
    pc, unit, chunk,    \* [warp]: label, index of its unit, its chunk
    pipe,               \* [pipe]: the full and empty barriers of its stages
    tile,               \* [TMA-filled pipe][stage]
    scaled,             \* [gk stage]: CC warps that put exp2(gk) in it
    part,               \* [part pipe][stage][cc]
    reg,                \* [cc]: h, its decay, the U and WH/v_new fragments
    inflight,           \* TMA loads issued and not arrived
    tcq,                \* matrix products issued and not done
    hOut, vOut, hT      \* global memory written (see SerialDelta)

ctl == <<pc, unit, chunk>>
mem == <<tile, scaled, part>>
outs == <<hOut, vOut, hT>>
vars == <<ctl, pipe, mem, reg, inflight, tcq, outs>>

Bad == <<0, 0>>     \* units are numbered from 1
Combine(a, b) == IF a = b THEN a ELSE Bad

Warps == CCs \cup {"load", "mma", "store", "empty"}

StageIds(x) == 0 .. Stages[x] - 1

\* Arrivals that complete a full and an empty barrier.
Producers(x) == IF x \in {"state", "vnew", "hout", "vst"}
                THEN Cardinality(CCs) ELSE 1
\* Mutant of Readers: the h0 stage is given back by the first warp.
ReadersOneForH0(x) == IF x \in {"u", "gk", "wh", "kv"}
                      THEN Cardinality(CCs) ELSE 1

Readers(x) == IF x \in {"h0", "u", "gk", "wh", "kv"}
              THEN Cardinality(CCs) ELSE 1

-----------------------------------------------------------------------------
(***************************************************************************)
(* Positions.  A warp uses each of its pipelines once per chunk, h0 once   *)
(* per unit, and keeps its position from one unit to the next.             *)
(***************************************************************************)
Before[u \in Nat] == IF u <= 1 THEN 0 ELSE Before[u - 1] + Units[u - 1]

\* Mutant of Turn: the position starts again with each unit.
TurnOfUnit(x, p) == IF x = "h0" THEN 0 ELSE chunk[p]

Turn(x, p) == IF x = "h0" THEN unit[p] - 1 ELSE Before[unit[p]] + chunk[p]
Stage(x, p) == StageOf(Turn(x, p), Stages[x])
Tag(p) == <<unit[p], chunk[p]>>

Free(x, p) == CanAcquire(pipe[x], Turn(x, p), Stages[x])
Ready(x, p) == CanConsume(pipe[x], Turn(x, p), Stages[x])

CommitBy(x, p) == [pipe EXCEPT ![x] = Commit(@, Stage(x, p), Producers(x))]
ReleaseBy(x, p) == [pipe EXCEPT ![x] = Release(@, Stage(x, p), Readers(x))]

-----------------------------------------------------------------------------
(***************************************************************************)
(* Control.  A label names the pipeline the warp stands at.                *)
(***************************************************************************)
ChunkLabel(p, u, c) ==
    IF c < Units[u]
    THEN CASE p = "load" -> "w" [] p = "mma" -> "wh" [] p = "store" -> "hout"
           [] p \in CCs -> "state"
    ELSE IF p \in CCs THEN "final" ELSE "end"

UnitLabel(p, u) ==
    IF u > Len(Units) THEN "exit"
    ELSE CASE p = "empty"                   -> "end"
           [] p \in CCs                     -> "h0"
           [] p = "load" /\ UseInitialState -> "h0"
           [] OTHER                         -> ChunkLabel(p, u, 0)

Goto(p, label) == pc' = [pc EXCEPT ![p] = label] /\ UNCHANGED <<unit, chunk>>

NextChunk(p) ==
    /\ chunk' = [chunk EXCEPT ![p] = @ + 1]
    /\ pc' = [pc EXCEPT ![p] = ChunkLabel(p, unit[p], chunk[p] + 1)]
    /\ UNCHANGED unit

(***************************************************************************)
(* The scheduler, as DynSched allows it: the Load warp broadcasts number   *)
(* k + 1 when every consumer warp has read number k - 1, and a consumer    *)
(* waits for the broadcast.                                                *)
(***************************************************************************)
Dealt(p) ==
    Persistent => IF p = "load"
                  THEN \A q \in Warps \ {"load"} : unit[q] >= unit[p] - 1
                  ELSE unit["load"] > unit[p]

NextUnit(p) ==
    /\ pc[p] = "end"
    /\ Dealt(p)
    /\ unit' = [unit EXCEPT ![p] = @ + 1]
    /\ chunk' = [chunk EXCEPT ![p] = 0]
    /\ pc' = [pc EXCEPT ![p] = UnitLabel(p, unit[p] + 1)]
    /\ UNCHANGED <<pipe, mem, reg, inflight, tcq, outs>>

Init ==
    /\ unit = [p \in Warps |-> 1]
    /\ chunk = [p \in Warps |-> 0]
    /\ pc = [p \in Warps |-> UnitLabel(p, 1)]
    /\ pipe = [x \in Pipes |-> PipeInit(Stages[x], Producers(x), Readers(x))]
    /\ tile = [x \in Tiles |-> [s \in StageIds(x) |-> Bad]]
    /\ scaled = [s \in StageIds("gk") |-> {}]
    /\ part = [x \in Parts |->
                  [s \in StageIds(x) |-> [w \in CCs |-> Bad]]]
    /\ reg = [w \in CCs |->
                 [h |-> Bad, decayed |-> FALSE, u |-> Bad, v |-> Bad]]
    /\ inflight = {}
    /\ tcq = <<>>
    /\ hOut = [u \in DOMAIN Units |-> <<>>]
    /\ vOut = [u \in DOMAIN Units |-> <<>>]
    /\ hT = [u \in DOMAIN Units |-> [w \in CCs |-> <<>>]]

-----------------------------------------------------------------------------
(***************************************************************************)
(* The Load warp and the TMA unit.                                         *)
(***************************************************************************)

\* acquire_and_advance and cute.copy of h0, w, kt, u or gk: the copy runs.
LoadTile ==
    LET x == pc["load"] IN
    /\ x \in Tiles
    /\ Free(x, "load")
    /\ inflight' = inflight \cup
          {[pipe |-> x, stage |-> Stage(x, "load"), tag |-> Tag("load")]}
    /\ CASE x = "h0" -> Goto("load", ChunkLabel("load", unit["load"], 0))
         [] x = "w"  -> Goto("load", "kt")
         [] x = "kt" -> Goto("load", "u")
         [] x = "u" /\ UseGk -> Goto("load", "gk")
         [] OTHER    -> NextChunk("load")
    /\ UNCHANGED <<pipe, mem, reg, tcq, outs>>

\* All bytes of a copy are in shared memory; copies overtake one another.
TmaArrive(t) ==
    /\ t \in inflight
    /\ inflight' = inflight \ {t}
    /\ tile' = [tile EXCEPT ![t.pipe][t.stage] = t.tag]
    /\ scaled' = IF t.pipe = "gk" THEN [scaled EXCEPT ![t.stage] = {}]
                                  ELSE scaled
    /\ pipe' = [pipe EXCEPT ![t.pipe] = Commit(@, t.stage, 1)]
    /\ UNCHANGED <<ctl, part, reg, tcq, outs>>

-----------------------------------------------------------------------------
(***************************************************************************)
(* The MMA warp issues; the tensor cores execute in order.  The commit of  *)
(* the accumulator and the release of the operands are tcgen05 commits:    *)
(* they arrive when the product is done, not when the warp calls them.     *)
(***************************************************************************)
Product(acc, a, b) ==
    [acc |-> acc, a |-> a, b |-> b, tag |-> Tag("mma"),
     at |-> [x \in {acc, a, b} |-> Stage(x, "mma")]]

IssueProduct(acc, a, b) ==
    /\ pc["mma"] = acc
    /\ Ready(a, "mma")
    /\ Ready(b, "mma")
    /\ Free(acc, "mma")
    /\ tcq' = Append(tcq, Product(acc, a, b))
    /\ UNCHANGED <<pipe, mem, reg, inflight, outs>>

IssueWH == IssueProduct("wh", "state", "w") /\ Goto("mma", "kv")
IssueKV == IssueProduct("kv", "vnew", "kt") /\ NextChunk("mma")

TensorCoreDone ==
    /\ tcq # <<>>
    /\ LET g == Head(tcq)
           At(x) == g.at[x]
       IN
       /\ part' = [part EXCEPT ![g.acc][At(g.acc)] =
              [w \in CCs |-> Combine(part[g.a][At(g.a)][w],
                                     tile[g.b][At(g.b)])]]
       /\ pipe' = [pipe EXCEPT ![g.acc] = Commit(@, At(g.acc), 1),
                               ![g.a] = Release(@, At(g.a), 1),
                               ![g.b] = Release(@, At(g.b), 1)]
    /\ tcq' = Tail(tcq)
    /\ UNCHANGED <<ctl, tile, scaled, reg, inflight, outs>>

-----------------------------------------------------------------------------
(***************************************************************************)
(* The CUDA-core warps.                                                    *)
(***************************************************************************)

\* acquire, copy the warp's rows into the stage, fence, commit.
Publish(x, w, value) ==
    /\ pc[w] = x
    /\ Free(x, w)
    /\ part' = [part EXCEPT ![x][Stage(x, w)][w] = value]
    /\ pipe' = CommitBy(x, w)
    /\ UNCHANGED <<tile, scaled, reg, inflight, tcq, outs>>

\* wait_and_advance: from now on the warp reads the stage.
BeginRead(x, w) ==
    /\ pc[w] = x
    /\ Ready(x, w)
    /\ UNCHANGED <<pipe, mem, reg, inflight, tcq, outs>>

\* The fragment is in registers: release.
EndRead(x, w, label, r) ==
    /\ pc[w] = label
    /\ reg' = [reg EXCEPT ![w] = r]
    /\ pipe' = ReleaseBy(x, w)
    /\ UNCHANGED <<mem, inflight, tcq, outs>>

\* Mutant of InitState: no wait for h0 when there is no chunk to compute.
InitStateSkip(w) ==
    \/ /\ BeginRead("h0", w) /\ Goto(w, "h0_read")
       /\ UseInitialState /\ Units[unit[w]] > 0
    \/ /\ pc[w] = "h0"
       /\ ~UseInitialState \/ Units[unit[w]] = 0
       /\ reg' = [reg EXCEPT ![w].h = Tag(w), ![w].decayed = FALSE]
       /\ Goto(w, ChunkLabel(w, unit[w], 0))
       /\ UNCHANGED <<pipe, mem, inflight, tcq, outs>>

\* h = 0, or wait for the h0 tile: which of them is compiled in.
InitState(w) ==
    IF UseInitialState
    THEN BeginRead("h0", w) /\ Goto(w, "h0_read")
    ELSE /\ pc[w] = "h0"
         /\ reg' = [reg EXCEPT ![w].h = Tag(w), ![w].decayed = FALSE]
         /\ Goto(w, ChunkLabel(w, unit[w], 0))
         /\ UNCHANGED <<pipe, mem, inflight, tcq, outs>>

ReadH0(w) ==
    /\ EndRead("h0", w, "h0_read",
               [reg[w] EXCEPT !.h = tile["h0"][Stage("h0", w)],
                              !.decayed = FALSE])
    /\ Goto(w, ChunkLabel(w, unit[w], 0))

PublishState(w) == Publish("state", w, reg[w].h) /\ Goto(w, "hout")
\* Mutant of PublishHOut: the tile is written before the stage is free.
PublishHOutEarly(w) ==
    /\ pc[w] = "hout"
    /\ part' = [part EXCEPT !["hout"][Stage("hout", w)][w] = reg[w].h]
    /\ pipe' = CommitBy("hout", w)
    /\ Goto(w, "u")
    /\ UNCHANGED <<tile, scaled, reg, inflight, tcq, outs>>

PublishHOut(w) == Publish("hout", w, reg[w].h) /\ Goto(w, "u")

WaitU(w) == BeginRead("u", w) /\ Goto(w, "u_read")
ReadU(w) ==
    /\ EndRead("u", w, "u_read",
               [reg[w] EXCEPT !.u = tile["u"][Stage("u", w)]])
    /\ Goto(w, "wh")

\* v_new = u - WH
WaitWH(w) == BeginRead("wh", w) /\ Goto(w, "wh_read")
ReadWH(w) ==
    /\ EndRead("wh", w, "wh_read",
               [reg[w] EXCEPT !.v = Combine(reg[w].u,
                                            part["wh"][Stage("wh", w)][w])])
    /\ Goto(w, "vnew")

AfterVNew == IF UseGk THEN "gk" ELSE "kv"
PublishVNew(w) ==
    /\ Publish("vnew", w, reg[w].v)
    /\ Goto(w, IF SaveVNew THEN "vst" ELSE AfterVNew)
PublishVStore(w) == Publish("vst", w, reg[w].v) /\ Goto(w, AfterVNew)

\* Each warp overwrites its share of the gk tile with exp2 of it, ...
WaitGk(w) == BeginRead("gk", w) /\ Goto(w, "gk_exp")
ScaleGk(w) ==
    /\ pc[w] = "gk_exp"
    /\ scaled' = [scaled EXCEPT ![Stage("gk", w)] = @ \cup {w}]
    /\ Goto(w, "gk_sync")
    /\ UNCHANGED <<pipe, tile, part, reg, inflight, tcq, outs>>

\* ... gk_precompute_bar gathers the four, ...
\* Mutant of SyncGk: nobody waits for the other warps.
SyncGkAlone ==
    \E w \in CCs : /\ pc[w] = "gk_sync"
                   /\ Goto(w, "gk_read")
                   /\ UNCHANGED <<pipe, mem, reg, inflight, tcq, outs>>

SyncGk ==
    /\ \A w \in CCs : pc[w] = "gk_sync"
    /\ pc' = [p \in Warps |-> IF p \in CCs THEN "gk_read" ELSE pc[p]]
    /\ UNCHANGED <<unit, chunk, pipe, mem, reg, inflight, tcq, outs>>

\* ... and each decays its rows of h by the whole tile.
DecayH(w) ==
    LET s == Stage("gk", w)
        good == tile["gk"][s] = reg[w].h /\ scaled[s] = CCs /\ ~reg[w].decayed
    IN
    /\ EndRead("gk", w, "gk_read",
               [reg[w] EXCEPT !.h = IF good THEN @ ELSE Bad, !.decayed = TRUE])
    /\ Goto(w, "kv")

\* h = h + KV: the h before the next chunk.
WaitKV(w) == BeginRead("kv", w) /\ Goto(w, "kv_read")
\* Mutant of ReadKV: the chunk counter is advanced twice.
ReadKVTwice(w) ==
    /\ EndRead("kv", w, "kv_read",
               [reg[w] EXCEPT !.h = <<unit[w], chunk[w] + 2>>])
    /\ NextChunk(w)

\* Mutant of ReadKV: the stage is never released.
ReadKVKeep(w) ==
    /\ pc[w] = "kv_read"
    /\ reg' = [reg EXCEPT ![w].h = <<unit[w], chunk[w] + 1>>, ![w].decayed = FALSE]
    /\ NextChunk(w)
    /\ UNCHANGED <<pipe, mem, inflight, tcq, outs>>

ReadKV(w) ==
    LET good == /\ reg[w].h = part["kv"][Stage("kv", w)][w]
                /\ reg[w].h = Tag(w)
                /\ reg[w].decayed = UseGk
    IN
    /\ EndRead("kv", w, "kv_read",
               [reg[w] EXCEPT !.h = IF good THEN <<unit[w], chunk[w] + 1>>
                                            ELSE Bad,
                              !.decayed = FALSE])
    /\ NextChunk(w)

\* Mutant of StoreFinal: an empty sequence has no final state.
StoreFinalNonEmpty(w) ==
    /\ pc[w] = "final"
    /\ hT' = IF StoreFinalState /\ Units[unit[w]] > 0
             THEN [hT EXCEPT ![unit[w]][w] = Append(@, reg[w].h)] ELSE hT
    /\ Goto(w, "end")
    /\ UNCHANGED <<pipe, mem, reg, inflight, tcq, hOut, vOut>>

\* ht = h, straight to global memory.
StoreFinal(w) ==
    /\ pc[w] = "final"
    /\ hT' = IF StoreFinalState
             THEN [hT EXCEPT ![unit[w]][w] = Append(@, reg[w].h)] ELSE hT
    /\ Goto(w, "end")
    /\ UNCHANGED <<pipe, mem, reg, inflight, tcq, hOut, vOut>>

-----------------------------------------------------------------------------
(***************************************************************************)
(* The Store warp starts a copy to global memory, waits until the copy has *)
(* read the stage, and releases it.                                        *)
(***************************************************************************)
Whole(x, s) ==
    LET tags == {part[x][s][w] : w \in CCs} IN
    IF Cardinality(tags) = 1 THEN CHOOSE t \in tags : TRUE ELSE Bad

BeginStore(x, label) ==
    BeginRead(x, "store") /\ pc["store"] = x /\ Goto("store", label)

StoreHOut ==
    /\ pc["store"] = "hout_read"
    /\ hOut' = [hOut EXCEPT ![unit["store"]] =
                   Append(@, Whole("hout", Stage("hout", "store")))]
    /\ pipe' = ReleaseBy("hout", "store")
    /\ IF SaveVNew THEN Goto("store", "vst") ELSE NextChunk("store")
    /\ UNCHANGED <<mem, reg, inflight, tcq, vOut, hT>>

StoreVNew ==
    /\ pc["store"] = "vst_read"
    /\ vOut' = [vOut EXCEPT ![unit["store"]] =
                   Append(@, Whole("vst", Stage("vst", "store")))]
    /\ pipe' = ReleaseBy("vst", "store")
    /\ NextChunk("store")
    /\ UNCHANGED <<mem, reg, inflight, tcq, hOut, hT>>

-----------------------------------------------------------------------------
\* All warps have arrived at tmem_dealloc_sync_barrier: TMEM is freed.
AllExited == \A p \in Warps : pc[p] = "exit"
KernelEnd == AllExited /\ UNCHANGED vars

LoadStep == LoadTile \/ NextUnit("load")
MmaStep == IssueWH \/ IssueKV \/ NextUnit("mma")
CCStep(w) ==
    \/ InitState(w) \/ ReadH0(w)
    \/ PublishState(w) \/ PublishHOut(w)
    \/ WaitU(w) \/ ReadU(w)
    \/ WaitWH(w) \/ ReadWH(w)
    \/ PublishVNew(w) \/ PublishVStore(w)
    \/ WaitGk(w) \/ ScaleGk(w) \/ SyncGk \/ DecayH(w)
    \/ WaitKV(w) \/ ReadKV(w)
    \/ StoreFinal(w) \/ NextUnit(w)
StoreStep ==
    \/ BeginStore("hout", "hout_read") \/ StoreHOut
    \/ BeginStore("vst", "vst_read") \/ StoreVNew
    \/ NextUnit("store")

Next ==
    \/ LoadStep \/ MmaStep \/ StoreStep \/ NextUnit("empty")
    \/ \E t \in inflight : TmaArrive(t)
    \/ TensorCoreDone
    \/ \E w \in CCs : CCStep(w)
    \/ KernelEnd

Spec == Init /\ [][Next]_vars

-----------------------------------------------------------------------------
(***************************************************************************)
(* Properties                                                              *)
(***************************************************************************)
Names == UNION {{u} \X (0 .. Units[u]) : u \in DOMAIN Units}
Values == Names \cup {Bad}

\* Type invariant of the block's warps, pipelines, stages and registers.
TypeOK ==
    /\ pc \in [Warps -> Pipes \cup {"h0_read", "u_read", "wh_read", "gk_exp",
                "gk_sync", "gk_read", "kv_read", "hout_read", "vst_read",
                "final", "end", "exit"}]
    /\ unit \in [Warps -> 1 .. Len(Units) + 1]
    /\ chunk \in [Warps -> Nat]
    /\ \A x \in Pipes : \A s \in StageIds(x) :
          /\ pipe[x].full[s] \in MbarType(Producers(x))
          /\ pipe[x].empty[s] \in MbarType(Readers(x))
    /\ \A x \in Tiles : tile[x] \in [StageIds(x) -> Values]
    /\ scaled \in [StageIds("gk") -> SUBSET CCs]
    /\ \A x \in Parts : part[x] \in [StageIds(x) -> [CCs -> Values]]
    /\ reg \in [CCs -> [h : Values, decayed : BOOLEAN, u : Values, v : Values]]
    /\ inflight \subseteq [pipe : Tiles, stage : Nat, tag : Names]
    /\ hOut \in [DOMAIN Units -> Seq(Values)]
    /\ vOut \in [DOMAIN Units -> Seq(Values)]
    /\ hT \in [DOMAIN Units -> [CCs -> Seq(Values)]]

HoldsOwn(x, s, w, tag) ==
    IF x \in Tiles THEN tile[x][s] = tag ELSE part[x][s][w] = tag

\* The label of a warp that reads the stage it waited for.
Reading == [h0 |-> "h0_read", u |-> "u_read", wh |-> "wh_read",
            kv |-> "kv_read", hout |-> "hout_read", vst |-> "vst_read"]

(***************************************************************************)
(* From wait_and_advance to release a stage is the reader's: it holds the  *)
(* data of the reader's own chunk, for a warp that reads it, for a product *)
(* the tensor cores have not done, for a copy the TMA unit has not read.   *)
(***************************************************************************)
StagesHeld ==
    /\ \A w \in CCs, x \in {"h0", "u", "wh", "kv"} :
          pc[w] = Reading[x] => HoldsOwn(x, Stage(x, w), w, Tag(w))
    /\ \A w \in CCs : pc[w] \in {"gk_exp", "gk_sync", "gk_read"} =>
          HoldsOwn("gk", Stage("gk", w), w, Tag(w))
    /\ \A i \in DOMAIN tcq, w \in CCs :
          LET g == tcq[i] IN
          /\ HoldsOwn(g.a, g.at[g.a], w, g.tag)
          /\ HoldsOwn(g.b, g.at[g.b], w, g.tag)
    /\ \A w \in CCs, x \in {"hout", "vst"} :
          pc["store"] = Reading[x] =>
              HoldsOwn(x, Stage(x, "store"), w, Tag("store"))

(***************************************************************************)
(* gk_precompute_bar: when a warp reads the gk tile, all four shares of it *)
(* are exp2 of the gate, and no share is scaled a second time.             *)
(***************************************************************************)
GatesScaledOnce ==
    \A w \in CCs :
        /\ pc[w] = "gk_read" => scaled[Stage("gk", w)] = CCs
        /\ pc[w] = "gk_exp" => w \notin scaled[Stage("gk", w)]

(***************************************************************************)
(* A stage is full or empty: its full barrier has completed as often as    *)
(* its empty barrier or once more, so that no waiter's parity bit can be   *)
(* taken for another turn of the ring, in whatever unit the waiter is.     *)
(***************************************************************************)
FullOrEmpty ==
    \A x \in Pipes : \A s \in StageIds(x) :
        pipe[x].full[s].phase - pipe[x].empty[s].phase \in 0 .. 1

(***************************************************************************)
(* TMEM is freed and the block ends only when no copy and no product is    *)
(* outstanding and every stage was given back, whatever the units were     *)
(* (an empty unit still loads its h0).                                     *)
(***************************************************************************)
DrainedAtExit ==
    AllExited =>
        /\ inflight = {}
        /\ tcq = <<>>
        /\ \A x \in Pipes : \A s \in StageIds(x) :
              pipe[x].full[s].phase = pipe[x].empty[s].phase

\* The pipelines a warp waits to find full, and to find empty, to go on.
Awaits(p) ==
    {x \in Pipes :
        \/ p = "mma" /\ pc[p] = "wh" /\ x \in {"state", "w"}
        \/ p = "mma" /\ pc[p] = "kv" /\ x \in {"vnew", "kt"}
        \/ p = "store" /\ pc[p] = x
        \/ p \in CCs /\ pc[p] = x /\ x \in {"u", "wh", "gk", "kv"}
        \/ p \in CCs /\ pc[p] = x /\ x = "h0" /\ UseInitialState}

Acquires(p) ==
    {x \in Pipes :
        /\ pc[p] = x
        /\ \/ p \in {"load", "mma"}
           \/ p \in CCs /\ x \in {"state", "hout", "vnew", "vst"}}

Able(p) ==
    /\ pc[p] # "exit"
    /\ pc[p] = "end" => Dealt(p)
    /\ pc[p] = "gk_sync" => \A w \in CCs : pc[w] = "gk_sync"
    /\ \A x \in Awaits(p) : Ready(x, p)
    /\ \A x \in Acquires(p) : Free(x, p)

(***************************************************************************)
(* The warps never wait for one another in a circle, through the pipelines *)
(* (one that runs ahead waits for a stage that one behind it must still    *)
(* read), the scheduler and gk_precompute_bar: until all have left, a copy *)
(* or a product is under way or some warp can go on.  Every step takes a   *)
(* warp, a copy or a product further, so that the block ends.              *)
(***************************************************************************)
NeverStuck ==
    \/ AllExited \/ inflight # {} \/ tcq # <<>>
    \/ \E p \in Warps : Able(p)

(***************************************************************************)
(* The outputs are those of the serial recurrence: each tile of h_out and  *)
(* v_new once, in chunk order, with that chunk's value, and each row of ht *)
(* once, with the h after the last chunk; the block ends with all of them  *)
(* written.                                                                *)
(***************************************************************************)
Serial == INSTANCE SerialDelta
ImplementsSerial == Serial!Spec
AllWrittenAtExit == AllExited => Serial!Complete
=============================================================================
