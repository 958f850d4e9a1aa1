# A TLA+ model of cuLA

cuLA is a library of linear-attention GPU kernels (KDA, gated delta rule,
lightning attention) written in CuTe DSL, CUTLASS C++ and Triton, with a Python
layer that chooses, prepares and caches them. Most of its lines are data layout and
arithmetic. What is hard to get right, and hardly testable, is coordination:
persistent thread blocks that take work from a global counter, warps that exchange
tiles through rings of shared-memory stages, planners that cut sequences into pieces
and put the results together again, calls that leave a state behind for the next call,
and caches whose results outlive the call that made them. This directory models that part.

- [Inventory](#inventory): the parts of the system, their state, what is hard
- [Modules](#modules): which module models what, and how it corresponds to the code
- [Runs](#runs): what TLC checks, on which instances, and why they are enough
- [Fairness](#fairness)
- [Proofs](#proofs): what TLAPS proves for every value of the constants
- [Limits](#limits): only model-checked, and not modelled
- [Plan](#plan)

`tlc -config <run>.cfg <module>` runs a check; `tlapm <module>.tla` checks proofs.
`PROJECT.json` maps every definition to the lines of the source it stands for, and
lists the hazards of the code with the properties that watch them. For every property
it also names a mutant: a variant of a definition, kept beside it in the module
("Mutant of ..."), under which TLC finds the property violated.

## Inventory

### 1. SM100 chunk recurrence kernel: work scheduler (`ops/kda/sm100/delta_h.py`)

*State*: the global counter `workspace_iter`; per block two slots `sWorkIdx[2]`, two
"written" barriers `sched_mbar[2]`, two "consumed" barriers `sched_consumed_mbar[2]`;
per thread `sched_buf`, a phase bit per barrier, `work_idx`, in the Load warp
`first_wu`.
*Operations*: initial fetch, back-pressure wait, elected `atomicAdd` and slot write,
arrival of all 32 lanes, read back; in the seven other warps wait, read, arrive.
*Interactions*: feeds work numbers to every warp of component 2.
*Hard*: blocks race on one counter; a slot is reused after two rounds; a barrier tells
a waiter one parity bit only; all warps must leave their loops on the same number.
*Correct when*: each unit is handled once, by all warps of one block; a thread reads
the number of its own round; a slot is not overwritten before it was read by all; no
waiter is lapped; every thread leaves. **Modelled.**

### 2. SM100 chunk recurrence kernel: warp-specialised pipelines (same file)

*State*: eleven rings of stages (h0, w, kt, u, gk by TMA; state, vnew in shared memory
and WH, KV in tensor memory between CUDA cores and MMA; hout, vst to the Store warp),
each with a full and an empty barrier per stage; the register fragments of h, u, v_new;
`gk_precompute_bar`; the TMEM release barrier.
*Operations*: per chunk, publish h, product WH = W h, v_new = u - WH, gate decay,
product KV = K^T v_new, h += KV, stores of h and v_new, per unit load of h0 and store
of ht.
*Interactions*: TMA copies and tensor-core products are asynchronous: they run between
their issue and the arrival on their barrier.
*Hard*: Load runs ahead by whole rings and into the next unit; releases take effect
when a product is done, not when they are called; gates are rewritten in place by four
warps; units may have no chunk; TMEM is freed at the end.
*Correct when*: a stage in use holds the reader's own tile; the outputs are those of
the serial recurrence; gates are scaled once; nothing is outstanding at the end; the
block ends. **Partly modelled**: without what happens inside a tile.

### 3. SM100 output and backward kernels (`ops/kda/sm100/fwd_o.py`, `bwd_wy_dqkg.py`)

*State*: rings as in component 2, more of them, under a static or persistent schedule;
buffers of shared and tensor memory that hold one thing after another within a tile;
in the backward kernel barriers whose arrivals are counted by hand, because a tile is
read by tensor cores and by CUDA cores.
*Hard*: an arrival too few lets Load refill a stage in use; a buffer is used again before
its last reader is done; an epilogue runs into the next tile.
*Correct when*: each read finds what the serial algorithm has there, nobody waits for
ever, nothing is outstanding at the end. **Partly modelled**, as component 2.

### 4. SM100 intra-card context parallelism (`ops/kda/sm100/cp/`, `policy.py`, `cp_mode.py`)

*State*: per call the cut points, index tables, pre-scan results `hm`, merged and expanded
initial states; across calls a plan cache (an `OrderedDict` keyed by tensor identity,
guarded by a lock and weak references).
*Operations*: decide, split long sequences by whole chunks into pieces, pre-scan them,
merge the carried states (one block per split sequence), scatter them as initial states,
run the recurrence on the pieces, gather the final states; look up, build, insert and evict
plans.
*Interactions*: wraps component 2; `delta_h.py` falls back to the unsplit kernel when the
planner says "not splittable" and the mode is automatic.
*Hard*: empty pieces; index tables that number the pieces in five different ways; a
heuristic, a split and an occupancy guard that must agree; a lock released between lookup
and insert; plans found for an address that belonged to another tensor.
*Correct when*: the pieces tile every sequence in order with the same chunk boundaries; the
result is that of the unsplit recurrence; only a forced call fails, and with
`NotSplittableError`; a call runs with the plan of its own tensor, and one that fits.
**Partly modelled**: without in-place changes of `cu_seqlens` and reuse of freed memory.

### 5. SM90 FlashKDA and its context parallelism (`ops/kda/sm90/`)

*State*: the segment plan (`cp/plan.py`), tile tables, scratch of the pre-scan, merged
states; a workspace arena and metadata caches per stream (`fwd.py`), plan caches
(`cp/driver.py`).
*Operations*: K1 on tiles; pre-scan and merge of segments, longest first; K2 on segments
or on whole sequences; padding of dense sequences to whole tiles.
*Hard*: Load and compute warps of K2 hand the state back and forth by raw mbarriers; the
last segment of a sequence is not pre-scanned and its scratch keeps an earlier call's rows;
two planners (automatic and manual) with rules of their own.
*Correct when*: segments tile the sequences and the result is that of the serial K2; a
kernel's reads find their own tile. **Partly modelled**: kernels and planner, not the
caches.

### 6. Fused Hopper forward and its context parallelism (`kda/hopper_fused_fwd*.py`, `kda/cp_context.py`, `kda/cp_h_boundary.py`)

*State*: split table, slot map, boundary states handed from one preprocess tile to the
next; tables cached by tensor identity.
*Operations*: gate of the wrapper, decision, cut at one length, boundary pass over all
tokens, recurrence per piece, final states.
*Hard*: the gate repeats the thresholds of the decision in another form; a preprocess tile
may begin inside a sequence, inside a piece, or with either; only the piece that ends its
sequence stores a final state.
*Correct when*: as component 4, and the gate never skips a split the decision would make.
**Partly modelled**: non-empty sequences, without the table cache.

### 7. KDA decode and speculative decoding (`ops/kda/decode/`, `lightning/la_*`, `ops/lightning/decode.py`)

*State*: the pool of recurrent states, the kv buffer of unverified tokens, accepted counts,
the convolution history with an arrival counter per device and stream.
*Operations*: decode one token (packed or not, fast or general path, four kernels); verify
a draft and keep its keys and gates; flush the accepted prefix; convolve, announce that the
history was read, roll it.
*Hard*: fewer tokens are accepted than verified; padding rows, rows that are not slots; a
gate product of 0; value tiles dealt out by floor division; fast paths that repeat the
general one; blocks of a launch that start late, when others are long done.
*Correct when*: after any sequence of calls states and outputs are those of token-by-token
decoding; a launch reads the history of the one before it, and it is rolled once.
**Partly modelled**: without compile caches and autotuned variants.

### 8. Lightning attention prefill (`ops/lightning/`)

*State*: as component 1, without the consumed barriers; its own pipelines (SM100 and SM90).
*Operations*: initial fetch; per unit, work, block barrier of all threads, fetch, write,
one arrival, wait, read; per chunk the products and the update of the state.
*Hard*: nothing tells the Load warp that a slot was read; only the block barrier does. The
CUDA warps of the SM100 kernel read K without waiting for its pipeline. The SM90 kernel
initialises its barriers again for each unit.
*Correct when*: as components 1 and 2, and a number is taken only when the block has
finished every earlier unit. **Partly modelled**: without what happens inside a tile.

### 9. C++ kernels (`csrc/kda/`)

CUTLASS collectives; the SM90 main loop hands the state over between math warp groups in a
fixed order. **Not modelled**, except the rule when a final state is stored (`kv_store`),
which component 6 depends on: the pipelines are generated by CUTLASS templates, and the
ordered hand-over needs a model of its own (see the plan).

### 10. Qwen3.5 runtime (`qwen35/`)

Weight loading, a pool of states handed out in order, CUDA-graph replay: a sequential
driver of the kernels for one model. **Not modelled.**

### 11. Host dispatch and lazy loading (`backends.py`, `cudac.py`, `utils.py`, `kda/auto_route.py`, `kda/backends/`)

Choice of a backend by device and availability, a double-checked lock around a loader,
scratch buffers keyed by stream. **Not modelled**: the choice keeps no state, the loader's
hazard is one assignment wide, and what could go wrong with the buffers lies in the caching
allocator, which is not in this repository.

### 12. Experimental kernels (`ops/kda/experimental/sm100_fused/`, `ops/experimental/`, `ops/inv.py`)

A forward kernel that fuses all of KDA into one block per head and sequence, a
linear-attention prototype, the inverse of a triangular 64x64 matrix in shared memory.
*Hard*: buffers that hold q, k and k again within a chunk, each with a pipeline of its own;
products whose operands are released by the issuing warp. **Partly modelled.**

### 13. Autograd orchestration, kerutils, benchmarks, tests, scripts

Sequential calls, Triton data paths, generated or measurement code. No state or ordering of
their own. **Not modelled.**

## Modules

| module | models | lines up with |
|---|---|---|
| `Mbarrier` | the hardware barrier (counted arrivals, one visible parity bit), and a ring of stages with a full and an empty barrier each | external (`mbarrier_*`, `cutlass.pipeline`) |
| `WorkDispatch` | abstract: numbers dealt one at a time, handled in order, at most `Ahead` not yet handled | what both schedulers promise |
| `DynSched` | component 1, thread by thread | `delta_h.py` |
| `LightSched` | the scheduler of component 8, thread by thread | `prefill_sm100.py` |
| `SerialDelta` | abstract: the outputs of the serial recurrence, tile by tile | `reference_chunk_delta_rule_fwd_h` |
| `DeltaH`, `DeltaHMC` | component 2, warp by warp, and instances for TLC | `delta_h.py` |
| `WarpProgram`, `WarpBlock`, `WarpMC` | how the warps of other kernels are written down, the block that runs them and what the order of its steps has to be, and 39 instances of 32 kernels for TLC | the kernels below |
| `FwdO`, `BwdWyDqkg` | component 3 | `fwd_o.py`, `bwd_wy_dqkg.py` |
| `PreScanSm100`, `CarryMerge` | kernels of components 4 and 5 | `cp/pre_scan.py`, `cp/merge.py` |
| `FlashKda` | the kernels of component 5 | `k1.py`, `k2.py`, `cp/pre_scan.py` |
| `DecodeStep`, `MtpDecode`, `KvBufferDecode`, `LightningDecode` | the kernels of component 7 | `cute.py`, `mtp*.py`, `la_verify_kvbuffer.py`, `lightning/decode.py` |
| `PrefillSm100`, `PrefillSm90` | the kernels of component 8 | `prefill_sm100.py`, `sm90/prefill_kernel.py` |
| `KdaFused`, `LinearAttn`, `MatrixInverse` | component 12 | `kda_fully_fused_wip.py`, `linear_attn_prototype.py`, `inv.py` |
| `CuSeqlens`, `SplitCall` | batches; a call that may split its sequences, and what it owes its caller | all prefill paths |
| `IntracardCP` | component 4: the arithmetic of the split, and one call from decision to result | `policy.py`, `cp/*.py`, `delta_h.py` |
| `SegmentCP` | component 5: one call | `sm90/cp/*.py`, `sm90/fwd.py` |
| `BoundaryCP` | component 6: one call | `hopper_fused_fwd_opt.py`, `cp_context.py`, `cp_h_boundary.py` |
| `SplitPrefill`, `IntracardMC` | the three together, and batches for TLC | |
| `PlanCache`, `PlanCacheMC` | component 4: the plan cache under concurrent calls | `cp/chunk_delta_h.py` |
| `KvBuffer`, `KvBufferMC` | component 7: verify, flush and decode calls on a pool of states | `mtp_kvbuffer.py`, `la_*_kvbuffer.py` |
| `DecodeDispatch` | component 7: from a decode call to what each block updates | `cute.py` |
| `ConvArrival`, `ConvArrivalMC` | component 7: who rolls the convolution history | `mtp_conv.py` |
| `DynSchedProof`, `LightSchedProof`, `DeltaHProof`, `SplitPrefillProof`, `PlanCacheProof`, `ConvArrivalProof`, `KvBufferProof`, `WarpBlockProof` | theorems, each about the module or the group its name says | |

**`DynSched`.** A process is a thread: a lane of the Load warp or a thread of the seven
consumer warps, because in this kernel every thread arrives on the barriers. One action is
one barrier operation, one access to shared memory or one gathering of the warp
(`elect_one`, `sync_warp`). The initial fetch runs the same actions as later rounds: it
enters them at `Elect`, without back-pressure. Its epilogue sets `first_wu` to 1 and every
later wait clears it, which is `first_wu' = (round = 0)` in `LoadRead` and `FALSE` in
`LoadWait`. What a warp does with a unit (component 2) is one step, `LoadWork` or
`ConsWork`, at any time: units of different warps overlap as they like. `given`, `handled`
and `round` are history; no guard reads them.

**`LightSched`.** Same counter and slots. Only the leader arrives; all threads meet in
`CtaBarrier` after their unit; consumers do not acknowledge. The threads between two
barriers move freely.

**`WorkDispatch`** has no barrier or slot. `Ahead` is how far dealing may run ahead of the
work: 2 for `DynSched` (double buffer), 0 for `LightSched` (block barrier).
**`SerialDelta`** writes each tile of h, v_new and ht once, in chunk order.

**`DeltaH`.** A process is a warp (lanes of a warp move together), the TMA unit or the
tensor cores. A copy is put in `inflight` and lands in any order (`TmaArrive`); a product
is queued in `tcq` and executed in order (`TensorCoreDone`), which is when it reads its
operands, writes the accumulator, commits it and releases the operands: in the code
those are `tcgen05` commits. Reading a stage takes two steps, from the wait to the
release, so that an overwrite in between is seen. Data is a name `<<unit, chunk>>`;
anything that combines two different names is `Bad`, so a wrong tile anywhere ends as a
wrong output. A warp's position in a ring runs on over units (`Turn`), once per chunk or,
for h0, once per unit. `NextUnit` is the scheduler of component 1 as `DynSched` allows it:
Load at most one unit ahead of the slowest warp's read, all warps the same sequence of
units. In the non-persistent kernel the block has one unit.

**`WarpProgram` and `WarpBlock`.** The other kernels follow one pattern: a block of warps,
each of which runs a loop without branches that depend on data, and which meet at rings,
buffers and barriers. So a kernel is written as a program per warp: a sequence of steps,
each of which waits (`Acq`, `Wait`), then reads (`Use`), then writes and signals (`Put`,
`Tma`, `Com`, `Rel`). `WarpBlock` is the machine: a warp takes its next step when what it
waits for is there, in any order with the others; what is marked `Tc` is handed to the
tensor cores, which do it later, in order; a copy by TMA or `cp.async` (`Tma`, `Cpa`) has
landed only when somebody waited for it. Every operation names the data the serial
algorithm has at that place, and a read that finds something else breaks `ReadsOwn`. Warps
that do the same are two: `cc1` and `cc2` are halves of the CUDA warps, each with its part
of every buffer, since that is all that "one of them has not yet" needs. Loops over tiles,
chunks or tokens are unrolled by the parameters in `WarpMC`. A read that the code separates
from a later write only by a barrier is a step of its own, so that the write of a faster
warp in between is seen. `Code` compiles the programs into what each step waits for and
touches; it is computed once, from the constant.

The second half of `WarpBlock` says what the *order of the steps* has to be, in rules that
look at programs and at no state. An event is a step of a warp, or of the tensor cores for
it. It comes after the previous step of its agent, after the step that handed it over, and
after the arrivals that complete the phases it awaits; an `order` is given by how many steps
of every agent come before each event (`clock`) and a numbering that agrees with it (`rank`),
and `HappensBefore` says that it is that order, closed. `Sound` adds that as many agents
arrive at a barrier as it counts (`WellFormed`), and that who arrives or waits knows that the
phase before is complete (`InTurn`). On a sound order there is one rule per property: fills
and releases of a stage alternate (`Alternating`); what is read was written before, after all
that came earlier, and has landed (`ReadsInOrder`); a later chunk writes only
after every read that did not wait (`PeeksInOrder`); who is awaited arrives often enough,
and not once more before the waiter has seen it (`AwaitsInOrder`); every warp ends after the
tensor cores and the last copies (`LeavesInOrder`). `WarpMC` computes an order of each
instance from its programs (`OrderOf`).

A kernel's module holds its programs and nothing else. `left` names warps that the code lets
go before the tensor cores have done all they were given: the MMA warp of the prototype
(`LinearAttn`), whose last product nobody reads.

**`SplitCall`** is a call whichever backend runs it. A state tile is named `<<i, t>>`:
sequence i taken serially up to token t. `Advance` carries such a name over a chunk only if
the chunk is one of the serial recurrence and the state is the one before it; any other
combination is `Bad`. So a wrong index, a cut inside a chunk or a state of another sequence
ends as a wrong result. `CpIsSerial` and `ModeKept` are stated here, once for all backends.
Indices count from 1, token offsets from 0. Errors are outcomes.

**`IntracardCP`** is one call of `chunk_gated_delta_rule_fwd_h`. `Decide` is the policy,
`Plan` the split, the occupancy guard and the index tables, `PreScan` and `MergeBlock(q)` the
two kernels (blocks of the merge run in any order), `Scatter`, `FwdPieces` and `Serial` the
rest. The pre-scan of a piece is the pair of its end tokens: applying its `(he, m)` to a
state is by definition the recurrence over these tokens. The code's
literals are constants; `MaxBeH` compares `Be * H`, a
quotient in the code, multiplied out.

**`SegmentCP`**: pieces are runs of whole tiles, and tile tables say which tokens a tile
holds. `PlanSegments` is either planner, `ScanSegments` the pre-scan in order of launch
(longest first, without the last segment of a sequence, whose scratch row is `Bad`: what an
earlier call left), `MergeSegments(i)` the merge block of a sequence. The last actions run K2
on the segments, or serially.

**`BoundaryCP`**: `DecideHopper` is gate and decision, `ScanTile` one preprocess tile with
the state handed on, `RunPieces` the kernel on the pieces. `Limits` gives the thresholds;
`GateMatches` compares the gate with the decision it anticipates.

**`PlanCache`.** A process is a host thread in `intracard_fwd_h`. `Lookup` and `Insert` are
the two locked sections, `Build` and `Use` lie outside the lock. Addresses are what `id()`
returns: a tensor may die (`Free`) when no call holds it, and another be born there
(`Alloc`); its weak reference in an entry remains and is then dead, which is
`ref # live[addr]`. A plan is named by the tensor and the length it was made for.
`Proceed` is the occupancy guard, which applies to found and built plans; its outcome
depends on the heads of the call, which are not part of the key (`shape.fits`).

**`KvBuffer`** computes with numbers, because what can go wrong is an identity: the
chunkwise form of the verification against the token-by-token one, and the state rebuilt
from kept keys and gates. Numbers are integers modulo a prime, in which gates can be 0 and
0 cannot be divided by. One row of a state stands for all, since rows do not interact. An
action is a call: `VerifyByRow` (KDA: buffer by row of the batch), `VerifyBySlot`
(lightning: by slot of the pool), the flushes, and `DecodeCall`. `serial` and `due` are what
token-by-token decoding would have.

**`DecodeDispatch`** has no state: `Dispatch(c)` is the launch a call leads to, through the
fast path or, if it declines, the general one, and `BlocksOf` which blocks of that launch
update a tile of a state. `DecodeCall` of `KvBuffer` applies them: a tile that no block
takes keeps its old state, one that two take is advanced twice.

**`ConvArrival`**: a process is a warp of a block. The device begins blocks in any order,
as it has room for them (`Begin`, `Resident`). `Read` and `Snapshot` read the history,
`Barrier` is `sync_threads`, `Announce` the atomic increment by warp 0, whose last arrival
does `Roll` and `Reset`. Launches of one stream follow each other; the counter belongs to
the stream on which the graph was captured (`KeyStream`), which need not be the one that
replays it.

## Runs

| run | instance | shows | states |
|---|---|---|---|
| `DynSchedCTAs` | 2 blocks, 1 lane, 1 consumer, 4 units | units handled once (`HandledOnce`) and all handled by all roles of one block when the kernel ends (`EndsComplete`); refines `WorkDispatch` with `Ahead = 2` | 118 k |
| `DynSchedSlots` | 1 block, 2 lanes, 3 consumers, 5 units | `ReadsOwnRound`, `NeverLapped`, `OverwriteAfterRead`; every thread leaves (`EventuallyExits`) | 54 k |
| `LightSched` | 2 blocks, 1 lane, 2 consumers, 4 units | `EndsComplete`, `ReadsOwnRound`, `EventuallyExits`; refines `WorkDispatch` with `Ahead = 0`: a number is taken when all work is done | 181 k |
| `DeltaHGated` | units of 2, 0, 1 chunks; gates, initial and final state, v_new; rings of 2 | types; a stage in use holds its reader's data (`StagesHeld`), a ring is never two turns apart (`FullOrEmpty`), gates are scaled once (`GatesScaledOnce`), the block is drained at exit (`DrainedAtExit`), no warps wait in a circle (`NeverStuck`), everything is written (`AllWrittenAtExit`), and the outputs refine `SerialDelta` | 470 k |
| `Warp` | 39 instances of 32 kernels | every read finds its own data (`ReadsOwn`), a ring is never two turns apart (`FullOrEmpty`), what is read without waiting is never of a later chunk (`PeeksNothingLater`), some warp can always go on (`NeverStuck`), nothing is outstanding at exit (`LeavesNothing`); the rules that `WarpBlockProof` needs hold of the 37 instances whose barriers last as long as the block (`OrderAssumption`) | 516 k |
| `WarpPeek` | the SM100 prefill kernel alone | **violated**: `PeeksOwn`, see below | |
| `Intracard` | 26,320 calls of the three backends | the result is the serial one (`CpIsSerial`); only a forced call fails and it never falls back (`ModeKept`); one split sequence always fits (`SingleSplitFits`); the Hopper gate skips no split (`GateMatches`) | 102 k |
| `IntracardForce` | the same calls | **violated**: `ForceAnswers`, see below | |
| `PlanCache` | 2 threads, 2 addresses, 4 tensors, 3 shapes, room for 2 of 4 keys | a call uses its own plan (`UsesOwnPlan`), one that fits (`UsesFittingPlan`), and what it stores is not evicted for itself (`StoredIsKept`) | 9 k |
| `KvBuffer` | 3 draft tokens, 2 slots, up to 3 rows with padding, KDA and lightning rules, modulo 5; decode calls of every form and every even split | `OutputsAreSerial`, `StateIsSerial`; a fast path launches what the general one does (`FastIsGeneral`) | 43 k |
| `DecodeTiles` | decode calls of 6 value tiles | **violated**: `StateIsSerial`, see below | |
| `ConvArrival` | 2 streams, 2 launches each, 3 blocks of 2 warps, 2 resident | a block reads the history of the launch before (`ReadsLastHistory`), which is rolled once per launch (`RolledOnce`); every launch ends (`LaunchesEnd`) | 53 k |

*Why the bounds are enough.* A slot's parity repeats after four rounds. Five units plus the
terminating number are six rounds: each slot is used three times and its parity comes round,
so that a lapped waiter would pass. Two blocks are enough for the counter, since a block sees
the others only as numbers that are missing from its own. Two lanes and three consumers
distinguish "one arrived", "some arrived" and "all arrived"; in `LightSched` one of two blocks
may take all four units, which uses each of its slots twice and brings the terminating number.
That the result does not depend on these numbers is what the proofs show.

In `DeltaH` two CUDA-core warps stand for four: they interact through counts only ("all",
"not all"). A ring of two stages wraps after three chunks, and the three units of
`DeltaHGated` have three chunks with an empty unit between, so that each ring is reused and its
producers wait for room. The kernel's own rings have up to three stages. That no number of
stages, warps, units or chunks lets the block get stuck is not left to an instance: it is the
theorem `NeverStuckAlways`. The unit sequence contains each case (several chunks, one, none)
and the changes between them. The run has every option compiled in, which gives the most
pipelines and the most waits; that a kernel compiled without gates, initial or final state,
v_new or the scheduler has the same properties, the theorems say, which hold for every setting.

In `Warp` most kernels take as many tiles, chunks or tokens as reuse the stages of their rings;
a few instances, which are there for an option, are too short for that. Each option that adds or
removes a ring or a step (initial and final state, packed sequences, persistent schedule, a zero
initial carry, staged inputs) is on in one instance and off in another. Packed instances have
units of several chunks, of one, and where the kernel admits it of none.

In `Intracard` the constants are small so that every case is within a few tokens. On SM100:
no split, pieces limited by the sub-sequence length, by the SMs and by `MaxSplits`, an empty
last piece, empty sequences, two split sequences with an unsplit one between them, batches
refused by the occupancy guard, an automatic mode whose heuristic agrees but whose split has
nothing to cut, each of the early guards as the only one that declines. An empty last piece is
no artefact of small constants: with the code's own (16, 32 splits, 152 SMs, one head) 513
chunks give pieces of 17 chunks, of which the 31st ends the sequence and the 32nd is empty.
On SM90: dense and packed calls, whole and padded tiles, both planners. On Hopper the
thresholds are the code's with tokens divided by 512 and heads by 4, the batches lie around
each of them, and up to five preprocess tiles begin with and inside sequences and pieces.

`PlanCache` has more keys than places and more tensors than addresses. A tensor name is given
again only when no address, entry or plan refers to it; two entries and the other address
take three at most, so with four names a new tensor always has one and more would add nothing.

`KvBuffer` has seven tokens: keys that are parallel, orthogonal and neither, gates that keep,
decay and erase a channel. One request verifies every draft of three of them and accepts any
number; two requests, with padding rows, verify and decode twice in turn. The thresholds of
the dispatch (4, 16, 512, 1024) are scaled so that one, two and three rows lie on both sides
of each. The identities are polynomial, so one that fails in general may hold modulo 5 at
some points, but hardly at all of the 343 drafts.

In `ConvArrival` each stream replays the graph captured on the other, so that a launch never
works with the counter of its own stream; with fewer blocks resident than there are, a block
may start after another has ended. Two launches show that the counter is handed on.

*Violated claims.* `IntracardForce` checks what `cp_mode.py` says of `FORCE`: "engage
whenever splittable, else NotSplittableError". With a batch whose sequences are all empty,
`compute_subseq_len` returns 0, `0 >= 3 * 0` asks for a split, and
`prepare_subseq_cu_seqlens` divides by zero (`cp/chunk_delta_h.py:221`). TLC's
counterexample is `cu_seqlens = [0, 0]`. In automatic mode Guard 1 declines such a batch
first, which `ModeKept` checks.

`DecodeTiles` checks `StateIsSerial` for states of 6 value tiles (V = 96). The general path of
`kda_decode` asserts that the blocks of a state divide its tiles (`cute.py:2260`); the fast
path launches without it (`cute.py:251`), as does `kda_packed_decode` (`443`, `2621`). Up to 4
rows get 4 blocks per state, each takes `6 // 4 = 1` tile (`532`), and tiles 4 and 5 keep the
state of the token before.

`WarpPeek` checks what the comments in `prefill_sm100.py` say of `k_stage_offset`, with which
the CUDA-core warps choose the stage of K that they copy: that it tracks the stage "the Load
warp wrote to for each chunk" (1692) and stays "in sync with K TMA pipeline" (1834). They count
the stage right, and that it is not refilled under them is `PeeksNothingLater`. But K's pipeline
has the MMA warp as its only consumer (1427), and nothing the CUDA-core warps wait for before
the read at 1840 comes after the copy: the first such wait, for the scores, follows it. In TLC's
counterexample they read the stage of the first chunk with its copy still on the way.

*Symmetry* permutes the CUDA-core warps in `DeltaHGated`, which checks safety and a refinement
whose abstract state is symmetric as well; runs with liveness use none. In `PlanCache` it
permutes threads, addresses and tensors, none of which is named in a property.
*Deadlock* is checked in all runs but `KvBuffer`, `DecodeTiles` and `ConvArrival`, which stop
when the bounded number of calls or launches is used up. Elsewhere the end is a stuttering
action of its own.

## Fairness

Weak fairness per thread in `DynSched` and `LightSched`. The grid of the persistent kernels has
one block per SM, so all blocks are resident; the GPU schedules resident warps independently,
and a barrier wait that has become passable stays passable until the waiter moves (that it does
is `NeverLapped`), so weak fairness is enough. No strong fairness is used and none is assumed
between blocks.

`ConvArrival` assumes less: that some block goes on while one can (`WF_vars(Progress)`). Which
one is left to the device, and blocks that are not resident may wait until others have ended.
Blocks that waited for each other would not end under it, which is what the mutant of
`LaunchesEnd` does. `Launch` has no fairness.

The programs of `WarpBlock` are finite and every step brings one forward; so are the units and
chunks of `DeltaH`, whose warps go through them in one direction and do not step while they
wait. There `NeverStuck`, a safety property, says that the block ends as long as something that
can go on does, and no fairness has to be stated.

## Proofs

All for any finite set of blocks, lanes, consumer threads and CUDA-core warps, any list of units
with any number of chunks, any number of stages per ring, every setting of the kernel's flags,
any number of keys, tensors and streams, all positive values of the split's constants, and any
modulus, channels, draft length, pool, drafts, batches and decode calls, and any programs of
warps that follow the rules. The assumptions are the named `ASSUME`s of the modules: the sets
are finite, lanes contain the leader and are disjoint from the consumers, there are blocks,
`TotalWork` is a natural number, `DynSched` also needs a consumer; in `DeltaH` there is a
CUDA-core warp, none of them is the Load, MMA, Store or empty warp, rings have stages, and a
block that is not persistent has at most one unit; the split's constants are positive and a
`cu_seqlens` starts with an entry and does not decrease; `NoTensor` is no tensor and the cache
has room for one entry; a capture stream belongs to one replaying stream; in `KvBuffer` the
modulus is at least 2, a draft has a token, a batch holds a slot once, and workloads are made of
what `IsCall`, `Drafts` and `Vector` say. `BoundaryCP` names what it needs of the thresholds,
see below, and that a preprocess tile is a number of whole chunks (`TilesAssumption`, asserted
at `cp_context.py:323`). Prefill batches start at token 0; those of the Hopper path have no
empty sequence (`NonEmptyAssumption`, a limit of the model: see the slot map under *Limits*),
those of SM100 may (SM90 refuses them). For SM90, tile minimums and manual splits are positive
(`Sm90Assumption`).

| Theorems | properties of the runs they state |
|---|---|
| `DynSchedProof` | `TypeOK`, `ReadsOwnRound`, `NeverLapped`, `OverwriteAfterRead`, `HandledOnce`, `EndsComplete`, `ImplementsDispatch` |
| `LightSchedProof` | `ReadsOwnRound`, `EndsComplete`, `ImplementsDispatch` |
| `DeltaHProof` | `TypeOK`, `FullOrEmpty`, `StagesHeld`, `GatesScaledOnce`, `DrainedAtExit`, `AllWrittenAtExit`, `ImplementsSerial`, `NeverStuck` |
| `SplitPrefillProof` | `ModeKept`, `GateMatches`, `SingleSplitFits`, `CpIsSerial` (also per backend); the arithmetic of the SM100 split |
| `PlanCacheProof` | `TypeOK`, `UsesOwnPlan`, `UsesFittingPlan`, `StoredIsKept` |
| `ConvArrivalProof` | `ReadsLastHistory`, `RolledOnce` |
| `WarpBlockProof` | `ReadsOwn`, `FullOrEmpty`, `PeeksNothingLater`, `NeverStuck`, `LeavesNothing`, of kernels that follow the rules of `WarpBlock` |
| `KvBufferProof` | `OutputsAreSerial`, `StateIsSerial`, `FastIsGeneral`; the chunkwise form, the flush and the grid of a decode call |

**`DynSchedProof`**: `TypeCorrect`, `Invariance`, `ReadsOwnRoundAlways`,
`NeverLappedAlways`, `OverwritesAfterRead`. `ReadsOwnRound` is not inductive: that a slot
holds the right number depends on who has arrived where. `IInv` adds, for every block: the
lanes are all in one round, at most one slot ahead of what is published (`LaneRounds`);
buffer index, phase bits and `first_wu` are functions of the thread's round (`LaneRegs`,
`ConsRegs`); at most two numbers are ahead of any consumer (`Window`, the back-pressure);
the slots hold the last two numbers written (`Slots`); the pending count of a barrier is the
cardinality of the set of threads that still have to arrive (`SchedBarrier`,
`ConsumedBarrier`). The wait of the Load warp is the heart: a consumed barrier that shows the
awaited parity has, by `ConsumedBarrier` and `Window`, completed the phase of two rounds ago,
so no consumer is further behind than the window allows.

What a thread has handled is, in the same states, the prefix of its CTA's numbers that its
round counts (`Histories`), which gives the refinement of `WorkDispatch` with at most two
numbers ahead (`DispatchImplemented`): a fetch is `Deal`, the work on a unit `Handle`, all
else a stutter. That dealing gives each number once (`Dealt`) is a property of the abstract
dealer; the proof modules of both schedulers show it for its behaviours and carry it over by
the refinement (`GivenOnce`). `HandledOnce` follows, since what is handled is a prefix of what is
given. For `EndsComplete`: a thread leaves on a number beyond the work list, so when all have
left, the counter is beyond it, every unit was given, and its CTA's threads handled all they
were given but the last.

**`LightSchedProof`**: `TypeCorrect`, `Invariance`, `ReadsOwnRoundAlways`, and
`DispatchImplemented`, the refinement of `WorkDispatch`. Here nothing counts arrivals; the
argument is where the threads stand. `Gathered`: while the leader is before its arrival, all
consumers wait. `Counted`: a thread's round is the number of units given, or one less if it has
not read the last. `Slotted`: slots, barrier phases and phase bits are functions of that count.
`Handling`: the units handled are a prefix of the units given, all but the last when the thread
is at work. A fetch maps to `Deal`, the work on a unit to `Handle`, and every other step to a
stutter. `EndsComplete` follows as in `DynSched`, with `Leavings`: the last number of a block
that a thread has left is beyond the work list.

**`DeltaHProof`** covers all of `DeltaH`. A parity bit tells one turn of a
ring from the next only, so the barriers alone say little; the proof counts instead.

1. A warp enters and leaves one turn of each of its pipelines per chunk (`h0`: per unit). Its
   place, which is unit, chunk and label (`Ctl`), therefore gives how many turns it has
   entered and left, `Begun` and `Done`; `Steps` says how a move of the warp changes them.
2. Of the turns 0 .. n - 1 of a ring of S stages, `Uses(n, S, s)` fall on stage s.
   `StageInv` ties the two barriers of a stage to the uses each participant has made of it:
   the phase of a barrier is completed when all participants have arrived once more, its
   pending count is the number of those that have not (`Tally`), and nobody is more than one
   turn from the barrier he waits on. Four lemmas keep it when a participant acquires, fills,
   waits or takes; lifted to a ring (`RingOK`) they need only that turns are taken in order.
3. `Core` is that with the counts of the block: rings, the copies in flight and the queue of
   the tensor cores, each of which stands for a turn entered and not yet left. Every action
   is one of a few kinds (a warp waits, reads and releases, publishes, issues a product,
   issues a copy, or moves without a barrier; TMA and tensor cores finish), and each kind
   keeps `Core`. So `CoreAlways`, and from it `FullOrEmpty`: between full and empty barrier of
   a stage there is never more than one turn.
4. `Shape` types the data. `Hold` says what a stage holds while its turn lasts: a tile that
   arrived holds the data of its turn until the Load warp is a round further, a part until
   its maker is. A consumer between wait and release is less than a round behind the
   producer, by `Core`, hence `StagesHeld`. For the gates, all warps have
   passed `gk_precompute_bar` for equally many tiles (`GateOrder`).
5. `Outs` says how many tiles of each output are written as a function of the Store warp's
   and the CUDA-core warps' places. With `Hold`, every step either writes the next tile with
   its own chunk's data, which is a step of `SerialDelta`, or writes nothing:
   `SerialImplemented`. At the end of all loops the same counts are those of complete
   outputs (`AllWrittenAlways`) and of rings with as many turns left as entered, so no copy or
   product is outstanding (`DrainedAlways`).
6. `NeverStuckAlways`. A copy or product under way can complete. If there is none, the counts
   decide what a barrier shows: a stage is free for a producer that no consumer is a round
   behind, and full for a consumer that every producer is ahead of. Of the warps in the
   earliest unit, the one that is first in the order in which a serial program would take the
   steps of a chunk trails all others, so its rings are free or full, whichever it needs. If it stands
   at `gk_precompute_bar`, by `GateOrder` every CUDA-core warp is in that place or just before
   it: all are there, or one can go on.
   When no warp is inside the earliest unit, one at its end gets the next number (`Dealt`).
   `NeverStuck` spells out when a step is possible (`Able`), since `ENABLED` is out of the
   prover's reach; that it spells it out rightly is what TLC's own deadlock check adds.

Two inductions over naturals are needed (the turns before a unit, and that data of two turns
differ); each is the argument that a set of counterexamples has no least element (`Least`).

**`SplitPrefillProof`** is about the three backends that split a call. `ModeKeptAlways`: only a
forced call raises `NotSplittableError`, and a forced call never falls back to the serial
kernel. The paths where a call leaves are walked through per backend; the one that needs an
argument is SM100, where the automatic mode would divide by a sub-sequence length of 0 if
the first guard of the heuristic did not turn away batches without tokens.

`PiecesTile` and `SingleSplitOccupancy` are about the arithmetic alone. The first: cut j is
`min(s + j * L, e)` for a multiple L of the chunk size, so cuts grow, each lies on a chunk
boundary or at the end, and `L * n` covers all chunks, so the last is the end. The second is
the docstring of `compute_subseq_len`, which argues by floor division. The proof also needs
the cases it does not mention: if the floor of the target is 2 (the maximum with 2 may exceed
the SMs), a piece is at least half of the sequence, which is then shorter than three pieces
and not split; if the target is more, the number of pieces is at most the target, hence fits.
`SingleSplitAlwaysFits` carries it over to every reachable state: if one sequence is split, it
is the longest (a longer one would be split too), all others count one piece each, and the
total is what `SingleSplitOccupancy` bounds (`OneSplitFits`).

`Sm100CpIsSerial`: what a split SM100 call returns is what the serial kernel returns, for all
batches, numbers of pieces and orders of the merge blocks. The index tables of the host are
sums and flattened sequences over the batch, for which the module first proves what it needs:
a sum over a set as a table over its subsets (`SumAt`, `SumAny`, `PrefixSums`), a flattened
sequence as its parts end to end at running offsets (`FlattenAt`, `Located`), and the ascending
list of a set (`Listed`). Then, from the kernels inwards:
- `TraceIs`, `PartIs`: the recurrence started inside a sequence with the state the serial pass
  has there goes through the serial pass's states, provided the start is a chunk boundary.
- `BoundariesAre`, `IndicesAre`: the tables say, for piece `j` of sequence `i`, where it starts and
  ends, which row of the pre-scan is its, which rows of the merge, and which piece is first or
  last. By `PiecesTile` every cut is a chunk boundary.
- `CarryIs`: a merge block that starts from the initial state of its sequence arrives at each
  piece with the serial state. `MergeStep`: it writes rows of its own only, so the invariant
  `Merging` (the rows of the blocks that have run are right) holds in any order. `ScatterStep`:
  each piece then has the serial state at its start, from the one place that writes it.
- `RowsJoin`: chunks up to a boundary and chunks from there on add up to the chunks of the
  sequence (`ChunksJoin`), so the states per chunk of all pieces, flattened, are those of the
  sequences, flattened; `LastsJoin`: the last pieces' last states are the sequences' last states.

The invariant `OnItsWay` says which of these a call has at each `pc`.

`HopperCpIsSerial` uses the lemmas on rows and chunks for any layout of pieces (`Layout`,
`Rowed`, `RowsJoin`); what differs is the tables and the boundary pass.
- `LocalFacts`, `PieceCountFacts`, `CutsAre`: a piece is a whole number of chunks and the last of a
  sequence takes the rest, so the cuts of a sequence grow from its start to its end.
- `SeqAtIs`, `RawSeqIs`, `SlotMapIs`: the sequence found by counting the starts up to a token, and
  the slot found for a chunk, are those of the piece that starts there. This needs that two
  pieces do not start in one chunk, hence that no sequence is empty and, when the call is
  split, that cuts lie at whole chunks of the packed tokens.
- `EntryIs`, `ScanStep`: a preprocess tile starts from the state its predecessor left; on its way
  it stores the serial state for every piece that starts in it. The invariant `Scanning` says
  that the starts of the tiles passed have been found; at the end of the tokens that is every
  start (`Ready`), and `RunPiecesStep` joins the pieces. `OnHopper` is the invariant by `pc`.

`Sm90CpIsSerial`: the kernels see sequences as tiles of one chunk each, in one of three layouts.
- `TileIs`: tile k of sequence i holds the same tokens in all three: dense (padded to whole tiles,
  found by division), packed with tails (by table) and packed without (by multiplication). So a
  run over consecutive tiles goes through the serial states between two chunk boundaries (`RunIs`).
- `SegCountsAre`, `SegFromIs`, `TokensAre`, `SegCutsAre`: segments of a sequence are balanced to
  within a tile and cover its tiles end to end, so the running sum of their tiles over all
  sequences cuts where the segments start.
- `LongestFirstHas`: the order of launch, longest first, has every segment exactly once.
- `SegCarryIs`, `MergeSegsStep`: the carry at a segment is the serial state at its start. The
  pre-scan leaves the rows of last segments as they were (`LastsAre`); no carry reads them.
- `RunSegsStep`, `RunSerialStep`: the output launch, split or not. `OnSm90` is the invariant by `pc`.

`CpIsSerialAlways`: all three at once, so `CpIsSerial` is an invariant of `SplitPrefill`. In all
three proofs a state is named by the sequence and the tokens it comes from (`After`), anything else
is `Bad`; that the arithmetic of the merge carries such a state over a piece is the meaning of
`Along`, not a theorem.

`GateNeverCosts`: `GateMatches` holds in every reachable state of the Hopper path, for all
batches, heads and thresholds with two inequalities (`LimitsAssumption`): two sequences with
more heads than `fewHeads` exceed the grid, and a sequence that dominates is at least
`manyTokens` long. Whether the decision fires is compared branch by branch (`FiresWhenUsed`);
the two inequalities are where the decision has a threshold the gate does not repeat. For the
code's literals they read `16 < 2 * (8 + 1)` and `8192 <= 32768`: raise the grid limit by two
and the theorem, like the gate, no longer holds. That a call's data does not change on the
way is `SameDecision`.

**`PlanCacheProof`**: `Invariance`, `UsesOwnPlanAlways`, `UsesFittingPlanAlways`. `Made`: an
entry's plan is for the tensor it refers to and the length of its key, which no step changes
after the insertion. `Held`: the tensor of a running call is alive. `Planned`: from the guard
on, a call's plan is for its own tensor and fits. A hit compares the tensors, so by `Made`
the plan found is the caller's own. `Ordered`: the order of eviction lists the keys of the
cache, each once and at most `MaxSize` of them. Between a call's lookup and its insert, other
calls may store its key (which then keeps its place) or evict anything; but an insert evicts
only if it made the order longer, and then its key is last and the victim first, so the entry
just stored stays (`StoredIsKeptAlways`).

**`ConvArrivalProof`**: `HistoryRead`, `HistoryRolledOnce`, `OneBlockRolls`, for any number of
streams, launches and blocks, any number of them resident. The inductive invariant says that
the counter is the number of blocks that have announced, as long as one has not; that the
block that found all others announced is alone beyond its announcement (`OneBlockRolls`); and
that the history is the previous launch's until this block has rolled it. A warp reads before
the barrier of its own block, whose announcement comes after it: so no roll precedes a read.

**`KvBufferProof`** shows the algebra and then the protocol.

1. *Sums and recursion.* `Sum` is a fold over a set, a recursive function is a `CHOOSE`. A
   fold is a table over subsets with one equation each (`Iterates`), and such a table exists
   and is unique for a finite set: a smallest subset without one has none (`Smallest`). In the
   same way a function whose values are made of earlier ones exists (`RecursionExists`). From
   these come linearity, congruence and the exchange of sums.
2. *The chunk.* `StateClosed`: the state after t tokens is the state before the chunk under the
   product of the gates, plus what every token added under the product of the gates after it.
   Paired with the next key (`DotClosed`, an exchange of sums over channels and over tokens),
   it gives one row of a triangular system in what the tokens add (`AddedClosed`). The chunk's
   `Correction` solves the same rows by forward substitution (`SolveRow`), so by induction
   along the tokens both add the same (`UpdatesAre`), and with queries in place of keys the
   outputs are equal: `ChunkIsSerial`. Nothing divides by a product of gates, so a gate of 0
   is no exception, and nothing needs the modulus to be prime.
3. *The flush.* The kept triplets make the recurrence again (`KeptFollows`); read from the
   last token down, with the product of the later gates alongside, they end in the same state
   (`RebuildIs`): `FlushIsSerial`, for every number m of accepted tokens.
4. *The launch.* The block index is read as three digits, a tile lies in one run of
   `tiles / blocks` tiles: `OneBlockPerTile`. Every way through the fast path is compared with
   the general path: `FastLaunchesTheSame`.
5. *The protocol.* `StateIsSerial` is not inductive: a flush uses a buffer filled long before.
   `BufferHolds` adds that until its flush the buffer of a slot holds the triplets of its
   pending draft computed from its present state; for KDA at the row of the last batch that
   has the slot, for lightning attention at the slot. It needs that a KDA flush follows the
   rows of the last verification, that a batch holds a slot once, and that whatever else
   changes a state drops the draft.

The theorems about runs have the hypothesis `SplitsEvenly`: the value tiles of every call
divide among its blocks. `KvBuffer`'s workloads satisfy it; `DecodeTiles` shows that without
it the state is not serial.

**`WarpBlockProof`** reduces the five invariants of `WarpBlock`, which speak of every
interleaving, to the rules on one order of a kernel's steps. Each theorem says: in every state
of a run whose kernel has a sound order that follows the rule, the property holds. They are
about any programs on any rings, so about any number of warps, stages, tiles, chunks and
tokens; the kernels are no longer data of the proof.

1. *Barriers count.* `Tallied`: a barrier's phase is the least number of arrivals any of its
   members has made, and its pending count the number of members that have not arrived in this
   phase. It is preserved because who arrives is, by `InTurn`, not a phase ahead.
2. *A run keeps to the order.* `Closed`: what comes before a performed step was performed. A
   step that awaits a phase by its parity bit finds it complete, since by `InTurn` the waiter
   knows the phase before to be complete and one bit tells the two apart (`ParityAwaited`);
   complete means that all who arrive have arrived that often (`PhaseReached`), which are the
   direct predecessors (`AbleOrdered`). `Counters` and `Shaped` are what these need of types.
3. *What a stage holds.* `StoredAt`: if one of the writes performed so far comes after all the
   others, its datum is there; if every copy started has landed or was written over, it has
   landed. A step that the order lets read then finds its own datum: `OrderedReadsOwn`. A
   later chunk's datum can be there only if its write was performed, so does not come after
   the read: `OrderedPeeksNothingLater`.
4. *Stages.* A full barrier that has completed f phases has an arrival of its f-th phase
   (`PhaseEvent`), before which, by `Alternating`, the empty one completed f - 1:
   `AlternatingIsFullOrEmpty`.
5. *Progress.* Of the steps not yet performed the one of the least rank has all its direct
   predecessors behind it. What it awaits is complete, and by `AwaitsInOrder` not completed once
   more, so its parity test succeeds (`DirectAble`): `OrderedNeverStuck`. If there is no such
   step, all have ended, and `LeavesInOrder` says what is left: `OrderedLeavesNothing`.

That the hypotheses hold is decided by TLC for each of the 37 instances in `Lasting`
(`OrderAssumption`); so for these the interleavings that run `Warp` also explores are covered
twice, and for larger instances the rules are enough. They do not apply to `prefill90` and
`prefill90_varlen`: the Hopper prefill kernel initialises its barriers anew for every tile
(`renew`), and a barrier that starts over has no phase to count.

TLC checked the inductive invariants too (that of `WarpBlockProof` aside, which quantifies over
all orders): on the instances of the runs (in `SplitPrefillProof`, quantifiers like
`\E m : merged = m` were given the value as their bound), and those of
`DeltaHProof`, whose evaluation is slow, on all states of a unit of two chunks and of an empty
unit before one of one chunk, with the settings of `DeltaHGated`.

## Limits

*Only model-checked*, and why:
- liveness (`EventuallyExits`, `LaunchesEnd`): out of the prover's reach, like `ENABLED`;
- that the kernels follow the rules of `WarpBlock`: the programs are data, their loops
  unrolled by recursive definitions, so TLC evaluates the rules for each instance and no
  theorem states them for every number of tiles; the five invariants for `prefill90` and
  `prefill90_varlen`, whose barriers are renewed.

What holds by induction over data is proved where the data are numbers, tokens or subsets of a
finite set, as the absence of a smallest counterexample (`Least`, `Smallest`); the induction
theorems of the library take an operator, which the provers cannot instantiate.

*Abstracted*: the numbers inside a tile (masking of the rows of a tail chunk, the clamp of
gk, precision, swizzles and layouts); lanes inside a warp in `DeltaH` and `WarpBlock`; the
separate waits of an MMA warp for its operands and its accumulator where nothing else of that
warp lies between them; memory-proxy fences (the barriers are assumed to order the accesses
they guard, as the fences next to them provide). In `IntracardCP`: v_new, which the kernel
writes per token and no table touches; `H = HV`; a batch has at least one sequence and starts
at token 0, as `cu_seqlens` does. In `BoundaryCP` sequences are not empty: two pieces that
start in one chunk would share a slot of the slot map. In `PlanCache`: contents of a tensor do
not change in place; when the caching allocator reuses the memory of evicted tables.

`DecodeDispatch` assumes what a caller has to provide: `HV` is a multiple of `H`, `A_log` has
one value per value head, the states and their indices are given, no two rows share a slot,
and a padding row has a negative index. A shape none of the paths knows raises. A KDA flush
accepts at least one token per row. `ConvArrival` assumes that a graph captured on a stream is
not replayed on two at once.

In the SM100 prefill kernel the CUDA warps read K without a wait of their own
(`prefill_sm100.py:1840`). That no later chunk is found there is `PeeksNothingLater`. No order
in the code has the copy landed by then, which is `WarpPeek`; how long the copy takes against
what the warps do before is a matter of timing, which no model here has.

In the linear-attention prototype the barrier before `tmem.free`
(`linear_attn_prototype.py:1432`) gathers the warps. The product that accumulates the state in
the last chunk (1121-1138) is handed to the tensor cores and waited for only at the start of a
next chunk, so the memory may be freed while it is under way. Nothing reads its result;
`LeavesNothing` excuses this one warp (`left`) and checks all others.

*Not modelled*: the fused kernel's mode without `safe_gate`, in which the CUDA warps build and
invert kk themselves (`kda_fully_fused_wip.py:3241`); compile caches and autotuned variants; workspace
and metadata caches per stream (`sm90/fwd.py`), the table cache of `cp_context.py`, and
whatever depends on when the caching allocator gives memory away, since the allocator is not
in this repository and these caches do nothing to restrain it; components 9 (but for
`kv_store`), 10, 11 and 13, for the reasons given there.

## Plan

Done: the refinement of `WorkDispatch` by `DynSched`, the contract of rings of any number of
stages and all safety properties of `DeltaH` on it, the order of eviction in `PlanCache`, the
chunkwise form and the flush of `KvBuffer` against decoding token by token, the invariants of
`WarpBlock` from rules on the order of steps, and the splits of all three backends against the
serial kernel.
What is left, in this order; each step is a module, its runs and, where noted, its theorems.

1. `KdaFused`: the mode without `safe_gate`. `OrderedMath` (component 9): the hand-over
   between math warp groups of the SM90 main loop.
2. Rules for barriers that are renewed, for the Hopper prefill kernel; the rules of a kernel for
   every number of tiles, from the period of its loops.
3. Rows of a tail chunk as a second kind of data in `DeltaH`, so that masking is visible.
4. `StreamCache`: arenas and tables keyed by stream, in-place changes of `cu_seqlens`, given
   a model of the caching allocator; `LazyLoad` (component 11).
