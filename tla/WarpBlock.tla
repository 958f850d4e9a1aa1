----------------------------- MODULE WarpBlock -----------------------------
(***************************************************************************)
(* One thread block running a warp-specialised kernel (see WarpProgram).   *)
(* Every warp is a process that runs its program.  The tensor cores are    *)
(* processes too: a warp hands them operations (Tc), and they perform them *)
(* in that order, later.  A copy by TMA or cp.async has landed when        *)
(* somebody has waited for it; until then its stage holds nothing to be    *)
(* relied on.  Which kernel the block runs is chosen in Init.              *)
(***************************************************************************)
EXTENDS WarpProgram, FiniteSets, Mbarrier

CONSTANT Kernels        \* [name -> kernel]

VARIABLES
    kernel,     \* the name of the kernel that runs
    pc,         \* [warp]: its next step
    tc,         \* [warp]: how many of its hand-overs the tensor cores did
    ring,       \* [ring][full, empty][stage]: the barriers
    cell        \* [ring][stage][part]: what is in the memory of the stage

vars == <<kernel, pc, tc, ring, cell>>

-----------------------------------------------------------------------------
(***************************************************************************)
(* A program as the actions take it: for each step the turns at which it   *)
(* waits and the stages it touches.  A warp works on the stage it acquired *)
(* or waited for last; its n-th signal on a ring is for the n-th stage.    *)
(* All this is computed once, from the constant.                           *)
(***************************************************************************)
Places(p) == UNION {{i} \X DOMAIN p[i] : i \in DOMAIN p}
OpAt(p, a) == p[a[1]][a[2]]

Before(b, a) == b[1] < a[1] \/ (b[1] = a[1] /\ b[2] < a[2])

\* How many operations with one of these names precede place a on its ring,
\* since the warp restarted to count.
Earlier(p, a, names) ==
    LET before == {b \in Places(p) : Before(b, a) /\ OpAt(p, b).on = OpAt(p, a).on}
        restarts == {b \in before : OpAt(p, b).op \in Restarts}
    IN Cardinality({b \in before : /\ OpAt(p, b).op \in names
                                   /\ \A c \in restarts : Before(c, b)})

Turn(p, a) ==
    IF OpAt(p, a).op \in Signals \cup Waits
    THEN Earlier(p, a, CASE OpAt(p, a).op \in {"com", "tma"}  -> {"com", "tma"}
                         [] OpAt(p, a).op \in {"acq", "skip"} -> {"acq", "skip"}
                         [] OTHER -> {OpAt(p, a).op})
    ELSE Earlier(p, a, Waits) - 1

StageAt(k, p, a) ==
    IF OpAt(p, a).at >= 0 THEN OpAt(p, a).at
    ELSE IF k.ring[OpAt(p, a).on].fulls = 0 THEN 0
    ELSE StageOf(Turn(p, a), k.ring[OpAt(p, a).on].stages)

\* Step i of program p: what the warp does itself, or what it hands over.
Compile(k, p, i, handed) ==
    LET places(name) == {<<i, j>> : j \in {m \in DOMAIN p[i] :
                            p[i][m].op = name /\ p[i][m].tc = handed}}
        on(names) == {OpAt(p, a).on : a \in UNION {places(n) : n \in names}}
        turns(name) == {<<OpAt(p, a).on, Turn(p, a)>> : a \in places(name)}
        stages(name) == {<<OpAt(p, a).on, StageAt(k, p, a)>> : a \in places(name)}
        data(name) == {<<OpAt(p, a).on, StageAt(k, p, a), OpAt(p, a).x>> :
                          a \in places(name)}
    IN [step |-> i, acq |-> turns("acq"), wait |-> turns("wait"),
        waited |-> stages("wait"), landed |-> stages("land"),
        use |-> data("use"), mine |-> data("mine"), peek |-> data("peek"),
        put |-> data("put"), fill |-> data("fill"),
        tma |-> data("tma"), cpa |-> data("cpa"),
        com |-> stages("com") \cup stages("tma"), rel |-> stages("rel"),
        renew |-> on({"renew"}),
        signals |-> on(Signals), changes |-> on(Changes)]

Compiled(k, handed) ==
    [w \in DOMAIN k.prog |->
        LET p == k.prog[w]
            Has(i) == handed => \E j \in DOMAIN p[i] : p[i][j].tc
        IN <<>> \o [n \in 1 .. Cardinality({i \in DOMAIN p : Has(i)}) |->
              Compile(k, p, CHOOSE i \in DOMAIN p : Has(i) /\
                  Cardinality({h \in 1 .. i : Has(h)}) = n, handed)]]

\* What the actions need of a kernel.
CodeOf(k) ==
    [todo |-> Compiled(k, FALSE), handed |-> Compiled(k, TRUE), shape |-> k.ring,
     parts |-> [w \in DOMAIN k.prog |->
                   IF w \in DOMAIN k.part THEN {k.part[w]} ELSE Parts],
     left |-> IF "left" \in DOMAIN k THEN k.left ELSE {}]
CodeOfAll(kernels) == [name \in DOMAIN kernels |-> CodeOf(kernels[name])]
Code == CodeOfAll(Kernels)

\* Below, k is the code of the kernel that runs.
Running == {Code[kernel]}
Rings(k) == DOMAIN k.shape
Warps(k) == DOMAIN k.todo

\* A step waits, then reads, then writes and signals.
ASSUME KernelsAssumption ==
    \A name \in DOMAIN Kernels : \A w \in DOMAIN Kernels[name].prog :
        \A i \in DOMAIN Kernels[name].prog[w] :
            LET step == Kernels[name].prog[w][i]
            IN \A j, l \in DOMAIN step : j < l =>
                  /\ step[l].op \in Waits => step[j].op \in Waits
                  /\ step[l].op \in Reads => step[j].op \in Waits \cup Reads \cup {"land"}

-----------------------------------------------------------------------------
Fresh(shape) == PipeInit(shape.stages, shape.fulls, shape.empties)

Init ==
    /\ kernel \in DOMAIN Kernels
    /\ \E k \in Running :
          /\ pc = [w \in Warps(k) |-> 1]
          /\ tc = [w \in Warps(k) |-> 0]
          /\ ring = [r \in Rings(k) |-> Fresh(k.shape[r])]
          /\ cell = [r \in Rings(k) |-> [s \in 0 .. k.shape[r].stages - 1 |->
                       [i \in Parts |-> [x |-> Nothing, landed |-> TRUE]]]]

Ready(k, do) ==
    /\ \A o \in do.acq : CanAcquire(ring[o[1]], o[2], k.shape[o[1]].stages)
    /\ \A o \in do.wait : CanConsume(ring[o[1]], o[2], k.shape[o[1]].stages)

Signalled(k, do, r) ==
    [full |-> [s \in DOMAIN ring[r].full |->
        IF <<r, s>> \in do.com THEN MbarArrive(ring[r].full[s], k.shape[r].fulls)
                               ELSE ring[r].full[s]],
     empty |-> [s \in DOMAIN ring[r].empty |->
        IF <<r, s>> \in do.rel THEN MbarArrive(ring[r].empty[s], k.shape[r].empties)
                               ELSE ring[r].empty[s]]]

Of(data, r, s) == {o[3] : o \in {d \in data : d[1] = r /\ d[2] = s}}

\* What a step leaves in part i of a stage: a copy that it waited for has
\* landed, a copy that it starts has not.
Left(k, w, do, r, s, i) ==
    LET mine == i \in k.parts[w]
        written == Of(do.fill, r, s) \cup IF mine THEN Of(do.put, r, s) ELSE {}
        started == Of(do.tma, r, s) \cup IF mine THEN Of(do.cpa, r, s) ELSE {}
    IN IF written # {} THEN [x |-> CHOOSE x \in written : TRUE, landed |-> TRUE]
       ELSE IF started # {} THEN [x |-> CHOOSE x \in started : TRUE, landed |-> FALSE]
       ELSE [cell[r][s][i] EXCEPT !.landed = @ \/ <<r, s>> \in do.waited
                                             \/ (mine /\ <<r, s>> \in do.landed)]

Perform(k, w, do) ==
    /\ ring' = [r \in Rings(k) |->
          IF r \in do.renew THEN Fresh(k.shape[r])
          ELSE IF r \in do.signals THEN Signalled(k, do, r) ELSE ring[r]]
    /\ cell' = [r \in Rings(k) |->
          IF r \in do.changes
          THEN [s \in DOMAIN cell[r] |-> [i \in Parts |-> Left(k, w, do, r, s, i)]]
          ELSE cell[r]]

Todo(k, w) == k.todo[w][pc[w]]
CanStep(k, w) == pc[w] <= Len(k.todo[w]) /\ Ready(k, Todo(k, w))

Handed(k, w) == k.handed[w][tc[w] + 1]
CanExecute(k, w) == tc[w] < Len(k.handed[w]) /\ Handed(k, w).step < pc[w]

\* A warp performs its next step.
Step(k, w) ==
    /\ CanStep(k, w)
    /\ Perform(k, w, Todo(k, w))
    /\ pc' = [pc EXCEPT ![w] = @ + 1]
    /\ UNCHANGED <<kernel, tc>>

\* The tensor cores perform what a warp handed them first.
Execute(k, w) ==
    /\ CanExecute(k, w)
    /\ Perform(k, w, Handed(k, w))
    /\ tc' = [tc EXCEPT ![w] = @ + 1]
    /\ UNCHANGED <<kernel, pc>>

AllDone(k) == \A w \in Warps(k) : /\ pc[w] > Len(k.todo[w])
                                  /\ tc[w] = Len(k.handed[w])
Terminating(k) == AllDone(k) /\ UNCHANGED vars

Progress(k) == \E w \in Warps(k) : Step(k, w) \/ Execute(k, w)
Next == \E k \in Running : Progress(k) \/ Terminating(k)

Spec == Init /\ [][Next]_vars

-----------------------------------------------------------------------------
(***************************************************************************)
(* What the order of the steps has to be for all of this to go well, as    *)
(* rules to be read off the programs: nothing below looks at a state.  An  *)
(* event is a step of an agent: of a warp, or of the tensor cores for it.  *)
(* "full" is the barrier of a stage at which its committers arrive and for *)
(* which its consumers wait, "empty" the one of its releasers.             *)
(***************************************************************************)
Sides == {"full", "empty"}
Arrives(do, b) == IF b = "full" THEN do.com ELSE do.rel
Needs(k, r, b) == IF b = "full" THEN k.shape[r].fulls ELSE k.shape[r].empties
StagesOf(k, r) == 0 .. k.shape[r].stages - 1

Agents(k) == Warps(k) \X {"warp", "tensor"}
Acts(k, a) == IF a[2] = "warp" THEN k.todo[a[1]] ELSE k.handed[a[1]]
Events(k) == UNION {{a} \X (1 .. Len(Acts(k, a))) : a \in Agents(k)}
Act(k, e) == Acts(k, e[1])[e[2]]

\* Which of the first n steps of a arrive at this barrier; event e does so for
\* the use of the stage that UseAt tells.
Arrivals(k, a, r, b, s, n) == {i \in 1 .. n : <<r, s>> \in Arrives(Acts(k, a)[i], b)}
ArrivesAt(k, e, r, b, s) == <<r, s>> \in Arrives(Act(k, e), b)
UseAt(k, e, r, b, s) == Cardinality(Arrivals(k, e[1], r, b, s, e[2] - 1))
Members(k, r, b, s) == {a \in Agents(k) : Arrivals(k, a, r, b, s, Len(Acts(k, a))) # {}}

\* The phases a warp waits for: <<r, b, s, n>> for barrier b of stage s of ring
\* r to have completed n of them.
Awaits(k, e) ==
    IF e[1][2] = "warp"
    THEN {<<o[1], "empty", o[2] % k.shape[o[1]].stages, o[2] \div k.shape[o[1]].stages>> :
             o \in Act(k, e).acq}
         \cup
         {<<o[1], "full", o[2] % k.shape[o[1]].stages, o[2] \div k.shape[o[1]].stages + 1>> :
             o \in Act(k, e).wait}
    ELSE {}

\* The events that are performed before e, and just so: the one before it, the
\* one that handed it over, and the arrivals that complete the phases awaited.
Direct(k, e) ==
    {d \in Events(k) :
        \/ d = <<e[1], e[2] - 1>>
        \/ e[1][2] = "tensor" /\ d = << <<e[1][1], "warp">>, Act(k, e).step>>
        \/ \E g \in Awaits(k, e) : /\ ArrivesAt(k, d, g[1], g[2], g[3])
                                   /\ UseAt(k, d, g[1], g[2], g[3]) + 1 = g[4]}

\* An order of the events: clock[e][a] steps of a come before e, and rank
\* numbers the events.
Precedes(order, d, e) == d[2] <= order.clock[e][d[1]]

HappensBefore(k, order) == \A e \in Events(k) :
    LET direct == Direct(k, e) IN
    /\ \A d \in direct : order.rank[d] < order.rank[e]
    /\ order.rank[e] \in Nat
    /\ \A a \in Agents(k) :
          /\ order.clock[e][a] \in Nat
          /\ order.clock[e][a] > 0 =>
                \E d \in direct : \/ d[1] = a /\ order.clock[e][a] <= d[2]
                                  \/ order.clock[e][a] <= order.clock[d][a]

\* All who arrive have arrived n times, if of each agent a the first done[a]
\* steps are behind it.
Arrived(k, r, b, s, n, done) ==
    LET members == Members(k, r, b, s) IN
    /\ n > 0 => members # {}
    /\ \A m \in members : Cardinality(Arrivals(k, m, r, b, s, done[m])) >= n

\* What is behind the agents when e is the next event of its agent.
Known(k, order, e) ==
    [a \in Agents(k) |-> IF a = e[1] THEN e[2] - 1
                         ELSE IF e[2] = 1 THEN 0 ELSE order.clock[<<e[1], e[2] - 1>>][a]]

\* Who arrives does so in the phase after the one that is complete; who waits
\* knows that the phase before the awaited one is complete.
InTurn(k, order) == \A e \in Events(k) :
    /\ \A b \in Sides : \A o \in Arrives(Act(k, e), b) :
          Arrived(k, o[1], b, o[2], UseAt(k, e, o[1], b, o[2]), order.clock[e])
    /\ \A g \in Awaits(k, e) :
          g[4] = 0 \/ Arrived(k, g[1], g[2], g[3], g[4] - 1, Known(k, order, e))

\* As many agents arrive at a barrier as complete it.
WellFormed(k) ==
    /\ IsFiniteSet(Warps(k))
    /\ \A w \in Warps(k) : k.parts[w] \subseteq Parts
    /\ \A r \in Rings(k) :
          /\ k.shape[r].stages \in Nat \ {0}
          /\ \A b \in Sides : Needs(k, r, b) \in Nat
          /\ k.shape[r].empties > 0 => k.shape[r].fulls > 0
          /\ \A b \in Sides, s \in StagesOf(k, r) :
                Members(k, r, b, s) # {} => Cardinality(Members(k, r, b, s)) = Needs(k, r, b)
    /\ \A a \in Agents(k) : Len(Acts(k, a)) \in Nat
    /\ \A e \in Events(k) : LET do == Act(k, e) IN
          /\ e[1][2] = "tensor" => do.step \in 1 .. Len(k.todo[e[1][1]])
          /\ do.renew = {}
          /\ \A b \in Sides : \A o \in Arrives(do, b) :
                o[1] \in Rings(k) /\ o[1] \in do.signals /\ o[2] \in StagesOf(k, o[1])
          /\ \A o \in do.acq : /\ o[1] \in Rings(k) /\ o[2] \in Nat
                               /\ Needs(k, o[1], "empty") > 0
          /\ \A o \in do.wait : /\ o[1] \in Rings(k) /\ o[2] \in Nat
                                /\ Needs(k, o[1], "full") > 0

Sound(k, order) == WellFormed(k) /\ HappensBefore(k, order) /\ InTurn(k, order)

\* A stage is filled after it was emptied and emptied after it was filled.
Alternating(k, order) ==
    \A r \in Rings(k) : k.shape[r].empties > 0 =>
        \A s \in StagesOf(k, r) : \A e \in Events(k) :
            /\ ArrivesAt(k, e, r, "full", s) =>
                  Arrived(k, r, "empty", s, UseAt(k, e, r, "full", s), order.clock[e])
            /\ ArrivesAt(k, e, r, "empty", s) =>
                  Arrived(k, r, "full", s, UseAt(k, e, r, "empty", s) + 1, order.clock[e])

\* What an event writes to part p of a stage, at once or with a copy that has
\* to land, and whether a copy has landed after it.
PutBy(k, e, r, s, p) ==
    Of(Act(k, e).fill, r, s)
    \cup IF p \in k.parts[e[1][1]] THEN Of(Act(k, e).put, r, s) ELSE {}
WrittenBy(k, e, r, s, p) ==
    PutBy(k, e, r, s, p) \cup Of(Act(k, e).tma, r, s)
    \cup IF p \in k.parts[e[1][1]] THEN Of(Act(k, e).cpa, r, s) ELSE {}
LandsBy(k, e, r, s, p) ==
    \/ <<r, s>> \in Act(k, e).waited
    \/ p \in k.parts[e[1][1]] /\ <<r, s>> \in Act(k, e).landed
Writers(k, r, s, p) == {e \in Events(k) : WrittenBy(k, e, r, s, p) # {}}

\* A copy that c started is settled at e: it has landed or been written over.
SettledAt(k, order, c, e, r, s, p) ==
    \/ PutBy(k, c, r, s, p) # {}
    \/ \E g \in Events(k) : /\ Precedes(order, c, g) /\ Precedes(order, g, e)
                            /\ LandsBy(k, g, r, s, p) \/ WrittenBy(k, g, r, s, p) # {}

Behind(k, order, e, r, s, p) ==
    {c \in Writers(k, r, s, p) : c # e /\ ~Precedes(order, e, c)}

\* e finds x there: it was written before, all else that is not written later
\* was written before that, and it has landed.
FindsInOrder(k, order, e, r, s, p, x) ==
    LET behind == Behind(k, order, e, r, s, p) IN
    /\ \E d \in behind :
          /\ Precedes(order, d, e) /\ WrittenBy(k, d, r, s, p) = {x}
          /\ \A c \in behind : Precedes(order, c, d) \/ WrittenBy(k, c, r, s, p) = {x}
    /\ <<r, s>> \in Act(k, e).waited
       \/ \A c \in behind : SettledAt(k, order, c, e, r, s, p)

ChangesSeen(k) == \A e \in Events(k) : \A r \in Rings(k) :
    r \notin Act(k, e).changes =>
        \A s \in StagesOf(k, r), p \in Parts :
            WrittenBy(k, e, r, s, p) = {} /\ ~LandsBy(k, e, r, s, p)

ReadsInOrder(k, order) ==
    /\ ChangesSeen(k)
    /\ \A e \in Events(k) :
          /\ \A o \in Act(k, e).use \cup Act(k, e).mine :
                o[1] \in Rings(k) /\ o[2] \in StagesOf(k, o[1])
          /\ \A o \in Act(k, e).use : \A p \in Parts :
                FindsInOrder(k, order, e, o[1], o[2], p, o[3])
          /\ \A o \in Act(k, e).mine : \A p \in k.parts[e[1][1]] :
                FindsInOrder(k, order, e, o[1], o[2], p, o[3])

PeeksInOrder(k, order) ==
    /\ ChangesSeen(k)
    /\ \A e \in Events(k) : \A o \in Act(k, e).peek :
          /\ o[1] \in Rings(k) /\ o[2] \in StagesOf(k, o[1])
          /\ \A p \in Parts : \A c \in Behind(k, order, e, o[1], o[2], p) :
                \A x \in WrittenBy(k, c, o[1], o[2], p) : x[1] <= o[3][1]

\* Who is awaited arrives often enough, and not once more before the waiter has
\* seen it.
AwaitsInOrder(k, order) == \A e \in Events(k) : \A g \in Awaits(k, e) :
    LET members == Members(k, g[1], g[2], g[3]) IN
    /\ members = {} => g[4] = 0
    /\ \A m \in members :
          Cardinality(Arrivals(k, m, g[1], g[2], g[3], Len(Acts(k, m)))) >= g[4]
    /\ members # {} =>
          \E m \in members : \A j \in 1 .. Len(Acts(k, m)) :
              ArrivesAt(k, <<m, j>>, g[1], g[2], g[3])
              /\ UseAt(k, <<m, j>>, g[1], g[2], g[3]) = g[4]
                  => <<m, j>> = e \/ Precedes(order, e, <<m, j>>)

\* A warp ends after the tensor cores did; in the end nothing is under way.
LeavesInOrder(k, order) ==
    /\ ChangesSeen(k)
    /\ \A w \in Warps(k), v \in Warps(k) \ k.left : Len(k.handed[v]) > 0 =>
          /\ Len(k.todo[w]) > 0
          /\ Precedes(order, << <<v, "tensor">>, Len(k.handed[v])>>,
                             << <<w, "warp">>, Len(k.todo[w])>>)
    /\ \A r \in Rings(k) : \A s \in StagesOf(k, r) :
          /\ \A p \in Parts : \A c \in Writers(k, r, s, p) :
                \/ PutBy(k, c, r, s, p) # {}
                \/ \E g \in Events(k) :
                      /\ Precedes(order, c, g)
                      /\ LandsBy(k, g, r, s, p) \/ WrittenBy(k, g, r, s, p) # {}
          /\ k.shape[r].empties > 0 => \A b \in Sides : \A m, n \in Members(k, r, b, s) :
                Cardinality(Arrivals(k, m, r, b, s, Len(Acts(k, m))))
                  = Cardinality(Arrivals(k, n, r, b, s, Len(Acts(k, n))))

-----------------------------------------------------------------------------
Finds(do, o, parts) ==
    \A i \in parts :
        /\ cell[o[1]][o[2]][i].x = o[3]
        /\ cell[o[1]][o[2]][i].landed \/ <<o[1], o[2]>> \in do.waited
FindsAll(k, w, do) == /\ \A o \in do.use : Finds(do, o, Parts)
                      /\ \A o \in do.mine : Finds(do, o, k.parts[w])

\* What a warp or the tensor cores read has landed and is what the serial
\* algorithm has at that place: no copy, product or write of another warp came
\* too late or too early.
ReadsOwn ==
    \A k \in Running : \A w \in Warps(k) :
        /\ CanStep(k, w) => FindsAll(k, w, Todo(k, w))
        /\ CanExecute(k, w) => FindsAll(k, w, Handed(k, w))

\* A stage is full or empty: its producers are never two rounds ahead of its
\* consumers nor behind them, so that one parity bit tells a waiter enough.
FullOrEmpty ==
    \A k \in Running : \A r \in Rings(k) : k.shape[r].empties > 0 =>
        \A s \in DOMAIN ring[r].full :
            ring[r].full[s].phase - ring[r].empty[s].phase \in {0, 1}

\* What is read without waiting is never of a later chunk: the stage that the
\* warp counted for itself cannot be refilled before the warp gives it back.
PeeksNothingLater ==
    \A k \in Running : \A w \in Warps(k) : CanStep(k, w) =>
        \A o \in Todo(k, w).peek : \A i \in Parts :
            LET found == cell[o[1]][o[2]][i].x
            IN found = Nothing \/ found[1] <= o[3][1]

\* "Used to track which K SMEM stage ... the Load warp wrote to for each chunk",
\* "staying in sync with K TMA pipeline" (prefill_sm100.py:1692, :1834): what a
\* warp reads from the stage it counted is its own chunk's copy, and it is there.
PeeksOwn ==
    \A k \in Running : \A w \in Warps(k) : CanStep(k, w) =>
        \A o \in Todo(k, w).peek : Finds(Todo(k, w), o, Parts)

\* Some warp can go on until all have ended.  A step brings a program forward
\* that has an end, so every block exits.
NeverStuck ==
    \A k \in Running :
        AllDone(k) \/ \E w \in Warps(k) : CanStep(k, w) \/ CanExecute(k, w)

\* When the first warp leaves, the tensor cores have done all they were given,
\* for the tensor memory is freed; when the last one has left, every copy has
\* landed and no stage is half full or half empty.
LeavesNothing == \A k \in Running :
    /\ (\E w \in Warps(k) : pc[w] > Len(k.todo[w])) =>
           \A w \in Warps(k) \ k.left : tc[w] = Len(k.handed[w])
    /\ AllDone(k) => \A r \in Rings(k) :
           /\ \A s \in DOMAIN cell[r] : \A i \in Parts : cell[r][s][i].landed
           /\ k.shape[r].empties > 0 =>
                 \A s \in DOMAIN ring[r].full :
                    /\ ring[r].full[s].pending = k.shape[r].fulls
                    /\ ring[r].empty[s].pending = k.shape[r].empties
=============================================================================
