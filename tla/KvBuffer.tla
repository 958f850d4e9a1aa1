------------------------------ MODULE KvBuffer ------------------------------
(***************************************************************************)
(* Speculative decoding with a key-value buffer.  A verify kernel computes *)
(* the outputs of T draft tokens as one chunk from the state before them   *)
(* and keeps what each token adds in a buffer; once the sampler knows how  *)
(* many tokens are accepted, a flush advances the state by those           *)
(* (src/cula/ops/kda/decode/mtp_kvbuffer.py for KDA,                       *)
(* src/cula/lightning/la_*_kvbuffer.py for lightning attention).  Between  *)
(* verifications a KDA batch may also decode one token of every request:   *)
(* which blocks then update a row of a state is for DecodeDispatch to say. *)
(*                                                                         *)
(* The rows of a state (its value channels) do not interact; this is one   *)
(* of them, and numbers are integers modulo P: the identities between the  *)
(* chunkwise and the serial form hold in any field.  Tokens count from 1.  *)
(***************************************************************************)
EXTENDS Integers, Sequences, FiniteSetsExt, DecodeDispatch

CONSTANTS
    P,          \* a prime
    Channels,   \* of a key
    T,          \* draft tokens of a request
    Slots,      \* of the state pool
    NoSlot,     \* the index of a padding row of a batch
    Workloads,  \* [rule, decay, states, batches, drafts, calls, rounds]: see Init
    Calls(_)    \* the calls a workload names

Zp == 0 .. P - 1
Vector == [Channels -> Zp]
TokenRecord == [k : Vector, q : Vector, g : Vector, beta : Zp, v : Zp]
Drafts == [1 .. T -> TokenRecord]

\* The rows of a batch that are no padding; each has a slot of its own.
Rows(b) == {r \in DOMAIN b : b[r] # NoSlot}
IsBatch(b) ==
    /\ b \in Seq(Slots \cup {NoSlot})
    /\ \A r, q \in Rows(b) : b[r] = b[q] => r = q

ASSUME KvBufferAssumption ==
    /\ P \in Nat \ {0, 1} /\ T \in Nat \ {0} /\ NoSlot \notin Slots
    /\ IsFiniteSet(Channels)

ASSUME WorkloadsAssumption ==
    \A w \in Workloads :
        /\ w.rule \in {"kda", "lightning"}
        /\ w.decay \in Zp
        /\ w.rounds \in Nat
        /\ w.states \in SUBSET Vector
        /\ w.drafts \in SUBSET Drafts
        /\ \A b \in w.batches : IsBatch(b)
        /\ \A c \in Calls(w.calls) : IsCall(c)

M(x) == x % P
Total(f, S) == FoldFunctionOnSet(+, 0, f, S)
Sum(f, S) == M(Total(f, S))
Dot(x, y) == Sum([c \in Channels |-> x[c] * y[c]], Channels)

VARIABLES
    work,       \* the workload that bounds what is enumerated
    pool,       \* [slot -> channels -> number]: the states
    buffer,     \* [place -> what the tokens verified there add]
    batch,      \* the rows of the last verification: a slot each
    out,        \* [row]: the outputs of the last verification or decoding
    asked,      \* the calls that decoded a token: the last one, or none
    rounds,     \* how many verifications and decodings there were
    draft,      \* history, [slot]: tokens verified and not yet flushed
    serial,     \* history, [slot]: the state by decoding token by token
    due         \* history, [row]: the outputs by decoding token by token

vars == <<work, pool, buffer, batch, out, asked, rounds, draft, serial, due>>

-----------------------------------------------------------------------------
(* Token by token.  A token is [k, q, g, beta, v]. *)

Gate(x, c) == IF work.rule = "kda" THEN x.g[c] ELSE work.decay

Decayed(s, x) == [c \in Channels |-> M(Gate(x, c) * s[c])]
Delta(s, x) == IF work.rule = "kda" THEN M(x.beta * (x.v - Dot(s, x.k))) ELSE x.v
Decode(s, x) ==
    LET d == Decayed(s, x)
    IN [c \in Channels |-> M(d[c] + Delta(d, x) * x.k[c])]

\* The state after the first n tokens of xs.
After(s, xs, n) ==
    LET state[i \in 0 .. n] == IF i = 0 THEN s ELSE Decode(state[i - 1], xs[i])
    IN state[n]
Outputs(s, xs) == [t \in DOMAIN xs |-> Dot(After(s, xs, t), xs[t].q)]

-----------------------------------------------------------------------------
(* As one chunk. *)

\* The product of the gates after token i up to token t.
Ratio(xs, t, i, c) ==
    LET prod[j \in i .. t] == IF j = i THEN 1 ELSE M(prod[j - 1] * Gate(xs[j], c))
    IN prod[t]

\* Mutant of DecayRatio: the quotient of the cumulative products, which the
\* kernel computed before a product of gates could be 0.
InverseOf(x) == IF x = 0 THEN 0 ELSE CHOOSE y \in Zp : M(x * y) = 1
DecayQuotient(xs, t, i, c) == M(Ratio(xs, t, 0, c) * InverseOf(Ratio(xs, i, 0, c)))

\* An ordered product: nothing is divided by a product of gates.
DecayRatio(xs, t, i, c) == Ratio(xs, t, i, c)

\* A for x the key of token t, P for its query.
Pair(xs, x, t, i) ==
    Sum([c \in Channels |-> x[c] * xs[i].k[c] * DecayRatio(xs, t, i, c)], Channels)

\* What the state before the chunk contributes to token t.
FromState(s, xs, x, t) ==
    Sum([c \in Channels |-> s[c] * x[c] * Ratio(xs, t, 0, c)], Channels)

\* W = L^-1 diag(beta), row by row.
Correction(xs) ==
    LET w[t \in 1 .. T] == [j \in 1 .. T |->
            LET before == [i \in 1 .. t - 1 |-> Pair(xs, xs[t].k, t, i) * w[i][j]]
            IN M(xs[t].beta * ((IF t = j THEN 1 ELSE 0) - Sum(before, 1 .. t - 1)))]
    IN w

\* u = W (v - S0 kdec) for KDA; lightning attention adds v as it is.
Updates(s, xs) ==
    IF work.rule = "kda"
    THEN LET w == Correction(xs)
             x == [t \in 1 .. T |-> xs[t].v - FromState(s, xs, xs[t].k, t)]
         IN [t \in 1 .. T |-> Sum([i \in 1 .. t |-> w[t][i] * x[i]], 1 .. t)]
    ELSE [t \in 1 .. T |-> xs[t].v]

ChunkOutputs(s, xs) ==
    LET u == Updates(s, xs)
    IN [t \in 1 .. T |->
            LET from == [i \in 1 .. t |-> Pair(xs, xs[t].q, t, i) * u[i]]
            IN M(FromState(s, xs, xs[t].q, t) + Sum(from, 1 .. t))]

\* What the buffer keeps: the triplet (d, k, g) of every token.
Kept(s, xs) ==
    LET u == Updates(s, xs)
    IN [t \in 1 .. T |-> [d |-> u[t], k |-> xs[t].k,
                          g |-> [c \in Channels |-> Gate(xs[t], c)]]]

\* Mutant of Rebuild: the gate of a token decays its own key.
RebuildLate(s, kept, m) ==
    LET from[i \in 1 .. m + 1] ==
            IF i = m + 1
            THEN [suf |-> [c \in Channels |-> 1], acc |-> [c \in Channels |-> 0]]
            ELSE LET suf == [c \in Channels |-> M(from[i + 1].suf[c] * kept[i].g[c])]
                 IN [suf |-> suf,
                     acc |-> [c \in Channels |->
                                M(from[i + 1].acc[c] + kept[i].d * kept[i].k[c] * suf[c])]]
    IN [c \in Channels |-> M(from[1].suf[c] * s[c] + from[1].acc[c])]

\* The state after the first m tokens, from the last one down: suf is the
\* product of the gates of the tokens after.
Rebuild(s, kept, m) ==
    LET from[i \in 1 .. m + 1] ==
            IF i = m + 1
            THEN [suf |-> [c \in Channels |-> 1], acc |-> [c \in Channels |-> 0]]
            ELSE LET later == from[i + 1]
                 IN [suf |-> [c \in Channels |-> M(later.suf[c] * kept[i].g[c])],
                     acc |-> [c \in Channels |->
                                M(later.acc[c] + kept[i].d * kept[i].k[c] * later.suf[c])]]
    IN [c \in Channels |-> M(from[1].suf[c] * s[c] + from[1].acc[c])]

\* The lightning flush repeats the recurrence instead.
Advance(s, kept, m) ==
    LET state[i \in 0 .. m] ==
            IF i = 0 THEN s
            ELSE [c \in Channels |-> M(kept[i].g[c] * state[i - 1][c]
                                       + kept[i].d * kept[i].k[c])]
    IN state[m]

Flushed(s, kept, m) ==
    IF work.rule = "kda" THEN Rebuild(s, kept, m) ELSE Advance(s, kept, m)

-----------------------------------------------------------------------------
RowOf(b, s) == CHOOSE r \in Rows(b) : b[r] = s
In(b, s) == \E r \in Rows(b) : b[r] = s

\* Where row r keeps its tokens: buffers have the rows of the batch for KDA,
\* the slots of the pool for lightning attention.
Place(b, r) == IF work.rule = "kda" THEN r ELSE b[r]

Places == Slots \cup UNION {DOMAIN b : b \in work.batches}
Empty == [t \in 1 .. T |-> [d |-> 0, k |-> [c \in Channels |-> 0],
                            g |-> [c \in Channels |-> 0]]]

Init ==
    /\ work \in Workloads
    /\ pool \in [Slots -> work.states]
    /\ buffer = [p \in Places |-> Empty]
    /\ batch = <<>>
    /\ out = <<>>
    /\ asked = {}
    /\ rounds = 0
    /\ draft = [s \in Slots |-> <<>>]
    /\ serial = pool
    /\ due = <<>>

\* A verification of the drafts xs; it may drop the drafts of the one before.
\* With update the kernel stores the state after all T tokens itself.
Verify(b, xs, update) ==
    /\ rounds' = rounds + 1
    /\ batch' = b
    /\ out' = [r \in Rows(b) |-> ChunkOutputs(pool[b[r]], xs[r])]
    /\ due' = [r \in Rows(b) |-> Outputs(serial[b[r]], xs[r])]
    /\ LET kept == [r \in Rows(b) |-> Kept(pool[b[r]], xs[r])]
           At(s) == RowOf(b, s)
       IN /\ buffer' = [p \in Places |->
                IF \E r \in Rows(b) : Place(b, r) = p
                THEN kept[CHOOSE r \in Rows(b) : Place(b, r) = p] ELSE buffer[p]]
          /\ pool' = [s \in Slots |-> IF update /\ In(b, s)
                THEN Rebuild(pool[s], kept[At(s)], T) ELSE pool[s]]
          /\ serial' = [s \in Slots |-> IF update /\ In(b, s)
                THEN After(serial[s], xs[At(s)], T) ELSE serial[s]]
          /\ draft' = [s \in Slots |-> IF In(b, s) /\ ~update THEN xs[At(s)]
                                     ELSE IF work.rule = "kda" THEN <<>> ELSE draft[s]]
    /\ UNCHANGED <<work, asked>>

\* The KDA kernels keep the tokens by the row of the batch.
VerifyByRow(b, xs, update) == work.rule = "kda" /\ Verify(b, xs, update)

\* Those of lightning attention by the slot, and never touch the state.
VerifyBySlot(b, xs) == work.rule = "lightning" /\ Verify(b, xs, FALSE)

\* A flush by m tokens of row r of the batch; none are accepted of a slot that
\* has no draft.
Flush(b, m) ==
    /\ \A r \in Rows(b) : draft[b[r]] = <<>> => m[r] = 0
    /\ \E r \in Rows(b) : m[r] > 0
    /\ pool' = [s \in Slots |-> IF In(b, s)
          THEN Flushed(pool[s], buffer[Place(b, RowOf(b, s))], m[RowOf(b, s)])
          ELSE pool[s]]
    /\ serial' = [s \in Slots |-> IF In(b, s)
          THEN After(serial[s], draft[s], m[RowOf(b, s)]) ELSE serial[s]]
    /\ draft' = [s \in Slots |-> IF In(b, s) THEN <<>> ELSE draft[s]]
    /\ UNCHANGED <<work, buffer, batch, out, asked, rounds, due>>

\* The rows have to be those of the verification, and each accepts a token.
FlushByRow(b, m) ==
    /\ work.rule = "kda"
    /\ b = batch
    /\ \A r \in Rows(b) : m[r] > 0
    /\ Flush(b, m)

\* Any batch of slots will do.
FlushBySlot(b, m) == work.rule = "lightning" /\ Flush(b, m)

\* What n blocks one after another leave of state s.
Repeated(s, x, n) == After(s, [i \in 1 .. n |-> x], n)
Unwritten == -1

\* One token of every row: call c gives the head and the tile this row of the
\* state belongs to. A call that raises does nothing.
DecodeCall(b, xs, c) ==
    /\ c.N = Len(b)
    /\ rounds' = rounds + 1
    /\ asked' = {c}
    /\ LET l == Dispatch(c)
           Passes(r) == Cardinality(BlocksOf(l, c, r - 1, c.head, c.tile))
           Changed(s) == l # Raises /\ In(b, s)
           X(s) == xs[RowOf(b, s)][1]
       IN /\ pool' = [s \in Slots |-> IF Changed(s)
                THEN Repeated(pool[s], X(s), Passes(RowOf(b, s))) ELSE pool[s]]
          /\ serial' = [s \in Slots |-> IF Changed(s) THEN Decode(serial[s], X(s))
                                                     ELSE serial[s]]
          /\ draft' = [s \in Slots |-> IF Changed(s) THEN <<>> ELSE draft[s]]
          /\ out' = [r \in {q \in Rows(b) : l # Raises} |->
                IF Passes(r) = 0 THEN Unwritten ELSE Dot(pool'[b[r]], xs[r][1].q)]
          /\ due' = [r \in DOMAIN out' |-> Dot(serial'[b[r]], xs[r][1].q)]
    /\ UNCHANGED <<work, buffer, batch>>

Next ==
    \/ /\ rounds < work.rounds
       /\ \/ \E b \in work.batches : \E xs \in [Rows(b) -> work.drafts] :
                \/ \E update \in BOOLEAN : VerifyByRow(b, xs, update)
                \/ VerifyBySlot(b, xs)
          \/ \E c \in Calls(work.calls), b \in work.batches :
                \E xs \in [Rows(b) -> work.drafts] : DecodeCall(b, xs, c)
    \/ \E b \in work.batches : \E m \in [Rows(b) -> 0 .. T] :
          FlushByRow(b, m) \/ FlushBySlot(b, m)

Spec == Init /\ [][Next]_vars

-----------------------------------------------------------------------------
\* The outputs of a verification are those of decoding its tokens one by one:
\* the chunk's correction stands for the states between the tokens.
OutputsAreSerial == out = due

\* However many tokens are accepted, in whatever order requests sit in the
\* batches, the state is the one of decoding the accepted tokens one by one.
StateIsSerial == pool = serial

\* The fast path of a call, where it takes it, launches what the general path
\* would launch: neither the kernel nor the form of its arguments hangs on it.
FastIsGeneral ==
    \A c \in asked : FastPath(c) # Declines => FastPath(c) = GeneralPath(c)

=============================================================================
