----------------------------- MODULE KvBufferMC -----------------------------
(* Instances of KvBuffer for TLC: numbers modulo 5, keys of two channels. *)
EXTENDS KvBuffer

V2(a, b) == [c \in Channels |-> IF c = 1 THEN a ELSE b]
Token(k, q, g, beta, v) == [k |-> k, q |-> q, g |-> g, beta |-> beta, v |-> v]

\* Keys that are parallel, orthogonal and neither; gates that keep, decay and
\* erase a channel.
Tokens ==
    {Token(V2(1, 2), V2(1, 1), V2(1, 1), 1, 1), Token(V2(2, 4), V2(0, 3), V2(2, 0), 2, 3),
     Token(V2(0, 1), V2(4, 1), V2(3, 2), 3, 2), Token(V2(3, 1), V2(2, 2), V2(0, 4), 4, 1),
     Token(V2(1, 0), V2(1, 3), V2(2, 3), 1, 4), Token(V2(4, 2), V2(3, 0), V2(4, 4), 2, 2),
     Token(V2(1, 1), V2(2, 1), V2(3, 1), 0, 3)}
FewTokens ==
    {Token(V2(1, 2), V2(1, 1), V2(2, 3), 1, 1), Token(V2(3, 1), V2(2, 2), V2(0, 4), 4, 1)}

OneRow == {<<s>> : s \in Slots}
TwoRows == {b \in [1 .. 2 -> Slots \cup {NoSlot}] :
               Rows(b) # {} /\ (b[1] = b[2] => b[1] = NoSlot)}
Drafted(S) == [1 .. T -> S]

Load(rule, decay, states, batches, drafts, calls, n) ==
    [rule |-> rule, decay |-> decay, states |-> states, batches |-> batches,
     drafts |-> drafts, calls |-> calls, rounds |-> n]

\* Thresholds between 1, 2 and 3 rows; the code's are 4, 16, 512 and 1024 rows
\* or heads.
Tunings ==
    {[few |-> 1, micro |-> 2, small |-> 3, rows |-> 2, heads |-> 1, fewHeads |-> 1],
     [few |-> 0, micro |-> 4, small |-> 4, rows |-> 2, heads |-> 2, fewHeads |-> 2]}
ShapesOfA(N, HV) ==
    {<<N, HV, 2>>, <<N, 1, HV, 2>>, <<N, 1, HV * 2>>, <<N, HV * 2>>, <<1, N, HV, 2>>,
     <<1, N, 1, HV * 2>>}
ShapesOfB(N, HV) == {<<N, HV>>, <<N, 1, HV>>, <<1, N, HV>>}

Call(packed, varlen, N, H, HV, tiles, a, b, indices, cu, ready, tuning, head, tile) ==
    [packed |-> packed, varlen |-> varlen, N |-> N, H |-> H, HV |-> HV, K |-> 2,
     tiles |-> tiles, kv |-> FALSE, a |-> a, b |-> b, indices |-> indices, cu |-> cu,
     ready |-> ready, tuning |-> tuning, head |-> head, tile |-> tile]

\* Every form of the arguments, for one size of the heads.
Forms ==
    UNION {{Call(p, v, N, 1, 2, 2, a, b, i, cu, ready, t, 1, 1) :
               a \in ShapesOfA(N, 2), b \in ShapesOfB(N, 2),
               i \in {"ready", "strided", "wide"}, ready \in BOOLEAN, t \in Tunings} :
           p \in BOOLEAN, v \in BOOLEAN, N \in 1 .. 3,
           cu \in {"none", "ready", "strided", "wide"}}
FormsOf == {c \in Forms : c.packed => (c.varlen <=> c.cu # "none")}

\* Every head and tile of all splits, for one form.
Splits(widths) ==
    UNION {{Call(p, v, N, h, hv, w, <<N, hv, 2>>, <<N, hv>>, "ready",
                 IF v THEN "ready" ELSE "none", TRUE, t, i, j) :
               p \in BOOLEAN, v \in BOOLEAN, N \in 1 .. 3, t \in Tunings,
               i \in 0 .. hv - 1, j \in 0 .. w - 1} :
           h \in 1 .. 2, hv \in {2, 4}, w \in widths}
FewCalls ==
    {Call(TRUE, v, N, 1, 2, 4, <<N, 2, 2>>, <<N, 2>>, "ready",
          IF v THEN "ready" ELSE "none", TRUE, t, 1, 3) :
        v \in BOOLEAN, N \in 1 .. 2, t \in Tunings}

CallsOf(name) ==
    CASE name = "none"   -> {}
      [] name = "few"    -> FewCalls
      [] name = "forms"  -> FormsOf
      [] name = "even"   -> Splits({2, 4, 8})
      [] name = "uneven" -> Splits({6})

OneSlot == {<<CHOOSE s \in Slots : TRUE>>}
Few == {[t \in 1 .. T |-> x] : x \in FewTokens}
OneDraft == {CHOOSE xs \in Few : TRUE}

\* Three rows with a padding row among them.
RowsUpTo3 == OneRow \cup TwoRows \cup
    {b \in [1 .. 3 -> Slots \cup {NoSlot}] :
        Cardinality(Rows(b)) = 2 /\ \A r, q \in Rows(b) : b[r] = b[q] => r = q}

\* Many drafts of one request, few of two requests twice, and the calls.
Served ==
    {Load("kda", 1, {V2(1, 3), V2(0, 2)}, OneSlot, Drafted(Tokens), "none", 1),
     Load("kda", 1, {V2(1, 3)}, TwoRows, Few, "few", 2),
     Load("lightning", 0, {V2(2, 1)}, OneSlot, Drafted(Tokens), "none", 1),
     Load("lightning", 3, {V2(2, 1)}, OneSlot, Drafted(Tokens), "none", 1),
     Load("lightning", 3, {V2(2, 1)}, TwoRows, Few, "none", 2),
     Load("kda", 1, {V2(1, 3)},
          {CHOOSE b \in RowsUpTo3 : Len(b) = n : n \in 1 .. 3}, OneDraft, "forms", 1),
     Load("kda", 1, {V2(1, 3)}, RowsUpTo3, OneDraft, "even", 1)}
Narrow == {Load("kda", 1, {V2(1, 3)}, RowsUpTo3, OneDraft, "uneven", 1)}
=============================================================================
