---------------------------- MODULE PrefillSm90 ----------------------------
(***************************************************************************)
(* The Hopper prefill kernel of lightning attention                        *)
(* (src/cula/ops/lightning/sm90/prefill_kernel.py): with the decay table   *)
(* lambda^0 .. lambda^64 in shared memory,                                 *)
(*                                                                         *)
(*     o = masked(q k^T) v + decayed(q) state,  state = decayed(state) + kv*)
(*                                                                         *)
(* One warp loads q, one k, one v, one stores o; two warpgroups, "math0"   *)
(* and "math1", compute, with the state in their registers.  The block of  *)
(* a persistent kernel runs one (sequence, head) after another and         *)
(* initialises its barriers for each.  <<u, n>> is chunk n of unit u.      *)
(***************************************************************************)
EXTENDS WarpProgram

Maths == {"math0", "math1"}
QStages == 3
KStages == 3
VStages == 2
OStages == 3

Rings ==
    [q |-> Ring(QStages, 1, 2), k |-> Ring(KStages, 1, 2), v |-> Ring(VStages, 1, 2),
     o |-> Ring(OStages, 2, 1), lut |-> Buffer(1), qk |-> Buffer(1),
     published |-> Barrier(2), consumed |-> Barrier(2), cta |-> Barrier(6)]

LoadQ(u, n) == << <<Acq("q"), Tma("q", <<u, n>>)>> >>
LoadK(u, n) == << <<Acq("k"), Tma("k", <<u, n>>)>> >>
LoadV(u, n) == << <<Acq("v"), Tma("v", <<u, n>>)>> >>

\* The first warpgroup computes the scores, both wait for them.  Before the
\* next chunk the first waits until the second has read them, too.
Scores(w, u, n) ==
    << <<Wait("q"), Wait("k"), Wait("v")>>
          \o When(w = "math0", <<Use("q", <<u, n>>), Use("k", <<u, n>>), Use("lut", u),
                                 Fill("qk", <<u, n>>)>>)
          \o <<Com("published")>>,
       <<Wait("published"), Use("q", <<u, n>>), Use("lut", u), Rel("q")>> >>

\* Mutant of Output: the first warpgroup does not wait for the second to have
\* read the scores.
OutputNoConsumed(w, u, n, last) ==
    << <<Use("v", <<u, n>>), Use("qk", <<u, n>>)>> \o When(~last, <<Com("consumed")>>),
       <<Acq("o"), Put("o", <<u, n>>), Com("o")>> >>

\* Mutant of Output: o is written before the store warp gave its stage back.
OutputNoAcquire(w, u, n, last) ==
    << <<Use("v", <<u, n>>), Use("qk", <<u, n>>)>> \o When(~last, <<Com("consumed")>>) >>
    \o When(w = "math0" /\ ~last, << <<Wait("consumed")>> >>)
    \o << <<Put("o", <<u, n>>), Com("o")>> >>

Output(w, u, n, last) ==
    << <<Use("v", <<u, n>>), Use("qk", <<u, n>>)>> \o When(~last, <<Com("consumed")>>) >>
    \o When(w = "math0" /\ ~last, << <<Wait("consumed")>> >>)
    \o << <<Acq("o"), Put("o", <<u, n>>), Com("o")>> >>

\* Mutant of NextState: v is not given back.
NextStateKeepsV(u, n) ==
    << <<Use("lut", u), Use("v", <<u, n>>), Use("k", <<u, n>>), Rel("k")>> >>

NextState(u, n) ==
    << <<Use("lut", u), Use("v", <<u, n>>), Use("k", <<u, n>>), Rel("k"), Rel("v")>> >>

\* producer_tail: wait until the last stage used has been given back.
AwaitEmpty == << [i \in 1 .. OStages - 1 |-> Skip("o")], <<Acq("o")>> >>

\* The stage of chunk n is given back when chunk n + 3 is stored or, for the
\* last three chunks, when all stores have read their stage.
GiveBack(u, n) == << <<At((n - 1) % OStages, Use("o", <<u, n>>)), Rel("o")>> >>
StoreO(u, n) ==
    When(n > OStages, GiveBack(u, n - OStages)) \o << <<Wait("o"), Use("o", <<u, n>>)>> >>
StoreRest(u, chunks) ==
    FlattenSeq([i \in 1 .. IF chunks < OStages THEN chunks ELSE OStages |->
        GiveBack(u, IF chunks < OStages THEN i ELSE chunks - OStages + i)])

\* A unit begins with the decay table, then with fresh pipelines; all warps
\* meet before and after each, and once more when the unit is done.
Begin(w, u) ==
    LET again == IF w = "loadq" THEN Renew("q") ELSE Restart("q")
        renewed == [r \in {"q", "k", "v", "o"} |-> [again EXCEPT !.on = r]]
    IN Sync \o When(w = "loadq", << <<Fill("lut", u)>> >>) \o Sync
       \o << <<renewed["q"], renewed["k"], renewed["v"], renewed["o"]>> >> \o Sync

\* Mutant of Role: the loader of v counts one chunk more.
RoleLoadsAhead(w, u, chunks) ==
    LET Chunk(n) ==
            CASE w = "loadq" -> LoadQ(u, n) [] w = "loadk" -> LoadK(u, n)
              [] w = "loadv" -> LoadV(u, n) [] w = "store" -> StoreO(u, n)
              [] OTHER -> Scores(w, u, n) \o Output(w, u, n, n = chunks)
                          \o NextState(u, n)
    IN Begin(w, u) \o Each(IF w = "loadv" THEN chunks + 1 ELSE chunks, Chunk)
       \o When(w = "store", StoreRest(u, chunks)) \o When(w \in Maths, AwaitEmpty) \o Sync

Role(w, u, chunks) ==
    LET Chunk(n) ==
            CASE w = "loadq" -> LoadQ(u, n) [] w = "loadk" -> LoadK(u, n)
              [] w = "loadv" -> LoadV(u, n) [] w = "store" -> StoreO(u, n)
              [] OTHER -> Scores(w, u, n) \o Output(w, u, n, n = chunks)
                          \o NextState(u, n)
    IN Begin(w, u) \o Each(chunks, Chunk)
       \o When(w = "store", StoreRest(u, chunks)) \o When(w \in Maths, AwaitEmpty) \o Sync

\* units: the number of chunks of each unit of the block.
Kernel(units) ==
    [ring |-> Rings,
     prog |-> [w \in Maths \cup {"loadq", "loadk", "loadv", "store"} |->
                 FlattenSeq([u \in DOMAIN units |-> Role(w, u, units[u])])],
     part |-> [math0 |-> 1, math1 |-> 2]]
=============================================================================
