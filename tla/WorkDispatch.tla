---------------------------- MODULE WorkDispatch ----------------------------
(***************************************************************************)
(* What the persistent schedulers of the SM100 kernels promise, with no    *)
(* barrier, slot or phase bit in sight.  Work units 0 .. TotalWork - 1 are *)
(* dealt one at a time to thread blocks (CTAs); every thread of a CTA      *)
(* handles the units of its CTA in the order in which they were dealt, and *)
(* a CTA is dealt no further unit before all its threads have come within  *)
(* Ahead units of the last one.                                            *)
(***************************************************************************)
EXTENDS Integers, Sequences

CONSTANTS CTAs, Threads, TotalWork, Ahead

VARIABLES
    issued,     \* the next number to deal
    given,      \* given[c]: the numbers dealt to CTA c, in order
    handled     \* handled[c][t]: the units thread t of CTA c worked on

vars == <<issued, given, handled>>

Init ==
    /\ issued = 0
    /\ given = [c \in CTAs |-> <<>>]
    /\ handled = [c \in CTAs |-> [t \in Threads |-> <<>>]]

\* A CTA that was dealt a number outside the work list asks no more.
Exhausted(c) == given[c] # <<>> /\ given[c][Len(given[c])] >= TotalWork

Deal(c) ==
    /\ ~Exhausted(c)
    /\ \A t \in Threads : Len(given[c]) - Len(handled[c][t]) <= Ahead
    /\ given' = [given EXCEPT ![c] = Append(@, issued)]
    /\ issued' = issued + 1
    /\ UNCHANGED handled

Handle(c, t) ==
    LET next == Len(handled[c][t]) + 1 IN
    /\ next <= Len(given[c])
    /\ given[c][next] < TotalWork
    /\ handled' = [handled EXCEPT ![c][t] = Append(@, given[c][next])]
    /\ UNCHANGED <<issued, given>>

Next ==
    \/ \E c \in CTAs : Deal(c)
    \/ \E c \in CTAs, t \in Threads : Handle(c, t)

Spec == Init /\ [][Next]_vars

-----------------------------------------------------------------------------
(***************************************************************************)
(* What dealing guarantees, for whatever implements it.                    *)
(***************************************************************************)
TypeOK ==
    /\ issued \in Nat
    /\ given \in [CTAs -> Seq(Nat)]

\* Each number below `issued' was dealt once, to one CTA, and no other was.
Dealt ==
    /\ \A c \in CTAs : \A i \in 1 .. Len(given[c]) :
          given[c][i] \in 0 .. issued - 1
    /\ \A c, d \in CTAs :
          \A i \in 1 .. Len(given[c]), j \in 1 .. Len(given[d]) :
             given[c][i] = given[d][j] => c = d /\ i = j
    /\ \A w \in 0 .. issued - 1 :
          \E c \in CTAs : \E i \in 1 .. Len(given[c]) : given[c][i] = w
=============================================================================
