---------------------------- MODULE ConvArrivalMC ----------------------------
(***************************************************************************)
(* Model values for ConvArrival: two streams, each of which replays the    *)
(* graph captured on the other, so that a launch never works with the      *)
(* counters of the stream it runs on.                                      *)
(***************************************************************************)
EXTENDS ConvArrival

Swapped == [s \in Streams |-> CHOOSE t \in Streams : t # s]

=============================================================================
