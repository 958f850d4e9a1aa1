---------------------------- MODULE SplitPrefill ----------------------------
(***************************************************************************)
(* The three prefill backends that split sequences over one device, each   *)
(* with its own plan and its own pass for the states between the pieces.   *)
(***************************************************************************)
EXTENDS IntracardCP, SegmentCP, BoundaryCP

Init == Begin(Sm100Calls) \/ Begin(Sm90Calls) \/ Begin(HopperCalls)
Next == Sm100Next \/ Sm90Next \/ HopperNext \/ Done
Spec == Init /\ [][Next]_vars
=============================================================================
