------------------------------ MODULE DeltaHMC ------------------------------
(* Instances of DeltaH for TLC. *)
EXTENDS DeltaH, TLC

\* The rings of more than one stage (k, w, u, gk: 3; h_out, vnew_store: 2 in
\* the kernel) have two here: they wrap, and producers wait, in short runs.
ShortStages ==
    [x \in Pipes |-> IF x \in {"w", "kt", "u", "gk", "hout", "vst"}
                     THEN 2 ELSE 1]

EmptyBetween == <<2, 0, 1>> \* an empty sequence between two others

CCSymmetry == Permutations(CCs)
=============================================================================
