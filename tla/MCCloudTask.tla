----------------------------- MODULE MCCloudTask -----------------------------
(* Small instances of CloudTask: up to three calls for one result path.      *)
EXTENDS CloudTask, TLC

\* Calls differ in nothing but their name.
Symmetry == Permutations(Calls)
==============================================================================
