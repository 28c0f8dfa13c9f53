--------------------------- MODULE MCSystemState ---------------------------
(* Instances of SystemState for TLC; the cfg files choose the faults.       *)
EXTENDS SystemState
=============================================================================
