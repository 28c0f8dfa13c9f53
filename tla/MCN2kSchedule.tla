---------------------------- MODULE MCN2kSchedule ----------------------------
(* The default offset of each PGN: some have one, some have none.           *)
EXTENDS N2kSchedule

MCDefaultOffset == [p \in Pgns |-> IF p = "129025" THEN 0 ELSE 2]
=============================================================================
