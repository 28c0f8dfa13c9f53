----------------------------- MODULE MCDataBus -----------------------------
(* The publisher and two accounts of one name for TLC: of the two, the one  *)
(* constructed second stays outside the pool.                               *)
EXTENDS DataBus

CONSTANTS main, gnss, first, second

ClashingName(a) == IF a \in {first, second} THEN "Bluetooth" ELSE a
=============================================================================
