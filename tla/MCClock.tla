------------------------------ MODULE MCClock -------------------------------
(* Clock with a day of a few ticks *)
EXTENDS Clock
=============================================================================
