------------------------------ MODULE MCNe2kTx ------------------------------
(* Three frames that fit and one that is too long. *)
EXTENDS Ne2kTx
CONSTANTS j1, j2, j3, j4
=============================================================================
