------------------------------ MODULE MCLowMem ------------------------------
(***************************************************************************)
(* Instance of PmReceiver and LowMem for TLC.  Real mode reaches eight     *)
(* paragraphs; the client base is 0, low enough to rebase, or above all of *)
(* conventional memory; free memory runs out before, between and after     *)
(* the allocations of the boot.                                            *)
(***************************************************************************)
EXTENDS PmReceiver
=============================================================================
