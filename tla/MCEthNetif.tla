----------------------------- MODULE MCEthNetif -----------------------------
(***************************************************************************)
(* Instances of EthNetif for TLC.  The reset wait of 100000 polls becomes  *)
(* one of two, in words of two bits; the card sets RST at once, at the     *)
(* last poll the loop makes, or never.                                     *)
(***************************************************************************)
EXTENDS EthNetif
=============================================================================
