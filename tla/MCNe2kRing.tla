----------------------------- MODULE MCNe2kRing -----------------------------
(***************************************************************************)
(* A ring of five pages and frames of one to four pages: the ring fills,   *)
(* frames straddle its end, CURR meets BNRY, and a frame of the largest    *)
(* size fits only into the empty ring and is cut to the caller's room.     *)
(***************************************************************************)
EXTENDS Ne2kRing

CONSTANTS f1, f2, f3, f4, f5

MCPages == [f \in Frames |-> CASE f = f1 -> 1 [] f = f2 -> 2 [] f = f3 -> 3
                               [] f = f4 -> 4 [] OTHER -> 1]
=============================================================================
