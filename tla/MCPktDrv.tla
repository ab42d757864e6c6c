------------------------------ MODULE MCPktDrv ------------------------------
(***************************************************************************)
(* Small instances of PktDrv.  The longest frame takes two cells and the   *)
(* bounce buffer has three, as 2048 bytes are more than 1518; a frame of   *)
(* three cells is one the stub refuses, and one of four cells one that     *)
(* pktdrv_send refuses.                                                    *)
(***************************************************************************)
EXTENDS PktDrv, TLC

CONSTANTS f0, f1, f2, f3, t1, t2

(* Lengths of the inbound frames: empty, short, the longest, too long. *)
MCFrameLen == [f \in Frames |-> CASE f = f0 -> 0 [] f = f1 -> 1
                                  [] f = f2 -> 2 [] OTHER -> 3]

(* Two inbound frames of the same length. *)
MCSameLen == [f \in Frames |-> 2]

(* An outbound frame that fits and one longer than the bounce buffer. *)
MCTxLen == [t \in TxFrames |-> IF t = t1 THEN 2 ELSE 4]
=============================================================================
