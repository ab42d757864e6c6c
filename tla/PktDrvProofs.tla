---------------------------- MODULE PktDrvProofs ----------------------------
(***************************************************************************)
(* Proofs about PktDrv for every set of frames, every frame length, every  *)
(* buffer size and every initial PIC mask.                                 *)
(*                                                                         *)
(* IInv is the inductive invariant.  Besides the type invariant it says    *)
(* what each program point of pktdrv_send and pktdrv_poll_rmstub knows:    *)
(* about its locals (LocalInv), about the PIC mask (MaskInv), how many     *)
(* completions are still undrained (CountInv), and what the bounce buffer  *)
(* and the receive slot hold while a copy is undisturbed (StubInv,         *)
(* DrainInv, SendInv).                                                     *)
(***************************************************************************)
EXTENDS PktDrv, SequenceTheorems, TLAPS

LocalInv ==
    /\ pc \in {"p_copy", "p_clear"} => len \in 1..MaxFrame
    /\ pc = "p_copy" => idx < len
    /\ pc = "p_clear" => idx = len
    /\ pc \in SendPcs => tx \in TxFrames /\ len = TxLen[tx]
    /\ pc \in SendPcs \ {"s_copy"} => idx = len
    /\ pc = "take" <=> rx_pending = 1
    /\ pc \in DrainPcs => st_pending = 1

MaskInv ==
    /\ pc \notin {"s_call", "s_rm", "s_restore"} => pic = InitialMask
    /\ pc \in SendPcs \ {"s_copy"} => saved_mask = InitialMask
    /\ pc \in {"s_call", "s_rm"} => SendMask \subseteq pic
    /\ pc \in {"s_call", "s_rm"} /\ NicIrq \in SendMask => isr.phase = "none"

CountInv ==
    Len(out) + (IF pc = "take" THEN 1 ELSE 0) + st_pending <= Len(filled)

(* The first n cells of buffer b hold frame f. *)
Holds(b, n, f) == \A c \in 1..n : b[c] = f

StubInv ==
    /\ isr.phase # "none" => /\ isr.frame \notin wire
                             /\ st_length = FrameLen[isr.frame]
    /\ isr.phase = "full" => Holds(bounce, st_length, isr.frame)
    /\ isr.phase = "none" /\ st_pending = 1 /\ ~dirty =>
           \E f \in Frames \ wire : /\ st_length = FrameLen[f]
                                    /\ Holds(bounce, st_length, f)

DrainInv ==
    /\ pc \in DrainPcs /\ clean => isr.phase = "none" /\ ~dirty
    /\ pc \in {"p_copy", "p_clear"} /\ clean =>
           /\ len = st_length
           /\ \A c \in 1..idx : rx_buf[c] = bounce[c]
    /\ pc = "take" /\ clean =>
           \E f \in Frames \ wire : rx_len = FrameLen[f] /\ Holds(rx_buf, rx_len, f)

SendInv ==
    pc \in SendPcs /\ clean => isr.phase = "none" /\ Holds(bounce, idx, tx)

HistInv == CleanDrainIsExact /\ CleanSendIsExact

IInv == /\ TypeOK /\ LocalInv /\ MaskInv /\ CountInv
        /\ StubInv /\ DrainInv /\ SendInv /\ HistInv
-----------------------------------------------------------------------------
(* Facts used by several actions *)

(* The history properties survive a step that delivers and sends nothing. *)
LEMMA HistKept ==
    ASSUME HistInv, wire' \subseteq wire, UNCHANGED <<out, sent>>
    PROVE  HistInv'
BY DEF HistInv, CleanDrainIsExact, CleanSendIsExact

(* A function on an initial segment of the buffer is a packet. *)
LEMMA PacketFun ==
    ASSUME NEW n \in 0..BounceCells, NEW g \in [1..n -> Cell]
    PROVE  g \in Packet
BY DEF Packet

-----------------------------------------------------------------------------
(* The initial states satisfy the invariant *)

LEMMA InitInv == Init => IInv
<1> SUFFICES ASSUME Init PROVE IInv
  OBVIOUS
<1> USE StubAssumption, PktDrvAssumption DEF Init, StubInit, NoFrame
<1>1. TypeOK
  <2>1. StubTypeOK
    BY DEF StubTypeOK
  <2>2. out \in Seq([size : 0..MaxFrame, clean : BOOLEAN, data : Packet])
    OBVIOUS
  <2>3. sent \in Seq([asked : TxFrames, size : 0..BounceCells, clean : BOOLEAN,
                     data : Packet])
    OBVIOUS
  <2>4. bounce \in [1..BounceCells -> Cell] /\ rx_buf \in [1..MaxFrame -> Cell]
    BY DEF Cell
  <2>5. /\ rx_len \in 0..MaxFrame /\ rx_pending \in {0, 1}
        /\ idx \in 0..BounceCells /\ len \in 0..BounceCells /\ idx <= len
    OBVIOUS
  <2>6. /\ pc \in {"idle", "take"} \cup SendPcs \cup DrainPcs
        /\ tx \in TxFrames \cup {Blank} /\ txLeft \in SUBSET TxFrames
        /\ saved_mask \in SUBSET (8..15)
        /\ dirty \in BOOLEAN /\ clean \in BOOLEAN
    OBVIOUS
  <2> QED
    BY <2>1, <2>2, <2>3, <2>4, <2>5, <2>6 DEF TypeOK
<1>2. LocalInv /\ MaskInv /\ CountInv
  BY DEF LocalInv, MaskInv, CountInv, SendPcs, DrainPcs
<1>3. StubInv /\ DrainInv /\ SendInv
  BY DEF StubInv, DrainInv, SendInv, SendPcs, DrainPcs
<1>4. HistInv
  BY DEF HistInv, CleanDrainIsExact, CleanSendIsExact
<1> QED
  BY <1>1, <1>2, <1>3, <1>4 DEF IInv

-----------------------------------------------------------------------------
(* Every action preserves it *)

LEMMA IrqStep ==
    ASSUME IInv, NEW f \in Frames, Irq(f)
    PROVE  IInv'
<1> USE StubAssumption, PktDrvAssumption DEF IInv, stubVars, pmVars, copyVars, txVars, slot, hist, ghost, PmRuns, Irq, Phase0Refuse, Phase0Give, NoFrame
<1>1. TypeOK'
  <2>1. StubTypeOK'
    BY DEF TypeOK, StubTypeOK
  <2>2. (bounce \in [1..BounceCells -> Cell])'
    BY DEF TypeOK, StubTypeOK, LocalInv, SendPcs, Cell
  <2>3. (out \in Seq([size : 0..MaxFrame, clean : BOOLEAN, data : Packet]))'
    BY DEF TypeOK
  <2>4. (sent \in Seq([asked : TxFrames, size : 0..BounceCells, clean : BOOLEAN,
                  data : Packet]))'
    BY DEF TypeOK
  <2>5. (/\ pc \in {"idle", "take"} \cup SendPcs \cup DrainPcs
         /\ idx \in 0..BounceCells /\ len \in 0..BounceCells /\ idx <= len
         /\ tx \in TxFrames \cup {Blank} /\ txLeft \in SUBSET TxFrames
         /\ saved_mask \in SUBSET (8..15)
         /\ rx_buf \in [1..MaxFrame -> Cell]
         /\ rx_len \in 0..MaxFrame /\ rx_pending \in {0, 1}
         /\ dirty \in BOOLEAN /\ clean \in BOOLEAN)'
    BY DEF TypeOK, LocalInv, SendPcs, DrainPcs
  <2> QED
    BY <2>1, <2>2, <2>3, <2>4, <2>5 DEF TypeOK
<1>2. LocalInv'
  BY DEF TypeOK, StubTypeOK, LocalInv, SendPcs, DrainPcs
<1>3. MaskInv'
  BY DEF TypeOK, StubTypeOK, MaskInv, SendPcs, SendMask
<1>4. CountInv'
  BY DEF TypeOK, StubTypeOK, CountInv, LocalInv, SendPcs, DrainPcs
<1>5. StubInv'
  BY DEF TypeOK, StubTypeOK, StubInv, Holds
<1>6. DrainInv'
  <2>1. CASE Phase0Refuse(f) /\ UNCHANGED clean
    BY <2>1 DEF DrainInv, Holds, DrainPcs
  <2>2. CASE Phase0Give(f) /\ clean' = (clean /\ pc = "take")
    <3>1. pc # "take" => ~clean'
      BY <2>2
    <3>2. pc = "take" /\ clean' => clean
      BY <2>2
    <3> QED
      BY <3>1, <3>2 DEF DrainInv, Holds, DrainPcs
  <2> QED
    BY <2>1, <2>2
<1>7. SendInv'
  BY DEF TypeOK, StubTypeOK, SendInv, LocalInv, Holds, SendPcs, DrainPcs
<1>8. HistInv'
  BY HistKept
<1> QED
  BY <1>1, <1>2, <1>3, <1>4, <1>5, <1>6, <1>7, <1>8

LEMMA IrqFillStep ==
    ASSUME IInv, IrqFill
    PROVE  IInv'
<1> USE StubAssumption, PktDrvAssumption DEF IInv, stubVars, pmVars, copyVars, txVars, slot, hist, ghost, PmRuns, IrqFill, DriverFill, Overwrite
<1>1. TypeOK'
  <2>1. StubTypeOK'
    BY DEF TypeOK, StubTypeOK
  <2>2. (bounce \in [1..BounceCells -> Cell])'
    BY DEF TypeOK, StubTypeOK, LocalInv, SendPcs, Cell
  <2>3. (out \in Seq([size : 0..MaxFrame, clean : BOOLEAN, data : Packet]))'
    BY DEF TypeOK
  <2>4. (sent \in Seq([asked : TxFrames, size : 0..BounceCells, clean : BOOLEAN,
                  data : Packet]))'
    BY DEF TypeOK
  <2>5. (/\ pc \in {"idle", "take"} \cup SendPcs \cup DrainPcs
         /\ idx \in 0..BounceCells /\ len \in 0..BounceCells /\ idx <= len
         /\ tx \in TxFrames \cup {Blank} /\ txLeft \in SUBSET TxFrames
         /\ saved_mask \in SUBSET (8..15)
         /\ rx_buf \in [1..MaxFrame -> Cell]
         /\ rx_len \in 0..MaxFrame /\ rx_pending \in {0, 1}
         /\ dirty \in BOOLEAN /\ clean \in BOOLEAN)'
    BY DEF TypeOK, LocalInv, SendPcs, DrainPcs
  <2> QED
    BY <2>1, <2>2, <2>3, <2>4, <2>5 DEF TypeOK
<1>2. LocalInv'
  BY DEF TypeOK, StubTypeOK, LocalInv, SendPcs, DrainPcs
<1>3. MaskInv'
  BY DEF TypeOK, StubTypeOK, MaskInv, SendPcs, SendMask
<1>4. CountInv'
  BY DEF TypeOK, StubTypeOK, CountInv, LocalInv, SendPcs, DrainPcs
<1>5. StubInv'
  BY DEF TypeOK, StubTypeOK, StubInv, Holds
<1>6. DrainInv'
  BY DEF TypeOK, StubTypeOK, DrainInv, StubInv, LocalInv, Holds, DrainPcs, SendPcs
<1>7. SendInv'
  BY DEF TypeOK, StubTypeOK, SendInv, LocalInv, Holds, SendPcs, DrainPcs
<1>8. HistInv'
  BY HistKept
<1> QED
  BY <1>1, <1>2, <1>3, <1>4, <1>5, <1>6, <1>7, <1>8

LEMMA IrqDoneStep ==
    ASSUME IInv, IrqDone
    PROVE  IInv'
<1> USE StubAssumption, PktDrvAssumption DEF IInv, stubVars, pmVars, copyVars, txVars, slot, hist, ghost, PmRuns, IrqDone, Phase1, NoFrame
<1>1. TypeOK'
  <2>1. StubTypeOK'
    BY DEF TypeOK, StubTypeOK
  <2>2. (bounce \in [1..BounceCells -> Cell])'
    BY DEF TypeOK, StubTypeOK, LocalInv, SendPcs, Cell
  <2>3. (out \in Seq([size : 0..MaxFrame, clean : BOOLEAN, data : Packet]))'
    BY DEF TypeOK
  <2>4. (sent \in Seq([asked : TxFrames, size : 0..BounceCells, clean : BOOLEAN,
                  data : Packet]))'
    BY DEF TypeOK
  <2>5. (/\ pc \in {"idle", "take"} \cup SendPcs \cup DrainPcs
         /\ idx \in 0..BounceCells /\ len \in 0..BounceCells /\ idx <= len
         /\ tx \in TxFrames \cup {Blank} /\ txLeft \in SUBSET TxFrames
         /\ saved_mask \in SUBSET (8..15)
         /\ rx_buf \in [1..MaxFrame -> Cell]
         /\ rx_len \in 0..MaxFrame /\ rx_pending \in {0, 1}
         /\ dirty \in BOOLEAN /\ clean \in BOOLEAN)'
    BY DEF TypeOK, LocalInv, SendPcs, DrainPcs
  <2> QED
    BY <2>1, <2>2, <2>3, <2>4, <2>5 DEF TypeOK
<1>2. LocalInv'
  BY DEF TypeOK, StubTypeOK, LocalInv, SendPcs, DrainPcs
<1>3. MaskInv'
  BY DEF TypeOK, StubTypeOK, MaskInv, SendPcs, SendMask
<1>4. CountInv'
  BY DEF TypeOK, StubTypeOK, CountInv, LocalInv, SendPcs, DrainPcs
<1>5. StubInv'
  BY DEF TypeOK, StubTypeOK, StubInv, Holds
<1>6. DrainInv'
  BY DEF TypeOK, StubTypeOK, DrainInv, StubInv, LocalInv, Holds, DrainPcs, SendPcs
<1>7. SendInv'
  BY DEF TypeOK, StubTypeOK, SendInv, LocalInv, Holds, SendPcs, DrainPcs
<1>8. HistInv'
  BY HistKept
<1> QED
  BY <1>1, <1>2, <1>3, <1>4, <1>5, <1>6, <1>7, <1>8

LEMMA SendCallStep ==
    ASSUME IInv, NEW t \in TxFrames, SendCall(t)
    PROVE  IInv'
<1> USE StubAssumption, PktDrvAssumption DEF IInv, stubVars, pmVars, copyVars, txVars, slot, hist, ghost, PmRuns, SendCall
<1>1. TypeOK'
  <2>1. StubTypeOK'
    BY DEF TypeOK, StubTypeOK
  <2>2. (bounce \in [1..BounceCells -> Cell])'
    BY DEF TypeOK, StubTypeOK, LocalInv, SendPcs, Cell
  <2>3. (out \in Seq([size : 0..MaxFrame, clean : BOOLEAN, data : Packet]))'
    BY DEF TypeOK
  <2>4. (sent \in Seq([asked : TxFrames, size : 0..BounceCells, clean : BOOLEAN,
                  data : Packet]))'
    BY DEF TypeOK
  <2>5. (/\ tx \in TxFrames \cup {Blank} /\ txLeft \in SUBSET TxFrames
         /\ saved_mask \in SUBSET (8..15)
         /\ rx_buf \in [1..MaxFrame -> Cell]
         /\ rx_len \in 0..MaxFrame /\ rx_pending \in {0, 1}
         /\ dirty \in BOOLEAN /\ clean \in BOOLEAN)'
    BY DEF TypeOK
  <2>6. (/\ pc \in {"idle", "take"} \cup SendPcs \cup DrainPcs
         /\ idx \in 0..BounceCells /\ len \in 0..BounceCells /\ idx <= len)'
    BY DEF TypeOK, SendPcs, DrainPcs
  <2> QED
    BY <2>1, <2>2, <2>3, <2>4, <2>5, <2>6 DEF TypeOK
<1>2. LocalInv'
  BY DEF TypeOK, StubTypeOK, LocalInv, SendPcs, DrainPcs
<1>3. MaskInv'
  BY DEF TypeOK, StubTypeOK, MaskInv, SendPcs, SendMask
<1>4. CountInv'
  BY DEF TypeOK, StubTypeOK, CountInv, LocalInv, SendPcs, DrainPcs
<1>5. StubInv'
  BY DEF TypeOK, StubTypeOK, StubInv, Holds
<1>6. DrainInv'
  BY DEF TypeOK, StubTypeOK, DrainInv, StubInv, LocalInv, Holds, DrainPcs, SendPcs
<1>7. SendInv'
  <2>1. CASE TxLen[t] > BounceCells /\ UNCHANGED <<pc, tx, clean, copyVars>>
    BY <2>1 DEF SendInv, SendPcs
  <2>2. CASE idx' = 0 /\ isr' = isr
    BY <2>2 DEF SendInv, Holds
  <2> QED
    BY <2>1, <2>2
<1>8. HistInv'
  BY HistKept
<1> QED
  BY <1>1, <1>2, <1>3, <1>4, <1>5, <1>6, <1>7, <1>8

LEMMA SendCopyStep ==
    ASSUME IInv, SendCopy
    PROVE  IInv'
<1> USE StubAssumption, PktDrvAssumption DEF IInv, stubVars, pmVars, copyVars, txVars, slot, hist, ghost, PmRuns, SendCopy
<1>1. TypeOK'
  <2>1. StubTypeOK'
    BY DEF TypeOK, StubTypeOK
  <2>2. (bounce \in [1..BounceCells -> Cell])'
    BY DEF TypeOK, StubTypeOK, LocalInv, SendPcs, Cell
  <2>3. (out \in Seq([size : 0..MaxFrame, clean : BOOLEAN, data : Packet]))'
    BY DEF TypeOK
  <2>4. (sent \in Seq([asked : TxFrames, size : 0..BounceCells, clean : BOOLEAN,
                  data : Packet]))'
    BY DEF TypeOK
  <2>5. (/\ pc \in {"idle", "take"} \cup SendPcs \cup DrainPcs
         /\ idx \in 0..BounceCells /\ len \in 0..BounceCells /\ idx <= len
         /\ tx \in TxFrames \cup {Blank} /\ txLeft \in SUBSET TxFrames
         /\ saved_mask \in SUBSET (8..15)
         /\ rx_buf \in [1..MaxFrame -> Cell]
         /\ rx_len \in 0..MaxFrame /\ rx_pending \in {0, 1}
         /\ dirty \in BOOLEAN /\ clean \in BOOLEAN)'
    BY DEF TypeOK, LocalInv, SendPcs, DrainPcs
  <2> QED
    BY <2>1, <2>2, <2>3, <2>4, <2>5 DEF TypeOK
<1>2. LocalInv'
  BY DEF TypeOK, StubTypeOK, LocalInv, SendPcs, DrainPcs
<1>3. MaskInv'
  BY DEF TypeOK, StubTypeOK, MaskInv, SendPcs, SendMask
<1>4. CountInv'
  BY DEF TypeOK, StubTypeOK, CountInv, LocalInv, SendPcs, DrainPcs
<1>5. StubInv'
  BY DEF TypeOK, StubTypeOK, StubInv, Holds
<1>6. DrainInv'
  BY DEF TypeOK, StubTypeOK, DrainInv, StubInv, LocalInv, Holds, DrainPcs, SendPcs
<1>7. SendInv'
  BY DEF TypeOK, StubTypeOK, SendInv, LocalInv, Holds, SendPcs, DrainPcs
<1>8. HistInv'
  BY HistKept
<1> QED
  BY <1>1, <1>2, <1>3, <1>4, <1>5, <1>6, <1>7, <1>8

LEMMA SendReadMaskStep ==
    ASSUME IInv, SendReadMask
    PROVE  IInv'
<1> USE StubAssumption, PktDrvAssumption DEF IInv, stubVars, pmVars, copyVars, txVars, slot, hist, ghost, PmRuns, SendReadMask
<1>1. TypeOK'
  BY DEF TypeOK, StubTypeOK, LocalInv, SendPcs, DrainPcs
<1>2. LocalInv'
  BY DEF TypeOK, StubTypeOK, LocalInv, SendPcs, DrainPcs
<1>3. MaskInv'
  BY DEF TypeOK, StubTypeOK, MaskInv, SendPcs, SendMask
<1>4. CountInv'
  BY DEF TypeOK, StubTypeOK, CountInv, LocalInv, SendPcs, DrainPcs
<1>5. StubInv'
  BY DEF TypeOK, StubTypeOK, StubInv, Holds
<1>6. DrainInv'
  BY DEF TypeOK, StubTypeOK, DrainInv, StubInv, LocalInv, Holds, DrainPcs, SendPcs
<1>7. SendInv'
  BY DEF TypeOK, StubTypeOK, SendInv, LocalInv, Holds, SendPcs, DrainPcs
<1>8. HistInv'
  BY HistKept
<1> QED
  BY <1>1, <1>2, <1>3, <1>4, <1>5, <1>6, <1>7, <1>8

LEMMA SendSetMaskStep ==
    ASSUME IInv, SendSetMask
    PROVE  IInv'
<1> USE StubAssumption, PktDrvAssumption DEF IInv, stubVars, pmVars, copyVars, txVars, slot, hist, ghost, PmRuns, SendSetMask, SendMask
<1>1. TypeOK'
  BY DEF TypeOK, StubTypeOK, LocalInv, SendPcs, DrainPcs
<1>2. LocalInv'
  BY DEF TypeOK, StubTypeOK, LocalInv, SendPcs, DrainPcs
<1>3. MaskInv'
  BY DEF TypeOK, StubTypeOK, MaskInv, SendPcs, SendMask
<1>4. CountInv'
  BY DEF TypeOK, StubTypeOK, CountInv, LocalInv, SendPcs, DrainPcs
<1>5. StubInv'
  BY DEF TypeOK, StubTypeOK, StubInv, Holds
<1>6. DrainInv'
  BY DEF TypeOK, StubTypeOK, DrainInv, StubInv, LocalInv, Holds, DrainPcs, SendPcs
<1>7. SendInv'
  BY DEF TypeOK, StubTypeOK, SendInv, LocalInv, Holds, SendPcs, DrainPcs
<1>8. HistInv'
  BY HistKept
<1> QED
  BY <1>1, <1>2, <1>3, <1>4, <1>5, <1>6, <1>7, <1>8

LEMMA SendDispatchStep ==
    ASSUME IInv, SendDispatch
    PROVE  IInv'
<1> USE StubAssumption, PktDrvAssumption DEF IInv, stubVars, pmVars, copyVars, txVars, slot, hist, ghost, PmRuns, SendDispatch
<1>1. TypeOK'
  BY DEF TypeOK, StubTypeOK, LocalInv, SendPcs, DrainPcs
<1>2. LocalInv'
  BY DEF TypeOK, StubTypeOK, LocalInv, SendPcs, DrainPcs
<1>3. MaskInv'
  BY DEF TypeOK, StubTypeOK, MaskInv, SendPcs, SendMask
<1>4. CountInv'
  BY DEF TypeOK, StubTypeOK, CountInv, LocalInv, SendPcs, DrainPcs
<1>5. StubInv'
  BY DEF TypeOK, StubTypeOK, StubInv, Holds
<1>6. DrainInv'
  BY DEF TypeOK, StubTypeOK, DrainInv, StubInv, LocalInv, Holds, DrainPcs, SendPcs
<1>7. SendInv'
  BY DEF TypeOK, StubTypeOK, SendInv, LocalInv, Holds, SendPcs, DrainPcs
<1>8. HistInv'
  BY HistKept
<1> QED
  BY <1>1, <1>2, <1>3, <1>4, <1>5, <1>6, <1>7, <1>8

LEMMA DriverSendStep ==
    ASSUME IInv, DriverSend
    PROVE  IInv'
<1> USE StubAssumption, PktDrvAssumption DEF IInv, stubVars, pmVars, copyVars, txVars, slot, hist, ghost, PmRuns, DriverSend
<1>1. TypeOK'
  <2>1. StubTypeOK'
    BY DEF TypeOK, StubTypeOK
  <2>2. (bounce \in [1..BounceCells -> Cell])'
    BY DEF TypeOK, StubTypeOK, LocalInv, SendPcs, Cell
  <2>3. (out \in Seq([size : 0..MaxFrame, clean : BOOLEAN, data : Packet]))'
    BY DEF TypeOK
  <2>4. (sent \in Seq([asked : TxFrames, size : 0..BounceCells, clean : BOOLEAN,
                  data : Packet]))'
    <3>1. [c \in 1..len |-> bounce[c]] \in [1..len -> Cell]
      BY DEF TypeOK
    <3>2. [c \in 1..len |-> bounce[c]] \in Packet
      BY <3>1, PacketFun DEF TypeOK
    <3>3. tx \in TxFrames
      BY DEF LocalInv, SendPcs
    <3>4. [asked |-> tx, size |-> len, clean |-> clean,
           data |-> [c \in 1..len |-> bounce[c]]]
             \in [asked : TxFrames, size : 0..BounceCells, clean : BOOLEAN, data : Packet]
      BY <3>2, <3>3 DEF TypeOK
    <3> DEFINE R == [asked : TxFrames, size : 0..BounceCells, clean : BOOLEAN,
                     data : Packet]
               item == [asked |-> tx, size |-> len, clean |-> clean,
                        data |-> [c \in 1..len |-> bounce[c]]]
    <3>5. sent \in Seq(R) /\ item \in R /\ (sent' = Append(sent, item) \/ sent' = sent)
      BY <3>4 DEF TypeOK
    <3> HIDE DEF R, item
    <3>6. Append(sent, item) \in Seq(R)
      BY <3>5, AppendProperties
    <3>7. sent' \in Seq(R)
      BY <3>5, <3>6
    <3> QED
      BY <3>7 DEF R
  <2>5. (/\ pc \in {"idle", "take"} \cup SendPcs \cup DrainPcs
         /\ idx \in 0..BounceCells /\ len \in 0..BounceCells /\ idx <= len
         /\ tx \in TxFrames \cup {Blank} /\ txLeft \in SUBSET TxFrames
         /\ saved_mask \in SUBSET (8..15)
         /\ rx_buf \in [1..MaxFrame -> Cell]
         /\ rx_len \in 0..MaxFrame /\ rx_pending \in {0, 1}
         /\ dirty \in BOOLEAN /\ clean \in BOOLEAN)'
    BY DEF TypeOK, LocalInv, SendPcs, DrainPcs
  <2> QED
    BY <2>1, <2>2, <2>3, <2>4, <2>5 DEF TypeOK
<1>2. LocalInv'
  BY DEF TypeOK, StubTypeOK, LocalInv, SendPcs, DrainPcs
<1>3. MaskInv'
  BY DEF TypeOK, StubTypeOK, MaskInv, SendPcs, SendMask
<1>4. CountInv'
  BY DEF TypeOK, StubTypeOK, CountInv, LocalInv, SendPcs, DrainPcs
<1>5. StubInv'
  BY DEF TypeOK, StubTypeOK, StubInv, Holds
<1>6. DrainInv'
  BY DEF TypeOK, StubTypeOK, DrainInv, StubInv, LocalInv, Holds, DrainPcs, SendPcs
<1>7. SendInv'
  BY DEF TypeOK, StubTypeOK, SendInv, LocalInv, Holds, SendPcs, DrainPcs
<1>8. HistInv'
  <2>1. CleanDrainIsExact'
    BY DEF HistInv, CleanDrainIsExact
  <2>2. CleanSendIsExact'
    <3>1. CASE UNCHANGED sent
      BY <3>1 DEF HistInv, CleanSendIsExact
    <3>2. CASE sent' = Append(sent, [asked |-> tx, size |-> len, clean |-> clean,
                                     data |-> [c \in 1..len |-> bounce[c]]])
      <4>1. clean => \A c \in 1..len : bounce[c] = tx
        BY DEF SendInv, LocalInv, SendPcs, Holds
      <4>2. len = TxLen[tx]
        BY DEF LocalInv, SendPcs
      <4> DEFINE item == [asked |-> tx, size |-> len, clean |-> clean,
                          data |-> [c \in 1..len |-> bounce[c]]]
      <4>3. /\ Len(sent') = Len(sent) + 1 /\ Len(sent) \in Nat
            /\ \A k \in 1..Len(sent) : sent'[k] = sent[k]
            /\ sent'[Len(sent) + 1] = item
        <5>1. sent' = Append(sent, item)
          BY <3>2
        <5> HIDE DEF item
        <5> QED
          BY <5>1, AppendProperties DEF TypeOK
      <4>4. item.clean => /\ item.size = TxLen[item.asked]
                          /\ item.data = [c \in 1..item.size |-> item.asked]
        BY <4>1, <4>2
      <4> HIDE DEF item
      <4> SUFFICES ASSUME NEW k \in 1..Len(sent'), sent'[k].clean
                   PROVE  /\ sent'[k].size = TxLen[sent'[k].asked]
                          /\ sent'[k].data = [c \in 1..sent'[k].size |-> sent'[k].asked]
        BY DEF CleanSendIsExact
      <4>5. CASE k = Len(sent) + 1
        BY <4>3, <4>4, <4>5
      <4>6. CASE k \in 1..Len(sent)
        BY <4>3, <4>6 DEF HistInv, CleanSendIsExact
      <4> QED
        BY <4>3, <4>5, <4>6
    <3> QED
      BY <3>1, <3>2
  <2> QED
    BY <2>1, <2>2 DEF HistInv
<1> QED
  BY <1>1, <1>2, <1>3, <1>4, <1>5, <1>6, <1>7, <1>8

LEMMA SendRestoreStep ==
    ASSUME IInv, SendRestore
    PROVE  IInv'
<1> USE StubAssumption, PktDrvAssumption DEF IInv, stubVars, pmVars, copyVars, txVars, slot, hist, ghost, PmRuns, SendRestore
<1>1. TypeOK'
  BY DEF TypeOK, StubTypeOK, LocalInv, SendPcs, DrainPcs
<1>2. LocalInv'
  BY DEF TypeOK, StubTypeOK, LocalInv, SendPcs, DrainPcs
<1>3. MaskInv'
  BY DEF TypeOK, StubTypeOK, MaskInv, SendPcs, SendMask
<1>4. CountInv'
  BY DEF TypeOK, StubTypeOK, CountInv, LocalInv, SendPcs, DrainPcs
<1>5. StubInv'
  BY DEF TypeOK, StubTypeOK, StubInv, Holds
<1>6. DrainInv'
  BY DEF TypeOK, StubTypeOK, DrainInv, StubInv, LocalInv, Holds, DrainPcs, SendPcs
<1>7. SendInv'
  BY DEF TypeOK, StubTypeOK, SendInv, LocalInv, Holds, SendPcs, DrainPcs
<1>8. HistInv'
  BY HistKept
<1> QED
  BY <1>1, <1>2, <1>3, <1>4, <1>5, <1>6, <1>7, <1>8

LEMMA PollPendingStep ==
    ASSUME IInv, PollPending
    PROVE  IInv'
<1> USE StubAssumption, PktDrvAssumption DEF IInv, stubVars, pmVars, copyVars, txVars, slot, hist, ghost, PmRuns, PollPending
<1>1. TypeOK'
  BY DEF TypeOK, StubTypeOK, LocalInv, SendPcs, DrainPcs
<1>2. LocalInv'
  BY DEF TypeOK, StubTypeOK, LocalInv, SendPcs, DrainPcs
<1>3. MaskInv'
  BY DEF TypeOK, StubTypeOK, MaskInv, SendPcs, SendMask
<1>4. CountInv'
  BY DEF TypeOK, StubTypeOK, CountInv, LocalInv, SendPcs, DrainPcs
<1>5. StubInv'
  BY DEF TypeOK, StubTypeOK, StubInv, Holds
<1>6. DrainInv'
  BY DEF TypeOK, StubTypeOK, DrainInv, StubInv, LocalInv, Holds, DrainPcs, SendPcs
<1>7. SendInv'
  BY DEF TypeOK, StubTypeOK, SendInv, LocalInv, Holds, SendPcs, DrainPcs
<1>8. HistInv'
  BY HistKept
<1> QED
  BY <1>1, <1>2, <1>3, <1>4, <1>5, <1>6, <1>7, <1>8

LEMMA PollLengthStep ==
    ASSUME IInv, PollLength
    PROVE  IInv'
<1> USE StubAssumption, PktDrvAssumption DEF IInv, stubVars, pmVars, copyVars, txVars, slot, hist, ghost, PmRuns, PollLength
<1>1. TypeOK'
  BY DEF TypeOK, StubTypeOK, LocalInv, SendPcs, DrainPcs
<1>2. LocalInv'
  BY DEF TypeOK, StubTypeOK, LocalInv, SendPcs, DrainPcs
<1>3. MaskInv'
  BY DEF TypeOK, StubTypeOK, MaskInv, SendPcs, SendMask
<1>4. CountInv'
  BY DEF TypeOK, StubTypeOK, CountInv, LocalInv, SendPcs, DrainPcs
<1>5. StubInv'
  BY DEF TypeOK, StubTypeOK, StubInv, Holds
<1>6. DrainInv'
  BY DEF TypeOK, StubTypeOK, DrainInv, StubInv, LocalInv, Holds, DrainPcs, SendPcs
<1>7. SendInv'
  BY DEF TypeOK, StubTypeOK, SendInv, LocalInv, Holds, SendPcs, DrainPcs
<1>8. HistInv'
  BY HistKept
<1> QED
  BY <1>1, <1>2, <1>3, <1>4, <1>5, <1>6, <1>7, <1>8

LEMMA PollDiscardStep ==
    ASSUME IInv, PollDiscard
    PROVE  IInv'
<1> USE StubAssumption, PktDrvAssumption DEF IInv, stubVars, pmVars, copyVars, txVars, slot, hist, ghost, PmRuns, PollDiscard
<1>1. TypeOK'
  BY DEF TypeOK, StubTypeOK, LocalInv, SendPcs, DrainPcs
<1>2. LocalInv'
  BY DEF TypeOK, StubTypeOK, LocalInv, SendPcs, DrainPcs
<1>3. MaskInv'
  BY DEF TypeOK, StubTypeOK, MaskInv, SendPcs, SendMask
<1>4. CountInv'
  BY DEF TypeOK, StubTypeOK, CountInv, LocalInv, SendPcs, DrainPcs
<1>5. StubInv'
  BY DEF TypeOK, StubTypeOK, StubInv, Holds
<1>6. DrainInv'
  BY DEF TypeOK, StubTypeOK, DrainInv, StubInv, LocalInv, Holds, DrainPcs, SendPcs
<1>7. SendInv'
  BY DEF TypeOK, StubTypeOK, SendInv, LocalInv, Holds, SendPcs, DrainPcs
<1>8. HistInv'
  BY HistKept
<1> QED
  BY <1>1, <1>2, <1>3, <1>4, <1>5, <1>6, <1>7, <1>8

LEMMA PollCopyStep ==
    ASSUME IInv, PollCopy
    PROVE  IInv'
<1> USE StubAssumption, PktDrvAssumption DEF IInv, stubVars, pmVars, copyVars, txVars, slot, hist, ghost, PmRuns, PollCopy
<1>1. TypeOK'
  BY DEF TypeOK, StubTypeOK, LocalInv, SendPcs, DrainPcs
<1>2. LocalInv'
  BY DEF TypeOK, StubTypeOK, LocalInv, SendPcs, DrainPcs
<1>3. MaskInv'
  BY DEF TypeOK, StubTypeOK, MaskInv, SendPcs, SendMask
<1>4. CountInv'
  BY DEF TypeOK, StubTypeOK, CountInv, LocalInv, SendPcs, DrainPcs
<1>5. StubInv'
  BY DEF TypeOK, StubTypeOK, StubInv, Holds
<1>6. DrainInv'
  BY DEF TypeOK, StubTypeOK, DrainInv, StubInv, LocalInv, Holds, DrainPcs, SendPcs
<1>7. SendInv'
  BY DEF TypeOK, StubTypeOK, SendInv, LocalInv, Holds, SendPcs, DrainPcs
<1>8. HistInv'
  BY HistKept
<1> QED
  BY <1>1, <1>2, <1>3, <1>4, <1>5, <1>6, <1>7, <1>8

LEMMA PollClearStep ==
    ASSUME IInv, PollClear
    PROVE  IInv'
<1> USE StubAssumption, PktDrvAssumption DEF IInv, stubVars, pmVars, copyVars, txVars, slot, hist, ghost, PmRuns, PollClear
<1>1. TypeOK'
  BY DEF TypeOK, StubTypeOK, LocalInv, SendPcs, DrainPcs
<1>2. LocalInv'
  BY DEF TypeOK, StubTypeOK, LocalInv, SendPcs, DrainPcs
<1>3. MaskInv'
  BY DEF TypeOK, StubTypeOK, MaskInv, SendPcs, SendMask
<1>4. CountInv'
  BY DEF TypeOK, StubTypeOK, CountInv, LocalInv, SendPcs, DrainPcs
<1>5. StubInv'
  BY DEF TypeOK, StubTypeOK, StubInv, Holds
<1>6. DrainInv'
  <2>1. ASSUME clean
        PROVE  \E f \in Frames \ wire : rx_len' = FrameLen[f] /\ Holds(rx_buf, rx_len', f)
    <3>1. len = st_length /\ \A c \in 1..idx : rx_buf[c] = bounce[c]
      BY <2>1 DEF DrainInv
    <3>2. isr.phase = "none" /\ st_pending = 1 /\ ~dirty
      BY <2>1 DEF DrainInv, LocalInv, DrainPcs
    <3>3. PICK f \in Frames \ wire : st_length = FrameLen[f] /\ Holds(bounce, st_length, f)
      BY <3>2 DEF StubInv
    <3>4. rx_len' = FrameLen[f] /\ Holds(rx_buf, rx_len', f)
      BY <3>1, <3>3 DEF LocalInv, Holds
    <3> QED
      BY <3>4
  <2> QED
    BY <2>1 DEF DrainInv, DrainPcs, Holds
<1>7. SendInv'
  BY DEF TypeOK, StubTypeOK, SendInv, LocalInv, Holds, SendPcs, DrainPcs
<1>8. HistInv'
  BY HistKept
<1> QED
  BY <1>1, <1>2, <1>3, <1>4, <1>5, <1>6, <1>7, <1>8

LEMMA RecvTakeStep ==
    ASSUME IInv, RecvTake
    PROVE  IInv'
<1> USE StubAssumption, PktDrvAssumption DEF IInv, stubVars, pmVars, copyVars, txVars, slot, hist, ghost, PmRuns, RecvTake
<1>1. TypeOK'
  <2>1. StubTypeOK'
    BY DEF TypeOK, StubTypeOK
  <2>2. (bounce \in [1..BounceCells -> Cell])'
    BY DEF TypeOK, StubTypeOK, LocalInv, SendPcs, Cell
  <2>3. (out \in Seq([size : 0..MaxFrame, clean : BOOLEAN, data : Packet]))'
    <3> DEFINE n == IF rx_len > MaxLen THEN MaxLen ELSE rx_len
    <3>1. n \in 0..MaxFrame /\ n \in 0..BounceCells
      BY DEF TypeOK
    <3>2. [c \in 1..n |-> rx_buf[c]] \in [1..n -> Cell]
      BY <3>1 DEF TypeOK
    <3>3. [c \in 1..n |-> rx_buf[c]] \in Packet
      BY <3>1, <3>2, PacketFun
    <3> DEFINE R == [size : 0..MaxFrame, clean : BOOLEAN, data : Packet]
               item == [size |-> n, clean |-> clean, data |-> [c \in 1..n |-> rx_buf[c]]]
    <3>4. item \in R
      <4> HIDE DEF n
      <4> QED
        BY <3>1, <3>3 DEF TypeOK
    <3>5. out \in Seq(R) /\ out' = Append(out, item)
      BY DEF TypeOK
    <3> HIDE DEF R, item
    <3>6. out' \in Seq(R)
      BY <3>4, <3>5, AppendProperties
    <3> QED
      BY <3>6 DEF R
  <2>4. (sent \in Seq([asked : TxFrames, size : 0..BounceCells, clean : BOOLEAN,
                  data : Packet]))'
    BY DEF TypeOK
  <2>5. (/\ pc \in {"idle", "take"} \cup SendPcs \cup DrainPcs
         /\ idx \in 0..BounceCells /\ len \in 0..BounceCells /\ idx <= len
         /\ tx \in TxFrames \cup {Blank} /\ txLeft \in SUBSET TxFrames
         /\ saved_mask \in SUBSET (8..15)
         /\ rx_buf \in [1..MaxFrame -> Cell]
         /\ rx_len \in 0..MaxFrame /\ rx_pending \in {0, 1}
         /\ dirty \in BOOLEAN /\ clean \in BOOLEAN)'
    BY DEF TypeOK, LocalInv, SendPcs, DrainPcs
  <2> QED
    BY <2>1, <2>2, <2>3, <2>4, <2>5 DEF TypeOK
<1>2. LocalInv'
  BY DEF TypeOK, StubTypeOK, LocalInv, SendPcs, DrainPcs
<1>3. MaskInv'
  BY DEF TypeOK, StubTypeOK, MaskInv, SendPcs, SendMask
<1>4. CountInv'
  BY DEF TypeOK, StubTypeOK, CountInv, LocalInv, SendPcs, DrainPcs
<1>5. StubInv'
  BY DEF TypeOK, StubTypeOK, StubInv, Holds
<1>6. DrainInv'
  BY DEF TypeOK, StubTypeOK, DrainInv, StubInv, LocalInv, Holds, DrainPcs, SendPcs
<1>7. SendInv'
  BY DEF TypeOK, StubTypeOK, SendInv, LocalInv, Holds, SendPcs, DrainPcs
<1>8. HistInv'
  <2>1. CleanSendIsExact'
    BY DEF HistInv, CleanSendIsExact
  <2>2. CleanDrainIsExact'
    <3> DEFINE n == IF rx_len > MaxLen THEN MaxLen ELSE rx_len
               item == [size |-> n, clean |-> clean, data |-> [c \in 1..n |-> rx_buf[c]]]
    <3>1. out' = Append(out, item)
      OBVIOUS
    <3>2. /\ Len(out') = Len(out) + 1 /\ Len(out) \in Nat
          /\ \A k \in 1..Len(out) : out'[k] = out[k]
          /\ out'[Len(out) + 1] = item
      <4> HIDE DEF item
      <4> QED
        BY <3>1, AppendProperties DEF TypeOK
    <3>3. clean => \E f \in Frames \ wire :
                      /\ n = IF FrameLen[f] > MaxLen THEN MaxLen ELSE FrameLen[f]
                      /\ [c \in 1..n |-> rx_buf[c]] = [c \in 1..n |-> f]
      <4> SUFFICES ASSUME clean
                   PROVE  \E f \in Frames \ wire :
                            /\ n = IF FrameLen[f] > MaxLen THEN MaxLen ELSE FrameLen[f]
                            /\ [c \in 1..n |-> rx_buf[c]] = [c \in 1..n |-> f]
        OBVIOUS
      <4>1. PICK f \in Frames \ wire : rx_len = FrameLen[f] /\ Holds(rx_buf, rx_len, f)
        BY DEF DrainInv
      <4>2. \A c \in 1..n : rx_buf[c] = f
        BY <4>1 DEF Holds, TypeOK
      <4>3. n = IF FrameLen[f] > MaxLen THEN MaxLen ELSE FrameLen[f]
        BY <4>1
      <4> HIDE DEF n
      <4> QED
        BY <4>2, <4>3
    <3> HIDE DEF n
    <3>4. item.clean => \E f \in Frames \ wire :
                      /\ item.size = IF FrameLen[f] > MaxLen THEN MaxLen ELSE FrameLen[f]
                      /\ item.data = [c \in 1..item.size |-> f]
      BY <3>3
    <3> HIDE DEF item
    <3> SUFFICES ASSUME NEW k \in 1..Len(out'), out'[k].clean
                 PROVE  \E f \in Frames \ wire' :
                          /\ out'[k].size = IF FrameLen[f] > MaxLen THEN MaxLen
                                            ELSE FrameLen[f]
                          /\ out'[k].data = [c \in 1..out'[k].size |-> f]
      BY DEF CleanDrainIsExact
    <3>5. wire' = wire
      OBVIOUS
    <3>6. CASE k = Len(out) + 1
      <4>1. out'[k] = item
        BY <3>2, <3>6
      <4> QED
        BY <3>4, <3>5, <4>1, Zenon
    <3>7. CASE k \in 1..Len(out)
      <4>1. out'[k] = out[k]
        BY <3>2, <3>7
      <4>2. \A j \in 1..Len(out) : out[j].clean =>
              \E f \in Frames \ wire :
                 /\ out[j].size = IF FrameLen[f] > MaxLen THEN MaxLen ELSE FrameLen[f]
                 /\ out[j].data = [c \in 1..out[j].size |-> f]
        BY DEF HistInv, CleanDrainIsExact
      <4> QED
        BY <3>5, <3>7, <4>1, <4>2, SMTT(30)
    <3>8. k \in 1..Len(out) \/ k = Len(out) + 1
      BY <3>2
    <3> QED
      BY <3>6, <3>7, <3>8
  <2> QED
    BY <2>1, <2>2 DEF HistInv
<1> QED
  BY <1>1, <1>2, <1>3, <1>4, <1>5, <1>6, <1>7, <1>8

LEMMA StutterStep ==
    ASSUME IInv, UNCHANGED vars
    PROVE  IInv'
<1> USE StubAssumption, PktDrvAssumption DEF IInv, stubVars, pmVars, copyVars, txVars, slot, hist, ghost, PmRuns, vars
<1>1. TypeOK'
  BY DEF TypeOK, StubTypeOK, LocalInv, SendPcs, DrainPcs
<1>2. LocalInv'
  BY DEF TypeOK, StubTypeOK, LocalInv, SendPcs, DrainPcs
<1>3. MaskInv'
  BY DEF TypeOK, StubTypeOK, MaskInv, SendPcs, SendMask
<1>4. CountInv'
  BY DEF TypeOK, StubTypeOK, CountInv, LocalInv, SendPcs, DrainPcs
<1>5. StubInv'
  BY DEF TypeOK, StubTypeOK, StubInv, Holds
<1>6. DrainInv'
  BY DEF TypeOK, StubTypeOK, DrainInv, StubInv, LocalInv, Holds, DrainPcs, SendPcs
<1>7. SendInv'
  BY DEF TypeOK, StubTypeOK, SendInv, LocalInv, Holds, SendPcs, DrainPcs
<1>8. HistInv'
  BY HistKept
<1> QED
  BY <1>1, <1>2, <1>3, <1>4, <1>5, <1>6, <1>7, <1>8

-----------------------------------------------------------------------------
(* The theorems *)

LEMMA NextInv == IInv /\ [Next]_vars => IInv'
<1> SUFFICES ASSUME IInv, [Next]_vars PROVE IInv'
  OBVIOUS
<1>1. CASE Interrupt
  BY <1>1, IrqStep, IrqFillStep, IrqDoneStep DEF Interrupt
<1>2. CASE Send
  BY <1>2, SendCallStep, SendCopyStep, SendReadMaskStep, SendSetMaskStep,
     SendDispatchStep, DriverSendStep, SendRestoreStep DEF Send
<1>3. CASE Recv
  BY <1>3, PollPendingStep, PollLengthStep, PollDiscardStep, PollCopyStep,
     PollClearStep, RecvTakeStep DEF Recv
<1>4. CASE RecvEmpty \/ UNCHANGED vars
  BY <1>4, StutterStep DEF RecvEmpty
<1> QED
  BY <1>1, <1>2, <1>3, <1>4 DEF Next

LEMMA Invariance == Spec => []IInv
BY InitInv, NextInv, PTL DEF Spec

(***************************************************************************)
(* pktdrv_send and pktdrv_recv keep every copy inside its buffer and every *)
(* variable in its type, for every frame length the NIC reports.           *)
(***************************************************************************)
THEOREM TypeCorrect == Spec => []TypeOK
<1>1. IInv => TypeOK
  BY DEF IInv
<1> QED
  BY <1>1, Invariance, PTL

(***************************************************************************)
(* A NIC on one of the two lines pktdrv_send masks, 9 and 11, does not     *)
(* interrupt the real-mode half of the send; for the other lines of the    *)
(* slave PIC this is neither claimed nor true.                             *)
(***************************************************************************)
THEOREM SendNotInterrupted == Spec => []NoIrqDuringSend
<1>1. IInv => NoIrqDuringSend
  BY DEF IInv, MaskInv, NoIrqDuringSend
<1> QED
  BY <1>1, Invariance, PTL

(* Every return path of pktdrv_send puts the PIC mask back. *)
THEOREM MaskIsTransient == Spec => []MaskRestored
<1>1. IInv => MaskRestored
  BY DEF IInv, MaskInv, MaskRestored
<1> QED
  BY <1>1, Invariance, PTL

(* A drain no interrupt hit hands lwIP one received frame unchanged. *)
THEOREM DrainIsExact == Spec => []CleanDrainIsExact
<1>1. IInv => CleanDrainIsExact
  BY DEF IInv, HistInv
<1> QED
  BY <1>1, Invariance, PTL

(* A send no interrupt hit puts the caller's frame on the wire unchanged. *)
THEOREM SendIsExact == Spec => []CleanSendIsExact
<1>1. IInv => CleanSendIsExact
  BY DEF IInv, HistInv
<1> QED
  BY <1>1, Invariance, PTL

(* pktdrv_recv never delivers more frames than the stub completed. *)
THEOREM DeliveredAtMostOnce == Spec => []AtMostOnce
<1>1. IInv => AtMostOnce
  BY DEF IInv, CountInv, AtMostOnce, TypeOK, StubTypeOK
<1> QED
  BY <1>1, Invariance, PTL
=============================================================================
