------------------------------- MODULE PktDrv -------------------------------
(***************************************************************************)
(* The running Crynwr path of port/pktdrv_uc386dos.c: pktdrv_send,         *)
(* pktdrv_poll_rmstub and pktdrv_recv as protected-mode code whose steps   *)
(* interleave with the receiver stub of RxStub.  Everything shares one     *)
(* bounce buffer.                                                          *)
(*                                                                         *)
(* A step is one access to state the interrupt handler also touches; code  *)
(* between two such accesses is part of the step.                          *)
(***************************************************************************)
EXTENDS RxStub

CONSTANTS
    TxFrames,    \* outbound frames; each is sent at most once
    TxLen,       \* TxLen[t]: length of t in cells
    MaxLen       \* room in the caller's receive buffer, in cells

ASSUME PktDrvAssumption ==
    /\ TxLen \in [TxFrames -> Nat]
    /\ MaxLen \in Nat \ {0}
    /\ TxFrames \cap Frames = {}
    /\ Blank \notin TxFrames

VARIABLES
    pc,          \* where protected-mode code is
    idx,         \* cells of the memcpy in progress already done
    len,         \* local n of pktdrv_poll_rmstub, or len of pktdrv_send
    tx,          \* frame pktdrv_send was called with
    txLeft,      \* outbound frames not sent yet
    saved_mask,  \* local saved_mask of pktdrv_send
    rx_buf,      \* pktdrv_rx_buf
    rx_len,      \* pktdrv_rx_len
    rx_pending,  \* pktdrv_rx_pending
    out,         \* history: what pktdrv_recv returned to its callers
    sent,        \* history: what the driver put on the wire
    dirty,       \* history: pktdrv_send wrote the buffer since the last fill
    clean        \* history: nothing touched the data of the copy in progress

copyVars == <<idx, len>>
txVars == <<tx, txLeft, saved_mask>>
slot == <<rx_buf, rx_len, rx_pending>>
hist == <<out, sent>>
ghost == <<dirty, clean>>
pmVars == <<pc, copyVars, txVars, slot, hist, ghost>>
vars == <<stubVars, pmVars>>

SendPcs == {"s_copy", "s_mask", "s_call", "s_rm", "s_restore"}
DrainPcs == {"p_len", "p_discard", "p_copy", "p_clear"}

(* Lines pktdrv_send masks around the dispatch: bits 1 and 3 of port 0xA1. *)
SendMask == {9, 11}

Init ==
    /\ StubInit
    /\ pc = "idle"
    /\ idx = 0 /\ len = 0
    /\ tx = Blank /\ txLeft = TxFrames
    /\ saved_mask = {}
    /\ rx_buf = [c \in 1..MaxFrame |-> Blank]
    /\ rx_len = 0 /\ rx_pending = 0
    /\ out = <<>> /\ sent = <<>>
    /\ dirty = FALSE /\ clean = FALSE

-----------------------------------------------------------------------------
(* Interrupt side *)

(***************************************************************************)
(* External: the driver's IRQ handler starts for frame f and calls phase 0 *)
(* of the stub.  A frame accepted while the buffer is being copied, or     *)
(* between the copy of an outbound frame and its dispatch, spoils that     *)
(* copy; once a received frame is in the slot it is safe.                  *)
(***************************************************************************)
Irq(f) ==
    /\ PmRuns
    /\ f \in wire
    /\ NicIrq \notin pic
    /\ wire' = wire \ {f}
    /\ \/ Phase0Refuse(f) /\ UNCHANGED clean
       \/ Phase0Give(f) /\ clean' = (clean /\ pc = "take")
    /\ UNCHANGED <<bounce, st_pending, pic, filled>>
    /\ UNCHANGED <<pc, dirty, copyVars, txVars, slot, hist>>

IrqFill == DriverFill /\ UNCHANGED pmVars

IrqDone ==
    /\ Phase1
    /\ dirty' = FALSE
    /\ UNCHANGED <<pc, clean, copyVars, txVars, slot, hist>>

-----------------------------------------------------------------------------
(* pktdrv_send *)

(* Fault form: a frame longer than the bounce buffer is cut, not refused. *)
SendCallTruncates(t) ==
    /\ PmRuns /\ pc = "idle"
    /\ t \in txLeft
    /\ txLeft' = txLeft \ {t}
    /\ pc' = "s_copy" /\ idx' = 0 /\ tx' = t
    /\ len' = IF TxLen[t] > BounceCells THEN BounceCells ELSE TxLen[t]
    /\ clean' = TRUE
    /\ UNCHANGED stubVars
    /\ UNCHANGED <<saved_mask, dirty, slot, hist>>

(* Entry: a frame longer than the bounce buffer is refused. *)
SendCall(t) ==
    /\ PmRuns /\ pc = "idle"
    /\ t \in txLeft
    /\ txLeft' = txLeft \ {t}
    /\ \/ TxLen[t] > BounceCells /\ UNCHANGED <<pc, tx, clean, copyVars>>
       \/ /\ TxLen[t] <= BounceCells
          /\ pc' = "s_copy" /\ idx' = 0 /\ len' = TxLen[t] /\ tx' = t
          /\ clean' = TRUE
    /\ UNCHANGED stubVars
    /\ UNCHANGED <<saved_mask, dirty, slot, hist>>

(* One cell of the memcpy into the bounce buffer. *)
SendCopy ==
    /\ PmRuns /\ pc = "s_copy" /\ idx < len
    /\ bounce' = [bounce EXCEPT ![idx + 1] = tx]
    /\ idx' = idx + 1
    /\ dirty' = TRUE
    /\ UNCHANGED <<wire, isr, st_pending, st_length, pic, filled>>
    /\ UNCHANGED <<pc, len, clean, txVars, slot, hist>>

(* saved_mask = inb(0xA1), once the memcpy is over. *)
SendReadMask ==
    /\ PmRuns /\ pc = "s_copy" /\ idx = len
    /\ saved_mask' = pic
    /\ pc' = "s_mask"
    /\ UNCHANGED stubVars
    /\ UNCHANGED <<tx, txLeft, copyVars, slot, hist, ghost>>

(* Fault form: the mask is never written. *)
SendSetMaskSkipped ==
    /\ PmRuns /\ pc = "s_mask"
    /\ pc' = "s_call"
    /\ UNCHANGED stubVars
    /\ UNCHANGED <<copyVars, txVars, slot, hist, ghost>>

(* outb(0xA1, saved_mask | 0x0A). *)
SendSetMask ==
    /\ PmRuns /\ pc = "s_mask"
    /\ pic' = saved_mask \cup SendMask
    /\ pc' = "s_call"
    /\ UNCHANGED <<wire, isr, bounce, st_pending, st_length, filled>>
    /\ UNCHANGED <<copyVars, txVars, slot, hist, ghost>>

(* Fault form: a failed dispatch returns without restoring the mask. *)
SendDispatchEarlyReturn ==
    /\ PmRuns /\ pc = "s_call"
    /\ pc' \in {"s_rm", "idle"}
    /\ UNCHANGED stubVars
    /\ UNCHANGED <<copyVars, txVars, slot, hist, ghost>>

(* The DPMI 0x0301 dispatch enters real mode, or fails before it. *)
SendDispatch ==
    /\ PmRuns /\ pc = "s_call"
    /\ pc' \in {"s_rm", "s_restore"}
    /\ UNCHANGED stubVars
    /\ UNCHANGED <<copyVars, txVars, slot, hist, ghost>>

(* External: AH=04 reads the buffer and transmits it, or sets carry. *)
DriverSend ==
    /\ PmRuns /\ pc = "s_rm"
    /\ pc' = "s_restore"
    /\ \/ sent' = Append(sent, [asked |-> tx, size |-> len, clean |-> clean,
                                data |-> [c \in 1..len |-> bounce[c]]])
       \/ UNCHANGED sent
    /\ UNCHANGED stubVars
    /\ UNCHANGED <<out, copyVars, txVars, slot, ghost>>

(* outb(0xA1, saved_mask), then the return on any of the three paths. *)
SendRestore ==
    /\ PmRuns /\ pc = "s_restore"
    /\ pic' = saved_mask
    /\ pc' = "idle"
    /\ UNCHANGED <<wire, isr, bounce, st_pending, st_length, filled>>
    /\ UNCHANGED <<copyVars, txVars, slot, hist, ghost>>

-----------------------------------------------------------------------------
(* pktdrv_recv and the pktdrv_poll_rmstub it starts with *)

(* Nothing pending in the stub and nothing in the slot: recv returns 0. *)
RecvEmpty ==
    /\ PmRuns /\ pc = "idle"
    /\ st_pending = 0 /\ rx_pending = 0
    /\ UNCHANGED vars

(* The pending word is read as 1. *)
PollPending ==
    /\ PmRuns /\ pc = "idle"
    /\ rx_pending = 0 /\ st_pending = 1
    /\ pc' = "p_len"
    /\ clean' = ~dirty
    /\ UNCHANGED stubVars
    /\ UNCHANGED <<dirty, copyVars, txVars, slot, hist>>

(* n = *st_length, and the test for a bogus length. *)
PollLength ==
    /\ PmRuns /\ pc = "p_len"
    /\ len' = st_length /\ idx' = 0
    /\ pc' = IF st_length = 0 \/ st_length > MaxFrame
             THEN "p_discard" ELSE "p_copy"
    /\ UNCHANGED stubVars
    /\ UNCHANGED <<txVars, slot, hist, ghost>>

(* Fault form: the bogus frame stays pending. *)
PollDiscardKept ==
    /\ PmRuns /\ pc = "p_discard"
    /\ pc' = "idle"
    /\ UNCHANGED stubVars
    /\ UNCHANGED <<copyVars, txVars, slot, hist, ghost>>

(* *st_pending = 0 for a bogus length; recv finds an empty slot. *)
PollDiscard ==
    /\ PmRuns /\ pc = "p_discard"
    /\ st_pending' = 0
    /\ pc' = "idle"
    /\ UNCHANGED <<wire, isr, bounce, st_length, pic, filled>>
    /\ UNCHANGED <<copyVars, txVars, slot, hist, ghost>>

(* One cell of the memcpy out of the bounce buffer. *)
PollCopy ==
    /\ PmRuns /\ pc = "p_copy" /\ idx < len
    /\ rx_buf' = [rx_buf EXCEPT ![idx + 1] = bounce[idx + 1]]
    /\ idx' = idx + 1
    /\ pc' = IF idx' = len THEN "p_clear" ELSE "p_copy"
    /\ UNCHANGED stubVars
    /\ UNCHANGED <<len, rx_len, rx_pending, txVars, hist, ghost>>

(* Fault form: the stub's pending word is not cleared. *)
PollClearKept ==
    /\ PmRuns /\ pc = "p_clear"
    /\ rx_len' = len
    /\ rx_pending' = 1
    /\ pc' = "take"
    /\ UNCHANGED stubVars
    /\ UNCHANGED <<rx_buf, copyVars, txVars, hist, ghost>>

(* rx_len = n; *st_pending = 0; rx_pending = 1. *)
PollClear ==
    /\ PmRuns /\ pc = "p_clear"
    /\ rx_len' = len
    /\ st_pending' = 0
    /\ rx_pending' = 1
    /\ pc' = "take"
    /\ UNCHANGED <<wire, isr, bounce, st_length, pic, filled>>
    /\ UNCHANGED <<rx_buf, copyVars, txVars, hist, ghost>>

(***************************************************************************)
(* The rest of pktdrv_recv.  The receiver stub touches neither the slot    *)
(* nor its flag, so this is one step.                                      *)
(***************************************************************************)
RecvTake ==
    /\ PmRuns /\ pc = "take" /\ rx_pending = 1
    /\ LET n == IF rx_len > MaxLen THEN MaxLen ELSE rx_len
       IN  out' = Append(out, [size |-> n, clean |-> clean,
                               data |-> [c \in 1..n |-> rx_buf[c]]])
    /\ rx_pending' = 0 /\ rx_len' = 0
    /\ pc' = "idle"
    /\ UNCHANGED stubVars
    /\ UNCHANGED <<rx_buf, sent, copyVars, txVars, ghost>>

-----------------------------------------------------------------------------
Interrupt == (\E f \in Frames : Irq(f)) \/ IrqFill \/ IrqDone

Send == \/ \E t \in TxFrames : SendCall(t)
        \/ SendCopy \/ SendReadMask \/ SendSetMask
        \/ SendDispatch \/ DriverSend \/ SendRestore

Recv == \/ PollPending \/ PollLength \/ PollDiscard
        \/ PollCopy \/ PollClear \/ RecvTake

Next == Interrupt \/ Send \/ Recv \/ RecvEmpty

Spec == Init /\ [][Next]_vars

(***************************************************************************)
(* lwip.callback() calls pktdrv_recv again and again, a call that started  *)
(* runs to its end, and the handler of an interrupt returns.               *)
(***************************************************************************)
Fairness ==
    /\ WF_vars(IrqFill \/ IrqDone)
    /\ WF_vars(SendCopy \/ SendReadMask \/ SendSetMask \/ SendDispatch
               \/ DriverSend \/ SendRestore)
    /\ WF_vars(Recv)

FairSpec == Spec /\ Fairness

-----------------------------------------------------------------------------
(* Properties *)

Cell == Frames \cup TxFrames \cup {Blank}

Packet == UNION {[1..n -> Cell] : n \in 0..BounceCells}

(***************************************************************************)
(* Type invariant.  Its least obvious part is that a copy never indexes    *)
(* past the buffer it reads or writes: rx_buf holds MaxFrame cells and the *)
(* length pktdrv_poll_rmstub works with was written by the stub.           *)
(***************************************************************************)
TypeOK ==
    /\ StubTypeOK
    /\ bounce \in [1..BounceCells -> Cell]
    /\ pc \in {"idle", "take"} \cup SendPcs \cup DrainPcs
    /\ idx \in 0..BounceCells /\ len \in 0..BounceCells
    /\ idx <= len
    /\ tx \in TxFrames \cup {Blank} /\ txLeft \in SUBSET TxFrames
    /\ saved_mask \in SUBSET (8..15)
    /\ rx_buf \in [1..MaxFrame -> Cell]
    /\ rx_len \in 0..MaxFrame /\ rx_pending \in {0, 1}
    /\ out \in Seq([size : 0..MaxFrame, clean : BOOLEAN, data : Packet])
    /\ sent \in Seq([asked : TxFrames, size : 0..BounceCells,
                     clean : BOOLEAN, data : Packet])
    /\ dirty \in BOOLEAN /\ clean \in BOOLEAN

(***************************************************************************)
(* A NIC on line 9 or 11 does not interrupt the real-mode half of          *)
(* pktdrv_send, where the DOS extender faults if it does.  These are the   *)
(* two lines line 1357 masks.  The comment at 1301 speaks of all slave     *)
(* lines, 8-15; of a NIC on another of them nothing is claimed here, and   *)
(* it does interrupt the send.                                             *)
(***************************************************************************)
NoIrqDuringSend == NicIrq \in SendMask => (pc = "s_rm" => isr.phase = "none")

(***************************************************************************)
(* The mask is transient: whichever way pktdrv_send ends, the slave PIC    *)
(* mask is again what it was before the call.                              *)
(***************************************************************************)
MaskRestored == pc \notin {"s_call", "s_rm", "s_restore"} => pic = InitialMask

(***************************************************************************)
(* A drain that no interrupt hit, of a frame no pktdrv_send wrote over,    *)
(* hands the caller exactly one arrived frame, cut to the caller's room.   *)
(***************************************************************************)
CleanDrainIsExact ==
    \A k \in 1..Len(out) :
        out[k].clean =>
            \E f \in Frames \ wire :
                /\ out[k].size = IF FrameLen[f] > MaxLen THEN MaxLen
                                 ELSE FrameLen[f]
                /\ out[k].data = [c \in 1..out[k].size |-> f]

(***************************************************************************)
(* A send that no interrupt hit between the start of its copy and its      *)
(* dispatch puts exactly the caller's frame on the wire.                   *)
(***************************************************************************)
CleanSendIsExact ==
    \A k \in 1..Len(sent) :
        sent[k].clean =>
            /\ sent[k].size = TxLen[sent[k].asked]
            /\ sent[k].data = [c \in 1..sent[k].size |-> sent[k].asked]

(***************************************************************************)
(* pktdrv_recv returns no more frames than the stub completed: the pending *)
(* word set by one phase 1 is never drained twice.                         *)
(***************************************************************************)
AtMostOnce == Len(out) <= Len(filled)

(***************************************************************************)
(* Whatever length the stub stored, a pending frame is drained or          *)
(* discarded in the end and does not block the slot.                       *)
(***************************************************************************)
PendingDrained == st_pending = 1 ~> st_pending = 0

(***************************************************************************)
(* The comment on the bounce buffer: "one shared buffer is fine" for       *)
(* transmit and receive.  Then no cell of an outbound frame is delivered   *)
(* to lwIP as received data, and the driver transmits the frame            *)
(* pktdrv_send was given.                                                  *)
(***************************************************************************)
SharedBufferIsFine ==
    /\ \A k \in 1..Len(out) :
          \A c \in 1..out[k].size : out[k].data[c] \notin TxFrames
    /\ \A k \in 1..Len(sent) :
          sent[k].data = [c \in 1..sent[k].size |-> sent[k].asked]
=============================================================================
