----------------------------- MODULE PmReceiver -----------------------------
(***************************************************************************)
(* Reception without the real-mode stub (port/pktdrv_uc386dos.c, taken     *)
(* when main() got no paragraphs for the stub): the packet driver calls a  *)
(* DPMI callback from its interrupt handler, or an emulator posts frames   *)
(* into the slot itself, and pktdrv_recv empties the slot.  It stands on   *)
(* LowMem: the callback hands out the bounce buffer whose address the boot *)
(* found, as a real-mode segment, and copies it to the slot at once.       *)
(*                                                                         *)
(* An interrupt is one step: the program does not run inside it.  It may   *)
(* fall between any two steps of the program: those of pktdrv_recv, and    *)
(* the copy of a name into the bounce buffer and the call that reads it.   *)
(***************************************************************************)
EXTENDS LowMem, Sequences

CONSTANTS
    RxBuf,       \* address of pktdrv_rx_buf, above the first megabyte
    RealLimit,   \* paragraphs a real-mode segment can name
    MaxFrame,    \* sizeof(pktdrv_rx_buf), and of the caller's buffer
    Lens,        \* lengths of frames on the wire
    MaxFrames    \* bound: frames that arrive

ASSUME PmAssumption ==
    /\ RealLimit \in Nat \ {0} /\ RxBuf \in Nat /\ RxBuf >= RealLimit
    /\ BounceSeg < RealLimit /\ StackSeg < RealLimit
    /\ MaxFrame \in Nat /\ Lens \subseteq Nat \ {0} /\ MaxFrames \in Nat

VARIABLES
    rx,          \* how frames arrive: off, callback, flat, posted
    esdi,        \* ES:DI as the driver enters the callback: 0, or a segment
    slot,        \* [len, pending, buf]: pktdrv_rx_len, _pending, _buf
    pc, out,     \* pktdrv_recv: where it is and what it copied
    arrived,     \* frames so far
    accepted,    \* history: frames put in the slot, [id, len], except those
                 \* whose length pktdrv_recv is about to clear
    delivered    \* history: non-empty results of pktdrv_recv, [id, len]
pmVars == <<rx, esdi, slot, pc, out, arrived, accepted, delivered>>
vars == <<lowVars, pmVars>>

Init ==
    /\ LowInit
    /\ rx = "off" /\ esdi \in {0, StackSeg}
    /\ slot = [len |-> 0, pending |-> FALSE, buf |-> "junk"]
    /\ pc = "idle" /\ out = [id |-> "junk", len |-> 0]
    /\ arrived = 0 /\ accepted = << >> /\ delivered = << >>

Low == LowNext /\ pc = "idle" /\ UNCHANGED pmVars
NoCallUnderWay == asked = "none"

\* pktdrv_init without the stub: the callback, or the flat address of the
\* receiver, which no real driver can call; an emulator answers AH=99h.
Attach ==
    /\ stage = "run" /\ NoCallUnderWay /\ rx = "off" /\ pkt_seg = 0
    /\ rx' \in {"callback", "flat", "posted"}
    /\ UNCHANGED <<lowVars, esdi, slot, pc, out, arrived, accepted, delivered>>

-----------------------------------------------------------------------------
(* uc386dos_pktdrv_receiver *)

\* Fault form: phase 0 does not look whether the slot is taken.
Phase0RefusesLongOnly(len) == len > MaxFrame

Phase0Refuses(len) == slot.pending \/ len > MaxFrame

BufferHandedOut == IF bounce_seg # 0 THEN bounce_linear ELSE RxBuf

\* The copy out of the bounce buffer, and the slot marked full.
Phase1(s, m) ==
    [s EXCEPT !.pending = TRUE,
              !.buf = IF bounce_seg # 0 /\ s.len <= MaxFrame
                      THEN Get(m, Flat(bounce_linear)) ELSE @]

Accept(id, len) == IF pc = "cleared" THEN accepted
                   ELSE Append(accepted, [id |-> id, len |-> len])

\* uc386dos_pktdrv_dpmi_thunk_c, called twice by one interrupt.  When phase 0
\* refuses, ES:DI goes back to the driver as it came: the driver drops the
\* frame only if that is 0:0, and otherwise copies it there and reports it.
Interrupt(len) ==
    /\ rx = "callback" /\ arrived < MaxFrames
    /\ LET id == arrived + 1
           refused == Phase0Refuses(len)
           es == IF refused THEN esdi ELSE BufferHandedOut % RealLimit
           filled == IF refused THEN slot ELSE [slot EXCEPT !.len = len]
           m == IF es = 0 THEN mem ELSE Put(mem, Real(es), id)
       IN  /\ mem' = m
           /\ slot' = IF es = 0 THEN filled ELSE Phase1(filled, m)
           /\ accepted' = IF refused THEN accepted ELSE Accept(id, len)
           /\ overwritten' = (overwritten \/ (~NoCallUnderWay /\ es = bounce_seg))
    /\ arrived' = arrived + 1
    /\ UNCHANGED <<env, free, stage, segs, bounce_linear, resolved, stack_paras,
                   thunk_linear, asked, rm, clobbers, rx, esdi, pc, out, delivered>>

\* pktdrv_register_polling_rx gave the emulator the addresses of the slot.
Post(len) ==
    /\ rx = "posted" /\ arrived < MaxFrames
    /\ ~slot.pending /\ len <= MaxFrame
    /\ slot' = [len |-> len, pending |-> TRUE, buf |-> arrived + 1]
    /\ accepted' = Accept(arrived + 1, len)
    /\ arrived' = arrived + 1
    /\ UNCHANGED <<lowVars, rx, esdi, pc, out, delivered>>

-----------------------------------------------------------------------------
(* pktdrv_recv: the copy, then pending is cleared, then the length *)

RecvCopy ==
    /\ NoCallUnderWay /\ pc = "idle" /\ slot.pending
    /\ out' = [id |-> slot.buf, len |-> IF slot.len > MaxFrame THEN MaxFrame ELSE slot.len]
    /\ pc' = "copied"
    /\ UNCHANGED <<lowVars, rx, esdi, slot, arrived, accepted, delivered>>

RecvClearPending ==
    /\ pc = "copied"
    /\ slot' = [slot EXCEPT !.pending = FALSE]
    /\ pc' = "cleared"
    /\ UNCHANGED <<lowVars, rx, esdi, out, arrived, accepted, delivered>>

RecvClearLength ==
    /\ pc = "cleared"
    /\ slot' = [slot EXCEPT !.len = 0]
    /\ delivered' = IF out.len = 0 THEN delivered ELSE Append(delivered, out)
    /\ pc' = "idle"
    /\ UNCHANGED <<lowVars, rx, esdi, out, arrived, accepted>>

Recv == RecvCopy \/ RecvClearPending \/ RecvClearLength
Arrival == \E len \in Lens : Interrupt(len) \/ Post(len)

Next == Low \/ Attach \/ Arrival \/ Recv
Spec == Init /\ [][Next]_vars

-----------------------------------------------------------------------------
(* Properties *)

\* The machine the port was measured on: a flat client at 0, conventional
\* memory mapped one to one, a bounce buffer, a driver that enters the
\* callback with ES:DI = 0:0; or the emulator, which needs none of it.
Measured ==
    \/ rx = "posted"
    \/ env.base = 0 /\ env.map = 0 /\ env.dpmi # "hole" /\ bounce_seg # 0 /\ esdi = 0

\* pktdrv_recv returns the frames the slot accepted, each once, in order and
\* whole, and none is left behind when the slot is empty, however interrupts
\* fall between its steps.  The exception is a frame accepted after pending
\* is cleared and before the length is: it comes out as a result of 0.
SlotExact ==
    Measured =>
        /\ Len(delivered) <= Len(accepted)
        /\ \A i \in 1..Len(delivered) : delivered[i] = accepted[i]
        /\ pc = "idle" /\ ~slot.pending => Len(delivered) = Len(accepted)
=============================================================================
