------------------------------- MODULE RxStub -------------------------------
(***************************************************************************)
(* The real-mode half of the Crynwr receive path of                        *)
(* port/pktdrv_uc386dos.c: the receiver stub that pktdrv_alloc_thunk       *)
(* assembles into the thunk paragraph, the three words it keeps there, the *)
(* shared bounce buffer, the slave PIC mask, and the packet driver's IRQ   *)
(* handler that far-calls the stub (external).                             *)
(*                                                                         *)
(* The machine has one CPU: while the handler runs (isr.phase # "none")    *)
(* protected-mode code makes no step, and the handler can start between    *)
(* any two steps of protected-mode code unless its line is masked.         *)
(*                                                                         *)
(* Memory is abstracted to cells.  A cell of the bounce buffer holds the   *)
(* identity of the frame (or other object) last copied over it.            *)
(***************************************************************************)
EXTENDS Integers, Sequences, FiniteSets

CONSTANTS
    Frames,      \* inbound frames; each arrives at most once
    FrameLen,    \* FrameLen[f]: length of f in cells, possibly 0 or too long
    MaxFrame,    \* PKTDRV_MAX_FRAME (1518 bytes) in cells
    BounceCells, \* PKTDRV_BOUNCE_SIZE (2048 bytes) in cells
    NicIrq,      \* interrupt line of the NIC
    InitialMask, \* lines masked at the slave PIC when the program starts
    Blank        \* content of a cell nothing was written to

ASSUME StubAssumption ==
    /\ MaxFrame \in Nat \ {0}
    /\ BounceCells \in Nat
    /\ MaxFrame <= BounceCells
    /\ FrameLen \in [Frames -> Nat]
    /\ NicIrq \in 8..15
    /\ InitialMask \in SUBSET (8..15)
    /\ Blank \notin Frames

VARIABLES
    wire,        \* frames that have not reached the driver yet
    isr,         \* the driver's IRQ handler: phase and frame in hand
    bounce,      \* the conventional-memory bounce buffer
    st_pending,  \* word 0x40 of the thunk paragraph
    st_length,   \* word 0x42 of the thunk paragraph
    pic,         \* lines masked at the slave PIC (port 0xA1)
    filled       \* history: the frames whose phase 1 has run, in order

stubVars == <<wire, isr, bounce, st_pending, st_length, pic, filled>>

NoFrame == [phase |-> "none", frame |-> Blank]

(* Protected-mode code runs only when no interrupt handler does. *)
PmRuns == isr.phase = "none"

StubInit ==
    /\ wire = Frames
    /\ isr = NoFrame
    /\ bounce = [c \in 1..BounceCells |-> Blank]
    /\ st_pending = 0
    /\ st_length = 0
    /\ pic = InitialMask
    /\ filled = <<>>

(* Content of buffer b after the first n cells are overwritten with v. *)
Overwrite(b, n, v) == [c \in DOMAIN b |-> IF c <= n THEN v ELSE b[c]]

(***************************************************************************)
(* The stub called with AX = 0 for frame f.  The test of the pending word  *)
(* is still executed but its branch is NOPs, so a pending frame does not   *)
(* stop a new one.  A frame above the limit is refused (ES:DI = 0:0).      *)
(***************************************************************************)
Phase0Refuse(f) ==
    /\ FrameLen[f] > MaxFrame
    /\ UNCHANGED <<isr, st_length>>

(* Fault form: the length of a frame is not checked. *)
Phase0GiveAnyLength(f) ==
    /\ st_length' = FrameLen[f]
    /\ isr' = [phase |-> "fill", frame |-> f]

(* Fault form: the limit is stored instead of the length in CX. *)
Phase0GiveLimit(f) ==
    /\ FrameLen[f] <= MaxFrame
    /\ st_length' = MaxFrame
    /\ isr' = [phase |-> "fill", frame |-> f]

(* Otherwise its length is kept and the bounce buffer handed out. *)
Phase0Give(f) ==
    /\ FrameLen[f] <= MaxFrame
    /\ st_length' = FrameLen[f]
    /\ isr' = [phase |-> "fill", frame |-> f]

(* External: the driver copies the frame to the address phase 0 returned. *)
DriverFill ==
    /\ isr.phase = "fill"
    /\ bounce' = Overwrite(bounce, FrameLen[isr.frame], isr.frame)
    /\ isr' = [isr EXCEPT !.phase = "full"]
    /\ UNCHANGED <<wire, st_pending, st_length, pic, filled>>

(* The stub called with AX = 1: the frame is in the bounce buffer. *)
Phase1 ==
    /\ isr.phase = "full"
    /\ st_pending' = 1
    /\ filled' = Append(filled, isr.frame)
    /\ isr' = NoFrame
    /\ UNCHANGED <<wire, bounce, st_length, pic>>

StubTypeOK ==
    /\ wire \in SUBSET Frames
    /\ isr \in [phase : {"none", "fill", "full"}, frame : Frames \cup {Blank}]
    /\ isr.phase # "none" => isr.frame \in Frames
    /\ DOMAIN bounce = 1..BounceCells
    /\ st_pending \in {0, 1}
    /\ st_length \in 0..MaxFrame
    /\ pic \in SUBSET (8..15)
    /\ filled \in Seq(Frames)
=============================================================================
