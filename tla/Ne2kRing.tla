------------------------------ MODULE Ne2kRing ------------------------------
(***************************************************************************)
(* The receive ring of the protected-mode NE2000 driver in                 *)
(* port/pktdrv_uc386dos.c: ne2k_poll_rx reading the ring in NIC memory     *)
(* while the NIC (external) stores frames into it.  The NIC runs on its    *)
(* own, so it may act between any two register accesses of the driver.     *)
(*                                                                         *)
(* A page of NIC memory holds a part of a frame; part 0 starts with the    *)
(* 4-byte header whose next_page field links the ring.  The driver owns    *)
(* BNRY, the page before the next frame to read; the NIC owns CURR, the    *)
(* page it stores the next frame at.                                       *)
(***************************************************************************)
EXTENDS Integers, Sequences

CONSTANTS
    Frames,      \* frames on the wire; each arrives at most once
    Bad,         \* frames stored with the status bit clear or no payload
    Pages,       \* Pages[f]: pages f takes, header included
    Room,        \* maxlen: pages the caller has room for
    Start,       \* RX_PAGE_START
    Stop         \* RX_PAGE_STOP

ASSUME RingAssumption ==
    /\ Start \in Nat /\ Stop \in Nat /\ Start + 1 < Stop
    /\ Bad \subseteq Frames
    /\ Room \in Nat \ {0}
    /\ Pages \in [Frames -> 1..(Stop - Start - 1)]

Size == Stop - Start
Page == Start..(Stop - 1)

(* Page a + k of the ring, for a in the ring and k at most its size. *)
Plus(a, k) == IF a + k >= Stop THEN a + k - Size ELSE a + k

VARIABLES
    wire,        \* frames still to arrive
    sram,        \* ring pages: which part of which frame, and the next_page
                 \* of the header when it is part 0
    curr,        \* CURR register
    bnry,        \* BNRY register
    storing,     \* frame the NIC is storing, or <<>>
    queue,       \* history: frames stored and not yet released, in order
    pc,          \* ne2k_poll_rx: program point
    snap,        \* local curr
    next_pkt,    \* local next_pkt_page
    hdr,         \* local hdr
    body,        \* what the body DMA read
    got          \* history: frames ne2k_poll_rx returned

nic == <<wire, sram, curr, storing, queue>>
locals == <<snap, next_pkt, hdr, body>>
vars == <<nic, bnry, pc, locals, got>>

NoPart == [frame |-> <<>>, part |-> 0, next |-> Start]

(* Registers as ne2k_init_direct leaves them: an empty ring. *)
Init ==
    /\ wire = Frames
    /\ sram = [p \in Page |-> NoPart]
    /\ bnry = Start
    /\ curr = Start + 1
    /\ storing = <<>>
    /\ queue = <<>>
    /\ pc = "idle"
    /\ snap = Start /\ next_pkt = Start /\ hdr = NoPart /\ body = <<>>
    /\ got = <<>>

-----------------------------------------------------------------------------
(* The NIC (external) *)

(* Pages it may fill: it stops at BNRY. *)
Free == IF bnry >= curr THEN bnry - curr ELSE bnry - curr + Size

(* It copies the frame into free pages first ... *)
NicStore(f) ==
    /\ storing = <<>> /\ f \in wire
    /\ Pages[f] <= Free
    /\ wire' = wire \ {f}
    /\ storing' = <<f>>
    /\ sram' = [p \in Page |->
                  LET k == IF p >= curr THEN p - curr ELSE p - curr + Size
                  IN  IF k < Pages[f]
                      THEN [frame |-> <<f>>, part |-> k,
                            next |-> Plus(curr, Pages[f])]
                      ELSE sram[p]]
    /\ UNCHANGED <<curr, queue, bnry, pc, locals, got>>

(* ... and moves CURR when the frame is complete. *)
NicCommit ==
    /\ storing # <<>>
    /\ LET f == storing[1]
       IN  /\ curr' = Plus(curr, Pages[f])
           /\ queue' = Append(queue, f)
    /\ storing' = <<>>
    /\ UNCHANGED <<wire, sram, bnry, pc, locals, got>>

(* No room for the frame: it is dropped. *)
NicOverflow(f) ==
    /\ storing = <<>> /\ f \in wire
    /\ Pages[f] > Free
    /\ wire' = wire \ {f}
    /\ UNCHANGED <<sram, curr, storing, queue, bnry, pc, locals, got>>

-----------------------------------------------------------------------------
(* ne2k_poll_rx *)

(* CURR is read through register page 1. *)
PollCurr ==
    /\ pc = "idle"
    /\ snap' = curr
    /\ pc' = "bnry"
    /\ UNCHANGED <<nic, bnry, next_pkt, hdr, body, got>>

(* The page after BNRY, wrapped at RX_PAGE_STOP. *)
NextPktPage(b) == IF b + 1 >= Stop THEN Start ELSE b + 1

(* Fault form: the ring is taken to be empty when BNRY meets CURR. *)
PollBnryFullIsEmpty ==
    /\ pc = "bnry"
    /\ next_pkt' = NextPktPage(bnry)
    /\ pc' = IF bnry = snap THEN "idle" ELSE "hdr"
    /\ UNCHANGED <<nic, bnry, snap, hdr, body, got>>

(* Empty when the next packet page is CURR, otherwise read on. *)
PollBnry ==
    /\ pc = "bnry"
    /\ next_pkt' = NextPktPage(bnry)
    /\ pc' = IF next_pkt' = snap THEN "idle" ELSE "hdr"
    /\ UNCHANGED <<nic, bnry, snap, hdr, body, got>>

(* The 4-byte header. *)
PollHeader ==
    /\ pc = "hdr"
    /\ hdr' = sram[next_pkt]
    /\ pc' = "body"
    /\ UNCHANGED <<nic, bnry, snap, next_pkt, body, got>>

(* copy_len: the length in the header, cut to maxlen. *)
CopyLen(f) == IF Pages[f] > Room THEN Room ELSE Pages[f]

(***************************************************************************)
(* The body, copy_len bytes of it; the remote DMA wraps at PSTOP by        *)
(* itself.  Skipped, with length 0, when the status bit is clear or the    *)
(* packet is empty.                                                        *)
(***************************************************************************)
PollBody ==
    /\ pc = "body"
    /\ body' = IF hdr.frame = <<>> \/ hdr.frame[1] \in Bad THEN <<>>
               ELSE [k \in 1..CopyLen(hdr.frame[1]) |-> sram[Plus(next_pkt, k - 1)]]
    /\ pc' = "advance"
    /\ UNCHANGED <<nic, bnry, snap, next_pkt, hdr, got>>

(* Fault form: the wrap at the first page is forgotten. *)
NewBnryNoWrap(next_page) == next_page - 1

(* Fault form: BNRY is set to the page itself, as the empty test of other
   drivers expects. *)
NewBnryAtNext(next_page) == next_page

(* BNRY = next_page - 1, wrapping. *)
NewBnry(next_page) == IF next_page = Start THEN Stop - 1 ELSE next_page - 1

(***************************************************************************)
(* The frame the body is made of: all of it or, when it is longer than the *)
(* caller's room, its beginning.  None if the body is anything else.       *)
(***************************************************************************)
FrameOf(b) ==
    IF /\ \A k \in DOMAIN b : b[k].frame = b[1].frame /\ b[k].part = k - 1
       /\ b[1].frame # <<>> /\ Len(b) = CopyLen(b[1].frame[1])
    THEN b[1].frame ELSE <<>>

(* The frame is released to the NIC and its length returned. *)
PollAdvance ==
    /\ pc = "advance"
    /\ bnry' = NewBnry(hdr.next)
    /\ got' = IF body = <<>> THEN got ELSE got \o FrameOf(body)
    /\ queue' = IF queue = <<>> THEN queue ELSE Tail(queue)
    /\ pc' = "idle"
    /\ UNCHANGED <<wire, sram, curr, storing, locals>>

Poll == PollCurr \/ PollBnry \/ PollHeader \/ PollBody \/ PollAdvance

Next == \/ \E f \in Frames : NicStore(f) \/ NicOverflow(f)
        \/ NicCommit
        \/ Poll

Spec == Init /\ [][Next]_vars

(* lwip.callback() polls again and again; a reception that started ends. *)
FairSpec == Spec /\ WF_vars(Poll) /\ WF_vars(NicCommit)

-----------------------------------------------------------------------------
(* Properties *)

(* Type invariant: the registers and next_page links stay in the ring. *)
TypeOK ==
    /\ wire \subseteq Frames
    /\ sram \in [Page -> [frame : {<<>>} \cup {<<f>> : f \in Frames},
                          part : 0..(Size - 1), next : Page]]
    /\ curr \in Page /\ bnry \in Page /\ snap \in Page /\ next_pkt \in Page
    /\ storing \in {<<>>} \cup {<<f>> : f \in Frames}
    /\ pc \in {"idle", "bnry", "hdr", "body", "advance"}
    /\ hdr \in [frame : {<<>>} \cup {<<f>> : f \in Frames},
                part : 0..(Size - 1), next : Page]

(***************************************************************************)
(* ne2k_poll_rx over the ring implements the frame queue: in order, at     *)
(* most once, whole or cut to maxlen, whatever the NIC stores between the  *)
(* register accesses, and the ring refuses no frame while it is empty.     *)
(***************************************************************************)
Abstract == INSTANCE FrameQueue WITH
    queue <- IF storing = <<>> THEN queue ELSE Append(queue, storing[1])

ImplementsQueue == Abstract!QSpec

(* Each frame the ring accepted is handed over in the end, unless damaged. *)
StoredIsDelivered ==
    \A f \in Frames \ Bad :
        (storing = <<f>>) ~> (\E k \in 1..Len(got) : got[k] = f)
=============================================================================
