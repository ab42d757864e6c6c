----------------------------- MODULE Ne2kProofs -----------------------------
(***************************************************************************)
(* Proofs about the protected-mode NE2000 driver.                          *)
(*                                                                         *)
(* Ne2kRing, for every ring, every set of frames and every frame size up   *)
(* to one page less than the ring: the registers stay in the ring and      *)
(* ne2k_poll_rx implements FrameQueue.  The invariant says where the       *)
(* frames of the ring are.  Laid(at) reads the ring from the page after    *)
(* BNRY: the i-th frame begins at[i] pages further and fills its pages up  *)
(* to at[i + 1], each of them linking to the next frame, and CURR is the   *)
(* end of the frames already committed.  PollInv says what ne2k_poll_rx    *)
(* knows of the first frame at each point.                                 *)
(*                                                                         *)
(* Ne2kTx, for every set of frames, every bound of the wait loops and      *)
(* every moment at which the NIC finishes.  PageInv suffices for           *)
(* PageStable and holds whatever happened before.  What a send returns is  *)
(* only right while no send has timed out (Clean): CleanInv says what each *)
(* program point then knows about TXP, ISR and what went on the air, and   *)
(* that ne2k_poll_rx saves a clear TXP bit.                                *)
(***************************************************************************)
EXTENDS Ne2kRing, Ne2kTx, SequenceTheorems, FiniteSetTheorems, TLAPS

(* The page ne2k_poll_rx reads next. *)
First == NextPktPage(bnry)

(* The frames in the ring, the one being stored included. *)
Stored == IF storing = <<>> THEN queue ELSE Append(queue, storing[1])

Parts == [frame : {<<>>} \cup {<<f>> : f \in Frames}, part : 0..(Size - 1), next : Page]

(* Part k of frame f, whose successor in the ring starts at page n. *)
PartOf(f, k, n) == [frame |-> <<f>>, part |-> k, next |-> n]

HistoryOK == queue \in Seq(Frames) /\ got \in Seq(Frames)

(* The offsets follow from the sizes. *)
Offsets(at, q) ==
    /\ at \in [1..(Len(q) + 1) -> 0..(Size - 1)]
    /\ at[1] = 0
    /\ \A i \in 1..Len(q) : at[i + 1] = at[i] + Pages[q[i]]
    /\ \A i, j \in 1..(Len(q) + 1) : i <= j => at[i] <= at[j]

Contents(at, q, s, p) ==
    \A i \in 1..Len(q) : \A k \in 0..(Pages[q[i]] - 1) :
        s[Plus(p, at[i] + k)] = PartOf(q[i], k, Plus(p, at[i + 1]))

Laid(at) ==
    /\ Offsets(at, Stored)
    /\ Contents(at, Stored, sram, First)
    /\ curr = Plus(First, at[Len(queue) + 1])

LayoutInv == \E at : Laid(at)

(* What ne2k_poll_rx has read of the first frame in the ring. *)
HeaderRead == /\ hdr.frame = <<queue[1]>>
              /\ hdr.next = Plus(First, Pages[queue[1]])

BodyRead ==
    body = IF queue[1] \in Bad THEN <<>>
           ELSE [k \in 1..CopyLen(queue[1]) |->
                   PartOf(queue[1], k - 1, Plus(First, Pages[queue[1]]))]

PollInv ==
    /\ pc = "bnry" /\ snap # First => queue # <<>>
    /\ pc \in {"hdr", "body", "advance"} => queue # <<>> /\ next_pkt = First
    /\ pc \in {"body", "advance"} => HeaderRead
    /\ pc = "advance" => BodyRead

IInv == TypeOK /\ HistoryOK /\ LayoutInv /\ PollInv
-----------------------------------------------------------------------------
(* Arithmetic of the ring *)

(* Plus stays in the ring, adds up, and reaches each page once. *)
LEMMA PlusType ==
    ASSUME NEW a \in Page, NEW k \in 0..Size
    PROVE  Plus(a, k) \in Page
BY RingAssumption DEF Plus, Page, Size

LEMMA PlusPlus ==
    ASSUME NEW a \in Page, NEW j \in 0..Size, NEW k \in 0..Size, j + k <= Size
    PROVE  Plus(Plus(a, j), k) = Plus(a, j + k)
BY RingAssumption DEF Plus, Page, Size

LEMMA PlusZero == ASSUME NEW a \in Page PROVE Plus(a, 0) = a
BY RingAssumption DEF Plus, Page, Size

(* The page after BNRY is in the ring, and NewBnry is its inverse. *)
LEMMA NextType == ASSUME NEW b \in Page PROVE NextPktPage(b) \in Page
BY RingAssumption DEF NextPktPage, Page, Size

LEMMA NewBnryInverse ==
    ASSUME NEW p \in Page
    PROVE  NewBnry(p) \in Page /\ NextPktPage(NewBnry(p)) = p
BY RingAssumption DEF NewBnry, NextPktPage, Page, Size

(* The NIC may fill all the pages but the ones in use and one more. *)
LEMMA FreeIs ==
    ASSUME NEW u \in 0..(Size - 1), bnry \in Page, curr = Plus(First, u)
    PROVE  Free = Size - 1 - u
BY RingAssumption DEF Free, First, NextPktPage, Plus, Page, Size

(* How far behind CURR a page is, when CURR is u pages after page a. *)
LEMMA Distance ==
    ASSUME NEW a \in Page, NEW u \in 0..(Size - 1), NEW x \in 0..(Size - 1),
           NEW c, c = Plus(a, u), NEW p, p = Plus(a, x)
    PROVE  (IF p >= c THEN p - c ELSE p - c + Size)
           = IF x >= u THEN x - u ELSE x - u + Size
BY RingAssumption DEF Plus, Page, Size

(* A frame fits into the ring with a page to spare. *)
LEMMA PagesType ==
    ASSUME NEW f \in Frames
    PROVE  Pages[f] \in Nat /\ Pages[f] >= 1 /\ Pages[f] <= Size - 1
BY RingAssumption DEF Size

LEMMA SizeType == Size \in Nat /\ Size >= 2
BY RingAssumption DEF Size
-----------------------------------------------------------------------------
(* The frames of the ring *)

LEMMA StoredType ==
    ASSUME TypeOK, HistoryOK
    PROVE  /\ Stored \in Seq(Frames)
           /\ queue # <<>> => Stored # <<>> /\ Stored[1] = queue[1]
           /\ Len(queue) \in Nat /\ Len(queue) <= Len(Stored)
           /\ storing = <<>> => Stored = queue
<1>1. CASE storing = <<>>
  BY <1>1 DEF Stored, HistoryOK
<1>2. CASE storing # <<>>
  <2>1. PICK f \in Frames : storing = <<f>>
    BY <1>2 DEF TypeOK
  <2>2. Stored = Append(queue, f)
    BY <2>1 DEF Stored
  <2> QED
    BY <1>2, <2>2 DEF HistoryOK
<1> QED
  BY <1>1, <1>2

(* The first frame begins at the page after BNRY; the second follows it. *)
LEMMA FirstFrame ==
    ASSUME TypeOK, HistoryOK, LayoutInv, queue # <<>>
    PROVE  /\ queue[1] \in Frames
           /\ \A k \in 0..(Pages[queue[1]] - 1) :
                 sram[Plus(First, k)]
                   = PartOf(queue[1], k, Plus(First, Pages[queue[1]]))
<1>1. PICK at : Laid(at)
  BY DEF LayoutInv
<1>2. Stored \in Seq(Frames) /\ Stored[1] = queue[1] /\ Len(Stored) >= 1
  BY StoredType
<1>3. queue[1] \in Frames
  BY DEF HistoryOK
<1>4. at[1] = 0 /\ at[2] = Pages[queue[1]]
  BY <1>1, <1>2, <1>3, PagesType DEF Laid, Offsets
<1>5. \A k \in 0..(Pages[queue[1]] - 1) :
        sram[Plus(First, 0 + k)] = PartOf(queue[1], k, Plus(First, Pages[queue[1]]))
  BY <1>1, <1>2, <1>4 DEF Laid, Contents
<1>6. \A k \in 0..(Pages[queue[1]] - 1) : 0 + k = k
  BY <1>3, PagesType
<1> QED
  BY <1>3, <1>5, <1>6

(* Only the end of the ring matters to CURR: an empty ring has all of it. *)
LEMMA EmptyRing ==
    ASSUME TypeOK, HistoryOK, LayoutInv, queue = <<>>
    PROVE  curr = First
<1>1. PICK at : Laid(at)
  BY DEF LayoutInv
<1>2. at[1] = 0 /\ curr = Plus(First, at[1])
  BY <1>1 DEF Laid, Offsets
<1>3. First \in Page
  BY NextType DEF TypeOK, First
<1> QED
  BY <1>2, <1>3, PlusZero
-----------------------------------------------------------------------------
(* Init establishes the invariant. *)
LEMMA InitInv == Init => IInv
<1> SUFFICES ASSUME Init PROVE IInv
  OBVIOUS
<1>1. Start \in Page /\ Start + 1 \in Page /\ 0 \in 0..(Size - 1)
  BY RingAssumption DEF Page, Size
<1>2. NoPart \in Parts
  BY <1>1 DEF NoPart, Parts
<1>3. TypeOK
  BY <1>1, <1>2 DEF Init, TypeOK, Parts
<1>4. HistoryOK
  BY DEF Init, HistoryOK
<1>5. First = Start + 1 /\ Stored = <<>> /\ Len(Stored) = 0 /\ Len(queue) = 0
  BY RingAssumption DEF Init, First, NextPktPage, Stored
<1>6. LayoutInv
  <2> DEFINE at == [i \in 1..1 |-> 0]
  <2>1. Offsets(at, Stored)
    BY <1>5, SizeType DEF Offsets
  <2>2. Contents(at, Stored, sram, First)
    BY <1>5 DEF Contents
  <2>3. curr = Plus(First, at[Len(queue) + 1])
    BY <1>1, <1>5, PlusZero DEF Init
  <2> QED
    BY <2>1, <2>2, <2>3 DEF LayoutInv, Laid
<1>7. PollInv
  BY DEF Init, PollInv
<1> QED
  BY <1>3, <1>4, <1>6, <1>7 DEF IInv
-----------------------------------------------------------------------------
(* One lemma per action *)

(* The steps of ne2k_poll_rx before the release leave the ring alone. *)
LEMMA RingKept ==
    ASSUME IInv, UNCHANGED <<nic, bnry>>
    PROVE  LayoutInv' /\ (HistoryOK' <=> got' \in Seq(Frames)) /\ First' = First
<1>1. First' = First /\ Stored' = Stored /\ sram' = sram /\ curr' = curr
      /\ queue' = queue
  BY DEF First, Stored, nic
<1>2. ASSUME NEW at, Laid(at) PROVE Laid(at)'
  BY <1>1, <1>2 DEF Laid
<1> QED
  BY <1>1, <1>2 DEF IInv, LayoutInv, HistoryOK

(* What was read of the first frame stays true while frames arrive. *)
LEMMA PollKept ==
    ASSUME IInv, UNCHANGED <<bnry, pc, locals>>, HistoryOK',
           queue' = queue \/ \E f \in Frames : queue' = Append(queue, f)
    PROVE  PollInv'
<1>1. First' = First
  BY DEF First
<1>2. queue # <<>> => queue' # <<>> /\ queue'[1] = queue[1]
  <2>1. queue \in Seq(Frames)
    BY DEF IInv, HistoryOK
  <2>2. ASSUME NEW f \in Frames, queue # <<>>
        PROVE  Append(queue, f) # <<>> /\ Append(queue, f)[1] = queue[1]
    <3>1. Len(queue) \in Nat \ {0} /\ 1 \in 1..Len(queue)
      BY <2>1, <2>2
    <3> QED
      BY <2>1, <3>1, AppendProperties
  <2> QED
    BY <2>2
<1> QED
  BY <1>1, <1>2 DEF IInv, PollInv, HeaderRead, BodyRead, locals

LEMMA NicStoreStep == ASSUME IInv, NEW f \in Frames, NicStore(f) PROVE IInv'
<1> DEFINE n == Len(queue)
           end(at) == at[n + 1] + Pages[f]
<1>1. n \in Nat /\ queue \in Seq(Frames) /\ Stored = queue /\ Stored' = Append(queue, f)
  <2>1. storing'[1] = f /\ storing' # <<>>
    BY DEF NicStore
  <2> QED
    BY <2>1 DEF IInv, HistoryOK, NicStore, Stored
<1>2. First' = First /\ First \in Page
  BY NextType DEF NicStore, First, IInv, TypeOK
<1>3. PICK at : Laid(at)
  BY DEF IInv, LayoutInv
<1>4. at \in [1..(n + 1) -> 0..(Size - 1)] /\ curr = Plus(First, at[n + 1])
  BY <1>1, <1>3 DEF Laid, Offsets
<1>5. Pages[f] \in Nat /\ Pages[f] >= 1
  BY PagesType
<1>6. end(at) \in 0..(Size - 1)
  <2>1. at[n + 1] \in 0..(Size - 1)
    BY <1>1, <1>4
  <2>2. Free = Size - 1 - at[n + 1]
    BY <2>1, <1>4, FreeIs DEF IInv, TypeOK
  <2>3. Pages[f] <= Free
    BY DEF NicStore
  <2> QED
    BY <2>1, <2>2, <2>3, <1>5, SizeType
<1>7. /\ \A x \in at[n + 1]..(end(at) - 1) :
            sram'[Plus(First, x)] = PartOf(f, x - at[n + 1], Plus(First, end(at)))
      /\ \A x \in 0..(at[n + 1] - 1) : sram'[Plus(First, x)] = sram[Plus(First, x)]
  <2>1. at[n + 1] \in 0..(Size - 1)
    BY <1>1, <1>4
  <2>2. Plus(curr, Pages[f]) = Plus(First, end(at))
    BY <1>2, <1>4, <1>5, <1>6, <2>1, SizeType, PlusPlus
  <2>3. ASSUME NEW x \in 0..(Size - 1)
        PROVE  /\ Plus(First, x) \in Page
               /\ sram'[Plus(First, x)]
                   = LET k == IF x >= at[n + 1] THEN x - at[n + 1]
                              ELSE x - at[n + 1] + Size
                     IN IF k < Pages[f] THEN PartOf(f, k, Plus(First, end(at)))
                        ELSE sram[Plus(First, x)]
    <3> DEFINE p == Plus(First, x)
    <3>1. p \in Page
      BY <1>2, SizeType, PlusType
    <3>2. (IF p >= curr THEN p - curr ELSE p - curr + Size)
          = IF x >= at[n + 1] THEN x - at[n + 1] ELSE x - at[n + 1] + Size
      BY <1>2, <1>4, <2>1, Distance
    <3>3. sram'[p] = LET k == IF p >= curr THEN p - curr ELSE p - curr + Size
                     IN IF k < Pages[f]
                        THEN [frame |-> <<f>>, part |-> k,
                              next |-> Plus(curr, Pages[f])]
                        ELSE sram[p]
      BY <3>1 DEF NicStore
    <3> HIDE DEF p
    <3>4. sram'[p] = LET k == IF x >= at[n + 1] THEN x - at[n + 1]
                              ELSE x - at[n + 1] + Size
                     IN IF k < Pages[f] THEN PartOf(f, k, Plus(First, end(at)))
                        ELSE sram[p]
      BY <2>2, <3>2, <3>3 DEF PartOf
    <3> QED
      BY <3>1, <3>4 DEF p
  <2>4. ASSUME NEW x \in at[n + 1]..(end(at) - 1)
        PROVE  sram'[Plus(First, x)] = PartOf(f, x - at[n + 1], Plus(First, end(at)))
    <3>1. x \in 0..(Size - 1) /\ x >= at[n + 1] /\ x - at[n + 1] < Pages[f]
      BY <1>5, <1>6, <2>1, SizeType
    <3> QED
      BY <2>3, <3>1
  <2>5. ASSUME NEW x \in 0..(at[n + 1] - 1)
        PROVE  sram'[Plus(First, x)] = sram[Plus(First, x)]
    <3>1. x \in 0..(Size - 1) /\ ~(x >= at[n + 1])
          /\ ~(x - at[n + 1] + Size < Pages[f])
      BY <1>5, <1>6, <2>1, SizeType
    <3> QED
      BY <2>3, <3>1
  <2> QED
    BY <2>4, <2>5
<1>8. TypeOK'
  <2>1. Plus(curr, Pages[f]) \in Page
    BY <1>5, PagesType, SizeType, PlusType DEF IInv, TypeOK
  <2>2. ASSUME NEW p \in Page PROVE sram'[p] \in Parts
    <3> DEFINE k == IF p >= curr THEN p - curr ELSE p - curr + Size
    <3>1. sram'[p] = IF k < Pages[f]
                     THEN [frame |-> <<f>>, part |-> k, next |-> Plus(curr, Pages[f])]
                     ELSE sram[p]
      BY DEF NicStore
    <3>2. k \in 0..(Size - 1)
      <4>1. curr \in Page
        BY DEF IInv, TypeOK
      <4> QED
        BY <4>1, RingAssumption DEF Page, Size
    <3> HIDE DEF k
    <3>3. sram[p] \in Parts
      BY DEF IInv, TypeOK, Parts
    <3> QED
      BY <2>1, <3>1, <3>2, <3>3 DEF Parts
  <2>3. sram' \in [Page -> Parts]
    BY <2>2 DEF NicStore
  <2>4. storing' \in {<<>>} \cup {<<g>> : g \in Frames}
    BY DEF NicStore
  <2> QED
    BY <2>3, <2>4 DEF NicStore, IInv, TypeOK, Parts, locals
<1>9. HistoryOK'
  BY DEF NicStore, IInv, HistoryOK
<1>10. LayoutInv'
  <2> DEFINE to == [i \in 1..(n + 2) |-> IF i = n + 2 THEN end(at) ELSE at[i]]
             q == Append(queue, f)
  <2>1. /\ Len(q) = n + 1 /\ q[n + 1] = f
        /\ \A i \in 1..n : q[i] = queue[i] /\ q[i] \in Frames
    BY <1>1
  <2>2. /\ to[n + 2] = end(at)
        /\ \A i \in 1..(n + 1) : to[i] = at[i] /\ at[i] \in 0..(Size - 1)
                                 /\ at[i] <= at[n + 1]
    <3>1. \A i \in 1..(n + 1) : at[i] <= at[n + 1]
      BY <1>1, <1>3 DEF Laid, Offsets
    <3> QED
      BY <1>1, <1>4, <3>1
  <2> HIDE DEF q
  <2>3. Offsets(to, q)
    <3>1. to \in [1..(Len(q) + 1) -> 0..(Size - 1)]
      BY <1>1, <1>4, <1>6, <2>1
    <3>2. to[1] = 0
      BY <1>1, <1>3, <2>2 DEF Laid, Offsets
    <3>3. ASSUME NEW i \in 1..Len(q) PROVE to[i + 1] = to[i] + Pages[q[i]]
      <4>1. CASE i = n + 1
        BY <1>1, <2>1, <2>2, <4>1
      <4>2. CASE i \in 1..n
        <5>1. at[i + 1] = at[i] + Pages[queue[i]]
          BY <1>1, <1>3, <4>2 DEF Laid, Offsets
        <5> QED
          BY <1>1, <2>1, <2>2, <4>2, <5>1
      <4> QED
        BY <1>1, <2>1, <4>1, <4>2
    <3>4. ASSUME NEW i \in 1..(Len(q) + 1), NEW j \in 1..(Len(q) + 1), i <= j
          PROVE  to[i] <= to[j]
      <4>1. CASE j = n + 2
        <5>1. i = n + 2 \/ (i \in 1..(n + 1) /\ to[i] <= at[n + 1] /\ to[i] \in Nat)
          <6>1. i = n + 2 \/ i \in 1..(n + 1)
            BY <1>1, <2>1
          <6> HIDE DEF to, n
          <6> QED
            BY <2>2, <6>1
        <5>2. at[n + 1] <= end(at) /\ end(at) \in Nat /\ at[n + 1] \in Nat
          BY <1>1, <1>4, <1>5
        <5> HIDE DEF to, n
        <5>3. CASE i = n + 2
          BY <2>2, <4>1, <5>2, <5>3
        <5>4. CASE i \in 1..(n + 1) /\ to[i] <= at[n + 1] /\ to[i] \in Nat
          BY <2>2, <4>1, <5>2, <5>4
        <5> QED
          BY <5>1, <5>3, <5>4
      <4>2. CASE j \in 1..(n + 1)
        <5>1. i \in 1..(n + 1)
          BY <1>1, <3>4, <4>2
        <5> QED
          BY <1>1, <1>3, <2>2, <3>4, <4>2, <5>1 DEF Laid, Offsets
      <4> QED
        BY <1>1, <2>1, <4>1, <4>2
    <3> HIDE DEF to
    <3> QED
      BY <3>1, <3>2, <3>3, <3>4 DEF Offsets
  <2>4. Contents(to, q, sram', First)
    <3> SUFFICES ASSUME NEW i \in 1..Len(q), NEW k \in 0..(Pages[q[i]] - 1)
                 PROVE  sram'[Plus(First, to[i] + k)]
                          = PartOf(q[i], k, Plus(First, to[i + 1]))
      BY DEF Contents
    <3>1. CASE i = n + 1
      <4> DEFINE x == at[n + 1] + k
      <4>1. x \in at[n + 1]..(end(at) - 1) /\ x - at[n + 1] = k
        BY <1>1, <1>4, <1>5, <2>1, <3>1
      <4>2. to[i] = at[n + 1] /\ to[i + 1] = end(at) /\ q[i] = f
        BY <1>1, <2>1, <2>2, <3>1
      <4> QED
        BY <1>7, <4>1, <4>2
    <3>2. CASE i \in 1..n
      <4>1. q[i] = queue[i] /\ q[i] \in Frames /\ to[i] = at[i] /\ to[i + 1] = at[i + 1]
            /\ at[i] \in Nat /\ at[i + 1] \in Nat /\ at[i + 1] <= at[n + 1]
            /\ at[n + 1] \in Nat
        <5>1. i \in 1..(n + 1) /\ i + 1 \in 1..(n + 1) /\ n + 1 \in 1..(n + 1)
          BY <1>1, <3>2
        <5> HIDE DEF to, n
        <5>2. to[i] = at[i] /\ to[i + 1] = at[i + 1] /\ at[i + 1] <= at[n + 1]
          BY <2>2, <5>1
        <5>3. at[i] \in Nat /\ at[i + 1] \in Nat /\ at[n + 1] \in Nat
          BY <2>2, <5>1, SizeType
        <5> QED
          BY <2>1, <3>2, <5>2, <5>3
      <4>2. at[i + 1] = at[i] + Pages[queue[i]]
        BY <1>1, <1>3, <3>2 DEF Laid, Offsets
      <4>3. sram[Plus(First, at[i] + k)] = PartOf(queue[i], k, Plus(First, at[i + 1]))
        BY <1>1, <1>3, <3>2, <4>1 DEF Laid, Contents
      <4>4. at[i] + k \in 0..(at[n + 1] - 1)
        <5>1. Pages[queue[i]] \in Nat /\ k \in Nat /\ k < Pages[queue[i]]
          BY <4>1, PagesType
        <5>2. \A a, b, c, m \in Nat : b = a + m /\ k < m /\ b <= c => a + k \in 0..(c - 1)
          BY <5>1
        <5> HIDE DEF to, n
        <5> QED
          BY <4>1, <4>2, <5>1, <5>2
      <4> QED
        BY <1>7, <4>1, <4>3, <4>4
    <3> QED
      BY <1>1, <2>1, <3>1, <3>2
  <2>5. Len(queue') + 1 \in 1..(n + 1) /\ Len(queue') = n /\ curr' = curr
    BY <1>1 DEF NicStore
  <2>6. curr' = Plus(First, to[Len(queue') + 1])
    BY <1>4, <2>2, <2>5
  <2> HIDE DEF to
  <2>7. First' = First /\ Stored' = q
    BY <1>1, <1>2 DEF q
  <2> QED
    BY <2>3, <2>4, <2>6, <2>7 DEF LayoutInv, Laid
<1>11. PollInv'
  BY <1>9, PollKept DEF NicStore
<1> QED
  BY <1>8, <1>9, <1>10, <1>11 DEF IInv

LEMMA NicCommitStep == ASSUME IInv, NicCommit PROVE IInv' /\ Stored' = Stored
<1>1. PICK f \in Frames : storing = <<f>>
  BY DEF IInv, TypeOK, NicCommit
<1>2. /\ curr' = Plus(curr, Pages[f]) /\ queue' = Append(queue, f) /\ storing' = <<>>
      /\ UNCHANGED <<wire, sram, bnry, pc, locals, got>>
  BY <1>1 DEF NicCommit
<1>3. /\ Stored = Append(queue, f) /\ Stored' = Stored /\ First' = First
      /\ First \in Page /\ queue \in Seq(Frames) /\ Len(queue) \in Nat
  BY <1>1, <1>2, NextType DEF Stored, First, IInv, TypeOK, HistoryOK
<1>4. PICK at : Laid(at)
  BY DEF IInv, LayoutInv
<1> DEFINE n == Len(queue)
<1>5. Len(queue') = n + 1 /\ Len(Stored) = n + 1 /\ Stored[n + 1] = f
  BY <1>2, <1>3
<1>6. at[n + 2] = at[n + 1] + Pages[f] /\ at[n + 1] \in 0..Size /\ at[n + 2] \in 0..Size
  <2>a. /\ at \in [1..(Len(Stored) + 1) -> 0..(Size - 1)]
        /\ \A i \in 1..Len(Stored) : at[i + 1] = at[i] + Pages[Stored[i]]
    BY <1>4 DEF Laid, Offsets
  <2>b. /\ n + 1 \in 1..Len(Stored) /\ n + 1 \in 1..(Len(Stored) + 1)
        /\ n + 2 \in 1..(Len(Stored) + 1)
    BY <1>3, <1>5
  <2> HIDE DEF n
  <2>1. at[(n + 1) + 1] = at[n + 1] + Pages[f]
    BY <1>5, <2>a, <2>b
  <2>2. at[n + 1] \in 0..(Size - 1) /\ at[n + 2] \in 0..(Size - 1)
    BY <2>a, <2>b
  <2>3. (n + 1) + 1 = n + 2
    BY <1>3 DEF n
  <2> QED
    BY <2>1, <2>2, <2>3, SizeType
<1>7. Pages[f] \in 0..Size
  BY PagesType, SizeType
<1>8. curr' = Plus(First, at[n + 2])
  <2>1. curr = Plus(First, at[n + 1])
    BY <1>4 DEF Laid
  <2> HIDE DEF n
  <2>2. at[n + 1] + Pages[f] <= Size
    BY <1>6
  <2>3. Plus(Plus(First, at[n + 1]), Pages[f]) = Plus(First, at[n + 1] + Pages[f])
    BY <1>3, <1>6, <1>7, <2>2, PlusPlus
  <2> QED
    BY <1>2, <1>6, <2>1, <2>3
<1>9. LayoutInv'
  <2>1. Len(queue') + 1 = n + 2
    BY <1>3, <1>5
  <2>2. curr' = Plus(First', at[Len(queue') + 1])
    BY <1>3, <1>8, <2>1
  <2>3. Offsets(at, Stored') /\ Contents(at, Stored', sram', First')
    BY <1>2, <1>3, <1>4 DEF Laid
  <2> QED
    BY <2>2, <2>3 DEF LayoutInv, Laid
<1>10. TypeOK'
  <2>1. curr' \in Page
    BY <1>3, <1>6, <1>8, PlusType
  <2> QED
    BY <1>2, <2>1 DEF IInv, TypeOK, locals
<1>11. HistoryOK'
  BY <1>2 DEF IInv, HistoryOK
<1>12. PollInv'
  BY <1>2, <1>11, PollKept
<1> QED
  BY <1>3, <1>9, <1>10, <1>11, <1>12 DEF IInv

LEMMA NicOverflowStep == ASSUME IInv, NEW f \in Frames, NicOverflow(f) PROVE IInv'
<1>1. TypeOK' /\ HistoryOK'
  BY DEF NicOverflow, IInv, TypeOK, HistoryOK, locals
<1>2. /\ Stored' = Stored /\ First' = First /\ sram' = sram /\ curr' = curr
      /\ queue' = queue
  BY DEF NicOverflow, Stored, First
<1>3. LayoutInv'
  BY <1>2 DEF IInv, LayoutInv, Laid
<1>4. PollInv'
  BY <1>1, PollKept DEF NicOverflow
<1> QED
  BY <1>1, <1>3, <1>4 DEF IInv

LEMMA PollCurrStep == ASSUME IInv, PollCurr PROVE IInv'
<1>1. TypeOK' /\ LayoutInv' /\ HistoryOK' /\ First' = First /\ queue' = queue
  BY RingKept DEF PollCurr, IInv, TypeOK, HistoryOK, nic
<1>2. queue = <<>> => curr = First
  BY EmptyRing DEF IInv
<1>3. PollInv'
  BY <1>1, <1>2 DEF PollCurr, PollInv
<1> QED
  BY <1>1, <1>3 DEF IInv

LEMMA PollBnryStep == ASSUME IInv, PollBnry PROVE IInv'
<1>1. LayoutInv' /\ HistoryOK' /\ First' = First /\ queue' = queue
  BY RingKept DEF PollBnry, IInv, HistoryOK, nic
<1>2. First \in Page /\ next_pkt' = First
  BY NextType DEF IInv, TypeOK, First, PollBnry
<1>3. TypeOK'
  BY <1>2 DEF PollBnry, IInv, TypeOK, nic
<1>4. PollInv'
  BY <1>1, <1>2 DEF PollBnry, IInv, PollInv
<1> QED
  BY <1>1, <1>3, <1>4 DEF IInv

LEMMA PollHeaderStep == ASSUME IInv, PollHeader PROVE IInv'
<1>1. LayoutInv' /\ HistoryOK' /\ First' = First /\ queue' = queue
  BY RingKept DEF PollHeader, IInv, HistoryOK, nic
<1>2. First \in Page /\ next_pkt = First /\ queue # <<>>
  BY NextType DEF IInv, TypeOK, First, PollHeader, PollInv
<1>3. hdr' \in Parts
  BY <1>2 DEF PollHeader, IInv, TypeOK, Parts
<1>4. TypeOK'
  BY <1>3 DEF PollHeader, IInv, TypeOK, Parts, nic
<1>5. queue[1] \in Frames
      /\ sram[First] = PartOf(queue[1], 0, Plus(First, Pages[queue[1]]))
  <2>1. 0 \in 0..(Pages[queue[1]] - 1) /\ queue[1] \in Frames
    BY <1>2, FirstFrame, PagesType DEF IInv
  <2>2. sram[Plus(First, 0)] = PartOf(queue[1], 0, Plus(First, Pages[queue[1]]))
    BY <1>2, <2>1, FirstFrame DEF IInv
  <2> QED
    BY <1>2, <2>1, <2>2, PlusZero
<1>6. HeaderRead'
  BY <1>1, <1>2, <1>5 DEF PollHeader, HeaderRead, PartOf
<1>7. PollInv'
  BY <1>1, <1>2, <1>6 DEF PollHeader, PollInv
<1> QED
  BY <1>1, <1>4, <1>7 DEF IInv

LEMMA PollBodyStep == ASSUME IInv, PollBody PROVE IInv'
<1>1. LayoutInv' /\ HistoryOK' /\ First' = First /\ queue' = queue
  BY RingKept DEF PollBody, IInv, HistoryOK, nic
<1>2. TypeOK'
  BY DEF PollBody, IInv, TypeOK, nic
<1>3. queue # <<>> /\ next_pkt = First /\ HeaderRead
  BY DEF PollBody, IInv, PollInv
<1>4. HeaderRead'
  BY <1>1, <1>3 DEF PollBody, HeaderRead
<1>5. BodyRead'
  <2>1. hdr.frame # <<>> /\ hdr.frame[1] = queue[1]
    BY <1>3 DEF HeaderRead
  <2>2. body' = IF queue[1] \in Bad THEN <<>>
                ELSE [k \in 1..CopyLen(queue[1]) |-> sram[Plus(First, k - 1)]]
    BY <1>3, <2>1 DEF PollBody
  <2>3. ASSUME NEW k \in 1..CopyLen(queue[1])
        PROVE  sram[Plus(First, k - 1)]
                 = PartOf(queue[1], k - 1, Plus(First, Pages[queue[1]]))
    <3>1. queue[1] \in Frames
      BY <1>3, FirstFrame DEF IInv
    <3>2. k - 1 \in 0..(Pages[queue[1]] - 1)
      BY <3>1, PagesType, RingAssumption DEF CopyLen
    <3> QED
      BY <1>3, <3>2, FirstFrame DEF IInv
  <2> QED
    BY <1>1, <2>2, <2>3 DEF BodyRead
<1>6. PollInv'
  BY <1>1, <1>3, <1>4, <1>5 DEF PollBody, PollInv
<1> QED
  BY <1>1, <1>2, <1>6 DEF IInv

(* The release takes the first frame off the ring, whole, and no other. *)
LEMMA Released ==
    ASSUME IInv, PollAdvance
    PROVE  /\ queue # <<>> /\ queue[1] \in Frames
           /\ queue' = Tail(queue) /\ Stored' = Tail(Stored)
           /\ First' = Plus(First, Pages[queue[1]])
           /\ bnry' \in Page
           /\ got' = IF queue[1] \in Bad THEN got ELSE Append(got, queue[1])
<1>1. queue # <<>> /\ HeaderRead /\ BodyRead
  BY DEF IInv, PollInv, PollAdvance
<1>2. queue[1] \in Frames /\ queue \in Seq(Frames) /\ got \in Seq(Frames)
  BY <1>1, FirstFrame DEF IInv, HistoryOK
<1>3. queue' = Tail(queue)
  BY <1>1 DEF PollAdvance
<1>4. Stored' = Tail(Stored)
  <2>1. CASE storing = <<>>
    BY <1>3, <2>1 DEF Stored, PollAdvance
  <2>2. CASE storing # <<>>
    <3>1. PICK f \in Frames : storing = <<f>>
      BY <2>2 DEF IInv, TypeOK
    <3>2. Append(Tail(queue), f) = Tail(Append(queue, f))
      BY <1>1, <1>2
    <3> QED
      BY <1>3, <2>2, <3>1, <3>2 DEF Stored, PollAdvance
  <2> QED
    BY <2>1, <2>2
<1>5. First' = Plus(First, Pages[queue[1]]) /\ bnry' \in Page
  <2>1. First \in Page
    BY NextType DEF IInv, TypeOK, First
  <2>2. Plus(First, Pages[queue[1]]) \in Page
    <3>1. Pages[queue[1]] \in 0..Size
      BY <1>2, PagesType, SizeType
    <3> QED
      BY <2>1, <3>1, PlusType
  <2>3. bnry' = NewBnry(Plus(First, Pages[queue[1]]))
    BY <1>1 DEF PollAdvance, HeaderRead
  <2> QED
    BY <2>2, <2>3, NewBnryInverse DEF First
<1>6. got' = IF queue[1] \in Bad THEN got ELSE Append(got, queue[1])
  <2>1. CASE queue[1] \in Bad
    BY <1>1, <2>1 DEF BodyRead, PollAdvance
  <2>2. CASE queue[1] \notin Bad
    <3> DEFINE m == CopyLen(queue[1])
    <3>1. m \in Nat /\ m >= 1
      BY <1>2, PagesType, RingAssumption DEF CopyLen
    <3>2. body = [k \in 1..m |-> PartOf(queue[1], k - 1, Plus(First, Pages[queue[1]]))]
      BY <1>1, <2>2 DEF BodyRead
    <3> HIDE DEF m
    <3>3. 1 \in DOMAIN body /\ DOMAIN body = 1..m /\ Len(body) = m
      BY <3>1, <3>2
    <3>4. \A k \in DOMAIN body : body[k].frame = <<queue[1]>> /\ body[k].part = k - 1
      BY <3>2 DEF PartOf
    <3>5. FrameOf(body) = <<queue[1]>>
      <4>1. body[1].frame = <<queue[1]>> /\ <<queue[1]>> # <<>> /\ <<queue[1]>>[1] = queue[1]
        BY <3>3, <3>4
      <4>2. Len(body) = CopyLen(queue[1])
        BY <3>3 DEF m
      <4> QED
        BY <3>4, <4>1, <4>2 DEF FrameOf
    <3>6. body # <<>>
      <4>1. 1 \notin DOMAIN <<>>
        OBVIOUS
      <4> QED
        BY <3>3, <4>1
    <3>7. got' = got \o <<queue[1]>>
      BY <3>5, <3>6 DEF PollAdvance
    <3> QED
      BY <1>2, <2>2, <3>7
  <2> QED
    BY <2>1, <2>2
<1> QED
  BY <1>1, <1>2, <1>3, <1>4, <1>5, <1>6

LEMMA PollAdvanceStep == ASSUME IInv, PollAdvance PROVE IInv'
<1> USE Released
<1> DEFINE m == Pages[queue[1]]
           q == Stored
           n == Len(q)
<1>1. /\ q \in Seq(Frames) /\ n \in Nat /\ n >= 1 /\ q[1] = queue[1]
      /\ Len(queue) \in Nat /\ 1 <= Len(queue) /\ Len(queue) <= n
  BY StoredType DEF IInv, HistoryOK
<1>2. /\ Tail(q) \in Seq(Frames) /\ Len(Tail(q)) = n - 1
      /\ \A i \in 1..(n - 1) : Tail(q)[i] = q[i + 1]
      /\ Len(queue') = Len(queue) - 1
  <2>1. queue \in Seq(Frames)
    BY DEF IInv, HistoryOK
  <2> QED
    BY <1>1, <2>1
<1>3. First \in Page /\ m \in Nat /\ m >= 1 /\ m <= Size - 1
  BY NextType, PagesType DEF IInv, TypeOK, First
<1>4. PICK at : Laid(at)
  BY DEF IInv, LayoutInv
<1>5. TypeOK'
  BY DEF PollAdvance, IInv, TypeOK, locals
<1>6. HistoryOK'
  <2>1. queue \in Seq(Frames) /\ got \in Seq(Frames)
    BY DEF IInv, HistoryOK
  <2>2. Tail(queue) \in Seq(Frames) /\ Append(got, queue[1]) \in Seq(Frames)
    BY <2>1
  <2> QED
    BY <2>1, <2>2 DEF HistoryOK
<1>7. PollInv'
  BY DEF PollAdvance, PollInv
<1>8. LayoutInv'
  <2> DEFINE to == [i \in 1..n |-> at[i + 1] - m]
  <2>1. /\ at \in [1..(n + 1) -> 0..(Size - 1)] /\ at[1] = 0
        /\ \A i \in 1..n : at[i + 1] = at[i] + Pages[q[i]]
        /\ \A i, j \in 1..(n + 1) : i <= j => at[i] <= at[j]
        /\ Contents(at, q, sram, First)
        /\ curr = Plus(First, at[Len(queue) + 1])
    BY <1>4 DEF Laid, Offsets
  <2> HIDE DEF q, n, m
  <2>2. at[2] = m
    <3>0. 1 \in 1..n
      BY <1>1
    <3>1. at[1 + 1] = at[1] + Pages[q[1]]
      <4>1. \A i \in 1..n : at[i + 1] = at[i] + Pages[q[i]]
        BY <2>1
      <4> QED
        BY <3>0, <4>1
    <3> QED
      BY <1>1, <1>3, <2>1, <3>1 DEF m
  <2>3. \A i \in 1..n : /\ at[i + 1] \in m..(Size - 1)
                        /\ to[i] = at[i + 1] - m /\ to[i] \in 0..(Size - 1)
    <3> SUFFICES ASSUME NEW i \in 1..n
                 PROVE  at[i + 1] \in m..(Size - 1) /\ at[i + 1] - m \in 0..(Size - 1)
      OBVIOUS
    <3>1. i + 1 \in 1..(n + 1) /\ 2 \in 1..(n + 1) /\ 2 <= i + 1
      BY <1>1
    <3>2. at[2] <= at[i + 1] /\ at[i + 1] \in 0..(Size - 1)
      BY <2>1, <3>1
    <3> QED
      BY <1>3, <2>2, <3>2, SizeType
  <2>4. Offsets(to, Tail(q))
    <3>1. to \in [1..(Len(Tail(q)) + 1) -> 0..(Size - 1)]
      <4>1. Len(Tail(q)) + 1 = n
        BY <1>1, <1>2
      <4>2. to \in [1..n -> 0..(Size - 1)]
        BY <2>3
      <4> QED
        BY <4>1, <4>2
    <3>2. to[1] = 0
      <4>1. 1 \in 1..n /\ to[1] = at[1 + 1] - m
        BY <1>1, <2>3
      <4> QED
        BY <1>3, <2>2, <4>1
    <3>3. ASSUME NEW i \in 1..Len(Tail(q)) PROVE to[i + 1] = to[i] + Pages[Tail(q)[i]]
      <4>1. i \in 1..n /\ i + 1 \in 1..n /\ Tail(q)[i] = q[i + 1]
        BY <1>1, <1>2
      <4>2. at[(i + 1) + 1] = at[i + 1] + Pages[q[i + 1]]
        BY <2>1, <4>1
      <4>3. to[i] = at[i + 1] - m /\ to[i + 1] = at[(i + 1) + 1] - m
            /\ at[i + 1] \in m..(Size - 1)
        BY <2>3, <4>1
      <4>4. Pages[q[i + 1]] \in Nat
        BY <1>1, <4>1, PagesType DEF n
      <4> HIDE DEF to
      <4> QED
        BY <1>3, <4>1, <4>2, <4>3, <4>4, SizeType
    <3>4. ASSUME NEW i \in 1..(Len(Tail(q)) + 1), NEW j \in 1..(Len(Tail(q)) + 1), i <= j
          PROVE  to[i] <= to[j]
      <4>1. i \in 1..n /\ j \in 1..n /\ i + 1 \in 1..(n + 1) /\ j + 1 \in 1..(n + 1)
            /\ i + 1 <= j + 1
        BY <1>1, <1>2, <3>4
      <4>2. at[i + 1] <= at[j + 1]
        BY <2>1, <4>1
      <4>3. to[i] = at[i + 1] - m /\ to[j] = at[j + 1] - m
            /\ at[i + 1] \in m..(Size - 1) /\ at[j + 1] \in m..(Size - 1)
        BY <2>3, <4>1
      <4> HIDE DEF to
      <4> QED
        BY <1>3, <4>2, <4>3, SizeType
    <3> HIDE DEF to
    <3> QED
      BY <3>1, <3>2, <3>3, <3>4 DEF Offsets
  <2> HIDE DEF to
  <2>5. Contents(to, Tail(q), sram, Plus(First, m))
    <3> SUFFICES ASSUME NEW i \in 1..Len(Tail(q)), NEW k \in 0..(Pages[Tail(q)[i]] - 1)
                 PROVE  sram[Plus(Plus(First, m), to[i] + k)]
                          = PartOf(Tail(q)[i], k, Plus(Plus(First, m), to[i + 1]))
      BY DEF Contents
    <3>1. i \in 1..n /\ i + 1 \in 1..n /\ Tail(q)[i] = q[i + 1] /\ q[i + 1] \in Frames
      BY <1>1, <1>2 DEF n
    <3>2. at[(i + 1) + 1] = at[i + 1] + Pages[q[i + 1]]
      BY <2>1, <3>1
    <3>3. to[i] = at[i + 1] - m /\ to[i + 1] = at[(i + 1) + 1] - m
          /\ at[i + 1] \in m..(Size - 1) /\ at[(i + 1) + 1] \in m..(Size - 1)
      BY <2>3, <3>1
    <3>4. sram[Plus(First, at[i + 1] + k)]
            = PartOf(q[i + 1], k, Plus(First, at[(i + 1) + 1]))
      BY <2>1, <3>1 DEF Contents, n
    <3>5. k \in Nat /\ Pages[q[i + 1]] \in Nat /\ k < Pages[q[i + 1]]
      BY <3>1, PagesType
    <3>6. /\ m \in 0..Size /\ to[i] + k \in 0..Size /\ m + (to[i] + k) <= Size
          /\ to[i + 1] \in 0..Size /\ m + to[i + 1] <= Size
          /\ m + (to[i] + k) = at[i + 1] + k /\ m + to[i + 1] = at[(i + 1) + 1]
      <4>1. /\ at[i + 1] \in Nat /\ m <= at[i + 1] /\ at[i + 1] <= Size - 1
            /\ at[(i + 1) + 1] \in Nat /\ at[(i + 1) + 1] <= Size - 1
        <5>1. \A x, y, z : x \in Nat /\ z \in Nat /\ y \in x..(z - 1) =>
                            y \in Nat /\ x <= y /\ y <= z - 1
          OBVIOUS
        <5>2. m \in Nat /\ Size \in Nat
          BY <1>3, SizeType
        <5> QED
          BY <3>3, <5>1, <5>2
      <4> DEFINE a == at[i + 1]
                 b == at[(i + 1) + 1]
                 c == Pages[q[i + 1]]
      <4>2. /\ a \in Nat /\ m <= a /\ b \in Nat /\ b <= Size - 1 /\ b = a + c
            /\ c \in Nat /\ k \in Nat /\ k < c /\ to[i] = a - m /\ to[i + 1] = b - m
        BY <3>2, <3>3, <3>5, <4>1
      <4> HIDE DEF a, b, c
      <4>3. to[i] \in Nat /\ to[i + 1] \in Nat /\ m + to[i] = a /\ m + to[i + 1] = b
        <5>1. \A u, v, x, y, z \in Nat : x <= u /\ v = u + y =>
                 /\ u - x \in Nat /\ v - x \in Nat /\ x + (u - x) = u /\ x + (v - x) = v
          OBVIOUS
        <5>2. m \in Nat
          BY <1>3
        <5> QED
          BY <4>2, <5>1, <5>2
      <4>4. /\ m \in 0..Size /\ to[i] + k \in 0..Size /\ m + (to[i] + k) <= Size
            /\ to[i + 1] \in 0..Size /\ m + to[i + 1] <= Size
            /\ m + (to[i] + k) = a + k
        <5> DEFINE t == to[i]
                   w == to[i + 1]
        <5>1. m \in Nat /\ Size \in Nat /\ t \in Nat /\ w \in Nat /\ m + t = a /\ m + w = b
          BY <1>3, <4>3, SizeType
        <5> HIDE DEF t, w
        <5>2. m + (t + k) = a + k /\ m + (t + k) <= Size /\ m + w <= Size
          BY <4>2, <5>1
        <5>3. t + k \in 0..Size /\ m \in 0..Size /\ w \in 0..Size
          BY <4>2, <5>1, <5>2
        <5> QED
          BY <5>2, <5>3 DEF t, w
      <4> QED
        BY <4>3, <4>4 DEF a, b
    <3>7. Plus(Plus(First, m), to[i] + k) = Plus(First, at[i + 1] + k)
      BY <1>3, <3>6, PlusPlus
    <3>8. Plus(Plus(First, m), to[i + 1]) = Plus(First, at[(i + 1) + 1])
      BY <1>3, <3>6, PlusPlus
    <3> QED
      BY <3>1, <3>4, <3>7, <3>8
  <2>6. curr' = Plus(Plus(First, m), to[Len(queue') + 1])
    <3> DEFINE l == Len(queue)
    <3>1. l \in 1..n /\ Len(queue') + 1 = l
      BY <1>1, <1>2
    <3>2. curr' = curr
      BY DEF PollAdvance
    <3>3. to[l] = at[l + 1] - m /\ at[l + 1] \in m..(Size - 1)
      BY <2>3, <3>1
    <3>4. m \in 0..Size /\ to[l] \in 0..Size /\ m + to[l] = at[l + 1] /\ m + to[l] <= Size
      BY <1>3, <3>3, SizeType, SMTT(30)
    <3>5. Plus(Plus(First, m), to[l]) = Plus(First, at[l + 1])
      BY <1>3, <3>4, PlusPlus
    <3> QED
      BY <2>1, <3>1, <3>2, <3>5
  <2>7. sram' = sram /\ First' = Plus(First, m) /\ Stored' = Tail(q)
    BY DEF PollAdvance, m, q
  <2> QED
    BY <2>4, <2>5, <2>6, <2>7 DEF LayoutInv, Laid
<1> QED
  BY <1>5, <1>6, <1>7, <1>8 DEF IInv

LEMMA StutterStep == ASSUME IInv, UNCHANGED vars PROVE IInv'
<1>1. LayoutInv' /\ HistoryOK' /\ TypeOK'
  BY RingKept DEF IInv, vars, TypeOK, HistoryOK, nic, locals
<1>2. PollInv'
  BY <1>1, PollKept DEF vars, nic
<1> QED
  BY <1>1, <1>2 DEF IInv

-----------------------------------------------------------------------------
(* The theorems *)

LEMMA NextInv == IInv /\ [Next]_vars => IInv'
<1> SUFFICES ASSUME IInv, [Next]_vars PROVE IInv'
  OBVIOUS
<1>1. CASE \E f \in Frames : NicStore(f) \/ NicOverflow(f)
  BY <1>1, NicStoreStep, NicOverflowStep
<1>2. CASE NicCommit
  BY <1>2, NicCommitStep
<1>3. CASE Poll
  BY <1>3, PollCurrStep, PollBnryStep, PollHeaderStep, PollBodyStep, PollAdvanceStep
     DEF Poll
<1>4. CASE UNCHANGED vars
  BY <1>4, StutterStep
<1> QED
  BY <1>1, <1>2, <1>3, <1>4 DEF Next

LEMMA Invariance == Spec => []IInv
BY InitInv, NextInv, PTL DEF Spec

(***************************************************************************)
(* CURR, BNRY, the driver's locals and every next_page link stay inside    *)
(* the ring, for every ring and every frame size.                          *)
(***************************************************************************)
THEOREM TypeCorrect == Spec => []TypeOK
<1>1. IInv => TypeOK
  BY DEF IInv
<1> QED
  BY <1>1, Invariance, PTL

(* A step of the ring is a step of the queue, or none. *)
LEMMA StepSimulates ==
    ASSUME IInv, [Next]_vars
    PROVE  [Abstract!QNext]_<<wire, Stored, got>>
<1>1. ASSUME NEW f \in Frames, NicStore(f) PROVE Abstract!Put(f)
  <2>1. Stored' = Append(Stored, f)
    <3>1. storing = <<>> /\ queue' = queue /\ storing' = <<f>>
      BY <1>1 DEF NicStore
    <3>2. storing' # <<>> /\ storing'[1] = f
      BY <3>1
    <3> QED
      BY <3>1, <3>2 DEF Stored
  <2> QED
    BY <1>1, <2>1 DEF NicStore, Abstract!Put, Stored
<1>2. ASSUME NEW f \in Frames, NicOverflow(f) PROVE Abstract!Lose(f)
  <2>1. Stored = queue /\ Stored' = queue
    BY <1>2 DEF NicOverflow, Stored
  <2>2. queue # <<>>
    <3> SUFFICES ASSUME queue = <<>> PROVE FALSE
      OBVIOUS
    <3>1. First \in Page /\ bnry \in Page
      BY NextType DEF IInv, TypeOK, First
    <3>2. curr = Plus(First, 0)
      BY <3>1, EmptyRing, PlusZero DEF IInv
    <3>3. Free = Size - 1 - 0
      BY <3>1, <3>2, FreeIs, SizeType
    <3>4. Pages[f] > Free
      BY <1>2 DEF NicOverflow
    <3> QED
      BY <3>3, <3>4, PagesType, SizeType
  <2> QED
    BY <1>2, <2>1, <2>2 DEF NicOverflow, Abstract!Lose, Stored
<1>3. CASE NicCommit
  BY <1>3, NicCommitStep DEF NicCommit
<1>4. CASE PollAdvance
  <2>1. /\ Stored # <<>> /\ Head(Stored) = queue[1] /\ Stored' = Tail(Stored)
        /\ got' = IF queue[1] \in Bad THEN got ELSE Append(got, queue[1])
        /\ wire' = wire
    BY <1>4, Released, StoredType DEF IInv, PollAdvance
  <2> QED
    BY <2>1 DEF Abstract!QNext, Abstract!Take, Abstract!Skip, Stored
<1>5. CASE PollCurr \/ PollBnry \/ PollHeader \/ PollBody \/ UNCHANGED vars
  BY <1>5 DEF PollCurr, PollBnry, PollHeader, PollBody, vars, nic, Stored
<1> QED
  BY <1>1, <1>2, <1>3, <1>4, <1>5 DEF Next, Poll, Abstract!QNext

(***************************************************************************)
(* ne2k_poll_rx over the ring implements FrameQueue: for every ring and    *)
(* every frame size the frames come out in order, whole and at most once,  *)
(* whatever the NIC does between two register accesses, and none is        *)
(* refused while the ring is empty.                                        *)
(***************************************************************************)
THEOREM RingImplementsQueue == Spec => ImplementsQueue
<1>1. Init => Abstract!QInit
  BY DEF Init, Abstract!QInit
<1>2. IInv /\ [Next]_vars =>
        [Abstract!QNext]_<<wire, IF storing = <<>> THEN queue
                                 ELSE Append(queue, storing[1]), got>>
  BY StepSimulates DEF Stored
<1> QED
  BY <1>1, <1>2, Invariance, PTL DEF Spec, ImplementsQueue, Abstract!QSpec

-----------------------------------------------------------------------------
(* The transmit side *)

Bits == {"PTX", "TXE"}

TxTypeOK ==
    /\ txp \in BOOLEAN /\ saved_txp \in BOOLEAN
    /\ isr \in SUBSET Bits /\ seen \in SUBSET Bits
    /\ tx_page \in Jobs \cup {NoJob}
    /\ left \in SUBSET Jobs
    /\ tx_pc \in {"idle", "wait", "dma", "start", "poll", "ack", "page1"}
    /\ tx_pc \in {"wait", "dma", "start", "poll", "ack"} => job \in Jobs \ left
    /\ result \in [Jobs -> {"none", "ok", "fail", "timeout"}]
    /\ air \in Seq([job : Jobs \cup {NoJob}, ok : BOOLEAN])
    /\ begun \in Seq(Jobs) /\ settled \in SUBSET Jobs

(* Frame j went out and, in the second case, with outcome b. *)
SentAs(j, b) == \E k \in 1..Len(air) : air[k] = [job |-> j, ok |-> b]
OnAir(j) == \E k \in 1..Len(air) : air[k].job = j

(* From the end of the first wait loop to the write of CR, TXP is clear. *)
PageInv ==
    /\ tx_pc \in {"dma", "start"} => ~txp
    /\ tx_pc = "start" => tx_page = job

(* A result is written once, at the return of the one send of its frame. *)
ResultInv ==
    /\ \A j \in left : result[j] = "none"
    /\ tx_pc \in {"wait", "dma", "start", "poll", "ack"} => result[job] = "none"

(* The transmitter between two sends, and while the current one runs. *)
QuietInv ==
    /\ tx_pc \notin {"poll", "ack"} => ~txp /\ isr = {}
    /\ tx_pc = "page1" => ~saved_txp

RunInv ==
    /\ tx_pc \in {"wait", "dma", "start"} => ~OnAir(job)
    /\ tx_pc \in {"start", "poll"} => tx_page = job
    /\ tx_pc = "poll" /\ txp => isr = {} /\ ~OnAir(job)
    /\ tx_pc = "poll" /\ ~txp => \E b \in Bits : isr = {b} /\ SentAs(job, b = "PTX")
    /\ tx_pc = "ack" => /\ ~txp /\ isr = seen
                     /\ \E b \in Bits : seen = {b} /\ SentAs(job, b = "PTX")

AirInv ==
    /\ \A j \in left : ~OnAir(j)
    /\ \A j \in Jobs : AtMostOnAir(j)
    /\ \A j \in Jobs : result[j] = "ok" => SentOk(j)
    /\ \A j \in Jobs : result[j] = "fail" => ~SentOk(j)

CleanInv == Clean => QuietInv /\ RunInv /\ AirInv

(* A frame on the air, or that the poll may put back there, is not settled. *)
Running == txp \/ (tx_pc = "page1" /\ saved_txp)

SettledInv ==
    /\ \A j \in settled : result[j] \in {"ok", "fail"}
    /\ SettledExact
    /\ Running => tx_page \notin settled

(* The sends that returned 0 and the transmissions that succeeded. *)
Oks == {j \in Jobs : result[j] = "ok"}
Successes == {k \in 1..Len(air) : air[k].ok}
Spare == IF "PTX" \in isr THEN 1 ELSE 0

CoverInv ==
    /\ Cardinality(Oks) + Spare <= Cardinality(Successes)
    /\ tx_pc = "ack" => seen \subseteq isr

(* The frame last begun is the one in the page, and is on the air or was. *)
LastBegun == begun[Len(begun)]
LastOnAir == air[Len(air)].job

OrderInv ==
    /\ Running => begun # <<>> /\ tx_page = LastBegun
    /\ begun = <<>> => air = <<>>
    /\ air # <<>> => air[1].job = begun[1]
    /\ \A k \in 1..(Len(air) - 1) :
          \/ air[k + 1].job = air[k].job
          \/ Follows(begun, air[k].job, air[k + 1].job)
    /\ begun # <<>> /\ ~txp => air # <<>> /\ LastOnAir = LastBegun
    /\ air = <<>> => Len(begun) <= 1
    /\ air # <<>> => LastOnAir = LastBegun \/ Follows(begun, LastOnAir, LastBegun)

BaseInv == TxTypeOK /\ PageInv /\ ResultInv /\ CleanInv

TxInv == BaseInv /\ SettledInv /\ CoverInv /\ OrderInv
-----------------------------------------------------------------------------
(* TxInit establishes the invariant. *)
LEMMA TxInitInv == TxInit => TxInv
<1> SUFFICES ASSUME TxInit PROVE TxInv
  OBVIOUS
<1> USE TxAssumption DEF TxInit
<1>1. TxTypeOK
  <2>1. air \in Seq([job : Jobs \cup {NoJob}, ok : BOOLEAN]) /\ begun \in Seq(Jobs)
    OBVIOUS
  <2>2. result \in [Jobs -> {"none", "ok", "fail", "timeout"}]
    OBVIOUS
  <2> QED
    BY <2>1, <2>2 DEF TxTypeOK, Bits
<1>2. Len(air) = 0
  OBVIOUS
<1>3. BaseInv
  BY <1>1, <1>2 DEF BaseInv, PageInv, ResultInv, CleanInv, QuietInv, RunInv, AirInv,
     OnAir, SentAs, SentOk, AtMostOnAir
<1>4. SettledInv
  BY DEF SettledInv, SettledExact, Running
<1>5. CoverInv
  <2>1. Oks = {} /\ Successes = {}
    BY <1>2 DEF Oks, Successes
  <2> QED
    BY <2>1, FS_EmptySet DEF CoverInv, Spare
<1>6. OrderInv
  BY <1>2 DEF OrderInv, Running
<1> QED
  BY <1>3, <1>4, <1>5, <1>6 DEF TxInv

(* Clean, and what went on the air, only depend on result and air. *)
LEMMA AirKept ==
    ASSUME air' = air
    PROVE  /\ \A j : OnAir(j)' <=> OnAir(j)
           /\ \A j, b : SentAs(j, b)' <=> SentAs(j, b)
           /\ \A j : SentOk(j)' <=> SentOk(j)
           /\ \A j : AtMostOnAir(j)' <=> AtMostOnAir(j)
BY DEF OnAir, SentAs, SentOk, AtMostOnAir

(* A completed transmission is on the air, and nothing else is new there. *)
LEMMA AirAppend ==
    ASSUME TxTypeOK, NEW b \in BOOLEAN, tx_page' = tx_page,
           air' = Append(air, [job |-> tx_page, ok |-> b])
    PROVE  /\ \A j : j # tx_page => (OnAir(j)' <=> OnAir(j))
           /\ \A j, c : j # tx_page => (SentAs(j, c)' <=> SentAs(j, c))
           /\ \A j : j # tx_page => (SentOk(j)' <=> SentOk(j))
           /\ \A j : j # tx_page => (AtMostOnAir(j)' <=> AtMostOnAir(j))
           /\ SentAs(tx_page, b)'
           /\ ~OnAir(tx_page) => AtMostOnAir(tx_page)'
<1> DEFINE e == [job |-> tx_page, ok |-> b]
<1>1. /\ Len(air) \in Nat /\ Len(air') = Len(air) + 1
      /\ \A k \in 1..Len(air) : air'[k] = air[k]
      /\ air'[Len(air) + 1] = e
  BY DEF TxTypeOK
<1>2. e.job = tx_page /\ e.ok = b
  OBVIOUS
<1>3. \A j, c : j # tx_page => e # [job |-> j, ok |-> c]
  BY <1>2
<1>4. 1..Len(air') = 1..Len(air) \cup {Len(air) + 1}
  BY <1>1
<1>5. e = [job |-> tx_page, ok |-> b]
  OBVIOUS
<1> HIDE DEF e
<1>6. \A j : j # tx_page => (OnAir(j)' <=> OnAir(j))
  BY <1>1, <1>2, <1>4 DEF OnAir
<1>7. \A j, c : j # tx_page => (SentAs(j, c)' <=> SentAs(j, c))
  BY <1>1, <1>3, <1>4 DEF SentAs
<1>11. \A j : j # tx_page => (SentOk(j)' <=> SentOk(j))
  BY <1>1, <1>3, <1>4 DEF SentOk
<1>8. \A j : j # tx_page => (AtMostOnAir(j)' <=> AtMostOnAir(j))
  BY <1>1, <1>2, <1>4 DEF AtMostOnAir
<1>9. SentAs(tx_page, b)'
  BY <1>1, <1>4, <1>5 DEF SentAs
<1>10. ~OnAir(tx_page) => AtMostOnAir(tx_page)'
  BY <1>1, <1>4 DEF OnAir, AtMostOnAir
<1> QED
  BY <1>6, <1>7, <1>8, <1>9, <1>10, <1>11

-----------------------------------------------------------------------------
(* One lemma per action *)

LEMMA NicDoneStep == ASSUME BaseInv, NicDone PROVE BaseInv'
<1> USE DEF BaseInv, NicDone, drv, hist
<1> PICK bit \in Bits : /\ isr' = isr \cup {bit}
                       /\ air' = Append(air, [job |-> tx_page, ok |-> bit = "PTX"])
  BY DEF Bits
<1>1. TxTypeOK'
  <2>1. (bit = "PTX") \in BOOLEAN
    OBVIOUS
  <2>2. [job |-> tx_page, ok |-> bit = "PTX"] \in [job : Jobs \cup {NoJob}, ok : BOOLEAN]
    BY <2>1 DEF TxTypeOK
  <2> HIDE DEF BaseInv
  <2>3. air' \in Seq([job : Jobs \cup {NoJob}, ok : BOOLEAN])
    BY <2>2 DEF TxTypeOK, BaseInv
  <2> QED
    BY <2>3 DEF TxTypeOK, BaseInv, Bits
<1>2. PageInv' /\ ResultInv'
  BY DEF PageInv, ResultInv
<1>3. ASSUME Clean' PROVE QuietInv' /\ RunInv' /\ AirInv'
  <2>1. Clean /\ QuietInv /\ RunInv /\ AirInv
    BY <1>3 DEF Clean, CleanInv
  <2>2. tx_pc = "poll" /\ tx_page = job /\ isr = {} /\ ~OnAir(job) /\ job \in Jobs \ left
    BY <2>1 DEF QuietInv, RunInv, TxTypeOK
  <2>3. (bit = "PTX") \in BOOLEAN
    OBVIOUS
  <2>4. /\ \A j : j # job => (OnAir(j)' <=> OnAir(j))
        /\ \A j, c : j # job => (SentAs(j, c)' <=> SentAs(j, c))
        /\ \A j : j # job => (SentOk(j)' <=> SentOk(j))
        /\ \A j : j # job => (AtMostOnAir(j)' <=> AtMostOnAir(j))
        /\ SentAs(job, bit = "PTX")'
        /\ AtMostOnAir(job)'
    BY <2>2, <2>3, AirAppend
  <2>5. QuietInv'
    BY <2>1, <2>2 DEF QuietInv
  <2>6. RunInv'
    BY <2>2, <2>4 DEF RunInv
  <2>7. AirInv'
    BY <2>1, <2>2, <2>4 DEF AirInv, ResultInv
  <2> QED
    BY <2>5, <2>6, <2>7
<1> QED
  BY <1>1, <1>2, <1>3 DEF CleanInv

LEMMA SendCallStep == ASSUME BaseInv, NEW j \in Jobs, SendCall(j) PROVE BaseInv'
<1> USE DEF BaseInv, SendCall, Result
<1>1. TxTypeOK'
  BY DEF TxTypeOK
<1>2. PageInv' /\ ResultInv'
  BY DEF PageInv, ResultInv, TxTypeOK
<1>3. ASSUME Clean' PROVE QuietInv' /\ RunInv' /\ AirInv'
  <2>1. Clean /\ QuietInv /\ RunInv /\ AirInv
    BY <1>3 DEF Clean, CleanInv, ResultInv, TxTypeOK
  <2>2. QuietInv'
    BY <2>1 DEF QuietInv
  <2>3. RunInv'
    BY <2>1, AirKept DEF RunInv, AirInv
  <2>4. ~OnAir(j) /\ (SentOk(j) => OnAir(j))
    BY <2>1 DEF AirInv, SentOk, OnAir
  <2>5. AirInv'
    BY <2>1, <2>4, AirKept DEF AirInv, TxTypeOK
  <2> QED
    BY <2>2, <2>3, <2>5
<1> QED
  BY <1>1, <1>2, <1>3 DEF CleanInv

(* The steps of ne2k_send_direct that neither write ISR nor return. *)
LEMMA SendWaitStep == ASSUME BaseInv, SendWait \/ SendDma \/ SendStart PROVE BaseInv'
<1> USE DEF BaseInv, SendWait, SendDma, SendStart, hist
<1>0. begun' \in Seq(Jobs)
  <2>1. CASE SendStart
    BY <2>1 DEF TxTypeOK
  <2>2. CASE ~SendStart
    BY <2>2 DEF TxTypeOK
  <2> QED
    BY <2>1, <2>2
<1>1. TxTypeOK'
  BY <1>0 DEF TxTypeOK
<1>2. PageInv' /\ ResultInv'
  BY DEF PageInv, ResultInv
<1>3. ASSUME Clean' PROVE QuietInv' /\ RunInv' /\ AirInv'
  <2>1. Clean /\ QuietInv /\ RunInv /\ AirInv
    BY <1>3 DEF Clean, CleanInv
  <2>2. QuietInv'
    BY <2>1 DEF QuietInv
  <2>3. RunInv'
    BY <2>1, AirKept DEF RunInv, QuietInv
  <2>4. AirInv'
    BY <2>1, AirKept DEF AirInv
  <2> QED
    BY <2>2, <2>3, <2>4
<1> QED
  BY <1>1, <1>2, <1>3 DEF CleanInv

LEMMA SendPollStep == ASSUME BaseInv, SendSeen \/ SendSpin PROVE BaseInv'
<1> USE DEF BaseInv, SendSeen, SendSpin, hist
<1>1. TxTypeOK'
  BY DEF TxTypeOK
<1>2. PageInv' /\ ResultInv'
  BY DEF PageInv, ResultInv
<1>3. ASSUME Clean' PROVE QuietInv' /\ RunInv' /\ AirInv'
  <2>1. Clean /\ QuietInv /\ RunInv /\ AirInv
    BY <1>3 DEF Clean, CleanInv
  <2>2. QuietInv'
    BY <2>1 DEF QuietInv
  <2>3. RunInv'
    BY <2>1, AirKept DEF RunInv
  <2>4. AirInv'
    BY <2>1, AirKept DEF AirInv
  <2> QED
    BY <2>2, <2>3, <2>4
<1> QED
  BY <1>1, <1>2, <1>3 DEF CleanInv

LEMMA SendAckStep == ASSUME BaseInv, SendAck PROVE BaseInv'
<1> USE DEF BaseInv, SendAck, Return, Result
<1>1. TxTypeOK'
  BY DEF TxTypeOK
<1>2. PageInv' /\ ResultInv'
  BY DEF PageInv, ResultInv, TxTypeOK
<1>3. ASSUME Clean' PROVE QuietInv' /\ RunInv' /\ AirInv'
  <2>1. Clean /\ QuietInv /\ RunInv /\ AirInv
    BY <1>3 DEF Clean, CleanInv, ResultInv, TxTypeOK
  <2>2. QuietInv' /\ RunInv'
    BY <2>1 DEF QuietInv, RunInv
  <2>3. PICK b \in Bits : seen = {b} /\ SentAs(job, b = "PTX")
    BY <2>1 DEF RunInv
  <2>4. b # "PTX" => ~SentOk(job)
    <3> SUFFICES ASSUME b # "PTX", SentOk(job) PROVE FALSE
      OBVIOUS
    <3>1. PICK k \in 1..Len(air) : air[k] = [job |-> job, ok |-> FALSE]
      BY <2>3 DEF SentAs
    <3>2. PICK l \in 1..Len(air) : air[l] = [job |-> job, ok |-> TRUE]
      BY DEF SentOk
    <3>3. k = l
      BY <2>1, <3>1, <3>2 DEF AirInv, AtMostOnAir, TxTypeOK
    <3> QED
      BY <3>1, <3>2, <3>3
  <2>5. /\ "PTX" \in seen => SentOk(job)
        /\ "PTX" \notin seen => ~SentOk(job)
    BY <2>3, <2>4 DEF SentAs, SentOk
  <2>6. AirInv'
    BY <2>1, <2>5, AirKept DEF AirInv, TxTypeOK
  <2> QED
    BY <2>2, <2>6
<1> QED
  BY <1>1, <1>2, <1>3 DEF CleanInv

LEMMA SendTimeoutStep == ASSUME BaseInv, SendTimeout PROVE BaseInv'
<1> USE DEF BaseInv, SendTimeout, Return, Result
<1>1. TxTypeOK'
  BY DEF TxTypeOK
<1>2. PageInv' /\ ResultInv'
  BY DEF PageInv, ResultInv, TxTypeOK
<1>3. ~Clean'
  BY DEF Clean, TxTypeOK
<1> QED
  BY <1>1, <1>2, <1>3 DEF CleanInv

LEMMA PollStep == ASSUME BaseInv, TxPoll PROVE BaseInv'
<1> USE DEF BaseInv, TxPoll, PollSaveCr, PollRestoreCr, hist
<1>1. TxTypeOK'
  BY DEF TxTypeOK
<1>2. PageInv' /\ ResultInv'
  BY DEF PageInv, ResultInv
<1>3. ASSUME Clean' PROVE QuietInv' /\ RunInv' /\ AirInv'
  <2>1. Clean /\ QuietInv /\ RunInv /\ AirInv
    BY <1>3 DEF Clean, CleanInv
  <2>2. ~txp' /\ isr' = {} /\ ~saved_txp'
    <3>1. CASE PollSaveCr
      BY <2>1, <3>1 DEF QuietInv
    <3>2. CASE PollRestoreCr
      BY <2>1, <3>2 DEF QuietInv
    <3> QED
      BY <3>1, <3>2
  <2>3. QuietInv' /\ RunInv'
    BY <2>2 DEF QuietInv, RunInv
  <2>4. AirInv'
    BY <2>1, AirKept DEF AirInv
  <2> QED
    BY <2>3, <2>4
<1> QED
  BY <1>1, <1>2, <1>3 DEF CleanInv

LEMMA TxStutterStep == ASSUME BaseInv, UNCHANGED txvars PROVE BaseInv'
<1> USE DEF BaseInv, txvars, drv, hist
<1>1. TxTypeOK' /\ PageInv' /\ ResultInv' /\ (Clean' <=> Clean)
  BY DEF TxTypeOK, PageInv, ResultInv, Clean
<1>2. (QuietInv' <=> QuietInv) /\ (RunInv' <=> RunInv) /\ (AirInv' <=> AirInv)
  BY AirKept DEF QuietInv, RunInv, AirInv
<1> QED
  BY <1>1, <1>2 DEF CleanInv

LEMMA BaseStep == BaseInv /\ [TxNext]_txvars => BaseInv'
<1> SUFFICES ASSUME BaseInv, [TxNext]_txvars PROVE BaseInv'
  OBVIOUS
<1>1. CASE NicDone
  BY <1>1, NicDoneStep
<1>2. CASE \E j \in Jobs : SendCall(j)
  BY <1>2, SendCallStep
<1>3. CASE Send
  BY <1>3, SendWaitStep, SendPollStep, SendAckStep, SendTimeoutStep, TxStutterStep
     DEF Send, SendWaitSpin
<1>4. CASE TxPoll
  BY <1>4, PollStep
<1>5. CASE UNCHANGED txvars
  BY <1>5, TxStutterStep
<1> QED
  BY <1>1, <1>2, <1>3, <1>4, <1>5 DEF TxNext

-----------------------------------------------------------------------------
(* The sends that returned before the first time-out *)

(* The poll puts no frame on the air that was not there when it began. *)
LEMMA PollRunning ==
    ASSUME TxTypeOK, TxPoll
    PROVE  (Running' => Running) /\ (~txp' => ~txp) /\ tx_page' = tx_page
<1>1. CASE PollSaveCr
  <2>1. saved_txp' => txp
    BY <1>1 DEF PollSaveCr
  <2> QED
    BY <1>1, <2>1 DEF PollSaveCr, Running
<1>2. CASE PollRestoreCr
  <2>1. (txp' => txp \/ saved_txp) /\ (txp => txp')
    BY <1>2 DEF PollRestoreCr, TxTypeOK
  <2> QED
    BY <1>2, <2>1 DEF PollRestoreCr, Running
<1> QED
  BY <1>1, <1>2 DEF TxPoll

LEMMA SettledKept ==
    ASSUME SettledInv, settled' = settled, air' = air,
           \A i \in settled : result'[i] = result[i],
           Running' => tx_page' \notin settled
    PROVE  SettledInv'
BY AirKept DEF SettledInv, SettledExact

(* A send that returns is settled if nothing timed out so far. *)
LEMMA SettledReturn ==
    ASSUME BaseInv, BaseInv', SettledInv, air' = air,
           NEW j \in Jobs, NEW r \in {"ok", "fail"}, result[j] = "none",
           Result(j, r), tx_page' = tx_page, Running' => Running, tx_pc' = "idle"
    PROVE  SettledInv'
<1>1. /\ result'[j] = r
      /\ \A i \in Jobs \ {j} : result'[i] = result[i]
      /\ \A i \in settled : i \in Jobs \ {j}
  BY DEF Result, BaseInv, TxTypeOK, SettledInv
<1>2. CASE Clean
  <2>1. Clean'
    BY <1>1, <1>2 DEF Clean
  <2>2. QuietInv' /\ AirInv' /\ settled' = settled \cup {j}
    BY <1>2, <2>1 DEF BaseInv, CleanInv, Result
  <2>3. ~Running'
    BY <2>2 DEF QuietInv, Running
  <2>4. \A i \in settled' : result'[i] \in {"ok", "fail"}
    BY <1>1, <2>2 DEF SettledInv
  <2>5. SettledExact'
    <3>1. \A i \in Jobs : AtMostOnAir(i)'
      BY <2>2 DEF AirInv
    <3>2. \A i \in settled' : i \in Jobs
      BY <1>1, <2>2
    <3>3. /\ \A i \in Jobs : result'[i] = "ok" => SentOk(i)'
          /\ \A i \in Jobs : result'[i] = "fail" => ~SentOk(i)'
      BY <2>2 DEF AirInv
    <3>4. ASSUME NEW i \in settled'
          PROVE  AtMostOnAir(i)' /\ (result'[i] = "ok" <=> SentOk(i)')
      <4>1. i \in Jobs /\ result'[i] \in {"ok", "fail"}
        BY <2>4, <3>2
      <4>2. AtMostOnAir(i)'
        BY <3>1, <4>1
      <4>3. result'[i] = "ok" => SentOk(i)'
        BY <3>3, <4>1
      <4>4. result'[i] = "fail" => ~SentOk(i)'
        BY <3>3, <4>1
      <4>5. SentOk(i)' => result'[i] = "ok"
        BY <4>1, <4>4
      <4> QED
        BY <4>2, <4>3, <4>5
    <3> QED
      BY <3>4 DEF SettledExact
  <2> QED
    BY <2>3, <2>4, <2>5 DEF SettledInv
<1>3. CASE ~Clean
  BY <1>1, <1>3, SettledKept DEF Result, SettledInv
<1> QED
  BY <1>2, <1>3

LEMMA SettledStep == ASSUME TxInv, [TxNext]_txvars, BaseInv' PROVE SettledInv'
<1> USE DEF TxInv
<1>1. CASE NicDone
  <2> USE <1>1 DEF NicDone, drv, hist
  <2>1. PICK b \in BOOLEAN : air' = Append(air, [job |-> tx_page, ok |-> b])
    OBVIOUS
  <2>2. tx_page \notin settled
    BY DEF SettledInv, Running
  <2>3. /\ \A j \in settled : AtMostOnAir(j)' <=> AtMostOnAir(j)
        /\ \A j \in settled : SentOk(j)' <=> SentOk(j)
    BY <2>1, <2>2, AirAppend DEF BaseInv
  <2>4. ASSUME NEW j \in settled'
        PROVE  AtMostOnAir(j)' /\ (result'[j] = "ok" <=> SentOk(j)')
    <3>1. AtMostOnAir(j)' <=> AtMostOnAir(j)
      BY <2>3
    <3>2. SentOk(j)' <=> SentOk(j)
      BY <2>3
    <3>3. AtMostOnAir(j) /\ (result[j] = "ok" <=> SentOk(j))
      BY DEF SettledInv, SettledExact
    <3>4. result'[j] = result[j]
      OBVIOUS
    <3> QED
      BY <3>1, <3>2, <3>3, <3>4
  <2>5. SettledExact'
    BY <2>4 DEF SettledExact
  <2> QED
    BY <2>2, <2>5 DEF SettledInv, Running
<1>2. ASSUME NEW j \in Jobs, SendCall(j) PROVE SettledInv'
  <2> USE <1>2 DEF SendCall
  <2>1. CASE j \in TooLong
    BY <2>1, SettledReturn DEF BaseInv, ResultInv, Running
  <2>2. CASE j \notin TooLong
    BY <2>2, SettledKept DEF SettledInv, Running
  <2> QED
    BY <2>1, <2>2
<1>3. CASE SendAck
  <2>1. job \in Jobs /\ result[job] = "none"
    BY <1>3 DEF SendAck, BaseInv, ResultInv, TxTypeOK
  <2>2. PICK r \in {"ok", "fail"} : Result(job, r)
    BY <1>3 DEF SendAck, Return
  <2> QED
    BY <1>3, <2>1, <2>2, SettledReturn DEF SendAck, Return, Running
<1>4. CASE SendTimeout
  <2>1. job \notin settled
    BY <1>4 DEF SendTimeout, BaseInv, ResultInv, SettledInv
  <2>2. \A i \in settled : result'[i] = result[i]
    BY <1>4, <2>1 DEF SendTimeout, Return, Result, BaseInv, TxTypeOK
  <2> QED
    BY <1>4, <2>2, SettledKept DEF SendTimeout, Return, Result, SettledInv, Running
<1>5. CASE SendDma
  BY <1>5, SettledKept DEF SendDma, hist, BaseInv, PageInv, Running
<1>6. CASE SendStart
  <2>1. tx_page \notin settled
    BY <1>6 DEF SendStart, BaseInv, PageInv, ResultInv, SettledInv
  <2> QED
    BY <1>6, <2>1, SettledKept DEF SendStart
<1>7. CASE SendWait \/ SendWaitSpin \/ SendSeen \/ SendSpin \/ UNCHANGED txvars
  BY <1>7, SettledKept DEF SendWait, SendWaitSpin, SendSeen, SendSpin, txvars, drv, hist,
     SettledInv, Running
<1>8. CASE TxPoll
  BY <1>8, PollRunning, SettledKept DEF BaseInv, TxPoll, PollSaveCr, PollRestoreCr, hist, SettledInv
<1> QED
  BY <1>1, <1>2, <1>3, <1>4, <1>5, <1>6, <1>7, <1>8 DEF TxNext, Send

-----------------------------------------------------------------------------
(* No success of the transmitter is reported twice *)

LEMMA OksFinite == TxTypeOK => /\ IsFiniteSet(Oks) /\ Cardinality(Oks) \in Nat
                             /\ IsFiniteSet(Successes) /\ Cardinality(Successes) \in Nat
<1> SUFFICES ASSUME TxTypeOK PROVE /\ IsFiniteSet(Oks) /\ Cardinality(Oks) \in Nat
                                   /\ IsFiniteSet(Successes) /\ Cardinality(Successes) \in Nat
  OBVIOUS
<1>1. Oks \subseteq Jobs /\ Successes \subseteq 1..Len(air) /\ Len(air) \in Nat
  BY DEF Oks, Successes, TxTypeOK
<1>2. IsFiniteSet(1..Len(air))
  BY <1>1, FS_Interval
<1>3. IsFiniteSet(Oks) /\ IsFiniteSet(Successes)
  BY <1>1, <1>2, FS_Subset, TxAssumption
<1> QED
  BY <1>3, FS_CardinalityType

LEMMA CoverKept ==
    ASSUME CoverInv, air' = air, Oks' = Oks, Spare' <= Spare, Spare' \in Nat, Spare \in Nat,
           TxTypeOK, tx_pc' = "ack" => seen' \subseteq isr'
    PROVE  CoverInv'
<1>1. Successes' = Successes
  BY DEF Successes
<1> QED
  BY <1>1, OksFinite DEF CoverInv

LEMMA CoverStep == ASSUME TxInv, [TxNext]_txvars PROVE CoverInv'
<1> USE DEF TxInv, BaseInv
<1>0. /\ Spare \in {0, 1} /\ Spare' \in {0, 1}
      /\ isr' \subseteq isr => Spare' <= Spare
  BY DEF Spare
<1>1. CASE NicDone
  <2> USE <1>1 DEF NicDone, drv
  <2>1. PICK bit \in Bits : /\ isr' = isr \cup {bit}
                           /\ air' = Append(air, [job |-> tx_page, ok |-> bit = "PTX"])
    BY DEF Bits
  <2>2. /\ Len(air) \in Nat /\ Len(air') = Len(air) + 1
        /\ \A k \in 1..Len(air) : air'[k] = air[k]
        /\ air'[Len(air) + 1].ok <=> bit = "PTX"
    <3>1. [job |-> tx_page, ok |-> bit = "PTX"].ok <=> bit = "PTX"
      OBVIOUS
    <3> QED
      BY <2>1, <3>1 DEF TxTypeOK
  <2>3. Oks' = Oks
    BY DEF Oks
  <2>4. CASE bit = "PTX"
    <3>1. Successes' = Successes \cup {Len(air) + 1} /\ Len(air) + 1 \notin Successes
      BY <2>2, <2>4 DEF Successes
    <3>2. Cardinality(Successes') = Cardinality(Successes) + 1
      BY <3>1, OksFinite, FS_AddElement
    <3> QED
      BY <1>0, <2>1, <2>3, <3>2, OksFinite DEF CoverInv
  <2>5. CASE bit # "PTX"
    <3>1. Successes' = Successes
      BY <2>2, <2>5 DEF Successes
    <3>2. Spare' = Spare
      BY <2>1, <2>5 DEF Spare
    <3> QED
      BY <2>1, <2>3, <3>1, <3>2 DEF CoverInv
  <2> QED
    BY <2>4, <2>5
<1>2. ASSUME NEW j \in Jobs, SendCall(j) PROVE CoverInv'
  <2>1. Oks' = Oks
    BY <1>2 DEF SendCall, Result, Oks, ResultInv, TxTypeOK
  <2>2. air' = air /\ isr' = isr /\ tx_pc' # "ack"
    BY <1>2 DEF SendCall
  <2> QED
    BY <1>0, <2>1, <2>2, CoverKept
<1>3. CASE SendAck
  <2> USE <1>3 DEF SendAck, Return, Result
  <2>1. job \in Jobs /\ job \notin Oks
    BY DEF TxTypeOK, ResultInv, Oks
  <2>2. Successes' = Successes
    BY DEF Successes
  <2>3. CASE "PTX" \in seen
    <3>1. Oks' = Oks \cup {job}
      BY <2>1, <2>3 DEF Oks, TxTypeOK
    <3>2. Cardinality(Oks') = Cardinality(Oks) + 1
      BY <2>1, <3>1, OksFinite, FS_AddElement
    <3>3. Spare = 1 /\ Spare' = 0
      BY <2>3 DEF CoverInv, Spare
    <3> QED
      BY <2>2, <3>2, <3>3, OksFinite DEF CoverInv
  <2>4. CASE "PTX" \notin seen
    <3>1. Oks' = Oks
      BY <2>1, <2>4 DEF Oks, TxTypeOK
    <3> QED
      BY <1>0, <3>1, CoverKept
  <2> QED
    BY <2>3, <2>4
<1>4. CASE SendTimeout
  <2>1. Oks' = Oks
    BY <1>4 DEF SendTimeout, Return, Result, Oks, TxTypeOK, ResultInv
  <2> QED
    BY <1>0, <1>4, <2>1, CoverKept DEF SendTimeout, Return
<1>5. CASE \/ SendWait \/ SendWaitSpin \/ SendDma \/ SendStart \/ SendSeen \/ SendSpin
           \/ TxPoll \/ UNCHANGED txvars
  <2>1. air' = air /\ result' = result /\ isr' = isr
    BY <1>5 DEF SendWait, SendWaitSpin, SendDma, SendStart, SendSeen, SendSpin, TxPoll,
       PollSaveCr, PollRestoreCr, txvars, drv
  <2>2. tx_pc' = "ack" => seen' \subseteq isr'
    BY <1>5 DEF SendWait, SendWaitSpin, SendDma, SendStart, SendSeen, SendSpin, TxPoll,
       PollSaveCr, PollRestoreCr, txvars, drv, CoverInv
  <2>3. Oks' = Oks
    BY <2>1 DEF Oks
  <2> QED
    BY <1>0, <2>1, <2>2, <2>3, CoverKept
<1> QED
  BY <1>1, <1>2, <1>3, <1>4, <1>5 DEF TxNext, Send

-----------------------------------------------------------------------------
(* The order on the air *)

LEMMA OrderKept ==
    ASSUME OrderInv, begun' = begun, air' = air, Running' => Running,
           tx_page' = tx_page \/ ~Running', ~txp' => ~txp
    PROVE  OrderInv'
BY DEF OrderInv, LastBegun, LastOnAir

LEMMA OrderStep == ASSUME TxInv, [TxNext]_txvars PROVE OrderInv'
<1> USE DEF TxInv, BaseInv
<1>1. CASE NicDone
  <2> USE <1>1 DEF NicDone, drv, hist
  <2>1. PICK b \in BOOLEAN : air' = Append(air, [job |-> tx_page, ok |-> b])
    OBVIOUS
  <2>2. begun # <<>> /\ tx_page = LastBegun /\ LastBegun' = LastBegun
    BY DEF OrderInv, Running, LastBegun
  <2>3. [job |-> tx_page, ok |-> b].job = LastBegun
    BY <2>2
  <2>4. /\ Len(air) \in Nat /\ Len(air') = Len(air) + 1 /\ air' # <<>>
        /\ \A k \in 1..Len(air) : air'[k] = air[k]
        /\ air'[Len(air) + 1].job = LastBegun
    <3>1. air \in Seq([job : Jobs \cup {NoJob}, ok : BOOLEAN])
      BY DEF TxTypeOK
    <3> DEFINE e == [job |-> tx_page, ok |-> b]
    <3>2. e.job = LastBegun
      BY <2>3
    <3> HIDE DEF e
    <3>3. /\ Len(Append(air, e)) = Len(air) + 1 /\ Append(air, e)[Len(air) + 1] = e
          /\ \A k \in 1..Len(air) : Append(air, e)[k] = air[k]
      BY <3>1
    <3>4. air' = Append(air, e)
      BY <2>1 DEF e
    <3> QED
      BY <3>1, <3>2, <3>3, <3>4
  <2>5. LastOnAir' = LastBegun'
    BY <2>2, <2>4 DEF LastOnAir
  <2>7. air'[1].job = begun'[1]
    <3>1. CASE air = <<>>
      <4>1. Len(air) = 0 /\ Len(begun) = 1
        BY <2>2, <3>1, EmptySeq DEF OrderInv, TxTypeOK
      <4> QED
        BY <2>4, <4>1 DEF LastBegun
    <3>2. CASE air # <<>>
      BY <2>4, <3>2, EmptySeq DEF OrderInv, TxTypeOK
    <3> QED
      BY <3>1, <3>2
  <2>8. ASSUME NEW k \in 1..(Len(air') - 1)
        PROVE  air'[k + 1].job = air'[k].job \/ Follows(begun', air'[k].job, air'[k + 1].job)
    <3>1. CASE k = Len(air)
      <4>1. air # <<>> /\ air'[k].job = LastOnAir /\ air'[k + 1].job = LastBegun
        BY <2>4, <3>1 DEF LastOnAir
      <4> QED
        BY <4>1 DEF OrderInv
    <3>2. CASE k # Len(air)
      <4>1. k \in 1..(Len(air) - 1) /\ air'[k] = air[k] /\ air'[k + 1] = air[k + 1]
        BY <2>4, <3>2
      <4> QED
        BY <4>1 DEF OrderInv
    <3> QED
      BY <3>1, <3>2
  <2> QED
    BY <2>2, <2>4, <2>5, <2>7, <2>8 DEF OrderInv, Running, LastBegun
<1>2. CASE SendStart
  <2> USE <1>2 DEF SendStart
  <2>1. ~txp /\ tx_page = job /\ job \in Jobs
    BY DEF PageInv, TxTypeOK
  <2>2. /\ Len(begun) \in Nat /\ Len(begun') = Len(begun) + 1 /\ begun' # <<>>
        /\ \A p \in 1..Len(begun) : begun'[p] = begun[p]
        /\ begun'[Len(begun) + 1] = job
    BY <2>1 DEF TxTypeOK
  <2>3. LastBegun' = job
    BY <2>2 DEF LastBegun
  <2>4. \A a, c : Follows(begun, a, c) => Follows(begun', a, c)
    BY <2>2 DEF Follows
  <2>5. CASE begun = <<>>
    <3>1. air = <<>> /\ Len(begun) = 0 /\ Len(air) = 0
      BY <2>5, EmptySeq DEF OrderInv
    <3> QED
      BY <2>1, <2>2, <2>3, <3>1 DEF OrderInv, Running
  <2>6. CASE begun # <<>>
    <3>1. air # <<>> /\ LastOnAir = LastBegun /\ Len(begun) >= 1
      BY <2>1, <2>6, EmptySeq DEF OrderInv, TxTypeOK
    <3>2. Follows(begun', LastBegun, job)
      BY <2>2, <3>1 DEF Follows, LastBegun
    <3>3. LastOnAir' = LastOnAir
      BY DEF LastOnAir
    <3>4. Follows(begun', LastOnAir', LastBegun')
      BY <2>3, <3>1, <3>2, <3>3
    <3>5. \A k \in 1..(Len(air') - 1) :
            \/ air'[k + 1].job = air'[k].job
            \/ Follows(begun', air[k].job, air[k + 1].job)
      BY <2>4 DEF OrderInv
    <3>6. air'[1].job = begun'[1]
      BY <2>2, <3>1 DEF OrderInv
    <3> QED
      BY <2>1, <2>2, <2>3, <3>1, <3>4, <3>5, <3>6 DEF OrderInv, Running
  <2> QED
    BY <2>5, <2>6
<1>3. CASE SendDma
  BY <1>3, OrderKept DEF SendDma, hist, PageInv, Running
<1>4. CASE SendAck \/ SendTimeout \/ \E j \in Jobs : SendCall(j)
  BY <1>4, OrderKept DEF SendAck, SendTimeout, SendCall, Return, Result, Running
<1>5. CASE SendWait \/ SendWaitSpin \/ SendSeen \/ SendSpin \/ UNCHANGED txvars
  BY <1>5, OrderKept DEF SendWait, SendWaitSpin, SendSeen, SendSpin, txvars, drv, hist, Running
<1>6. CASE TxPoll
  BY <1>6, PollRunning, OrderKept DEF TxPoll, PollSaveCr, PollRestoreCr, hist
<1> QED
  BY <1>1, <1>2, <1>3, <1>4, <1>5, <1>6 DEF TxNext, Send

-----------------------------------------------------------------------------
(* The theorems *)

LEMMA TxNextInv == TxInv /\ [TxNext]_txvars => TxInv'
BY BaseStep, SettledStep, CoverStep, OrderStep DEF TxInv

LEMMA TxInvariance == TxSpec => []TxInv
BY TxInitInv, TxNextInv, PTL DEF TxSpec

(***************************************************************************)
(* ne2k_send_direct for every set of frames, every loop bound and every    *)
(* interleaving with ne2k_poll_rx and the NIC, time-outs included: what a  *)
(* send said before the first time-out stays true, no success of the       *)
(* transmitter is reported twice, and the frames go out in order with no   *)
(* repetition but of the last one begun.                                   *)
(***************************************************************************)
THEOREM SendResultsExact == TxSpec => []SendsExact
<1>1. TxInv => SendsExact
  <2> SUFFICES ASSUME TxInv PROVE SendsExact
    OBVIOUS
  <2>1. SettledExact
    BY DEF TxInv, SettledInv
  <2>2. SuccessesCovered
    <3>1. Spare \in {0, 1}
      BY DEF Spare
    <3> QED
      BY <3>1, OksFinite DEF TxInv, BaseInv, CoverInv, SuccessesCovered, Oks, Successes
  <2>3. AirInOrder
    BY DEF TxInv, OrderInv, AirInOrder, LastBegun, LastOnAir
  <2> QED
    BY <2>1, <2>2, <2>3 DEF SendsExact
<1> QED
  BY <1>1, TxInvariance, PTL

(***************************************************************************)
(* The first wait loop of ne2k_send_direct protects the transmit page: no  *)
(* step changes it under a transmission, timed-out sends included.         *)
(***************************************************************************)
THEOREM TransmitPageStable == TxSpec => PageStable
<1>1. TxInv /\ [TxNext]_txvars => [txp => tx_page' = tx_page]_txvars
  BY DEF TxInv, BaseInv, PageInv, TxNext, NicDone, SendCall, Send, TxPoll, SendWait, SendWaitSpin,
     SendDma, SendStart, SendSeen, SendAck, Return, Result, SendSpin, SendTimeout, PollSaveCr,
     PollRestoreCr, txvars, drv, hist
<1> QED
  BY <1>1, TxInvariance, PTL DEF TxSpec, PageStable
=============================================================================
