----------------------------- MODULE NetifProofs ----------------------------
(***************************************************************************)
(* Proofs about the way from the network interface to the packet driver.   *)
(*                                                                         *)
(* PktInit and EthNetif, for every spin bound, every set of driver vectors *)
(* and any number of calls and frames.  DriverInv says at each program     *)
(* point of pktdrv_init what pktdrv_int_num and the subscriptions are; it  *)
(* needs that a call starts only after a failed one, which PktInit has as  *)
(* a guard and EthNetif derives from eth_pc and active (StartInv).         *)
(*                                                                         *)
(* LowMem and PmReceiver, for every place of the blocks, every base of the *)
(* client and shift of real mode, every amount of free memory and every    *)
(* frame length.  LowInv says what the boot has established: where the     *)
(* thunk is once it is armed, what the last real-mode call ran and was     *)
(* given, and that a resolved bounce buffer is the memory real mode sees.  *)
(* NameInv follows a name from the copy into that buffer to the call that  *)
(* reads it, across the interrupts in between.                             *)
(* SlotInv relates the slot, the frame pktdrv_recv is copying and the two  *)
(* histories at each of its program points.                                *)
(***************************************************************************)
EXTENDS EthNetif, PmReceiver, SequenceTheorems, TLAPS

(***************************************************************************)
(* Initialisation and the Ethernet interface                               *)
(***************************************************************************)

(* pktdrv_init before pktdrv_detect, and after it. *)
Early == {"reset", "reset_test", "probe", "detect"}
Late == {"alloc", "access", "access_arp", "mode", "getaddr", "getaddr_copy"}

DriverInv ==
    /\ init_pc \in {"idle"} \cup Early \cup Late
    /\ vector \in {0} \cup 96..127 /\ int_num \in {-1, 0, vector}
    /\ handle \in BOOLEAN
    /\ init_pc \in Early => int_num = 0
    /\ init_pc \in Late => int_num = vector /\ vector # 0
    /\ init_pc = "idle" => (int_num # 0 <=> ret = 0)
    /\ \/ init_pc \in {"access_arp", "mode", "getaddr", "getaddr_copy"}
       \/ init_pc = "idle" /\ int_num > 0
       => handle = TRUE /\ (answered = TRUE => types # {})

(* When eth_start may call pktdrv_init. *)
StartInv ==
    /\ eth_pc \in {"idle", "pktdrv", "dhcp", "pump", "input", "aborted"}
    /\ active \in BOOLEAN /\ poll_hook \in BOOLEAN /\ initialised \in BOOLEAN
    /\ init_pc # "idle" => eth_pc = "pktdrv"
    /\ eth_pc = "pktdrv" => active = FALSE /\ initialised = TRUE
    /\ eth_pc \in {"dhcp", "pump", "input"} => active = TRUE
    /\ eth_pc = "idle" /\ active = FALSE => ret # 0

LwipInv ==
    /\ ended \in {"no", "reset"} /\ (ended = "no" <=> eth_pc # "aborted")
    /\ inits \in Nat
    /\ ended = "no" => inits <= 1
    /\ netif_list = {} => inits = 0 /\ ended = "no"
    /\ netif_list # {} => "lo" \in netif_list
    /\ initialised = TRUE => netif_list # {}
    /\ active = TRUE => poll_hook = TRUE /\ initialised = TRUE /\ (int_num # 0 \/ sim)

PumpInv ==
    /\ pbufs \in [held : Int, given : Int]
    /\ pbufs.held = IF eth_pc = "input" THEN 1 ELSE 0

EthIInv == DriverInv /\ StartInv /\ LwipInv /\ PumpInv

-----------------------------------------------------------------------------
(* pktdrv_init *)

LEMMA InitDriver == DriverInit => DriverInv
<1> SUFFICES ASSUME DriverInit PROVE DriverInv
  OBVIOUS
<1>1. /\ init_pc = "idle" /\ int_num = 0 /\ ret = 1 /\ handle = FALSE
      /\ vector \in {0} \cup 96..127
  BY InitAssumption DEF DriverInit
<1>2. init_pc \notin Early /\ init_pc \notin Late
  BY <1>1 DEF Early, Late
<1>3. handle \in BOOLEAN
  BY <1>1
<1>4. int_num # 0 <=> ret = 0
  BY <1>1
<1>5. ~(int_num > 0)
  BY <1>1
<1>6. init_pc \notin {"access_arp", "mode", "getaddr", "getaddr_copy"}
  BY <1>1
<1> QED BY <1>1, <1>2, <1>3, <1>4, <1>5, <1>6 DEF DriverInv

LEMMA CallDriver == DriverInv /\ ret # 0 /\ Call => DriverInv'
BY DEF DriverInv, Early, Late, Call, crynwr, fixed, CallVector

\* A driver takes nothing away, and one that answers has registered a type.
LEMMA AccessKeeps ==
    ASSUME NEW type, NEW o \in AccessOutcomes(type)
    PROVE  /\ types \subseteq o.reg /\ o.ok \in BOOLEAN
           /\ o.answered = TRUE => o.reg # {}
<1> DEFINE refused == [ok |-> FALSE, reg |-> types, answered |-> FALSE]
           nobody == [ok |-> TRUE, reg |-> types, answered |-> FALSE]
           done(t) == [ok |-> TRUE, reg |-> types \cup {t}, answered |-> TRUE]
<1>1. o \in {refused, nobody, done("any"), done(type)}
  BY DEF AccessOutcomes
<1>2. /\ refused.ok = FALSE /\ refused.reg = types /\ refused.answered = FALSE
      /\ nobody.ok = TRUE /\ nobody.reg = types /\ nobody.answered = FALSE
  OBVIOUS
<1>3. \A t : /\ done(t).ok = TRUE /\ done(t).reg = types \cup {t}
             /\ t \in done(t).reg /\ types \subseteq done(t).reg
  OBVIOUS
<1> HIDE DEF refused, nobody, done
<1>4. CASE o = refused \/ o = nobody
  <2>1. o.reg = types /\ o.ok \in BOOLEAN /\ o.answered = FALSE
    BY <1>2, <1>4
  <2> QED BY <2>1
<1>5. CASE o = done("any") \/ o = done(type)
  <2>1. PICK t : o = done(t)
    BY <1>5
  <2>2. t \in o.reg /\ types \subseteq o.reg /\ o.ok = TRUE
    BY <1>3, <2>1
  <2> QED BY <2>2
<1> QED BY <1>1, <1>4, <1>5

LEMMA WorkDriver == DriverInv /\ Work => DriverInv'
<1> SUFFICES ASSUME DriverInv, Work PROVE DriverInv'
  OBVIOUS
<1> USE DEF DriverInv, Early, Late, fixed, crynwr, CallVector
<1>1. CASE ResetPoll \/ ResetTest \/ Ne2kProbe
  BY <1>1 DEF ResetPoll, ResetTest, Ne2kProbe, Return, ne2kVars
<1>2. CASE Detect
  BY <1>2 DEF Detect, Return
<1>3. CASE Alloc
  BY <1>3 DEF Alloc
<1>4. CASE AccessIp
  <2>1. PICK o \in AccessOutcomes("ip") :
           /\ types' = o.reg /\ answered' = o.answered
           /\ handle' = (handle \/ o.ok)
           /\ IF o.ok THEN init_pc' = "access_arp" /\ UNCHANGED <<int_num, ret>>
              ELSE int_num' = 0 /\ Return(-2)
    BY <1>4 DEF AccessIp
  <2>2. init_pc = "access" /\ vector' = vector /\ thunk' = thunk
    BY <1>4 DEF AccessIp
  <2>3. o.ok \in BOOLEAN /\ (o.answered = TRUE => o.reg # {})
    BY AccessKeeps
  <2>4. CASE o.ok
    BY <2>1, <2>2, <2>3, <2>4
  <2>5. CASE ~o.ok
    BY <2>1, <2>2, <2>3, <2>5 DEF Return
  <2> QED BY <2>4, <2>5
<1>5. CASE AccessArp
  <2>1. PICK o \in AccessOutcomes("arp") : types' = o.reg
    BY <1>5 DEF AccessArp
  <2>2. types \subseteq o.reg
    BY AccessKeeps
  <2> QED BY <1>5, <2>1, <2>2 DEF AccessArp
<1>6. CASE SetMode
  BY <1>6 DEF SetMode
<1>7. CASE GetAddr
  BY <1>7 DEF GetAddr, Return
<1>8. CASE GetAddrCopy
  BY <1>8 DEF GetAddrCopy, Return
<1>9. CASE FrameArrives
  BY <1>9 DEF FrameArrives
<1> QED BY <1>1, <1>2, <1>3, <1>4, <1>5, <1>6, <1>7, <1>8, <1>9 DEF Work

LEMMA StutterDriver == DriverInv /\ UNCHANGED initvars => DriverInv'
BY DEF DriverInv, initvars, fixed, crynwr, CallVector

LEMMA DriverActive == DriverInv => ActiveIffSucceeded
BY DEF DriverInv, ActiveIffSucceeded

-----------------------------------------------------------------------------
(* The interface on top of it *)

LEMMA EthInitIInv == EthInit => EthIInv
<1> SUFFICES ASSUME EthInit PROVE EthIInv
  OBVIOUS
<1>1. DriverInv
  BY InitDriver DEF EthInit
<1>2. StartInv
  <2>1. /\ eth_pc = "idle" /\ init_pc = "idle" /\ ret = 1
        /\ active = FALSE /\ poll_hook = FALSE /\ initialised = FALSE
    BY DEF EthInit, DriverInit
  <2>2. active \in BOOLEAN /\ poll_hook \in BOOLEAN /\ initialised \in BOOLEAN
    BY <2>1
  <2>3. ret # 0
    BY <2>1
  <2> QED BY <2>1, <2>2, <2>3 DEF StartInv
<1>3. LwipInv
  BY DEF EthInit, LwipInv
<1>4. PumpInv
  BY DEF EthInit, PumpInv
<1> QED BY <1>1, <1>2, <1>3, <1>4 DEF EthIInv

\* pktdrv_init runs inside eth_start, and a frame that arrives between two
\* calls changes neither its result nor pktdrv_int_num.
LEMMA WorkKeeps == EthIInv /\ Work /\ UNCHANGED ethVars => EthIInv'
<1> SUFFICES ASSUME EthIInv, Work, UNCHANGED ethVars PROVE EthIInv'
  OBVIOUS
<1>a. UNCHANGED <<sim, eth_pc, use_dhcp, initialised, netif_list, inits, ended,
                  active, poll_hook, dhcp, addr, rc, frames, pbufs>>
  BY DEF ethVars, lwipVars, netifVars, pumpVars
<1>1. DriverInv'
  BY WorkDriver DEF EthIInv
<1>2. CASE init_pc # "idle"
  <2>1. eth_pc = "pktdrv" /\ active = FALSE
    BY <1>2 DEF EthIInv, StartInv
  <2> QED BY <1>1, <1>a, <2>1 DEF EthIInv, StartInv, LwipInv, PumpInv
<1>3. CASE init_pc = "idle"
  <2>1. UNCHANGED <<init_pc, int_num, ret>>
    BY <1>3 DEF Work, ResetPoll, ResetTest, Ne2kProbe, Detect, Alloc, AccessIp, AccessArp,
                SetMode, GetAddr, GetAddrCopy, FrameArrives
  <2> QED BY <1>1, <1>a, <2>1 DEF EthIInv, StartInv, LwipInv, PumpInv
<1> QED BY <1>2, <1>3

\* lwip_uc386dos_init never makes the lwip_init that trips the assertion.
LEMMA EthStartKeeps == ASSUME EthIInv, NEW d \in BOOLEAN, EthStart(d) PROVE EthIInv'
<1>1. ret # 0
  BY DEF EthIInv, StartInv, EthStart
<1>2. ~(NeedsLwipInit /\ LwipInitTrips)
  BY DEF NeedsLwipInit, LwipInitTrips
<1>3. Call /\ eth_pc' = "pktdrv" /\ ended' = ended
  BY <1>2 DEF EthStart
<1>4. DriverInv'
  BY <1>1, <1>3, CallDriver DEF EthIInv
<1>5. StartInv' /\ PumpInv'
  BY <1>3 DEF EthIInv, StartInv, PumpInv, EthStart, netifVars, pumpVars, Call
<1>6. LwipInv'
  BY <1>3 DEF EthIInv, StartInv, LwipInv, EthStart, NeedsLwipInit, LwipInit, netifVars, Call
<1> QED BY <1>4, <1>5, <1>6 DEF EthIInv

\* lwip.reset() aborts when there are interfaces.
LEMMA ResetKeeps == EthIInv /\ LwipReset => EthIInv'
<1> SUFFICES ASSUME EthIInv, LwipReset PROVE EthIInv'
  OBVIOUS
<1>1. DriverInv' /\ UNCHANGED <<init_pc, ret, int_num>>
  BY StutterDriver DEF EthIInv, LwipReset, initvars
<1>2. CASE LwipInitTrips
  <2>1. ended' = "reset" /\ eth_pc' = "aborted" /\ poll_hook' = poll_hook
    BY <1>2 DEF LwipReset, Abort
  <2>2. StartInv' /\ PumpInv'
    BY <1>1, <2>1 DEF EthIInv, LwipReset, StartInv, PumpInv, pumpVars
  <2>3. LwipInv'
    BY <1>1, <2>1 DEF EthIInv, LwipReset, LwipInit, LwipInv
  <2> QED BY <1>1, <2>2, <2>3 DEF EthIInv
<1>3. CASE ~LwipInitTrips
  <2>1. poll_hook' = TRUE /\ ended' = ended /\ eth_pc' = eth_pc
    BY <1>3 DEF LwipReset
  <2>2. StartInv' /\ PumpInv'
    BY <1>1, <2>1 DEF EthIInv, LwipReset, StartInv, PumpInv, pumpVars
  <2>3. LwipInv'
    BY <1>1, <1>3, <2>1 DEF EthIInv, LwipReset, LwipInit, LwipInitTrips, LwipInv
  <2> QED BY <1>1, <2>2, <2>3 DEF EthIInv
<1> QED BY <1>2, <1>3

LEMMA EthNextIInv == EthIInv /\ [EthNext]_allVars => EthIInv'
<1> SUFFICES ASSUME EthIInv, [EthNext]_allVars PROVE EthIInv'
  OBVIOUS
<1> USE DEF EthIInv, lwipVars, netifVars, pumpVars
<1>1. CASE Work /\ UNCHANGED ethVars
  BY <1>1, WorkKeeps
<1>2. CASE \E d \in BOOLEAN : EthStart(d)
  BY <1>2, EthStartKeeps
<1>a. ASSUME UNCHANGED initvars
      PROVE  DriverInv' /\ UNCHANGED <<init_pc, ret, int_num>>
  BY <1>a, StutterDriver DEF initvars
<1>3. CASE LwipReset
  BY <1>3, ResetKeeps
<1>4. CASE \E d \in BOOLEAN : EthStartAgain(d)
  BY <1>4, <1>a DEF EthStartAgain, Finish, StartInv, LwipInv, PumpInv
<1>5. CASE EthNoDriver
  BY <1>5, <1>a DEF EthNoDriver, Finish, StartInv, LwipInv, PumpInv
<1>6. CASE EthUp
  <2>1. int_num # 0 \/ sim
    BY <1>6 DEF EthUp, DriverInv
  <2> QED BY <1>6, <1>a, <2>1 DEF EthUp, StartInv, LwipInv, PumpInv
<1>7. CASE EthDhcp
  BY <1>7, <1>a DEF EthDhcp, Finish, StartInv, LwipInv, PumpInv
<1>8. CASE EthSetAddr
  BY <1>8, <1>a DEF EthSetAddr, StartInv, LwipInv, PumpInv
<1>9. CASE PumpFrame
  BY <1>9, <1>a DEF PumpFrame, StartInv, LwipInv, PumpInv
<1>10. CASE PumpInput
  BY <1>10, <1>a DEF PumpInput, StartInv, LwipInv, PumpInv
<1>11. CASE PumpEnd
  BY <1>11, <1>a DEF PumpEnd, StartInv, LwipInv, PumpInv
<1>12. CASE LwipFrees
  BY <1>12, <1>a DEF LwipFrees, StartInv, LwipInv, PumpInv
<1>13. CASE UNCHANGED allVars
  BY <1>13, <1>a DEF allVars, ethVars, StartInv, LwipInv, PumpInv
<1> QED BY <1>1, <1>2, <1>3, <1>4, <1>5, <1>6, <1>7, <1>8, <1>9, <1>10, <1>11,
           <1>12, <1>13 DEF EthNext

-----------------------------------------------------------------------------
(* The results *)

\* pktdrv_init called until it succeeds: it leaves the driver active exactly
\* when it succeeded, and then subscribed, after any failures.
THEOREM RetriesStartClean == DriverSpec => []ActiveIffSucceeded
<1>1. DriverInit => DriverInv
  BY InitDriver
<1>2. DriverInv /\ [DriverNext]_initvars => DriverInv'
  BY CallDriver, WorkDriver, StutterDriver DEF DriverNext
<1> QED BY <1>1, <1>2, DriverActive, PTL DEF DriverSpec

\* The same when uc386dos_eth_start calls it, which does not look at the last
\* result: it calls only while the interface is not active.
THEOREM ActiveMeansSucceeded == EthSpec => []ActiveIffSucceeded
BY EthInitIInv, EthNextIInv, DriverActive, PTL DEF EthSpec, EthIInv

\* eth_start never makes the second lwip_init, an active interface has a driver
\* and the poll hook, and the pump holds no pbuf when it is back
\* (uc386dos_eth_start, lwip_uc386dos_init, uc386dos_eth_pump_rx).
THEOREM InterfaceIsSound == EthSpec => []InterfaceSound
<1>1. EthIInv => InterfaceSound
  BY DEF EthIInv, StartInv, LwipInv, PumpInv, InterfaceSound
<1> QED BY <1>1, EthInitIInv, EthNextIInv, PTL DEF EthSpec

(***************************************************************************)
(* Conventional memory and the protected-mode receiver                     *)
(***************************************************************************)

(* What a paragraph can hold: text of the program or the number of a frame. *)
Contents == {"junk", "probe", "CD21CB", "poison", "path", "answer", "nothing"} \cup Nat
Memory == [1..MemTop -> Contents]
Frames == [id : Contents, len : Nat]

EnvOK == env \in [base : Bases, map : Maps, dpmi : {"right", "fails", "hole"}, ds : BOOLEAN]

BlocksOK ==
    /\ free \in Int /\ stack_paras \in Nat /\ bounce_linear \in Int
    /\ stage \in {"main", "resolve", "stack", "probe", "run"}
    /\ bounce_seg \in {0, BounceSeg} /\ i21_seg \in {0, I21Seg}

(* The thunk is armed at the paragraph real mode is told to call. *)
ThunkInv ==
    /\ thunk_linear # 0 => /\ i21_seg = I21Seg /\ stage = "run"
                           /\ thunk_linear \in {DpmiLinear(I21Seg), I21Seg}
    /\ thunk_linear # 0 /\ env.base = 0 /\ Found => thunk_linear = Real(I21Seg)

CallInv ==
    /\ rm # NoCall => stage = "run" /\ rm.sp = StackTop
    /\ rm # NoCall /\ env.base = 0 /\ Found => rm.code = "CD21CB"

(* dos_bounce_resolve vouches only for the memory real mode sees. *)
Vouched == resolved /\ Found /\ (env.ds \/ env.base = 0)
BounceInv ==
    /\ resolved => bounce_seg = BounceSeg /\ stage \notin {"main", "resolve"}
    /\ Vouched => Flat(bounce_linear) = Real(BounceSeg)
    /\ bounce_seg # 0 /\ env.base = 0 /\ env.map = 0 /\ env.dpmi # "hole" =>
           bounce_linear = BounceSeg

LowInv == mem \in Memory /\ EnvOK /\ BlocksOK /\ ThunkInv /\ CallInv /\ BounceInv

(* Between the copy of a name into a bounce buffer and the call the name    *)
(* stands there, or a frame does; and so it was at the last call.           *)
NameInv ==
    /\ asked \in {"none", "path"} /\ overwritten \in BOOLEAN
    /\ asked # "none" => stage = "run"
    /\ Vouched /\ env.base = 0 =>
         /\ rm.overwritten = TRUE \/ rm.name = rm.asked
         /\ asked # "none" => overwritten = TRUE \/ Get(mem, Real(BounceSeg)) = asked

SlotType ==
    /\ rx \in {"off", "callback", "flat", "posted"}
    /\ pc \in {"idle", "copied", "cleared"}
    /\ slot \in [len : Nat, pending : BOOLEAN, buf : Contents]
    /\ out \in Frames /\ arrived \in Nat /\ esdi \in {0, StackSeg}
    /\ accepted \in Seq(Frames) /\ delivered \in Seq(Frames)

(* Nothing arrives before the receiver is attached, after the boot. *)
QuietInv ==
    /\ rx # "off" => stage = "run"
    /\ rx \in {"off", "flat"} => /\ pc = "idle" /\ slot.pending = FALSE
                                 /\ accepted = << >> /\ delivered = << >>

(* What pktdrv_recv has given back is a prefix of what the slot took, and   *)
(* at most one frame, held in f, is missing from it.                        *)
Behind(f, a, d) ==
    /\ \A i \in 1..Len(d) : i <= Len(a) /\ d[i] = a[i]
    /\ \/ f.len = 0 /\ Len(a) = Len(d)
       \/ f.len \in 1..MaxFrame /\ Len(a) = Len(d) + 1 /\ f = a[Len(a)]

Held(s) == [id |-> s.buf, len |-> IF s.pending THEN s.len ELSE 0]

SlotInv ==
    Measured =>
        /\ pc = "idle" => Behind(Held(slot), accepted, delivered)
        /\ pc # "idle" => Behind(out, accepted, delivered)
        /\ pc = "copied" => slot.pending = TRUE

IInv == LowInv /\ NameInv /\ SlotType /\ QuietInv /\ SlotInv

-----------------------------------------------------------------------------
(* Memory and addresses *)

\* The blocks of the boot are different paragraphs that real mode can reach.
LEMMA Places ==
    /\ MemTop \in Nat /\ BounceSeg \in 1..MemTop /\ I21Seg \in 1..MemTop
    /\ I21Seg # BounceSeg /\ BounceSeg < RealLimit /\ RealLimit \in Nat /\ StackSeg \in Nat
    /\ \A m \in Maps : m \in Nat /\ BounceSeg + m \in 1..MemTop /\ I21Seg + m \in 1..MemTop
    /\ \A b \in Bases : b \in Nat
<1> DEFINE blocks == <<BounceSeg, PktSeg, I21Seg, StackSeg>>
<1>1. /\ blocks[1] = BounceSeg /\ blocks[3] = I21Seg /\ blocks[4] = StackSeg
  OBVIOUS
<1>2. \A i \in 1..4 : /\ blocks[i] \in 1..MemTop
                      /\ \A m \in Maps : blocks[i] + m <= MemTop
                      /\ \A j \in 1..4 : blocks[i] = blocks[j] => i = j
  BY LowMemAssumption
<1> HIDE DEF blocks
<1>3. 1 \in 1..4 /\ 3 \in 1..4 /\ 4 \in 1..4 /\ 1 # 3
  OBVIOUS
<1>4. /\ BounceSeg \in 1..MemTop /\ I21Seg \in 1..MemTop /\ I21Seg # BounceSeg
      /\ StackSeg \in 1..MemTop
      /\ \A m \in Maps : BounceSeg + m <= MemTop /\ I21Seg + m <= MemTop
  BY <1>1, <1>2, <1>3
<1>5. /\ MemTop \in Nat /\ Maps \subseteq Nat /\ Bases \subseteq Nat
      /\ BounceSeg < RealLimit /\ RealLimit \in Nat
  BY LowMemAssumption, PmAssumption
<1> QED BY <1>4, <1>5

\* What Put changes: the paragraph it names, if there is one, and no other.
LEMMA PutGet ==
    ASSUME NEW m \in Memory, NEW x \in Int, NEW c \in Contents
    PROVE  /\ Put(m, x, c) \in Memory /\ Get(m, x) \in Contents
           /\ x \in 1..MemTop => Get(Put(m, x, c), x) = c
           /\ x \notin 1..MemTop => Put(m, x, c) = m /\ Get(m, x) = "nothing"
           /\ \A y \in Int : y # x => Get(Put(m, x, c), y) = Get(m, y)
BY DEF Put, Get, Memory, Contents

\* What DPMI answers for a block, and where it lies when the answer or the
\* segment number is right.
LEMMA Answers ==
    ASSUME EnvOK, NEW seg \in {BounceSeg, I21Seg}
    PROVE  /\ env.base \in Nat /\ env.map \in Nat /\ env.base \in Bases /\ env.map \in Maps
           /\ env.ds \in BOOLEAN /\ seg \in 1..MemTop
           /\ Real(seg) \in 1..MemTop
           /\ DpmiLinear(seg) \in Nat
           /\ DpmiLinear(seg) \in {Real(seg), 0, MemTop + 1}
           /\ Found => \/ DpmiLinear(seg) = Real(seg)
                       \/ DpmiLinear(seg) \in {0, MemTop + 1} /\ env.map = 0 /\ Real(seg) = seg
           /\ env.dpmi # "hole" => DpmiLinear(seg) # MemTop + 1
<1>1. /\ env.base \in Nat /\ env.map \in Nat /\ env.base \in Bases /\ env.map \in Maps
      /\ env.ds \in BOOLEAN /\ env.dpmi \in {"right", "fails", "hole"}
  BY Places DEF EnvOK
<1>2. seg \in 1..MemTop /\ Real(seg) \in 1..MemTop /\ MemTop \in Nat
  BY <1>1, Places DEF Real
<1>3. /\ env.dpmi = "right" => DpmiLinear(seg) = Real(seg)
      /\ env.dpmi = "fails" => DpmiLinear(seg) = 0
      /\ env.dpmi = "hole" => DpmiLinear(seg) = MemTop + 1
  BY DEF DpmiLinear, Hole
<1>4. env.map = 0 => Real(seg) = seg
  BY <1>2 DEF Real
<1> QED BY <1>1, <1>2, <1>3, <1>4 DEF Found

\* dos_int21_thunk_init leaves a memory, and an address only for a segment it
\* has; at a client base of 0 that is the paragraph real mode will call.
LEMMA Armed ==
    ASSUME EnvOK, BlocksOK, ThunkInv, NEW m \in Memory
    PROVE  /\ dos_int21_thunk_init(m).mem \in Memory
           /\ dos_int21_thunk_init(m).linear \in Nat
           /\ dos_int21_thunk_init(m).linear # 0 =>
                /\ i21_seg = I21Seg
                /\ dos_int21_thunk_init(m).linear \in {DpmiLinear(I21Seg), I21Seg}
                /\ env.base = 0 /\ Found => dos_int21_thunk_init(m).linear = Real(I21Seg)
<1> DEFINE a == dos_int21_thunk_init(m)
           c1 == DpmiLinear(i21_seg)
           m1 == IF c1 = 0 THEN m ELSE Put(m, Flat(c1), "CD21CB")
           ok1 == c1 # 0 /\ Get(m1, Flat(c1)) = "CD21CB"
           m2 == Put(m1, Flat(i21_seg), "CD21CB")
           ok2 == Get(m2, Flat(i21_seg)) = "CD21CB"
<1>a. I21Seg \in {BounceSeg, I21Seg} /\ "CD21CB" \in Contents /\ I21Seg \in 1..MemTop
      /\ MemTop \in Nat
  BY Places DEF Contents
<1>b. /\ env.base \in Nat /\ Real(I21Seg) \in 1..MemTop /\ DpmiLinear(I21Seg) \in Nat
      /\ Found => \/ DpmiLinear(I21Seg) = Real(I21Seg)
                  \/ /\ DpmiLinear(I21Seg) \in {0, MemTop + 1}
                     /\ Real(I21Seg) = I21Seg
  BY <1>a, Answers
<1>1. CASE thunk_linear # 0
  <2>1. a = [mem |-> m, linear |-> thunk_linear]
    BY <1>1 DEF dos_int21_thunk_init
  <2> HIDE DEF a
  <2>2. thunk_linear \in Nat
    BY <1>1, <1>a, <1>b DEF ThunkInv
  <2> USE DEF a
  <2> QED BY <1>1, <2>1, <2>2 DEF ThunkInv
<1>2. CASE thunk_linear = 0 /\ i21_seg = 0
  <2>1. a = [mem |-> m, linear |-> 0]
    BY <1>2 DEF dos_int21_thunk_init
  <2> QED BY <2>1
<1>3. CASE thunk_linear = 0 /\ i21_seg # 0
  <2>1. a = [mem |-> IF ok1 \/ c1 = i21_seg THEN m1 ELSE m2,
             linear |-> IF ok1 THEN c1 ELSE IF c1 # i21_seg /\ ok2 THEN i21_seg ELSE 0]
    BY <1>3 DEF dos_int21_thunk_init
  <2>2. i21_seg = I21Seg /\ c1 = DpmiLinear(I21Seg) /\ c1 \in Nat
    BY <1>3, <1>b DEF BlocksOK
  <2>3. Flat(c1) = c1 + env.base /\ Flat(i21_seg) = I21Seg + env.base
        /\ Flat(c1) \in Int /\ Flat(i21_seg) \in Int
    BY <2>2, <1>a, <1>b DEF Flat
  <2> HIDE DEF c1
  <2>4. m1 \in Memory /\ (c1 # 0 /\ Flat(c1) \in 1..MemTop => ok1)
        /\ (Flat(c1) \notin 1..MemTop => ~ok1)
    <3>1. Put(m, Flat(c1), "CD21CB") \in Memory
      BY <1>a, <2>3, PutGet
    <3>2. CASE Flat(c1) \in 1..MemTop
      BY <1>a, <2>3, <3>1, <3>2, PutGet
    <3>3. CASE Flat(c1) \notin 1..MemTop
      <4>1. m1 = m /\ Get(m, Flat(c1)) = "nothing"
        BY <1>a, <2>3, <3>3, PutGet
      <4> QED BY <4>1, <3>3
    <3> QED BY <3>2, <3>3
  <2> HIDE DEF m1, ok1
  <2>5. m2 \in Memory /\ (Flat(i21_seg) \in 1..MemTop => ok2)
    BY <1>a, <2>3, <2>4, PutGet
  <2> HIDE DEF m2, ok2
  <2>6. a.mem \in Memory /\ a.linear \in Nat /\ a.linear \in {0, DpmiLinear(I21Seg), I21Seg}
    BY <2>1, <2>2, <2>4, <2>5, <1>a
  <2>7. ASSUME env.base = 0, Found
        PROVE  a.linear = Real(I21Seg)
    <3>1. Flat(c1) = c1 /\ Flat(i21_seg) = I21Seg /\ i21_seg = I21Seg /\ I21Seg # MemTop + 1
          /\ I21Seg # 0 /\ MemTop + 1 \notin 1..MemTop
      BY <2>7, <2>2, <2>3, <1>a
    <3>2. CASE c1 = Real(I21Seg)
      <4>1. ok1
        BY <3>1, <3>2, <2>4, <1>b
      <4> QED BY <2>1, <3>2, <4>1
    <3>3. CASE c1 \in {0, MemTop + 1} /\ Real(I21Seg) = I21Seg
      <4>1. ~ok1 /\ ok2 /\ c1 # i21_seg
        BY <3>1, <3>3, <2>4, <2>5, <1>a
      <4> QED BY <2>1, <2>2, <3>3, <4>1
    <3> QED BY <3>2, <3>3, <2>7, <2>2, <1>b
  <2> QED BY <2>2, <2>6, <2>7
<1> QED BY <1>1, <1>2, <1>3

-----------------------------------------------------------------------------
(* The boot and the INT 21h gate *)

(* What stays the same after the blocks are allocated. *)
BootDone == UNCHANGED <<env, free, segs, bounce_linear, resolved, stack_paras>>

\* What dos_int21_thunk_init answers.
ArmedAt(linear) ==
    linear # 0 => /\ i21_seg = I21Seg
                  /\ linear \in {DpmiLinear(I21Seg), I21Seg}
                  /\ env.base = 0 /\ Found => linear = Real(I21Seg)

\* A call through the gate leaves the thunk where real mode calls it, and
\* runs it, because it is repaired between the arming and the call.
LEMMA GateKeeps ==
    ASSUME LowInv, NEW armed \in Memory, NEW linear \in Nat, ArmedAt(linear),
           NEW name, NEW over, Gate(armed, linear, name, over),
           thunk_linear' = linear, BootDone, stage' = "run"
    PROVE  mem' \in Memory /\ ThunkInv' /\ CallInv'
<1> DEFINE m == Repair(armed, linear)
<1>a. "CD21CB" \in Contents /\ "answer" \in Contents /\ I21Seg \in {BounceSeg, I21Seg}
  BY DEF Contents
<1>b. /\ env.base \in Nat /\ env.map \in Nat /\ Real(I21Seg) \in 1..MemTop
      /\ I21Seg \in 1..MemTop /\ MemTop \in Nat
  BY <1>a, Answers, Places DEF LowInv
<1>c. Real(bounce_seg) \in Int
  BY <1>b, Places DEF LowInv, BlocksOK, Real
<1>e. IF linear = 0
        THEN mem' = armed /\ rm' = NoCall
        ELSE /\ rm' = [code |-> Get(m, Real(i21_seg)), name |-> Get(m, Real(bounce_seg)),
                       asked |-> name, overwritten |-> over, sp |-> StackTop]
             /\ mem' = Put(m, Real(bounce_seg), "answer")
  BY DEF Gate
<1>f. linear # 0 => /\ i21_seg = I21Seg
                    /\ linear \in {DpmiLinear(I21Seg), I21Seg}
                    /\ env.base = 0 /\ Found => linear = Real(I21Seg)
  BY DEF ArmedAt
<1>g. Flat(linear) \in Int /\ Flat(linear) = linear + env.base
  BY <1>b DEF Flat
<1>h. m \in Memory /\ (Flat(linear) \in 1..MemTop => Get(m, Flat(linear)) = "CD21CB")
  BY <1>a, <1>g, PutGet DEF Repair
<1> HIDE DEF m
<1>1. mem' \in Memory
  <2>1. CASE linear = 0
    BY <1>e, <2>1
  <2>2. CASE linear # 0
    <3>1. mem' = Put(m, Real(bounce_seg), "answer")
      BY <1>e, <2>2
    <3>2. m \in Memory /\ Real(bounce_seg) \in Int /\ "answer" \in Contents
      BY <1>a, <1>c, <1>h
    <3>3. Put(m, Real(bounce_seg), "answer") \in Memory
      BY <3>2, PutGet
    <3> QED
      BY <3>1, <3>3
  <2> QED
    BY <2>1, <2>2
<1>2. /\ env' = env /\ i21_seg' = i21_seg /\ stack_paras' = stack_paras
      /\ (Found' <=> Found) /\ StackTop' = StackTop
      /\ Real(I21Seg)' = Real(I21Seg) /\ DpmiLinear(I21Seg)' = DpmiLinear(I21Seg)
  BY DEF BootDone, segs, Found, StackTop, Real, DpmiLinear
<1>3. ThunkInv'
  BY <1>2, <1>f DEF ThunkInv
<1>4. CallInv'
  <2>1. CASE linear = 0
    BY <2>1, <1>e DEF CallInv
  <2>2. CASE linear # 0
    <3>1. rm'.sp = StackTop /\ rm'.code = Get(m, Real(i21_seg))
      BY <2>2, <1>e
    <3>2. ASSUME env.base = 0, Found
          PROVE  rm'.code = "CD21CB"
      <4>1. Flat(linear) = Real(I21Seg) /\ i21_seg = I21Seg
        BY <3>2, <2>2, <1>b, <1>f, <1>g
      <4> QED BY <4>1, <3>1, <1>h, <1>b
    <3> QED BY <3>1, <3>2, <1>2 DEF CallInv
  <2> QED BY <2>1, <2>2
<1> QED BY <1>1, <1>3, <1>4

\* Nothing that leaves the boot's variables and the last call alone can
\* disturb LowInv, whatever it writes to memory: the thunk is repaired.
LEMMA MemoryIsFree ==
    ASSUME LowInv, mem' \in Memory, BootDone,
           UNCHANGED <<stage, thunk_linear, rm>>
    PROVE  LowInv'
<1>1. /\ env' = env /\ free' = free /\ bounce_seg' = bounce_seg /\ i21_seg' = i21_seg
      /\ bounce_linear' = bounce_linear /\ resolved' = resolved
      /\ stack_paras' = stack_paras /\ stage' = stage /\ thunk_linear' = thunk_linear
      /\ rm' = rm
  BY DEF BootDone, segs
<1>2. EnvOK' /\ BlocksOK' /\ ThunkInv'
  BY <1>1 DEF LowInv, EnvOK, BlocksOK, ThunkInv, DpmiLinear, Real, Found
<1>3. CallInv'
  BY <1>1 DEF LowInv, CallInv, StackTop, Found
<1>4. BounceInv'
  BY <1>1 DEF LowInv, BounceInv, Vouched, Flat, Real, Found
<1> QED BY <1>2, <1>3, <1>4 DEF LowInv

\* Before the program runs there is no thunk and there was no call.
LEMMA BeforeRun ==
    ASSUME LowInv, stage # "run"
    PROVE  thunk_linear = 0 /\ rm = NoCall
BY DEF LowInv, ThunkInv, CallInv

LEMMA InitLow == LowInit => LowInv
<1> SUFFICES ASSUME LowInit PROVE LowInv
  OBVIOUS
<1>1. mem \in Memory
  BY DEF LowInit, Memory, Contents
<1>2. EnvOK /\ BlocksOK
  BY LowMemAssumption DEF LowInit, EnvOK, BlocksOK
<1>3. ThunkInv /\ CallInv /\ BounceInv
  BY DEF LowInit, ThunkInv, CallInv, BounceInv, Vouched
<1> QED BY <1>1, <1>2, <1>3 DEF LowInv


LEMMA PreallocateKeeps == LowInv /\ Preallocate => LowInv'
<1> SUFFICES ASSUME LowInv, Preallocate PROVE LowInv'
  OBVIOUS
<1> DEFINE linear == DpmiLinear(BounceSeg)
<1>a. stage = "main" /\ stage' = "resolve" /\ thunk_linear = 0 /\ rm = NoCall /\ ~resolved
  BY BeforeRun DEF Preallocate, LowInv, BounceInv
<1>b. env' = env /\ stack_paras' = stack_paras /\ thunk_linear' = thunk_linear /\ rm' = rm
      /\ mem' = mem /\ resolved' = resolved
  BY DEF Preallocate
<1>c. /\ free' \in Int /\ bounce_seg' \in {0, BounceSeg} /\ i21_seg' \in {0, I21Seg}
      /\ bounce_linear' \in {0, linear, BounceSeg}
      /\ bounce_seg' # 0 /\ linear # 0 => bounce_linear' = linear
      /\ bounce_seg' # 0 /\ linear = 0 => bounce_linear' = BounceSeg
  BY DEF Preallocate, LowInv, BlocksOK
<1>d. /\ linear \in Int /\ BounceSeg \in Int /\ linear \in {Real(BounceSeg), 0, MemTop + 1}
      /\ env.dpmi # "hole" => linear # MemTop + 1
  BY Answers, Places DEF LowInv
<1> HIDE DEF linear
<1>1. mem' \in Memory /\ EnvOK'
  BY <1>b DEF LowInv, EnvOK
<1>2. BlocksOK'
  BY <1>a, <1>b, <1>c, <1>d DEF LowInv, BlocksOK
<1>3. ThunkInv' /\ CallInv'
  BY <1>a, <1>b DEF ThunkInv, CallInv
<1>4. BounceInv'
  <2>1. env.map = 0 => Real(BounceSeg) = BounceSeg
    BY <1>d DEF Real
  <2> QED BY <1>a, <1>b, <1>c, <1>d, <2>1 DEF BounceInv, Vouched
<1> QED BY <1>1, <1>2, <1>3, <1>4 DEF LowInv

\* The probe is what makes resolution right: an address without memory does
\* not read back, and the rest are the paragraph itself.
LEMMA ResolveKeeps == LowInv /\ dos_bounce_resolve => LowInv'
<1> SUFFICES ASSUME LowInv, dos_bounce_resolve PROVE LowInv'
  OBVIOUS
<1> DEFINE linear == DpmiLinear(bounce_seg)
           chosen == IF linear # 0 THEN linear ELSE bounce_seg
           below == dos_client_base # 0 /\ chosen < dos_client_base
           p == Rebased(chosen)
           tried == Put(mem, Flat(p), "probe")
           ok == bounce_seg # 0 /\ ~below /\ Get(tried, Flat(p)) = "probe"
<1>a. stage = "resolve" /\ stage' = "stack" /\ thunk_linear = 0 /\ rm = NoCall /\ ~resolved
  BY BeforeRun DEF dos_bounce_resolve, LowInv, BounceInv
<1>b. env' = env /\ stack_paras' = stack_paras /\ thunk_linear' = thunk_linear /\ rm' = rm
      /\ free' = free /\ bounce_seg' = bounce_seg /\ i21_seg' = i21_seg
  BY DEF dos_bounce_resolve, segs
<1>c. /\ mem' = IF bounce_seg # 0 /\ ~below THEN tried ELSE mem
      /\ resolved' = ok
      /\ bounce_linear' = IF ok THEN p ELSE bounce_linear
  BY DEF dos_bounce_resolve
<1>d. /\ env.base \in Nat /\ env.map \in Nat /\ BounceSeg \in 1..MemTop /\ MemTop \in Nat
      /\ BounceSeg # 0 /\ Real(BounceSeg) \in 1..MemTop /\ "probe" \in Contents
  BY Answers, Places DEF LowInv, Contents
<1>e. dos_client_base \in Nat /\ (env.ds \/ env.base = 0 => dos_client_base = env.base)
  BY <1>d DEF dos_client_base
<1>1. CASE bounce_seg = 0
  <2>1. mem' = mem /\ resolved' = FALSE /\ bounce_linear' = bounce_linear
    BY <1>1, <1>c
  <2> QED BY <1>a, <1>b, <1>1, <2>1 DEF LowInv, EnvOK, BlocksOK, ThunkInv, CallInv, BounceInv, Vouched
<1>2. CASE bounce_seg # 0
  <2>1. bounce_seg = BounceSeg
    BY <1>2 DEF LowInv, BlocksOK
  <2>2. /\ linear \in Nat /\ linear \in {Real(BounceSeg), 0, MemTop + 1}
        /\ Found => \/ linear = Real(BounceSeg)
                    \/ linear \in {0, MemTop + 1} /\ Real(BounceSeg) = BounceSeg
        /\ env.dpmi # "hole" => linear # MemTop + 1
    BY <2>1, Answers DEF LowInv
  <2> HIDE DEF linear
  <2>3. /\ chosen \in Nat
        /\ Found => chosen \in {Real(BounceSeg), MemTop + 1}
        /\ env.dpmi # "hole" /\ env.map = 0 => chosen = BounceSeg
    <3>1. env.map = 0 => Real(BounceSeg) = BounceSeg
      BY <1>d DEF Real
    <3> QED BY <1>d, <2>1, <2>2, <3>1
  <2> HIDE DEF chosen
  <2>4. /\ p = chosen - dos_client_base /\ p \in Int
        /\ Flat(p) = chosen - dos_client_base + env.base /\ Flat(p) \in Int
    BY <1>d, <1>e, <2>3 DEF Rebased, Flat
  <2> HIDE DEF p
  <2>5. /\ tried \in Memory
        /\ Flat(p) \notin 1..MemTop => Get(tried, Flat(p)) = "nothing"
    <3>1. tried \in Memory
      BY <1>d, <2>4, PutGet DEF LowInv
    <3>2. ASSUME Flat(p) \notin 1..MemTop PROVE Get(tried, Flat(p)) = "nothing"
      <4>1. tried = mem /\ Get(mem, Flat(p)) = "nothing"
        BY <1>d, <2>4, <3>2, PutGet DEF LowInv
      <4> QED BY <4>1
    <3> QED BY <3>1, <3>2
  <2> HIDE DEF tried
  <2>6. ok => Flat(p) \in 1..MemTop
    BY <2>5
  <2> HIDE DEF ok, below
  <2>7. mem' \in Memory /\ EnvOK'
    BY <1>b, <1>c, <2>5 DEF LowInv, EnvOK
  <2>8. BlocksOK'
    BY <1>a, <1>b, <1>c, <2>4 DEF LowInv, BlocksOK
  <2>9. ThunkInv' /\ CallInv'
    BY <1>a, <1>b DEF ThunkInv, CallInv
  <2>10. ASSUME ok, Found, env.ds \/ env.base = 0
         PROVE  Flat(bounce_linear)' = Real(BounceSeg)'
    <3>1. Flat(p) = chosen
      BY <1>d, <1>e, <2>3, <2>4, <2>10
    <3>2. chosen = Real(BounceSeg)
      BY <1>d, <2>3, <2>6, <3>1, <2>10
    <3> QED BY <1>b, <1>c, <2>10, <3>1, <3>2 DEF Flat, Real
  <2>11. ASSUME env.base = 0, env.map = 0, env.dpmi # "hole"
         PROVE  bounce_linear' = BounceSeg
    <3>1. p = BounceSeg
      BY <1>d, <1>e, <2>3, <2>4, <2>11
    <3>2. bounce_linear = BounceSeg
      BY <1>2, <2>11 DEF LowInv, BounceInv
    <3> QED BY <1>c, <3>1, <3>2
  <2>12. BounceInv'
    <3>1. Found' <=> Found
      BY <1>b DEF Found
    <3> QED BY <1>a, <1>b, <1>c, <2>1, <2>10, <2>11, <3>1 DEF BounceInv, Vouched
  <2> QED BY <2>7, <2>8, <2>9, <2>12 DEF LowInv
<1> QED BY <1>1, <1>2

\* The largest granted size is the first that fits.
LEMMA LeastOfFour ==
    ASSUME NEW S, S \subseteq 1..4, S # {}
    PROVE  \E i \in S : \A j \in S : i <= j
<1>1. CASE 1 \in S
  BY <1>1
<1>2. CASE 1 \notin S /\ 2 \in S
  BY <1>2
<1>3. CASE 1 \notin S /\ 2 \notin S /\ 3 \in S
  BY <1>3
<1>4. CASE 1 \notin S /\ 2 \notin S /\ 3 \notin S
  <2>1. \A j \in 1..4 : j \in {1, 2, 3, 4}
    OBVIOUS
  <2>2. \A j \in S : j = 4
    BY <1>4, <2>1
  <2>3. PICK j \in S : TRUE
    OBVIOUS
  <2>4. 4 \in S
    BY <2>2, <2>3
  <2> QED BY <2>2, <2>4
<1> QED BY <1>1, <1>2, <1>3, <1>4

LEMMA StackKeeps == LowInv /\ StackAlloc => LowInv'
<1> SUFFICES ASSUME LowInv, StackAlloc PROVE LowInv'
  OBVIOUS
<1> DEFINE fit == {i \in DOMAIN Paras : Paras[i] <= free}
           got == IF fit = {} THEN 0
                  ELSE Paras[CHOOSE i \in fit : \A j \in fit : i <= j]
<1>a. stage = "stack" /\ stage' = "probe" /\ thunk_linear = 0 /\ rm = NoCall
  BY BeforeRun DEF StackAlloc
<1>b. /\ env' = env /\ thunk_linear' = thunk_linear /\ rm' = rm /\ mem' = mem
      /\ bounce_seg' = bounce_seg /\ i21_seg' = i21_seg /\ bounce_linear' = bounce_linear
      /\ resolved' = resolved /\ stack_paras' = got /\ free' = free - got
  BY DEF StackAlloc, segs
<1>c. got \in Nat
  <2>1. DOMAIN Paras = 1..4 /\ \A i \in 1..4 : Paras[i] \in Nat
    BY DEF Paras
  <2>2. fit \subseteq 1..4
    BY <2>1
  <2>3. fit # {} => \E i \in fit : \A j \in fit : i <= j
    BY <2>2, LeastOfFour
  <2> HIDE DEF fit
  <2>4. fit # {} => (CHOOSE i \in fit : \A j \in fit : i <= j) \in fit
    BY <2>3
  <2> QED BY <2>1, <2>2, <2>4
<1> HIDE DEF got
<1>1. BlocksOK'
  BY <1>a, <1>b, <1>c DEF LowInv, BlocksOK
<1>2. mem' \in Memory /\ EnvOK' /\ ThunkInv' /\ CallInv'
  BY <1>a, <1>b DEF LowInv, EnvOK, ThunkInv, CallInv
<1>3. BounceInv'
  BY <1>a, <1>b DEF LowInv, BounceInv, Vouched, Flat, Real, Found
<1> QED BY <1>1, <1>2, <1>3 DEF LowInv

\* A change of stage to "run" that leaves the blocks alone keeps what LowInv
\* says of them.
LEMMA BlocksStay ==
    ASSUME LowInv, BootDone, stage' = "run"
    PROVE  EnvOK' /\ BlocksOK' /\ BounceInv'
<1>1. /\ env' = env /\ free' = free /\ bounce_seg' = bounce_seg /\ i21_seg' = i21_seg
      /\ bounce_linear' = bounce_linear /\ resolved' = resolved
      /\ stack_paras' = stack_paras
  BY DEF BootDone, segs
<1>2. EnvOK' /\ BlocksOK'
  BY <1>1 DEF LowInv, EnvOK, BlocksOK
<1>3. BounceInv'
  BY <1>1 DEF LowInv, BounceInv, Vouched, Flat, Real, Found
<1> QED BY <1>2, <1>3

LEMMA ArmedIsArmed ==
    ASSUME LowInv, NEW m \in Memory
    PROVE  /\ dos_int21_thunk_init(m).mem \in Memory
           /\ dos_int21_thunk_init(m).linear \in Nat
           /\ ArmedAt(dos_int21_thunk_init(m).linear)
BY Armed DEF LowInv, ArmedAt

\* A name or poison put in the bounce buffer.
LEMMA Written ==
    ASSUME LowInv, NEW m \in Memory, NEW name \in {"path", "poison"}
    PROVE  Put(m, Flat(bounce_linear), name) \in Memory
<1>1. name \in Contents /\ Flat(bounce_linear) \in Int
  BY Answers DEF LowInv, BlocksOK, Contents, Flat
<1> QED BY <1>1, PutGet

LEMMA ProbeKeeps == LowInv /\ Probe => LowInv'
<1> SUFFICES ASSUME LowInv, Probe PROVE LowInv'
  OBVIOUS
<1> DEFINE a == dos_int21_thunk_init(mem)
           put == Put(a.mem, Flat(bounce_linear), "poison")
<1>a. BootDone /\ stage' = "run" /\ stage = "probe" /\ thunk_linear' = a.linear
  BY DEF Probe, BootDone
<1>b. a.mem \in Memory /\ a.linear \in Nat /\ ArmedAt(a.linear)
  BY ArmedIsArmed DEF LowInv
<1>c. \/ Gate(put, a.linear, "poison", FALSE)
      \/ mem' = a.mem /\ rm' = rm
  BY DEF Probe
<1> HIDE DEF a
<1>1. EnvOK' /\ BlocksOK' /\ BounceInv'
  BY <1>a, BlocksStay
<1>2. CASE Gate(put, a.linear, "poison", FALSE)
  <2>1. put \in Memory
    BY <1>b, Written
  <2> HIDE DEF put
  <2>2. mem' \in Memory /\ ThunkInv' /\ CallInv'
    BY <1>a, <1>b, <1>2, <2>1, GateKeeps
  <2> QED BY <1>1, <2>2 DEF LowInv
<1>3. CASE mem' = a.mem /\ rm' = rm
  <2>1. a.linear # 0 => /\ i21_seg = I21Seg
                        /\ a.linear \in {DpmiLinear(I21Seg), I21Seg}
                        /\ env.base = 0 /\ Found => a.linear = Real(I21Seg)
    BY <1>b DEF ArmedAt
  <2>2. rm' = NoCall
    BY <1>a, <1>3, BeforeRun
  <2>3. env' = env /\ i21_seg' = i21_seg
    BY <1>a DEF BootDone, segs
  <2>4. ThunkInv'
    BY <1>a, <1>3, <2>1, <2>3 DEF ThunkInv, DpmiLinear, Real, Found
  <2>5. CallInv'
    BY <2>2 DEF CallInv
  <2> QED BY <1>1, <1>3, <1>b, <2>4, <2>5 DEF LowInv
<1> QED BY <1>c, <1>2, <1>3

LEMMA OpenKeeps == LowInv /\ dos_int21_open => LowInv'
<1> SUFFICES ASSUME LowInv, dos_int21_open PROVE LowInv'
  OBVIOUS
<1>1. mem' \in Memory
  BY Written DEF dos_int21_open, LowInv
<1>2. BootDone /\ UNCHANGED <<stage, thunk_linear, rm>>
  BY DEF dos_int21_open, BootDone
<1> QED BY <1>1, <1>2, MemoryIsFree

LEMMA CallKeeps == LowInv /\ stage = "run" /\ dos_int21_call => LowInv'
<1> SUFFICES ASSUME LowInv, stage = "run", dos_int21_call PROVE LowInv'
  OBVIOUS
<1> DEFINE a == dos_int21_thunk_init(mem)
<1>a. /\ BootDone /\ stage' = "run" /\ thunk_linear' = a.linear
      /\ Gate(a.mem, a.linear, asked, overwritten)
  BY DEF dos_int21_call, BootDone
<1>b. a.mem \in Memory /\ a.linear \in Nat /\ ArmedAt(a.linear)
  BY ArmedIsArmed DEF LowInv
<1> HIDE DEF a
<1>1. EnvOK' /\ BlocksOK' /\ BounceInv'
  BY <1>a, BlocksStay
<1>2. mem' \in Memory /\ ThunkInv' /\ CallInv'
  BY <1>a, <1>b, GateKeeps
<1> QED BY <1>1, <1>2 DEF LowInv

LEMMA ClobberKeeps == LowInv /\ Clobber => LowInv'
<1> SUFFICES ASSUME LowInv, Clobber PROVE LowInv'
  OBVIOUS
<1>1. Real(i21_seg) \in Int /\ "junk" \in Contents
  BY Answers, Places DEF LowInv, BlocksOK, Real, Contents
<1>2. mem' \in Memory
  BY <1>1, PutGet DEF Clobber, LowInv
<1>3. BootDone /\ UNCHANGED <<stage, thunk_linear, rm>>
  BY DEF Clobber, BootDone
<1> QED BY <1>2, <1>3, MemoryIsFree

LEMMA LowKeeps == LowInv /\ NameInv /\ LowNext => LowInv'
<1>1. dos_int21_call /\ NameInv => stage = "run"
  BY DEF dos_int21_call, NameInv
<1> QED BY <1>1, PreallocateKeeps, ResolveKeeps, StackKeeps, ProbeKeeps, OpenKeeps,
           CallKeeps, ClobberKeeps DEF LowNext, Boot

-----------------------------------------------------------------------------
(* The name in the bounce buffer *)

\* Neither candidate address of the thunk is the bounce buffer, unless it
\* is one that dos_int21_thunk_init does not come to.
LEMMA Apart ==
    ASSUME EnvOK, Found, env.base = 0
    PROVE  /\ DpmiLinear(I21Seg) # 0 => Flat(DpmiLinear(I21Seg)) # Real(BounceSeg)
           /\ Real(I21Seg) # Real(BounceSeg)
           /\ Flat(I21Seg) = Real(BounceSeg) => DpmiLinear(I21Seg) = Real(I21Seg)
<1> DEFINE c == DpmiLinear(I21Seg)
<1>1. /\ env.base \in Nat /\ env.map \in Nat /\ env.base \in Bases /\ env.map \in Maps
      /\ Real(BounceSeg) \in 1..MemTop
      /\ c \in Nat
      /\ \/ c = Real(I21Seg)
         \/ c \in {0, MemTop + 1} /\ env.map = 0 /\ Real(I21Seg) = I21Seg
  BY Answers
<1>2. MemTop \in Nat /\ I21Seg \in Nat /\ BounceSeg \in Nat /\ I21Seg # BounceSeg
  BY Places
<1> HIDE DEF c
<1> QED BY <1>1, <1>2 DEF Flat, Real, c

LEMMA ArmedApart ==
    ASSUME EnvOK, BlocksOK, ThunkInv, Found, env.base = 0, NEW m \in Memory
    PROVE  /\ Get(dos_int21_thunk_init(m).mem, Real(BounceSeg)) = Get(m, Real(BounceSeg))
           /\ dos_int21_thunk_init(m).linear # 0 =>
                 Flat(dos_int21_thunk_init(m).linear) # Real(BounceSeg)
<1> DEFINE a == dos_int21_thunk_init(m)
           B == Real(BounceSeg)
           c1 == DpmiLinear(i21_seg)
           m1 == IF c1 = 0 THEN m ELSE Put(m, Flat(c1), "CD21CB")
           ok1 == c1 # 0 /\ Get(m1, Flat(c1)) = "CD21CB"
           m2 == Put(m1, Flat(i21_seg), "CD21CB")
           ok2 == Get(m2, Flat(i21_seg)) = "CD21CB"
<1>a. /\ "CD21CB" \in Contents /\ B \in Int /\ env.base \in Nat
      /\ I21Seg \in 1..MemTop /\ Real(I21Seg) \in 1..MemTop /\ DpmiLinear(I21Seg) \in Nat
  BY Answers DEF Contents
<1>b. /\ DpmiLinear(I21Seg) # 0 => Flat(DpmiLinear(I21Seg)) # B
      /\ Real(I21Seg) # B
      /\ Flat(I21Seg) = B => DpmiLinear(I21Seg) = Real(I21Seg)
  BY Apart
<1>1. a.linear # 0 => Flat(a.linear) # B
  <2>1. a.linear # 0 => /\ a.linear \in {DpmiLinear(I21Seg), I21Seg}
                        /\ env.base = 0 => a.linear = Real(I21Seg)
    BY Armed
  <2>2. env.base = 0 => Flat(Real(I21Seg)) = Real(I21Seg)
    BY <1>a DEF Flat
  <2> HIDE DEF a, B
  <2> QED BY <1>b, <2>1, <2>2
<1>2. Get(a.mem, B) = Get(m, B)
  <2>1. CASE thunk_linear # 0
    BY <2>1 DEF dos_int21_thunk_init
  <2>2. CASE thunk_linear = 0 /\ i21_seg = 0
    BY <2>2 DEF dos_int21_thunk_init
  <2>3. CASE thunk_linear = 0 /\ i21_seg # 0
    <3>1. a = [mem |-> IF ok1 \/ c1 = i21_seg THEN m1 ELSE m2,
               linear |-> IF ok1 THEN c1 ELSE IF c1 # i21_seg /\ ok2 THEN i21_seg ELSE 0]
      BY <2>3 DEF dos_int21_thunk_init
    <3>2. i21_seg = I21Seg /\ c1 = DpmiLinear(I21Seg) /\ c1 \in Nat
      BY <2>3, <1>a DEF BlocksOK
    <3>3. Flat(c1) \in Int /\ Flat(i21_seg) \in Int /\ Flat(c1) = c1 + env.base
      BY <3>2, <1>a DEF Flat
    <3> HIDE DEF a, B, c1
    <3>4. m1 \in Memory /\ Get(m1, B) = Get(m, B)
          /\ (c1 # 0 /\ Flat(c1) \in 1..MemTop => ok1)
      BY <1>a, <1>b, <3>2, <3>3, PutGet
    <3> HIDE DEF m1, ok1
    <3>5. CASE Flat(I21Seg) # B
      <4>1. Get(m2, B) = Get(m1, B)
        BY <1>a, <3>2, <3>3, <3>4, <3>5, PutGet
      <4> HIDE DEF m2
      <4> QED BY <3>1, <3>4, <4>1
    <3>6. CASE Flat(I21Seg) = B
      <4>1. ok1
        BY <1>a, <1>b, <3>2, <3>3, <3>4, <3>6
      <4> QED BY <3>1, <3>4, <4>1
    <3> QED BY <3>5, <3>6
  <2> QED BY <2>1, <2>2, <2>3
<1> QED BY <1>1, <1>2

\* A call reads what stands in the buffer: repairing the thunk does not
\* touch it.
LEMMA GateReads ==
    ASSUME LowInv, Vouched, env.base = 0, NEW armed \in Memory, NEW linear \in Nat,
           linear # 0 => Flat(linear) # Real(BounceSeg),
           NEW name, NEW over, Gate(armed, linear, name, over)
    PROVE  \/ rm' = NoCall
           \/ /\ rm'.name = Get(armed, Real(BounceSeg))
              /\ rm'.asked = name /\ rm'.overwritten = over
<1> DEFINE m == Repair(armed, linear)
           B == Real(BounceSeg)
<1>1. IF linear = 0
        THEN mem' = armed /\ rm' = NoCall
        ELSE rm' = [code |-> Get(m, Real(i21_seg)), name |-> Get(m, Real(bounce_seg)),
                    asked |-> name, overwritten |-> over, sp |-> StackTop]
  BY DEF Gate
<1>2. bounce_seg = BounceSeg
  BY DEF LowInv, BounceInv, Vouched
<1>3. "CD21CB" \in Contents /\ B \in Int /\ Flat(linear) \in Int
  BY Answers DEF LowInv, Contents, Flat
<1> HIDE DEF B
<1>4. linear # 0 => Get(m, B) = Get(armed, B)
  BY <1>3, PutGet DEF Repair, B
<1> HIDE DEF m
<1> QED BY <1>1, <1>2, <1>4 DEF B

\* Arming the thunk does not touch it either.
LEMMA ArmingSpares ==
    ASSUME LowInv, Vouched, env.base = 0, NEW m \in Memory
    PROVE  /\ Get(dos_int21_thunk_init(m).mem, Real(BounceSeg)) = Get(m, Real(BounceSeg))
           /\ dos_int21_thunk_init(m).linear # 0 =>
                 Flat(dos_int21_thunk_init(m).linear) # Real(BounceSeg)
BY ArmedApart DEF LowInv, Vouched

\* A name written to a buffer that was vouched for stands where DOS reads it.
LEMMA NameIsWritten ==
    ASSUME LowInv, Vouched, NEW m \in Memory, NEW name \in {"path", "poison"}
    PROVE  Get(Put(m, Flat(bounce_linear), name), Real(BounceSeg)) = name
<1>1. Flat(bounce_linear) = Real(BounceSeg) /\ name \in Contents
  BY DEF LowInv, BounceInv, Contents
<1>2. Real(BounceSeg) \in 1..MemTop /\ Real(BounceSeg) \in Int
  BY Answers, Places DEF LowInv
<1> HIDE DEF Real, Flat
<1> QED BY <1>1, <1>2, PutGet

\* What Vouched and Real are made of.
LEMMA SameMap ==
    ASSUME BootDone
    PROVE  /\ Vouched' <=> Vouched
           /\ env' = env /\ Real(BounceSeg)' = Real(BounceSeg)
BY DEF BootDone, Vouched, Found, Real, segs

\* A step that leaves the buffer and the last call alone.
LEMMA NameStays ==
    ASSUME NameInv, BootDone, rm' = rm, asked' = asked, stage' = stage,
           overwritten' \in BOOLEAN, overwritten = TRUE => overwritten' = TRUE,
           Vouched /\ env.base = 0 /\ asked # "none" =>
             overwritten' = TRUE \/ Get(mem', Real(BounceSeg)) = Get(mem, Real(BounceSeg))
    PROVE  NameInv'
<1>1. /\ Vouched' <=> Vouched
      /\ env' = env /\ Real(BounceSeg)' = Real(BounceSeg)
  BY SameMap
<1>2. Get(mem, Real(BounceSeg))' = Get(mem', Real(BounceSeg))
  BY <1>1 DEF Get
<1> HIDE DEF Vouched, Real, Get, BootDone
<1> QED BY <1>1, <1>2 DEF NameInv

LEMMA LowKeepsName ==
    ASSUME LowInv, NameInv, LowNext
    PROVE  NameInv'
<1>1. CASE Preallocate \/ dos_bounce_resolve \/ StackAlloc
  <2>1. rm' = NoCall /\ asked' = asked /\ asked = "none" /\ overwritten' = overwritten
    BY <1>1, BeforeRun DEF Preallocate, dos_bounce_resolve, StackAlloc, NameInv, naming
  <2> QED BY <2>1 DEF NameInv, NoCall
<1>2. CASE Probe
  <2> DEFINE a == dos_int21_thunk_init(mem)
             put == Put(a.mem, Flat(bounce_linear), "poison")
  <2>1. /\ BootDone /\ asked' = "none" /\ overwritten' = overwritten
        /\ overwritten \in BOOLEAN /\ rm = NoCall
    BY <1>2, BeforeRun DEF Probe, BootDone, naming, NameInv
  <2>2. a.mem \in Memory /\ a.linear \in Nat
    BY ArmedIsArmed DEF LowInv
  <2>3. put \in Memory
    BY <2>2, Written
  <2>4. Gate(put, a.linear, "poison", FALSE) \/ rm' = rm
    BY <1>2 DEF Probe
  <2>5. ASSUME Vouched, env.base = 0
        PROVE  rm'.name = rm'.asked
    <3>1. Get(put, Real(BounceSeg)) = "poison"
      BY <2>2, <2>5, NameIsWritten
    <3>2. a.linear # 0 => Flat(a.linear) # Real(BounceSeg)
      BY <2>5, ArmingSpares DEF LowInv
    <3> HIDE DEF a, put
    <3>3. CASE Gate(put, a.linear, "poison", FALSE)
      <4>1. \/ rm' = NoCall
            \/ /\ rm'.name = Get(put, Real(BounceSeg))
               /\ rm'.asked = "poison" /\ rm'.overwritten = FALSE
        BY <2>2, <2>3, <2>5, <3>2, <3>3, GateReads
      <4> QED BY <3>1, <4>1 DEF NoCall
    <3>4. CASE rm' = rm
      BY <2>1, <3>4 DEF NoCall
    <3> QED BY <2>4, <3>3, <3>4
  <2>6. (Vouched' <=> Vouched) /\ env' = env
    BY <2>1, SameMap
  <2> HIDE DEF a, put
  <2> QED BY <2>1, <2>5, <2>6 DEF NameInv
<1>3. CASE dos_int21_open
  <2>1. /\ BootDone /\ asked' = "path" /\ overwritten' = FALSE /\ rm' = rm
        /\ stage' = "run" /\ mem' = Put(mem, Flat(bounce_linear), "path")
    BY <1>3 DEF dos_int21_open, BootDone
  <2>2. ASSUME Vouched PROVE Get(mem', Real(BounceSeg)) = "path"
    BY <2>1, <2>2, NameIsWritten DEF LowInv
  <2>3. (Vouched' <=> Vouched) /\ env' = env /\ Real(BounceSeg)' = Real(BounceSeg)
    BY <2>1, SameMap
  <2>4. Get(mem, Real(BounceSeg))' = Get(mem', Real(BounceSeg))
    BY <2>3 DEF Get
  <2> HIDE DEF Vouched, Real, Get
  <2> QED BY <2>1, <2>2, <2>3, <2>4 DEF NameInv
<1>4. CASE dos_int21_call
  <2> DEFINE a == dos_int21_thunk_init(mem)
             B == Real(BounceSeg)
  <2>1. /\ BootDone /\ asked' = "none" /\ overwritten' = overwritten
        /\ overwritten \in BOOLEAN /\ asked # "none"
        /\ Gate(a.mem, a.linear, asked, overwritten)
    BY <1>4 DEF dos_int21_call, BootDone, NameInv
  <2>2. a.mem \in Memory /\ a.linear \in Nat
    BY ArmedIsArmed DEF LowInv
  <2>3. ASSUME Vouched, env.base = 0
        PROVE  rm'.overwritten = TRUE \/ rm'.name = rm'.asked
    <3>1. Get(a.mem, B) = Get(mem, B) /\ (a.linear # 0 => Flat(a.linear) # B)
      BY <2>3, ArmingSpares DEF LowInv
    <3>2. overwritten = TRUE \/ Get(mem, B) = asked
      BY <2>1, <2>3 DEF NameInv
    <3> HIDE DEF a
    <3>3. \/ rm' = NoCall
          \/ rm'.name = Get(a.mem, B) /\ rm'.asked = asked /\ rm'.overwritten = overwritten
      BY <2>1, <2>2, <2>3, <3>1, GateReads
    <3> HIDE DEF B
    <3> QED BY <3>1, <3>2, <3>3 DEF NoCall
  <2>4. (Vouched' <=> Vouched) /\ env' = env
    BY <2>1, SameMap
  <2> HIDE DEF a, B
  <2> QED BY <2>1, <2>3, <2>4 DEF NameInv
<1>5. CASE Clobber
  <2>1. /\ BootDone /\ UNCHANGED <<rm, asked, stage, overwritten>> /\ i21_seg # 0
        /\ mem' = Put(mem, Real(i21_seg), "junk")
    BY <1>5 DEF Clobber, BootDone, naming
  <2>2. /\ Real(i21_seg) \in Int /\ Real(BounceSeg) \in Int
        /\ Real(i21_seg) # Real(BounceSeg) /\ "junk" \in Contents /\ mem \in Memory
    BY <2>1, Answers, Places DEF LowInv, BlocksOK, Real, Contents
  <2>3. Get(mem', Real(BounceSeg)) = Get(mem, Real(BounceSeg))
    <3> HIDE DEF Real
    <3> QED BY <2>1, <2>2, PutGet
  <2>4. overwritten' \in BOOLEAN
    BY <2>1 DEF NameInv
  <2> QED BY <2>1, <2>3, <2>4, NameStays
<1> QED BY <1>1, <1>2, <1>3, <1>4, <1>5 DEF LowNext, Boot

-----------------------------------------------------------------------------
(* The slot *)

\* A frame enters when none is held; it leaves when it is returned.
LEMMA Enters ==
    ASSUME NEW a \in Seq(Frames), NEW d \in Seq(Frames), NEW f, NEW g \in Frames,
           Behind(f, a, d), f.len = 0, g.len \in 1..MaxFrame
    PROVE  Behind(g, Append(a, g), d)
<1>1. /\ Len(Append(a, g)) = Len(a) + 1 /\ Append(a, g)[Len(a) + 1] = g
      /\ \A i \in 1..Len(a) : Append(a, g)[i] = a[i]
  BY AppendProperties
<1>2. Len(a) \in Nat /\ Len(d) \in Nat
  OBVIOUS
<1>3. Len(a) = Len(d) /\ \A i \in 1..Len(d) : i <= Len(a) /\ d[i] = a[i]
  BY <1>2 DEF Behind
<1> QED BY <1>1, <1>2, <1>3 DEF Behind

LEMMA Leaves ==
    ASSUME NEW a \in Seq(Frames), NEW d \in Seq(Frames), NEW f \in Frames, NEW z,
           Behind(f, a, d), f.len # 0, z.len = 0
    PROVE  Behind(z, a, Append(d, f))
<1>1. /\ Len(Append(d, f)) = Len(d) + 1 /\ Append(d, f)[Len(d) + 1] = f
      /\ \A i \in 1..Len(d) : Append(d, f)[i] = d[i]
  BY AppendProperties
<1>2. Len(a) \in Nat /\ Len(d) \in Nat
  OBVIOUS
<1>3. /\ Len(a) = Len(d) + 1 /\ f = a[Len(d) + 1]
      /\ \A i \in 1..Len(d) : i <= Len(a) /\ d[i] = a[i]
  BY <1>2 DEF Behind
<1>4. \A i \in 1..(Len(d) + 1) : i \in 1..Len(d) \/ i = Len(d) + 1
  BY <1>2
<1>5. \A i \in 1..(Len(d) + 1) : i <= Len(a) /\ Append(d, f)[i] = a[i]
  BY <1>1, <1>2, <1>3, <1>4
<1> QED BY <1>1, <1>2, <1>3, <1>5 DEF Behind

LEMMA NothingHeld ==
    ASSUME NEW a, NEW d, NEW f, NEW z, Behind(f, a, d), f.len = 0, z.len = 0
    PROVE  Behind(z, a, d)
BY DEF Behind

\* Where the receiver is measured, the segment it hands out is the bounce
\* buffer's, and what the driver writes there is what it copies.
LEMMA HandsOutTheBounce ==
    ASSUME LowInv, Measured, rx = "callback", NEW id \in Nat
    PROVE  LET es == BufferHandedOut % RealLimit
           IN  /\ es # 0 /\ bounce_seg # 0
               /\ Get(Put(mem, Real(es), id), Flat(bounce_linear)) = id
<1>1. /\ env.base = 0 /\ env.map = 0 /\ env.dpmi # "hole" /\ bounce_seg # 0
  BY DEF Measured
<1>2. bounce_linear = BounceSeg
  BY <1>1 DEF LowInv, BounceInv
<1>3. BounceSeg \in 1..MemTop /\ BounceSeg < RealLimit /\ RealLimit \in Nat /\ MemTop \in Nat
  BY Places
<1>4. BufferHandedOut % RealLimit = BounceSeg
  BY <1>1, <1>2, <1>3 DEF BufferHandedOut
<1>5. Real(BounceSeg) = BounceSeg /\ Flat(bounce_linear) = BounceSeg
  BY <1>1, <1>2, <1>3 DEF Real, Flat
<1>6. Get(Put(mem, BounceSeg, id), BounceSeg) = id
  <2>1. id \in Contents /\ BounceSeg \in Int /\ mem \in Memory
    BY <1>3 DEF LowInv, Contents
  <2> QED BY <1>3, <2>1, PutGet
<1> QED BY <1>1, <1>3, <1>4, <1>5, <1>6

\* The slot after both phases: marked full, with the bytes phase 1 copied.
LEMMA Phase1Type ==
    ASSUME LowInv, NEW s \in [len : Nat, pending : BOOLEAN, buf : Contents],
           NEW m \in Memory
    PROVE  /\ Phase1(s, m) \in [len : Nat, pending : BOOLEAN, buf : Contents]
           /\ Phase1(s, m).pending = TRUE /\ Phase1(s, m).len = s.len
           /\ bounce_seg # 0 /\ s.len <= MaxFrame =>
                 Phase1(s, m).buf = Get(m, Flat(bounce_linear))
<1>1. Flat(bounce_linear) \in Int
  BY Answers DEF LowInv, BlocksOK, Flat
<1>2. Get(m, Flat(bounce_linear)) \in Contents
  BY <1>1, PutGet DEF Contents
<1> QED BY <1>2 DEF Phase1


\* Everything but the gate leaves the last call alone; only an interrupt
\* writes to memory, and where it hits the name it is remembered.
LEMMA InterruptKeepsName ==
    ASSUME IInv, NEW len \in Lens, Interrupt(len)
    PROVE  NameInv'
<1> DEFINE id == arrived + 1
           es == IF Phase0Refuses(len) THEN esdi ELSE BufferHandedOut % RealLimit
           B == Real(BounceSeg)
<1>1. /\ mem' = IF es = 0 THEN mem ELSE Put(mem, Real(es), id)
      /\ overwritten' = (overwritten \/ (~NoCallUnderWay /\ es = bounce_seg))
      /\ BootDone /\ UNCHANGED <<rm, asked, stage>>
  BY DEF Interrupt, BootDone
<1>2. es \in Int
  <2>1. esdi \in Int
    BY Places DEF IInv, SlotType
  <2>2. RealLimit \in Nat /\ RealLimit > 0 /\ BufferHandedOut \in Int
    BY PmAssumption DEF IInv, LowInv, BlocksOK, BufferHandedOut
  <2> QED BY <2>1, <2>2
<1> HIDE DEF es
<1>3. /\ id \in Contents /\ mem \in Memory /\ env.map \in Nat /\ BounceSeg \in Int
      /\ overwritten \in BOOLEAN /\ NameInv
  BY Answers, Places DEF IInv, LowInv, SlotType, NameInv, Contents
<1> HIDE DEF id
<1>4. overwritten' \in BOOLEAN /\ (overwritten = TRUE => overwritten' = TRUE)
  BY <1>1, <1>3
<1>5. ASSUME Vouched, asked # "none"
      PROVE  overwritten' = TRUE \/ Get(mem', B) = Get(mem, B)
  <2>1. bounce_seg = BounceSeg
    BY <1>5 DEF IInv, LowInv, BounceInv, Vouched
  <2>2. CASE es = bounce_seg
    BY <1>1, <1>3, <1>5, <2>2 DEF NoCallUnderWay
  <2>3. CASE es # bounce_seg /\ es # 0
    <3>1. Real(es) \in Int /\ B \in Int /\ Real(es) # B
      BY <1>2, <1>3, <2>1, <2>3 DEF Real
    <3> HIDE DEF B
    <3> QED BY <1>1, <1>3, <2>3, <3>1, PutGet
  <2>4. CASE es = 0
    BY <1>1, <2>4
  <2> QED BY <2>2, <2>3, <2>4
<1> QED BY <1>1, <1>3, <1>4, <1>5, NameStays

LEMMA OthersKeepName ==
    ASSUME NameInv, BootDone, UNCHANGED <<rm, mem, naming, stage>>
    PROVE  NameInv'
<1>1. overwritten \in BOOLEAN /\ UNCHANGED <<asked, overwritten>>
  BY DEF NameInv, naming
<1> QED BY <1>1, NameStays

LEMMA InterruptKeeps == ASSUME IInv, NEW len \in Lens, Interrupt(len) PROVE IInv'
<1> DEFINE id == arrived + 1
           refused == Phase0Refuses(len)
           handed == BufferHandedOut % RealLimit
           es == IF refused THEN esdi ELSE handed
           filled == IF refused THEN slot ELSE [slot EXCEPT !.len = len]
           m == IF es = 0 THEN mem ELSE Put(mem, Real(es), id)
           g == [id |-> id, len |-> len]
           SlotSet == [len : Nat, pending : BOOLEAN, buf : Contents]
<1>a. /\ mem' = m
      /\ slot' = IF es = 0 THEN filled ELSE Phase1(filled, m)
      /\ accepted' = IF refused THEN accepted ELSE Accept(id, len)
      /\ arrived' = id
  BY DEF Interrupt
<1>b. rx = "callback" /\ UNCHANGED <<rx, esdi, pc, out, delivered, env, bounce_seg, stage>>
  BY DEF Interrupt, segs
<1>c. /\ len \in Nat \ {0} /\ id \in Nat /\ id \in Contents /\ g \in Frames
      /\ MaxFrame \in Nat /\ g.len = len
  BY PmAssumption DEF IInv, SlotType, Frames, Contents
<1>d. esdi \in Int /\ handed \in Int /\ env.map \in Nat
  <2>1. StackSeg \in Int
    BY Places
  <2>2. RealLimit \in Nat /\ RealLimit > 0 /\ BufferHandedOut \in Int
    BY PmAssumption DEF IInv, LowInv, BlocksOK, BufferHandedOut
  <2>3. handed \in Int
    BY <2>2
  <2> QED BY <2>1, <2>3, Answers DEF IInv, LowInv, SlotType
<1> HIDE DEF handed
<1>e. slot \in SlotSet /\ mem \in Memory /\ accepted \in Seq(Frames)
      /\ delivered \in Seq(Frames)
  BY DEF IInv, LowInv, SlotType
<1>f. filled \in SlotSet /\ filled.len \in Nat /\ (~refused => filled.len = len)
      /\ (refused => filled = slot)
  BY <1>c, <1>e
<1>g. ~refused => slot.pending = FALSE /\ len \in 1..MaxFrame
  BY <1>c, <1>e DEF Phase0Refuses
<1>h. Accept(id, len) = IF pc = "cleared" THEN accepted ELSE Append(accepted, g)
  BY DEF Accept
<1> HIDE DEF refused, filled, g, id
<1>i. m \in Memory
  <2>1. Real(es) \in Int
    BY <1>d DEF Real
  <2> QED BY <1>c, <1>e, <2>1, PutGet
<1>1. LowInv'
  <2>1. BootDone /\ UNCHANGED <<stage, thunk_linear, rm>>
    BY DEF Interrupt, BootDone
  <2> QED BY <1>a, <1>i, <2>1, MemoryIsFree DEF IInv
<1>j. Phase1(filled, m) \in SlotSet /\ Phase1(filled, m).pending = TRUE
      /\ Phase1(filled, m).len = filled.len
      /\ (bounce_seg # 0 /\ filled.len <= MaxFrame =>
             Phase1(filled, m).buf = Get(m, Flat(bounce_linear)))
  <2> HIDE DEF m
  <2> QED BY <1>f, <1>i, Phase1Type DEF IInv
<1>2. SlotType'
  <2>1. slot' \in SlotSet
    BY <1>a, <1>f, <1>j
  <2>2. accepted' \in Seq(Frames)
    <3>1. Append(accepted, g) \in Seq(Frames)
      BY <1>c, <1>e
    <3> QED BY <1>a, <1>e, <1>h, <3>1
  <2> QED BY <1>a, <1>b, <1>c, <2>1, <2>2 DEF IInv, SlotType
<1>3. QuietInv'
  BY <1>b DEF IInv, QuietInv
<1>4. SlotInv'
  <2> SUFFICES ASSUME Measured' PROVE /\ pc' = "idle" => Behind(Held(slot'), accepted', delivered')
                                      /\ pc' # "idle" => Behind(out', accepted', delivered')
                                      /\ pc' = "copied" => slot'.pending = TRUE
    BY DEF SlotInv, Held, Behind
  <2>1. Measured /\ esdi = 0
    BY <1>b DEF Measured
  <2>2. /\ pc = "idle" => Behind(Held(slot), accepted, delivered)
        /\ pc # "idle" => Behind(out, accepted, delivered)
        /\ pc = "copied" => slot.pending = TRUE
        /\ pc \in {"idle", "copied", "cleared"}
    BY <2>1 DEF IInv, SlotInv, SlotType
  <2>3. CASE refused
    <3>1. slot' = slot /\ accepted' = accepted
      BY <1>a, <1>f, <2>1, <2>3
    <3> QED BY <1>b, <2>2, <3>1
  <2>4. CASE ~refused
    <3>1. es = handed /\ es # 0 /\ bounce_seg # 0
          /\ Get(Put(mem, Real(es), id), Flat(bounce_linear)) = id
      BY <1>b, <1>c, <2>1, <2>4, HandsOutTheBounce DEF IInv, handed
    <3>2. slot' = Phase1(filled, m) /\ m = Put(mem, Real(es), id)
      BY <1>a, <3>1
    <3>3. slot'.pending = TRUE /\ slot'.len = len /\ slot'.buf = id
      BY <1>c, <1>f, <1>g, <1>j, <2>4, <3>1, <3>2
    <3>4. CASE pc = "cleared"
      BY <1>a, <1>b, <1>h, <2>2, <2>4, <3>4
    <3>5. CASE pc = "idle"
      <4>1. Held(slot).len = 0
        BY <1>g, <2>4 DEF Held
      <4>2. Behind(g, Append(accepted, g), delivered)
        BY <1>c, <1>e, <1>g, <2>2, <2>4, <3>5, <4>1, Enters
      <4>3. Held(slot') = g
        BY <3>3 DEF Held, g
      <4> QED BY <1>a, <1>b, <1>h, <2>4, <3>5, <4>2, <4>3
    <3>6. pc # "copied"
      BY <1>g, <2>2, <2>4
    <3> QED BY <2>2, <3>4, <3>5, <3>6
  <2> QED BY <2>3, <2>4
<1> QED BY <1>1, <1>2, <1>3, <1>4, InterruptKeepsName DEF IInv

LEMMA PostKeeps == ASSUME IInv, NEW len \in Lens, Post(len) PROVE IInv'
<1> DEFINE id == arrived + 1
           g == [id |-> id, len |-> len]
<1>a. /\ slot' = [len |-> len, pending |-> TRUE, buf |-> id]
      /\ accepted' = IF pc = "cleared" THEN accepted ELSE Append(accepted, g)
      /\ arrived' = id /\ rx = "posted" /\ slot.pending = FALSE /\ len <= MaxFrame
      /\ UNCHANGED <<lowVars, rx, esdi, pc, out, delivered>>
  BY DEF Post, Accept, IInv, SlotType
<1>c. /\ len \in Nat \ {0} /\ id \in Nat /\ id \in Contents /\ g \in Frames
      /\ g.len \in 1..MaxFrame
  BY <1>a, PmAssumption DEF IInv, SlotType, Frames, Contents
<1>e. accepted \in Seq(Frames) /\ delivered \in Seq(Frames)
  BY DEF IInv, SlotType
<1>d. slot' \in [len : Nat, pending : BOOLEAN, buf : Contents] /\ Held(slot') = g
  BY <1>a, <1>c DEF Held
<1> HIDE DEF g, id
<1>1. LowInv'
  <2>1. BootDone /\ UNCHANGED <<stage, thunk_linear, rm>> /\ mem' = mem
    BY <1>a DEF lowVars, BootDone
  <2> QED BY <2>1, MemoryIsFree DEF IInv, LowInv
<1>2. SlotType'
  <2>1. accepted' \in Seq(Frames)
    BY <1>a, <1>c, <1>e
  <2> QED BY <1>a, <1>c, <1>d, <2>1 DEF IInv, SlotType
<1>3. QuietInv'
  BY <1>a DEF IInv, QuietInv, lowVars
<1>4. SlotInv'
  <2>1. /\ pc = "idle" => Behind(Held(slot), accepted, delivered)
        /\ pc # "idle" => Behind(out, accepted, delivered)
        /\ pc \in {"idle", "cleared"}
    BY <1>a DEF IInv, SlotInv, SlotType, Measured
  <2>2. pc = "idle" => Behind(g, Append(accepted, g), delivered)
    BY <1>a, <1>c, <1>e, <2>1, Enters DEF Held
  <2> QED BY <1>a, <1>d, <2>1, <2>2 DEF SlotInv
<1>n. NameInv'
  <2>1. BootDone /\ UNCHANGED <<rm, mem, naming, stage>>
    BY <1>a DEF lowVars, BootDone
  <2> QED BY <2>1, OthersKeepName DEF IInv
<1> QED BY <1>n, <1>1, <1>2, <1>3, <1>4 DEF IInv

LEMMA RecvKeeps == IInv /\ Recv => IInv'
<1> SUFFICES ASSUME IInv, Recv PROVE IInv'
  OBVIOUS
<1>a. /\ slot \in [len : Nat, pending : BOOLEAN, buf : Contents] /\ out \in Frames
      /\ accepted \in Seq(Frames) /\ delivered \in Seq(Frames) /\ MaxFrame \in Nat
  BY PmAssumption DEF IInv, SlotType
<1>b. /\ Measured /\ pc = "idle" => Behind(Held(slot), accepted, delivered)
      /\ Measured /\ pc # "idle" => Behind(out, accepted, delivered)
      /\ Measured /\ pc = "copied" => slot.pending = TRUE
  BY DEF IInv, SlotInv
<1>c. UNCHANGED <<lowVars, rx, esdi, arrived, accepted>>
  BY DEF Recv, RecvCopy, RecvClearPending, RecvClearLength
<1>d. Measured' <=> Measured
  BY <1>c DEF Measured, lowVars, segs
<1>e. ~(pc = "idle" /\ slot.pending = FALSE)
  BY DEF Recv, RecvCopy, RecvClearPending, RecvClearLength
<1>f. QuietInv'
  BY <1>c, <1>e DEF IInv, QuietInv, lowVars
<1>1. LowInv'
  <2>1. BootDone /\ UNCHANGED <<stage, thunk_linear, rm>> /\ mem' = mem
    BY <1>c DEF lowVars, BootDone
  <2> QED BY <2>1, MemoryIsFree DEF IInv, LowInv
<1>n. NameInv'
  <2>1. BootDone /\ UNCHANGED <<rm, mem, naming, stage>>
    BY <1>c DEF lowVars, BootDone
  <2> QED BY <2>1, OthersKeepName DEF IInv
<1>2. CASE RecvCopy
  <2>1. /\ pc = "idle" /\ slot.pending = TRUE /\ pc' = "copied" /\ slot' = slot
        /\ delivered' = delivered
        /\ out' = [id |-> slot.buf, len |-> IF slot.len > MaxFrame THEN MaxFrame ELSE slot.len]
    BY <1>2, <1>a DEF RecvCopy
  <2>2. out' \in Frames
    BY <1>a, <2>1 DEF Frames
  <2>3. SlotType'
    BY <1>c, <2>1, <2>2 DEF IInv, SlotType
  <2>4. ASSUME Measured PROVE Behind(out', accepted, delivered)
    <3>1. Held(slot).len \in 0..MaxFrame /\ Held(slot).len = slot.len
      BY <1>a, <1>b, <2>1, <2>4 DEF Held, Behind
    <3>2. out' = Held(slot)
      BY <1>a, <2>1, <3>1 DEF Held
    <3> QED BY <1>b, <2>1, <2>4, <3>2
  <2>5. SlotInv'
    BY <1>c, <1>d, <2>1, <2>4 DEF SlotInv
  <2> QED BY <1>n, <1>1, <1>f, <2>3, <2>5 DEF IInv
<1>3. CASE RecvClearPending
  <2>1. /\ pc = "copied" /\ pc' = "cleared" /\ slot' = [slot EXCEPT !.pending = FALSE]
        /\ delivered' = delivered /\ out' = out
    BY <1>3 DEF RecvClearPending
  <2>2. SlotType'
    BY <1>a, <1>c, <2>1 DEF IInv, SlotType
  <2>3. SlotInv'
    BY <1>b, <1>c, <1>d, <2>1 DEF SlotInv
  <2> QED BY <1>n, <1>1, <1>f, <2>2, <2>3 DEF IInv
<1>4. CASE RecvClearLength
  <2>1. /\ pc = "cleared" /\ pc' = "idle" /\ slot' = [slot EXCEPT !.len = 0]
        /\ delivered' = IF out.len = 0 THEN delivered ELSE Append(delivered, out)
        /\ out' = out
    BY <1>4 DEF RecvClearLength
  <2>2. SlotType'
    <3>1. delivered' \in Seq(Frames)
      BY <1>a, <2>1
    <3>2. slot' \in [len : Nat, pending : BOOLEAN, buf : Contents]
      BY <1>a, <2>1
    <3> QED BY <1>a, <1>c, <2>1, <3>1, <3>2 DEF IInv, SlotType
  <2>3. Held(slot').len = 0
    BY <1>a, <2>1 DEF Held
  <2>4. ASSUME Measured PROVE Behind(Held(slot'), accepted, delivered')
    <3>1. CASE out.len = 0
      BY <1>b, <2>1, <2>3, <2>4, <3>1, NothingHeld
    <3>2. CASE out.len # 0
      BY <1>a, <1>b, <2>1, <2>3, <2>4, <3>2, Leaves
    <3> QED BY <3>1, <3>2
  <2>5. SlotInv'
    BY <1>c, <1>d, <2>1, <2>4 DEF SlotInv
  <2> QED BY <1>n, <1>1, <1>f, <2>2, <2>5 DEF IInv
<1> QED BY <1>2, <1>3, <1>4 DEF Recv

\* Before anything is attached, and in the states of the boot, the slot is
\* empty and both histories are.
LEMMA QuietIsBehind ==
    ASSUME SlotType, pc = "idle", slot.pending = FALSE, accepted = << >>, delivered = << >>
    PROVE  SlotInv
<1>1. Held(slot).len = 0
  BY DEF Held
<1>2. Len(accepted) = 0 /\ Len(delivered) = 0 /\ 1..0 = {}
  OBVIOUS
<1>3. Behind(Held(slot), accepted, delivered)
  BY <1>1, <1>2 DEF Behind
<1> QED BY <1>3 DEF SlotInv

LEMMA InitIInv == Init => IInv
<1> SUFFICES ASSUME Init PROVE IInv
  OBVIOUS
<1>1. LowInv
  BY InitLow DEF Init
<1>2. SlotType
  BY DEF Init, SlotType, Frames, Contents
<1>3. QuietInv
  BY DEF Init, QuietInv
<1>4. SlotInv
  BY <1>2, QuietIsBehind DEF Init
<1>5. NameInv
  BY DEF Init, LowInit, NameInv, NoCall
<1> QED BY <1>1, <1>2, <1>3, <1>4, <1>5 DEF IInv

LEMMA LowStepKeeps == IInv /\ Low => IInv'
<1> SUFFICES ASSUME IInv, Low PROVE IInv'
  OBVIOUS
<1>a. LowNext /\ UNCHANGED <<rx, esdi, slot, pc, out, arrived, accepted, delivered>>
  BY DEF Low, pmVars
<1>1. LowInv'
  BY <1>a, LowKeeps DEF IInv
<1>2. SlotType'
  BY <1>a DEF IInv, SlotType
<1>b. stage = "run" => stage' = "run" /\ env' = env /\ bounce_seg' = bounce_seg
  BY <1>a DEF LowNext, Boot, Preallocate, dos_bounce_resolve, StackAlloc, Probe,
              dos_int21_open, dos_int21_call, Clobber, segs
<1>3. QuietInv'
  BY <1>a, <1>b DEF IInv, QuietInv
<1>4. SlotInv'
  <2>1. CASE rx \in {"off", "flat"}
    <3>1. pc' = "idle" /\ slot'.pending = FALSE /\ accepted' = << >> /\ delivered' = << >>
      BY <2>1, <1>a DEF IInv, QuietInv
    <3>2. /\ Len(accepted') = 0 /\ Len(delivered') = 0 /\ 1..0 = {} /\ Held(slot').len = 0
      BY <3>1 DEF Held
    <3>3. Behind(Held(slot'), accepted', delivered')
      BY <3>2 DEF Behind
    <3> QED BY <3>1, <3>3 DEF SlotInv
  <2>2. CASE rx \notin {"off", "flat"}
    <3>1. stage = "run"
      BY <2>2 DEF IInv, QuietInv
    <3>2. Measured' <=> Measured
      BY <1>a, <1>b, <3>1 DEF Measured
    <3> QED BY <1>a, <3>2 DEF IInv, SlotInv
  <2> QED BY <2>1, <2>2
<1> QED BY <1>a, <1>1, <1>2, <1>3, <1>4, LowKeepsName DEF IInv

LEMMA AttachKeeps == IInv /\ Attach => IInv'
<1> SUFFICES ASSUME IInv, Attach PROVE IInv'
  OBVIOUS
<1>a. /\ rx = "off" /\ rx' \in {"callback", "flat", "posted"} /\ stage = "run"
      /\ UNCHANGED <<lowVars, esdi, slot, pc, out, arrived, accepted, delivered>>
  BY DEF Attach
<1>b. pc = "idle" /\ slot.pending = FALSE /\ accepted = << >> /\ delivered = << >>
  BY <1>a DEF IInv, QuietInv
<1>1. LowInv'
  <2>1. BootDone /\ UNCHANGED <<stage, thunk_linear, rm>> /\ mem' = mem
    BY <1>a DEF lowVars, BootDone
  <2> QED BY <2>1, MemoryIsFree DEF IInv, LowInv
<1>2. SlotType'
  BY <1>a DEF IInv, SlotType
<1>3. QuietInv'
  BY <1>a, <1>b DEF IInv, QuietInv, lowVars
<1>4. SlotInv'
  <2>1. /\ Len(accepted') = 0 /\ Len(delivered') = 0 /\ 1..0 = {} /\ Held(slot').len = 0
    BY <1>a, <1>b DEF Held
  <2>2. Behind(Held(slot'), accepted', delivered')
    BY <2>1 DEF Behind
  <2> QED BY <1>a, <1>b, <2>2 DEF SlotInv
<1>n. NameInv'
  <2>1. BootDone /\ UNCHANGED <<rm, mem, naming, stage>>
    BY <1>a DEF lowVars, BootDone
  <2> QED BY <2>1, OthersKeepName DEF IInv
<1> QED BY <1>n, <1>1, <1>2, <1>3, <1>4 DEF IInv

LEMMA StutterKeeps == IInv /\ UNCHANGED vars => IInv'
<1> SUFFICES ASSUME IInv, UNCHANGED vars PROVE IInv'
  OBVIOUS
<1>a. UNCHANGED <<rx, esdi, slot, pc, out, arrived, accepted, delivered>>
      /\ UNCHANGED lowVars
  BY DEF vars, pmVars
<1>1. LowInv'
  <2>1. BootDone /\ UNCHANGED <<stage, thunk_linear, rm>> /\ mem' = mem
    BY <1>a DEF lowVars, BootDone
  <2> QED BY <2>1, MemoryIsFree DEF IInv, LowInv
<1>2. SlotType' /\ QuietInv'
  BY <1>a DEF IInv, SlotType, QuietInv, lowVars
<1>3. SlotInv'
  <2>1. Measured' <=> Measured
    BY <1>a DEF Measured, lowVars, segs
  <2> QED BY <1>a, <2>1 DEF IInv, SlotInv
<1>n. NameInv'
  <2>1. BootDone /\ UNCHANGED <<rm, mem, naming, stage>>
    BY <1>a DEF lowVars, BootDone
  <2> QED BY <2>1, OthersKeepName DEF IInv
<1> QED BY <1>n, <1>1, <1>2, <1>3 DEF IInv

LEMMA NextIInv == IInv /\ [Next]_vars => IInv'
BY LowStepKeeps, AttachKeeps, InterruptKeeps, PostKeeps, RecvKeeps, StutterKeeps
   DEF Next, Arrival

LEMMA InvariantHolds == Spec => []IInv
BY InitIInv, NextIInv, PTL DEF Spec

-----------------------------------------------------------------------------
(* The results *)

\* Wherever the blocks lie and however the boot went, a real-mode call made
\* with a client base of 0 runs CD 21 CB with the stack pointer at the top of
\* the granted block (dos_int21_call, dos_int21_thunk_init).
THEOREM DispatchSafe == Spec => []DispatchIsSafe
<1>1. IInv => DispatchIsSafe
  <2> SUFFICES ASSUME IInv, env.base = 0, Found, rm # NoCall
               PROVE  rm.code = "CD21CB" /\ (rm.sp = 0 \/ rm.sp + 2 = stack_paras * 16)
    BY DEF DispatchIsSafe
  <2>1. rm.code = "CD21CB" /\ rm.sp = StackTop /\ stack_paras \in Nat
    BY DEF IInv, LowInv, CallInv, BlocksOK
  <2>2. StackTop = 0 \/ StackTop + 2 = stack_paras * 16
    BY <2>1 DEF StackTop
  <2> QED BY <2>1, <2>2
<1> QED BY <1>1, InvariantHolds, PTL

\* For every client base and every shift of real mode a bounce buffer that
\* dos_bounce_resolve vouched for is the one real mode sees; at a base of 0
\* DOS reads the name the caller of this call wrote, unless a frame was put
\* over it in between (dos_int21_open, dos_int21_call).
THEOREM NamesReachDos == Spec => []DosReadsTheName
<1>1. IInv => DosReadsTheName
  <2> SUFFICES ASSUME IInv, Vouched
               PROVE  /\ Flat(bounce_linear) = Real(bounce_seg)
                      /\ env.base = 0 => rm.overwritten \/ rm.name = rm.asked
    BY DEF Vouched, DosReadsTheName
  <2>1. Flat(bounce_linear) = Real(BounceSeg) /\ bounce_seg = BounceSeg
    BY DEF IInv, LowInv, BounceInv, Vouched
  <2>2. env.base = 0 => rm.overwritten \/ rm.name = rm.asked
    BY DEF IInv, NameInv
  <2> QED BY <2>1, <2>2
<1> QED BY <1>1, InvariantHolds, PTL

\* pktdrv_recv returns the frames the slot accepted in time, each once, in
\* order and whole, for every interleaving of the interrupt with its steps.
THEOREM SlotIsExact == Spec => []SlotExact
<1>1. IInv => SlotExact
  <2> SUFFICES ASSUME IInv, Measured
               PROVE  /\ Len(delivered) <= Len(accepted)
                      /\ \A i \in 1..Len(delivered) : delivered[i] = accepted[i]
                      /\ pc = "idle" /\ ~slot.pending => Len(delivered) = Len(accepted)
    BY DEF SlotExact
  <2>1. PICK f : Behind(f, accepted, delivered)
    BY DEF IInv, SlotInv
  <2>2. Len(accepted) \in Nat /\ Len(delivered) \in Nat
    BY DEF IInv, SlotType
  <2>3. pc = "idle" /\ ~slot.pending => Behind(Held(slot), accepted, delivered) /\ Held(slot).len = 0
    BY DEF IInv, SlotInv, Held
  <2> QED BY <2>1, <2>2, <2>3 DEF Behind
<1> QED BY <1>1, InvariantHolds, PTL
=============================================================================
