------------------------------- MODULE PktInit ------------------------------
(***************************************************************************)
(* pktdrv_init of port/pktdrv_uc386dos.c: the probe and reset of an NE2000 *)
(* at the fixed port, then the scan for a Crynwr driver, the registration  *)
(* of the receiver and the read of the MAC address, with every early       *)
(* return, called again after a failure as uc386dos_eth_start does.        *)
(*                                                                         *)
(* As soon as access_type succeeded the driver's interrupt handler may     *)
(* deliver frames into the bounce buffer that pktdrv_get_addr also uses.   *)
(* The buffer is represented by its first cell.                            *)
(***************************************************************************)
EXTENDS Integers

CONSTANTS
    ResetSpin,    \* 100000, the bound of the wait for RST
    Word,         \* 2^32, the range of unsigned int
    ForceCrynwr,  \* built with PKTDRV_FORCE_CRYNWR: no NE2000 path
    HasNe2k,      \* an NE2000 answers at port 0x300
    RstPolls,     \* values of the number of polls after which RST is set
    Vectors,      \* software interrupt a Crynwr driver may be installed on
    Prealloc,     \* main() pre-allocated bounce buffer and thunk, or not
    MaxCalls      \* bound: calls of pktdrv_init

ASSUME InitAssumption ==
    /\ ResetSpin \in Nat \ {0} /\ Word \in Nat /\ ResetSpin < Word
    /\ ForceCrynwr \in BOOLEAN
    /\ HasNe2k \subseteq BOOLEAN /\ Prealloc \subseteq BOOLEAN
    /\ RstPolls \subseteq Nat
    /\ Vectors \subseteq {0} \cup 96..127
    /\ MaxCalls \in Nat

Never == -1

VARIABLES
    nic,          \* environment: [present, rst_after] of the NE2000
    vector,       \* environment: vector of the Crynwr driver, 0 if none
    prealloc,     \* environment: pktdrv_preallocated_thunk_seg != 0
    init_pc, calls,
    spin, polls,  \* reset wait: local spin, reads of ISR so far
    ne2k_initialized,
    int_num,      \* pktdrv_int_num: 0, -1 (NE2000) or the vector
    thunk,        \* pktdrv_thunk_seg != 0: the thunk is written
    handle,       \* pktdrv_handle >= 0
    handle_arp,   \* pktdrv_handle_arp >= 0
    types,        \* types registered with the driver (external)
    answered,     \* history: the driver itself answered the IPv4 registration
    rcv_mode,     \* set_rcv_mode reached the driver (external)
    bounce,       \* first cell of the bounce buffer
    mac,          \* the caller's mac
    ret           \* result of the last call

fixed == <<nic, vector, prealloc>>
ne2kVars == <<spin, polls, ne2k_initialized>>
crynwr == <<thunk, handle, handle_arp, types, answered, rcv_mode>>
initvars == <<fixed, init_pc, calls, ne2kVars, int_num, crynwr, bounce, mac, ret>>

DriverInit ==
    /\ nic \in [present : HasNe2k, rst_after : RstPolls \cup {Never}]
    /\ vector \in Vectors /\ prealloc \in Prealloc
    /\ init_pc = "idle" /\ calls = 0
    /\ spin = 0 /\ polls = 0 /\ ne2k_initialized = FALSE
    /\ int_num = 0 /\ thunk = FALSE
    /\ handle = FALSE /\ handle_arp = FALSE
    /\ types = {} /\ answered = FALSE /\ rcv_mode = FALSE
    /\ bounce = "blank" /\ mac = "unset" /\ ret = 1

Return(r) == ret' = r /\ init_pc' = "idle"

-----------------------------------------------------------------------------
(* pktdrv_init, which starts with ne2k_init_direct *)

Call ==
    /\ init_pc = "idle" /\ calls < MaxCalls
    /\ calls' = calls + 1
    /\ init_pc' = IF ForceCrynwr THEN "detect" ELSE "reset"
    /\ spin' = ResetSpin /\ polls' = 0
    /\ UNCHANGED <<fixed, ne2k_initialized, int_num, crynwr, bounce, mac, ret>>

(* An absent card reads as 0xFF: the RST bit is set at once. *)
RstBit == IF nic.present THEN nic.rst_after # Never /\ polls >= nic.rst_after
          ELSE TRUE

(***************************************************************************)
(* One evaluation of while (spin-- && !RST): the counter is decremented    *)
(* even by the evaluation that finds it 0, and then wraps.                 *)
(***************************************************************************)
ResetPoll ==
    /\ init_pc = "reset"
    /\ spin' = (spin + Word - 1) % Word
    /\ \/ /\ spin = 0
          /\ init_pc' = "reset_test" /\ UNCHANGED polls
       \/ /\ spin # 0 /\ RstBit
          /\ init_pc' = "reset_test" /\ UNCHANGED polls
       \/ /\ spin # 0 /\ ~RstBit
          /\ polls' = polls + 1 /\ UNCHANGED init_pc
    /\ UNCHANGED <<fixed, calls, ne2k_initialized, int_num, crynwr, bounce, mac,
                   ret>>

(* if (spin == 0) the reset is taken to have timed out. *)
ResetTest ==
    /\ init_pc = "reset_test"
    /\ init_pc' = IF spin = 0 THEN "detect" ELSE "probe"
    /\ UNCHANGED <<fixed, calls, ne2kVars, int_num, crynwr, bounce, mac, ret>>

(* CR is written as 0x21 and read back; then the card is set up. *)
Ne2kProbe ==
    /\ init_pc = "probe"
    /\ IF nic.present
       THEN /\ ne2k_initialized' = TRUE /\ mac' = "nic" /\ int_num' = -1
            /\ Return(0)
       ELSE /\ init_pc' = "detect"
            /\ UNCHANGED <<ne2k_initialized, mac, int_num, ret>>
    /\ UNCHANGED <<fixed, calls, spin, polls, crynwr, bounce>>

-----------------------------------------------------------------------------
(* The Crynwr path *)

(* pktdrv_detect scans 0x60..0x7F and remembers what it found. *)
Detect ==
    /\ init_pc = "detect"
    /\ int_num' = IF int_num # 0 THEN int_num ELSE vector
    /\ IF int_num' = 0 THEN Return(-1) ELSE init_pc' = "alloc" /\ UNCHANGED ret
    /\ UNCHANGED <<fixed, calls, ne2kVars, crynwr, bounce, mac>>

(* pktdrv_alloc_thunk, and the release of every subscription (thunk only). *)
Alloc ==
    /\ init_pc = "alloc"
    /\ thunk' = (thunk \/ prealloc)
    /\ IF thunk' /\ vector = 96
       THEN types' \in {types, {}}      \* drivers differ in what they release
       ELSE UNCHANGED types
    /\ init_pc' = "access"
    /\ UNCHANGED <<fixed, calls, ne2kVars, int_num, handle, handle_arp,
                   answered, rcv_mode, bounce, mac, ret>>

(***************************************************************************)
(* The vector a call to the driver goes to: the thunk holds CD 60, without *)
(* it the DPMI simulation is asked for pktdrv_int_num.                     *)
(***************************************************************************)
CallVector == IF thunk THEN 96 ELSE int_num

(* It may reach nobody: in PMODE/W INT 31h AX=0300h does nothing for INT 60h. *)
MayMiss == ~thunk \/ CallVector # vector

(***************************************************************************)
(* External: outcomes of one access_type call.  The driver registers the   *)
(* type or refuses; a call that reaches no driver leaves the registers as  *)
(* they were, which reads as success.  When the dispatch itself fails the  *)
(* code issues a bare INT for the detected vector: an emulator's driver    *)
(* registers the receiver for every type, a driver may refuse, and a host  *)
(* that does nothing leaves the carry clear, which reads as success again. *)
(***************************************************************************)
AccessOutcomes(type) ==
    LET refused  == [ok |-> FALSE, reg |-> types, answered |-> FALSE]
        nobody   == [ok |-> TRUE, reg |-> types, answered |-> FALSE]
        done(t)  == [ok |-> TRUE, reg |-> types \cup {t}, answered |-> TRUE]
    IN  {refused, nobody, done("any")}
        \cup {done(t) : t \in {x \in {type} \ types : CallVector = vector}}

(* IPv4 first: failure is fatal. *)
AccessIp ==
    /\ init_pc = "access"
    /\ \E o \in AccessOutcomes("ip") :
          /\ types' = o.reg /\ answered' = o.answered
          /\ handle' = (handle \/ o.ok)
          /\ IF o.ok THEN init_pc' = "access_arp" /\ UNCHANGED <<int_num, ret>>
             ELSE int_num' = 0 /\ Return(-2)
    /\ UNCHANGED <<fixed, calls, ne2kVars, thunk, handle_arp, rcv_mode, bounce,
                   mac>>

(* ARP second: failure is tolerated. *)
AccessArp ==
    /\ init_pc = "access_arp"
    /\ \E o \in AccessOutcomes("arp") :
          types' = o.reg /\ handle_arp' = o.ok
    /\ init_pc' = "mode"
    /\ UNCHANGED <<fixed, calls, ne2kVars, int_num, thunk, handle, answered,
                   rcv_mode, bounce, mac, ret>>

(* set_rcv_mode, only through the thunk; its result is ignored. *)
SetMode ==
    /\ init_pc = "mode"
    /\ rcv_mode' = (rcv_mode \/ ~MayMiss)
    /\ init_pc' = "getaddr"
    /\ UNCHANGED <<fixed, calls, ne2kVars, int_num, thunk, handle, handle_arp,
                   types, answered, bounce, mac, ret>>

(* Fault form: the failure return leaves pktdrv_int_num set. *)
GetAddrStaysActive ==
    /\ init_pc = "getaddr"
    /\ \/ /\ CallVector = vector
          /\ bounce' = "mac" /\ init_pc' = "getaddr_copy" /\ UNCHANGED <<int_num, ret>>
       \/ /\ MayMiss
          /\ init_pc' = "getaddr_copy" /\ UNCHANGED <<bounce, int_num, ret>>
       \/ Return(-3) /\ UNCHANGED <<int_num, bounce>>
    /\ UNCHANGED <<fixed, calls, ne2kVars, crynwr, mac>>

(* pktdrv_get_addr: AH=06 writes the address to the bounce buffer ... *)
GetAddr ==
    /\ init_pc = "getaddr"
    /\ \/ /\ CallVector = vector
          /\ bounce' = "mac" /\ init_pc' = "getaddr_copy" /\ UNCHANGED <<int_num, ret>>
       \/ /\ MayMiss
          /\ init_pc' = "getaddr_copy" /\ UNCHANGED <<bounce, int_num, ret>>
       \/ int_num' = 0 /\ Return(-3) /\ UNCHANGED bounce
    /\ UNCHANGED <<fixed, calls, ne2kVars, crynwr, mac>>

(* ... and protected-mode code copies it from there. *)
GetAddrCopy ==
    /\ init_pc = "getaddr_copy"
    /\ mac' = IF bounce = "mac" THEN "nic" ELSE "garbage"
    /\ Return(0)
    /\ UNCHANGED <<fixed, calls, ne2kVars, int_num, crynwr, bounce>>

(***************************************************************************)
(* External: a frame of a registered type arrives and the receiver stub    *)
(* has it copied into the bounce buffer.                                   *)
(***************************************************************************)
FrameArrives ==
    /\ types # {} /\ thunk
    /\ bounce' = "frame"
    /\ UNCHANGED <<fixed, init_pc, calls, ne2kVars, int_num, crynwr, mac, ret>>

(* A step of a call under way, or of the driver's interrupt handler. *)
Work == \/ ResetPoll \/ ResetTest \/ Ne2kProbe
        \/ Detect \/ Alloc \/ AccessIp \/ AccessArp \/ SetMode
        \/ GetAddr \/ GetAddrCopy
        \/ FrameArrives

(* On its own: called until it succeeds. *)
DriverNext == (ret # 0 /\ Call) \/ Work

DriverSpec == DriverInit /\ [][DriverNext]_initvars

-----------------------------------------------------------------------------
(* Properties *)

(***************************************************************************)
(* Between calls the driver counts as active exactly when the last call    *)
(* succeeded: every error return undoes what pktdrv_detect remembered, so  *)
(* pktdrv_is_active and a retry see a clean slate.  On the Crynwr path, if *)
(* the driver itself answered the IPv4 registration of that call, there is *)
(* a subscription that pktdrv_handle names, whatever failed calls and      *)
(* releases came before; a call that reached nobody reads as success, and  *)
(* nothing is promised then.                                               *)
(***************************************************************************)
ActiveIffSucceeded ==
    init_pc = "idle" =>
        /\ int_num # 0 <=> ret = 0
        /\ int_num > 0 /\ answered => handle /\ types # {}
=============================================================================
