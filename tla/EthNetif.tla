------------------------------ MODULE EthNetif ------------------------------
(***************************************************************************)
(* The Ethernet interface of port/lwip_uc386dos.c on top of pktdrv_init:   *)
(* uc386dos_eth_start (uc386_net.eth_init), uc386dos_eth_set_addr          *)
(* (eth_set_static), the receive pump that lwip.callback() runs through    *)
(* its poll hook, and lwip.reset() of the patched modlwip.c.               *)
(*                                                                         *)
(* netif_add fails only when its init callback does, and                   *)
(* uc386dos_eth_netif_init_cb always returns ERR_OK: the return -2 of      *)
(* uc386dos_eth_start cannot happen and has no action.                     *)
(***************************************************************************)
EXTENDS PktInit

CONSTANTS
    HasSim,       \* values of: the INT 83h simulation answers ethdrv_init
    MaxPumped     \* bound: frames the pump receives

ASSUME NetifAssumption == HasSim \subseteq BOOLEAN /\ MaxPumped \in Nat

VARIABLES
    sim,          \* environment: the INT 83h simulation is there
    eth_pc,       \* program point of eth_start or of the pump, or "aborted"
    use_dhcp,     \* argument dhcp_start_now of the call under way
    initialised,  \* static initialised of lwip_uc386dos_init
    netif_list,   \* interfaces lwIP knows
    inits,        \* history: calls of lwip_init
    ended,        \* history: the caller of the lwip_init that aborted, or "no"
    active,       \* uc386dos_eth_active
    poll_hook,    \* lwip_poll_list.poll is uc386dos_loopback_poll
    dhcp,         \* DHCP client of the interface: "off" or "running"
    addr,         \* "none" or "static"
    rc,           \* result of the last eth_start: [asked, code]
    frames,       \* frames the pump has received
    pbufs         \* pbufs allocated by the pump and not freed: [held, given]

lwipVars == <<initialised, netif_list, inits, ended>>
netifVars == <<active, poll_hook, dhcp, addr>>
pumpVars == <<frames, pbufs>>
ethVars == <<sim, eth_pc, use_dhcp, lwipVars, netifVars, rc, pumpVars>>
allVars == <<initvars, ethVars>>

EthInit ==
    /\ DriverInit
    /\ sim \in HasSim
    /\ eth_pc = "idle" /\ use_dhcp = FALSE
    /\ initialised = FALSE /\ netif_list = {} /\ inits = 0 /\ ended = "no"
    /\ active = FALSE /\ poll_hook = FALSE /\ dhcp = "off" /\ addr = "none"
    /\ rc = [asked |-> FALSE, code |-> 1]
    /\ frames = 0 /\ pbufs = [held |-> 0, given |-> 0]

-----------------------------------------------------------------------------
(* lwip_uc386dos_init and lwip.reset() *)

(* Fault form: only the static flag is looked at. *)
NeedsLwipInitNoListTest == ~initialised

(* One-shot: the flag, then the test whether lwip.reset() ran before. *)
NeedsLwipInit == ~initialised /\ netif_list = {}

(***************************************************************************)
(* External: lwip_init adds the loopback interface, unconditionally.  With *)
(* that interface there already netif_add trips "netif already added", and *)
(* LWIP_PLATFORM_ASSERT calls abort(): the program ends.                   *)
(***************************************************************************)
LwipInitTrips == "lo" \in netif_list
LwipInit == netif_list' = netif_list \cup {"lo"} /\ inits' = inits + 1
Abort(caller) == ended' = caller /\ eth_pc' = "aborted"

(* External: lwip.reset() calls lwip_init, at any time; patched by fetch.sh *)
(* it then sets the poll hook.                                              *)
LwipReset ==
    /\ eth_pc = "idle"
    /\ LwipInit
    /\ IF LwipInitTrips THEN Abort("reset") /\ UNCHANGED poll_hook
       ELSE poll_hook' = TRUE /\ UNCHANGED <<ended, eth_pc>>
    /\ UNCHANGED <<initvars, sim, use_dhcp, initialised, active, dhcp, addr, rc,
                   pumpVars>>

-----------------------------------------------------------------------------
(* uc386dos_eth_start *)

Finish(code) == rc' = [asked |-> use_dhcp', code |-> code] /\ eth_pc' = "idle"

(* An active interface is left as it is. *)
EthStartAgain(d) ==
    /\ eth_pc = "idle" /\ active
    /\ use_dhcp' = d
    /\ Finish(0)
    /\ UNCHANGED <<initvars, sim, lwipVars, netifVars, pumpVars>>

(* Otherwise lwIP is initialised and pktdrv_init called. *)
EthStart(d) ==
    /\ eth_pc = "idle" /\ ~active
    /\ use_dhcp' = d
    /\ initialised' = TRUE
    /\ IF NeedsLwipInit THEN LwipInit ELSE UNCHANGED <<netif_list, inits>>
    /\ IF NeedsLwipInit /\ LwipInitTrips THEN Abort("eth_start") /\ UNCHANGED initvars
       ELSE Call /\ eth_pc' = "pktdrv" /\ UNCHANGED ended
    /\ UNCHANGED <<sim, netifVars, rc, pumpVars>>

(* pktdrv_init and ethdrv_init both failed. *)
EthNoDriver ==
    /\ eth_pc = "pktdrv" /\ init_pc = "idle" /\ ret # 0 /\ ~sim
    /\ UNCHANGED use_dhcp
    /\ Finish(-1)
    /\ UNCHANGED <<initvars, sim, lwipVars, netifVars, pumpVars>>

(* A driver is there: add the interface, bring it up, set the poll hook. *)
EthUp ==
    /\ eth_pc = "pktdrv" /\ init_pc = "idle" /\ (ret = 0 \/ sim)
    /\ netif_list' = netif_list \cup {"en"}
    /\ active' = TRUE /\ poll_hook' = TRUE
    /\ eth_pc' = "dhcp"
    /\ UNCHANGED <<initvars, sim, use_dhcp, initialised, inits, ended, dhcp, addr,
                   rc, pumpVars>>

(* dhcp_start, when asked for, may be out of memory: -3. *)
EthDhcp ==
    /\ eth_pc = "dhcp"
    /\ UNCHANGED use_dhcp
    /\ \/ ~use_dhcp /\ Finish(0) /\ UNCHANGED dhcp
       \/ use_dhcp /\ Finish(0) /\ dhcp' = "running"
       \/ use_dhcp /\ Finish(-3) /\ UNCHANGED dhcp
    /\ UNCHANGED <<initvars, sim, lwipVars, active, poll_hook, addr, pumpVars>>

(* uc386dos_eth_set_addr: DHCP is stopped and the address written. *)
EthSetAddr ==
    /\ eth_pc = "idle" /\ active
    /\ dhcp' = "off" /\ addr' = "static"
    /\ UNCHANGED <<initvars, sim, eth_pc, use_dhcp, lwipVars, active, poll_hook,
                   rc, pumpVars>>

-----------------------------------------------------------------------------
(* uc386dos_loopback_poll and uc386dos_eth_pump_rx *)

(* A received frame, and a pbuf for it or none: then it is dropped. *)
PumpFrame ==
    /\ eth_pc \in {"idle", "pump"} /\ poll_hook /\ active
    /\ frames < MaxPumped
    /\ frames' = frames + 1
    /\ \/ pbufs' = [pbufs EXCEPT !.held = @ + 1] /\ eth_pc' = "input"
       \/ eth_pc' = "pump" /\ UNCHANGED pbufs
    /\ UNCHANGED <<initvars, sim, use_dhcp, lwipVars, netifVars, rc>>

(* netif.input takes the pbuf, or refuses it and the pump frees it. *)
PumpInput ==
    /\ eth_pc = "input"
    /\ eth_pc' = "pump"
    /\ \/ pbufs' = [held |-> pbufs.held - 1, given |-> pbufs.given + 1]
       \/ pbufs' = [pbufs EXCEPT !.held = @ - 1]
    /\ UNCHANGED <<initvars, sim, use_dhcp, lwipVars, netifVars, rc, frames>>

(* The driver has no frame: the pump ends. *)
PumpEnd ==
    /\ eth_pc = "pump"
    /\ eth_pc' = "idle"
    /\ UNCHANGED <<initvars, sim, use_dhcp, lwipVars, netifVars, rc, pumpVars>>

(* External: lwIP is done with a pbuf it was given. *)
LwipFrees ==
    /\ eth_pc # "aborted" /\ pbufs.given > 0
    /\ pbufs' = [pbufs EXCEPT !.given = @ - 1]
    /\ UNCHANGED <<initvars, sim, eth_pc, use_dhcp, lwipVars, netifVars, rc, frames>>

-----------------------------------------------------------------------------
EthNext ==
    \/ Work /\ UNCHANGED ethVars
    \/ LwipReset
    \/ \E d \in BOOLEAN : EthStart(d) \/ EthStartAgain(d)
    \/ EthNoDriver \/ EthUp \/ EthDhcp \/ EthSetAddr
    \/ PumpFrame \/ PumpInput \/ PumpEnd \/ LwipFrees

EthSpec == EthInit /\ [][EthNext]_allVars

-----------------------------------------------------------------------------
(* Properties *)

(***************************************************************************)
(* Over any order of lwip.reset(), failed and repeated eth_start: the      *)
(* port's own code never makes the second lwip_init, which would end the   *)
(* program; only a lwip.reset() made when the loopback interface is there  *)
(* already does.  While the program runs, lwip_init ran at most once ("a   *)
(* second would re-init the heap"), an active interface has the loopback   *)
(* interface beside it, a driver, and the poll hook that pumps frames; and *)
(* every pbuf of the pump was given to lwIP or freed when the pump is back.*)
(***************************************************************************)
InterfaceSound ==
    /\ ended # "eth_start"
    /\ ended = "no" => inits <= 1
    /\ active => poll_hook /\ "lo" \in netif_list /\ (int_num # 0 \/ sim)
    /\ eth_pc # "input" => pbufs.held = 0
=============================================================================
