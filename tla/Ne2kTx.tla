------------------------------- MODULE Ne2kTx -------------------------------
(***************************************************************************)
(* The transmit side of the protected-mode NE2000 driver in                *)
(* port/pktdrv_uc386dos.c: ne2k_send_direct with its two wait loops, and   *)
(* the save and restore of the command register around the CURR read of    *)
(* ne2k_poll_rx, which shares that register.  The NIC (external) transmits *)
(* on its own and may finish between any two register accesses.            *)
(***************************************************************************)
EXTENDS Integers, Sequences, FiniteSets

CONSTANTS
    Jobs,        \* frames the stack sends; each once
    TooLong,     \* those longer than 1518 bytes
    MaxSpin,     \* bound of the wait for PTX or TXE
    MaxAir,      \* bound: transmissions the NIC completes before it is stuck
    NoJob        \* content of the transmit page before the first send

ASSUME TxAssumption ==
    /\ IsFiniteSet(Jobs)
    /\ TooLong \subseteq Jobs
    /\ MaxSpin \in Nat \ {0} /\ MaxAir \in Nat
    /\ NoJob \notin Jobs

VARIABLES
    txp,         \* TXP bit of CR: a transmission is in progress
    isr,         \* outcome bits set in ISR
    tx_page,     \* content of the transmit page
    left,        \* frames the stack has still to send
    tx_pc,          \* driver program point
    job,         \* frame of the current ne2k_send_direct call
    spin, seen,  \* locals spin and isr
    saved_txp,   \* TXP bit of local saved_cr in ne2k_poll_rx
    result,      \* result[j]: what the send of j returned
    air,         \* history: completed transmissions, [job, ok]
    begun,       \* history: the frames whose send wrote CR, in that order
    settled      \* history: the sends that returned before any timed out

drv == <<left, tx_pc, job, spin, seen, saved_txp, result>>
hist == <<begun, settled>>
txvars == <<txp, isr, tx_page, drv, air, hist>>

TxInit ==
    /\ txp = FALSE /\ isr = {}
    /\ tx_page = NoJob
    /\ left = Jobs /\ tx_pc = "idle" /\ job = NoJob /\ spin = 0 /\ seen = {}
    /\ saved_txp = FALSE
    /\ result = [j \in Jobs |-> "none"]
    /\ air = <<>> /\ begun = <<>> /\ settled = {}

(***************************************************************************)
(* External: the transmission in progress ends, well or after too many     *)
(* collisions; the chip clears TXP and latches the outcome in ISR.         *)
(***************************************************************************)
NicDone ==
    /\ txp /\ Len(air) < MaxAir
    /\ txp' = FALSE
    /\ \E bit \in {"PTX", "TXE"} :
          /\ isr' = isr \cup {bit}
          /\ air' = Append(air, [job |-> tx_page, ok |-> bit = "PTX"])
    /\ UNCHANGED <<tx_page, drv, hist>>

-----------------------------------------------------------------------------
(* ne2k_send_direct *)

(* No send has timed out so far. *)
Clean == \A j \in Jobs : result[j] # "timeout"

Result(j, r) ==
    /\ result' = [result EXCEPT ![j] = r]
    /\ settled' = IF Clean /\ r # "timeout" THEN settled \cup {j} ELSE settled

Return(r) == Result(job, r) /\ tx_pc' = "idle"

SendCall(j) ==
    /\ tx_pc = "idle" /\ j \in left
    /\ left' = left \ {j}
    /\ job' = j
    /\ IF j \in TooLong
       THEN Result(j, "fail") /\ UNCHANGED tx_pc
       ELSE tx_pc' = "wait" /\ UNCHANGED <<result, settled>>
    /\ UNCHANGED <<txp, isr, tx_page, spin, seen, saved_txp, air, begun>>

(* Fault form: the loop is not there. *)
SendWaitSkipped ==
    /\ tx_pc = "wait"
    /\ tx_pc' = "dma"
    /\ UNCHANGED <<txp, isr, tx_page, left, job, spin, seen, saved_txp,
                   result, air, hist>>

(* The wait for TXP to clear has no bound: it ends only when TXP is clear. *)
SendWait ==
    /\ tx_pc = "wait" /\ ~txp
    /\ tx_pc' = "dma"
    /\ UNCHANGED <<txp, isr, tx_page, left, job, spin, seen, saved_txp,
                   result, air, hist>>

(* TXP is still set: another round of that loop. *)
SendWaitSpin ==
    /\ tx_pc = "wait" /\ txp
    /\ UNCHANGED txvars

(* The frame is copied into the transmit page. *)
SendDma ==
    /\ tx_pc = "dma"
    /\ tx_page' = job
    /\ tx_pc' = "start"
    /\ UNCHANGED <<txp, isr, left, job, spin, seen, saved_txp, result, air,
                   hist>>

(* Byte count, then CR = 0x26: TXP is set.  PTX and TXE are left alone. *)
SendStart ==
    /\ tx_pc = "start"
    /\ txp' = TRUE
    /\ spin' = MaxSpin
    /\ tx_pc' = "poll"
    /\ begun' = Append(begun, job)
    /\ UNCHANGED <<isr, tx_page, left, job, seen, saved_txp, result, air,
                   settled>>

(* ISR shows an outcome. *)
SendSeen ==
    /\ tx_pc = "poll" /\ spin > 0 /\ isr # {}
    /\ seen' = isr
    /\ tx_pc' = "ack"
    /\ UNCHANGED <<txp, isr, tx_page, left, job, spin, saved_txp, result, air,
                   hist>>

(* Fault form: the write to ISR is not there. *)
SendAckNoWrite ==
    /\ tx_pc = "ack"
    /\ Return(IF "PTX" \in seen THEN "ok" ELSE "fail")
    /\ UNCHANGED <<txp, isr, tx_page, left, job, spin, seen, saved_txp, air,
                   begun>>

(* Acknowledge what was seen; PTX means success. *)
SendAck ==
    /\ tx_pc = "ack"
    /\ isr' = isr \ seen
    /\ Return(IF "PTX" \in seen THEN "ok" ELSE "fail")
    /\ UNCHANGED <<txp, tx_page, left, job, spin, seen, saved_txp, air, begun>>

(* Nothing yet: one more round of the loop. *)
SendSpin ==
    /\ tx_pc = "poll" /\ spin > 0 /\ isr = {}
    /\ spin' = spin - 1
    /\ UNCHANGED <<txp, isr, tx_page, left, tx_pc, job, seen, saved_txp,
                   result, air, hist>>

(* The loop ran out: -1, with the transmission still going on. *)
SendTimeout ==
    /\ tx_pc = "poll" /\ spin = 0
    /\ Return("timeout")
    /\ UNCHANGED <<txp, isr, tx_page, left, job, spin, seen, saved_txp, air,
                   begun>>

-----------------------------------------------------------------------------
(* ne2k_poll_rx, as far as it touches CR *)

PollSaveCr ==
    /\ tx_pc = "idle"
    /\ saved_txp' = txp
    /\ tx_pc' = "page1"
    /\ UNCHANGED <<txp, isr, tx_page, left, job, spin, seen, result, air,
                   hist>>

(***************************************************************************)
(* CR = saved_cr | 0x02.  A saved TXP bit starts a transmission of what    *)
(* the transmit page holds; writing the bit as 0 does not stop one.        *)
(***************************************************************************)
PollRestoreCr ==
    /\ tx_pc = "page1"
    /\ txp' = (txp \/ saved_txp)
    /\ tx_pc' = "idle"
    /\ UNCHANGED <<isr, tx_page, left, job, spin, seen, saved_txp, result, air,
                   hist>>

-----------------------------------------------------------------------------
Send == \/ SendWait \/ SendWaitSpin \/ SendDma \/ SendStart
        \/ SendSeen \/ SendAck \/ SendSpin \/ SendTimeout

TxPoll == PollSaveCr \/ PollRestoreCr

TxNext == \/ NicDone
        \/ \E j \in Jobs : SendCall(j)
        \/ Send \/ TxPoll

TxSpec == TxInit /\ [][TxNext]_txvars

-----------------------------------------------------------------------------
(* Properties *)

(***************************************************************************)
(* The transmit page never changes under a transmission in progress, not   *)
(* even after a send that gave up waiting for the outcome of its own.      *)
(***************************************************************************)
PageStable == [][txp => tx_page' = tx_page]_txvars

(* Frame j went out at most once. *)
AtMostOnAir(j) ==
    \A k, l \in 1..Len(air) : air[k].job = j /\ air[l].job = j => k = l

(* Frame j went out without an error. *)
SentOk(j) == \E k \in 1..Len(air) : air[k] = [job |-> j, ok |-> TRUE]

(***************************************************************************)
(* A send that returned before any send timed out told the truth, and its  *)
(* frame stays on the air once for ever after, although sends that time    *)
(* out later leave transmissions running and polls then write the TXP bit  *)
(* back.                                                                   *)
(***************************************************************************)
SettledExact ==
    \A j \in settled :
        AtMostOnAir(j) /\ (result[j] = "ok" <=> SentOk(j))

(***************************************************************************)
(* Each success reported is a transmission that succeeded: a PTX left over *)
(* from a send that timed out is taken for that of a later send, but no    *)
(* PTX serves two sends.                                                   *)
(***************************************************************************)
SuccessesCovered ==
    Cardinality({j \in Jobs : result[j] = "ok"})
        <= Cardinality({k \in 1..Len(air) : air[k].ok})

(* Frame b comes directly after frame a in s. *)
Follows(s, a, b) == \E p \in 1..(Len(s) - 1) : s[p] = a /\ s[p + 1] = b

(***************************************************************************)
(* The frames go out in the order of their sends and none is skipped.  The *)
(* poll's write of a saved TXP bit can repeat a frame, but only the last   *)
(* one begun: never an older frame after a newer one.                      *)
(***************************************************************************)
AirInOrder ==
    /\ air # <<>> => begun # <<>> /\ air[1].job = begun[1]
    /\ \A k \in 1..(Len(air) - 1) :
          \/ air[k + 1].job = air[k].job
          \/ Follows(begun, air[k].job, air[k + 1].job)
    /\ begun # <<>> /\ ~txp =>
          air # <<>> /\ air[Len(air)].job = begun[Len(begun)]

(***************************************************************************)
(* What ne2k_send_direct reports and what goes out, over sends that time   *)
(* out and polls that write back a CR read while the transmitter ran.      *)
(***************************************************************************)
SendsExact == SettledExact /\ SuccessesCovered /\ AirInOrder
=============================================================================
