------------------------------- MODULE Clock --------------------------------
(***************************************************************************)
(* What is timed by the BIOS tick counter: the busy-wait delays of         *)
(* port/mphal_uc386dos.c and, through sys_now of port/lwip_uc386dos.c, the *)
(* timers of lwIP, polled from MICROPY_PY_LWIP_POLL_HOOK.                  *)
(*                                                                         *)
(* The counter holds ticks since midnight: the BIOS sets it to 0 there.    *)
(* A delay polls it many times per tick, so that no value is missed.       *)
(***************************************************************************)
EXTENDS Integers

CONSTANTS
    DayTicks,       \* ticks in a day (0x1800B0)
    BIOS_TICK_MS,   \* milliseconds in a tick (55)
    Width,          \* 2^32
    UsPerMs,        \* microseconds in a millisecond (1000)
    Delays,         \* arguments of mp_hal_delay_ms
    MicroDelays,    \* arguments of mp_hal_delay_us
    Interval        \* period of a cyclic lwIP timer in ms

ASSUME ClockAssumption ==
    /\ DayTicks \in Nat \ {0} /\ BIOS_TICK_MS \in Nat \ {0}
    /\ Width \in Nat /\ Width > 2 * (DayTicks * BIOS_TICK_MS)
    /\ UsPerMs \in Nat \ {0}
    /\ Delays \subseteq 0..(Width - 1) /\ MicroDelays \subseteq 0..(Width - 1)
    /\ Interval \in Nat \ {0}

VARIABLES
    tick,           \* BIOS tick counter
    polled,         \* the waiting loop has seen this value
    delay_pc,       \* "idle", "wait" (in mp_hal_delay_ms) or "over"
    ms,             \* its argument
    start,          \* its local start
    ticks_to_wait,
    past,           \* history: ticks since the delay began
    crossed,        \* history: midnight has passed since then
    due,            \* when the lwIP timer expires next
    fired           \* flips when it does

delay == <<delay_pc, ms, start, ticks_to_wait>>
clockvars == <<tick, polled, delay, past, crossed, due, fired>>

sys_now == (tick * BIOS_TICK_MS) % Width

ClockInit ==
    /\ tick \in 0..(DayTicks - 1)
    /\ polled = FALSE /\ delay_pc = "idle"
    /\ ms = 0 /\ start = 0 /\ ticks_to_wait = 0
    /\ past = 0 /\ crossed = FALSE
    /\ due = (sys_now + Interval) % Width
    /\ fired = FALSE

(* External: IRQ 0, 18.2 times a second. *)
Tick ==
    /\ delay_pc = "wait" => polled
    /\ tick' = (tick + 1) % DayTicks
    /\ polled' = FALSE
    /\ past' = IF delay_pc = "wait" /\ past <= DayTicks THEN past + 1 ELSE past
    /\ crossed' = IF delay_pc = "wait" THEN crossed \/ tick' = 0 ELSE crossed
    /\ UNCHANGED <<delay, due, fired>>

(* Fault form: milliseconds to ticks without rounding up. *)
TicksForDown(m) == m \div BIOS_TICK_MS

(* Milliseconds to ticks, rounding up, at least one. *)
TicksFor(m) ==
    LET t == ((m + BIOS_TICK_MS - 1) % Width) \div BIOS_TICK_MS
    IN  IF t = 0 THEN 1 ELSE t

DelayBegin(m) ==
    /\ delay_pc = "idle" /\ m # 0
    /\ delay_pc' = "wait" /\ ms' = m
    /\ ticks_to_wait' = TicksFor(m)
    /\ start' = tick
    /\ past' = 0 /\ crossed' = FALSE /\ polled' = FALSE
    /\ UNCHANGED <<tick, due, fired>>

(* mp_hal_delay_us rounds up to milliseconds. *)
DelayUsBegin(us) ==
    /\ us # 0
    /\ DelayBegin(((us + UsPerMs - 1) % Width) \div UsPerMs)

(* Fault form: the test by the value to reach. *)
WaitedEnoughByTarget == tick >= start + ticks_to_wait

(* The loop's test, in unsigned arithmetic. *)
WaitedEnough == (tick - start) % Width >= ticks_to_wait

DelayPoll ==
    /\ delay_pc = "wait" /\ ~polled
    /\ \/ ~WaitedEnough /\ polled' = TRUE /\ UNCHANGED delay_pc
       \/ WaitedEnough /\ delay_pc' = "over" /\ UNCHANGED polled
    /\ UNCHANGED <<tick, ms, start, ticks_to_wait, past, crossed, due, fired>>

DelayReturn ==
    /\ delay_pc = "over"
    /\ delay_pc' = "idle"
    /\ ms' = 0 /\ start' = 0 /\ ticks_to_wait' = 0
    /\ past' = 0 /\ crossed' = FALSE /\ polled' = FALSE
    /\ UNCHANGED <<tick, due, fired>>

(* lwIP (external): sys_check_timeouts, run by the poll hook.  A cyclic timer
   is armed again from the time it was due, or from now when that has passed. *)
TimeLess(t, u) == (t - u) % Width > Width \div 2 - 1

CheckTimeouts ==
    /\ delay_pc = "idle"
    /\ ~TimeLess(sys_now, due)
    /\ LET next == (due + Interval) % Width
       IN  due' = IF TimeLess(next, sys_now)
                  THEN (sys_now + Interval) % Width ELSE next
    /\ fired' = ~fired
    /\ UNCHANGED <<tick, polled, delay, past, crossed>>

ClockNext ==
    \/ Tick
    \/ \E m \in Delays : DelayBegin(m)
    \/ \E us \in MicroDelays : DelayUsBegin(us)
    \/ DelayPoll \/ DelayReturn
    \/ CheckTimeouts

(* The tick is hardware, a busy loop goes on, and a program that waits for the
   network calls the poll hook again and again. *)
ClockFairness ==
    /\ WF_clockvars(Tick)
    /\ WF_clockvars(DelayPoll) /\ WF_clockvars(DelayReturn)
    /\ SF_clockvars(CheckTimeouts)

ClockSpec == ClockInit /\ [][ClockNext]_clockvars /\ ClockFairness

-----------------------------------------------------------------------------
(* Properties *)

(* The rounding is upwards. *)
TicksCoverTime == ms + BIOS_TICK_MS <= Width => ticks_to_wait * BIOS_TICK_MS >= ms

(* mp_hal_delay_ms returns when the counter has advanced by the ticks that
   cover the time asked for, not before and not after; only a delay that lasts
   through midnight may be shorter, and none is longer.  Its ticks cover the
   time unless rounding it up overflows the word. *)
DelayExact ==
    delay_pc = "over" =>
        /\ past <= ticks_to_wait
        /\ ~crossed => past = ticks_to_wait
        /\ TicksCoverTime

(* A delay of less than a day ends, also when the counter is set back to 0
   during it. *)
DelayEnds == delay_pc = "wait" ~> delay_pc = "over"

(* The timers of lwIP keep expiring: "lwIP's timeouts only need monotonic ms"
   (sys_now). *)
TimersKeepFiring == []<>(fired) /\ []<>(~fired)
=============================================================================
