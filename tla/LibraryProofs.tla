--------------------------- MODULE LibraryProofs ---------------------------
(***************************************************************************)
(* Proofs about the parts of the port that run to completion inside one    *)
(* Python call: the delays of Clock for every length of the day and width  *)
(* of the word, and the members of Libraries for every set of files, every *)
(* file content and buffer size, every range of years, every counter,      *)
(* every way to cut a cipher stream into calls, every number.  The         *)
(* functions on texts are in TextProofs.                                   *)
(*                                                                         *)
(* Each part has an invariant of its own, kept by its own steps and        *)
(* untouched by the others.  Facts about all numbers (the calendar's days, *)
(* the loop of mktemp, the carries of a counter, the value of a sequence   *)
(* of bytes) rest on LeastNumber, SetInduction and RecursionExists.        *)
(***************************************************************************)
EXTENDS Libraries, Clock, SequenceTheorems, FiniteSetTheorems,
        WellFoundedInduction, NaturalsInduction, TLAPS

(* Every set of natural numbers that is not empty has a least member.  This
   stands in for induction: a fact about all numbers holds because there is no
   least number it fails for. *)
LEMMA LeastNumber ==
    ASSUME NEW T \in SUBSET Nat, T # {}
    PROVE  \E n \in T : \A m \in T : n <= m
<1> DEFINE R == OpToRel(<, Nat)
<1>1. IsWellFoundedOn(R, Nat)
  BY NatLessThanWellFounded
<1>2. \A x, y \in Nat : <<x, y>> \in R <=> x < y
  BY DEF OpToRel
<1> HIDE DEF R
<1>3. PICK x \in T : \A y \in T : ~(<<y, x>> \in R)
  BY <1>1, WFMin
<1>4. \A y \in T : x <= y
  <2>1. \A y \in T : ~(y < x)
    BY <1>2, <1>3
  <2>2. \A p, q \in Nat : ~(q < p) => p <= q
    OBVIOUS
  <2> QED
    BY <2>1, <2>2
<1> QED
  BY <1>4

(* Induction, over a set in place of a formula. *)
LEMMA SetInduction ==
    ASSUME NEW T, 0 \in T, \A n \in Nat : n \in T => n + 1 \in T
    PROVE  \A n \in Nat : n \in T
<1> DEFINE Out == {n \in Nat : n \notin T}
<1> SUFFICES ASSUME Out # {} PROVE FALSE
  OBVIOUS
<1>1. PICK n \in Out : \A m \in Out : n <= m
  <2>1. Out \in SUBSET Nat
    OBVIOUS
  <2> HIDE DEF Out
  <2> QED
    BY <2>1, LeastNumber
<1>2. n # 0 /\ n \in Nat /\ n \notin T
  BY <1>1
<1>3. n - 1 \in Nat /\ n - 1 + 1 = n /\ ~(n <= n - 1)
  BY <1>2
<1>4. n - 1 \in T
  BY <1>1, <1>3
<1> QED
  BY <1>2, <1>3, <1>4

Recurs(g, a, F, n) == g[0] = a /\ \A k \in 1..n : g[k] = F[k][g[k - 1]]

(* A value that is computed step by step, step k by the function F[k], exists. *)
LEMMA RecursionExists ==
    ASSUME NEW S, NEW a \in S, NEW F \in [Nat -> [S -> S]], NEW n \in Nat
    PROVE  \E g \in [0..n -> S] : Recurs(g, a, F, n)
<1> DEFINE T == {m \in Nat : \E g \in [0..m -> S] : Recurs(g, a, F, m)}
<1>1. 0 \in T
  <2> DEFINE g == [i \in 0..0 |-> a]
  <2>1. g \in [0..0 -> S] /\ g[0] = a /\ 1..0 = {}
    OBVIOUS
  <2> HIDE DEF g
  <2> QED
    BY <2>1 DEF Recurs
<1>2. ASSUME NEW m \in Nat, m \in T PROVE m + 1 \in T
  <2>1. PICK g \in [0..m -> S] : Recurs(g, a, F, m)
    BY <1>2
  <2> DEFINE h == [i \in 0..(m + 1) |-> IF i = m + 1 THEN F[m + 1][g[m]] ELSE g[i]]
  <2>2. h \in [0..(m + 1) -> S]
    OBVIOUS
  <2>3. h[0] = a
    BY <2>1 DEF Recurs
  <2>4. ASSUME NEW k \in 1..(m + 1) PROVE h[k] = F[k][h[k - 1]]
    <3>1. k - 1 \in 0..(m + 1) /\ k - 1 # m + 1 /\ k \in 0..(m + 1) /\ k - 1 \in Nat
      OBVIOUS
    <3>2. h[k - 1] = g[k - 1]
      BY <3>1
    <3>3. CASE k = m + 1
      <4>1. k - 1 = m /\ h[k] = F[m + 1][g[m]]
        BY <3>1, <3>3
      <4> QED
        BY <3>2, <3>3, <4>1
    <3>4. CASE k # m + 1
      <4>1. k \in 1..m /\ h[k] = g[k]
        BY <3>1, <3>4
      <4>2. g[k] = F[k][g[k - 1]]
        BY <2>1, <4>1 DEF Recurs
      <4> QED
        BY <3>2, <4>1, <4>2
    <3> QED
      BY <3>3, <3>4
  <2> HIDE DEF h
  <2> QED
    BY <2>2, <2>3, <2>4 DEF Recurs
<1>3. \A m \in Nat : m \in T
  <2> HIDE DEF T
  <2> QED
    BY <1>1, <1>2, SetInduction
<1> QED
  BY <1>3


(* Two runs that take the same steps from the same start. *)
SameSteps(f, g, M) ==
    f[0] = g[0] /\ \A n \in 1..M : f[n - 1] = g[n - 1] => f[n] = g[n]

LEMMA RunsEqual ==
    ASSUME NEW M \in Nat, NEW f, NEW g, SameSteps(f, g, M)
    PROVE  \A n \in 0..M : f[n] = g[n]
<1> DEFINE T == {n \in Nat : n <= M => f[n] = g[n]}
<1>1. 0 \in T
  BY DEF SameSteps
<1>2. ASSUME NEW n \in Nat, n \in T PROVE n + 1 \in T
  <2> SUFFICES ASSUME n + 1 <= M PROVE f[n + 1] = g[n + 1]
    OBVIOUS
  <2> DEFINE k == n + 1
  <2>1. k \in 1..M /\ k - 1 = n /\ n <= M
    OBVIOUS
  <2>2. f[n] = g[n]
    BY <1>2, <2>1
  <2> HIDE DEF k
  <2>3. f[k] = g[k]
    BY <2>1, <2>2 DEF SameSteps
  <2> QED
    BY <2>3 DEF k
<1>3. \A n \in Nat : n \in T
  <2> HIDE DEF T
  <2> QED
    BY <1>1, <1>2, SetInduction
<1> QED
  BY <1>3

(* Concatenation is associative. *)
Grouped(a, b, c) == a \o (b \o c) = (a \o b) \o c

LEMMA ConcatGrouped ==
    ASSUME NEW S, NEW a \in Seq(S), NEW b \in Seq(S), NEW c \in Seq(S)
    PROVE  Grouped(a, b, c)
<1>1. (a \o b) \o c = a \o (b \o c)
  BY ConcatAssociative
<1> QED
  BY <1>1 DEF Grouped

-----------------------------------------------------------------------------
(* Delays *)

(* The delay that is running: start and the ticks since then give the counter
   until midnight; after it the delay was due to last until midnight at least,
   and goes on only from the first tick of the day or for more than a day. *)
Waiting ==
    /\ start \in 0..(DayTicks - 1)
    /\ ticks_to_wait \in Nat \ {0}
    /\ past \in 0..(DayTicks + 1)
    /\ TicksCoverTime

BeforeMidnight ==
    /\ tick = start + past
    /\ past <= ticks_to_wait
    /\ polled => past < ticks_to_wait

AfterMidnight ==
    /\ ticks_to_wait + start >= DayTicks
    /\ \/ ~polled /\ tick = 0 /\ past = DayTicks - start
       \/ start = 0
       \/ ticks_to_wait >= DayTicks + 2

ClockInv ==
    /\ tick \in 0..(DayTicks - 1) /\ ms \in 0..(Width - 1)
    /\ delay_pc \in {"idle", "wait", "over"}
    /\ delay_pc # "idle" => Waiting
    /\ delay_pc = "wait" => IF crossed THEN AfterMidnight ELSE BeforeMidnight
    /\ DelayExact

(* The word is wider than two days. *)
LEMMA WidthPositive == Width \in Nat \ {0} /\ Width > 2 * DayTicks
<1>1. \A d, b \in Nat \ {0} : d * b \in Nat /\ d * b >= d
  OBVIOUS
<1>2. DayTicks * BIOS_TICK_MS \in Nat /\ DayTicks * BIOS_TICK_MS >= DayTicks
  BY <1>1, ClockAssumption
<1> QED
  BY <1>2, ClockAssumption

(* Rounded up, the ticks cover the time asked for, unless the sum overflows. *)
LEMMA TicksForCovers ==
    ASSUME NEW m \in 0..(Width - 1)
    PROVE  /\ TicksFor(m) \in Nat \ {0}
           /\ m + BIOS_TICK_MS <= Width => TicksFor(m) * BIOS_TICK_MS >= m
<1> DEFINE a == (m + BIOS_TICK_MS - 1) % Width
           t == a \div BIOS_TICK_MS
<1>1. BIOS_TICK_MS \in Nat \ {0} /\ Width \in Nat \ {0}
  BY ClockAssumption, WidthPositive
<1>2. a \in Nat /\ (m + BIOS_TICK_MS <= Width => a = m + BIOS_TICK_MS - 1)
  <2>1. \A k \in Nat, w \in Nat \ {0} : k % w \in Nat /\ (k < w => k % w = k)
    OBVIOUS
  <2> QED
    BY <1>1, <2>1
<1> HIDE DEF a
<1>3. /\ t \in Nat
      /\ a = BIOS_TICK_MS * t + (a % BIOS_TICK_MS)
      /\ a % BIOS_TICK_MS \in 0..(BIOS_TICK_MS - 1)
  <2>1. \A k \in Nat, w \in Nat \ {0} : /\ k \div w \in Nat
                                        /\ k = w * (k \div w) + (k % w)
                                        /\ k % w \in 0..(w - 1)
    OBVIOUS
  <2> QED
    BY <1>1, <1>2, <2>1
<1>4. TicksFor(m) = IF t = 0 THEN 1 ELSE t
  BY DEF TicksFor, a
<1> HIDE DEF t
<1>5. BIOS_TICK_MS * t = t * BIOS_TICK_MS
  BY <1>1, <1>3
<1>6. ASSUME m + BIOS_TICK_MS <= Width, t # 0 PROVE t * BIOS_TICK_MS >= m
  BY <1>1, <1>2, <1>3, <1>5, <1>6
<1>7. ASSUME m + BIOS_TICK_MS <= Width, t = 0 PROVE 1 * BIOS_TICK_MS >= m
  BY <1>1, <1>2, <1>3, <1>7
<1> QED
  BY <1>1, <1>3, <1>4, <1>6, <1>7

(* Nothing else sets the time asked for or the ticks. *)
LEMMA CoverKept ==
    ASSUME TicksCoverTime, UNCHANGED <<ms, ticks_to_wait>> PROVE TicksCoverTime'
  BY DEF TicksCoverTime

(* Init establishes the invariant. *)
LEMMA ClockInitInv == ClockInit => ClockInv
  BY ClockAssumption, WidthPositive DEF ClockInit, ClockInv, DelayExact

(* The delay in milliseconds begins with a bound that covers it. *)
LEMMA DelayBeginStep ==
    ASSUME ClockInv, NEW m \in 0..(Width - 1), DelayBegin(m) PROVE ClockInv'
<1>1. ticks_to_wait' \in Nat \ {0} /\ TicksCoverTime'
  BY TicksForCovers DEF DelayBegin, TicksCoverTime
<1> QED
  BY <1>1, ClockAssumption DEF ClockInv, DelayBegin, Waiting, BeforeMidnight, DelayExact

(* So does the delay in microseconds, rounded up to milliseconds. *)
LEMMA DelayUsBeginStep ==
    ASSUME ClockInv, NEW us \in 0..(Width - 1), DelayUsBegin(us) PROVE ClockInv'
<1> DEFINE a == (us + UsPerMs - 1) % Width
           m == a \div UsPerMs
<1>1. \A k \in Nat, w \in Nat \ {0} : k % w \in 0..(w - 1)
  OBVIOUS
<1>2. \A k \in Nat, w \in Nat \ {0} : k \div w \in 0..k
  <2>1. \A k \in Nat, w \in Nat \ {0} : w * k >= k
    OBVIOUS
  <2>2. \A k \in Nat, w \in Nat \ {0} : k \div w \in Nat /\ k >= w * (k \div w)
    OBVIOUS
  <2>3. \A k \in Nat, w \in Nat \ {0} : k \div w \in Nat => w * (k \div w) >= k \div w
    BY <2>1
  <2>4. \A x \in Nat, k \in Nat, z \in Nat : k >= z /\ z >= x => x \in 0..k
    OBVIOUS
  <2>5. \A k \in Nat, w \in Nat \ {0} : w * (k \div w) \in Nat
    BY <2>2
  <2> QED
    BY <2>2, <2>3, <2>4, <2>5
<1>3. Width \in Nat \ {0} /\ UsPerMs \in Nat \ {0}
  BY ClockAssumption, WidthPositive
<1>4. a \in 0..(Width - 1)
  BY <1>1, <1>3
<1> HIDE DEF a
<1>5. m \in 0..a
  BY <1>2, <1>3, <1>4
<1>6. m \in 0..(Width - 1)
  BY <1>3, <1>4, <1>5
<1>7. DelayBegin(m)
  BY DEF DelayUsBegin, a
<1> HIDE DEF m
<1> QED
  BY <1>6, <1>7, DelayBeginStep

(* The tick: at the last one of the day the counter goes to 0. *)
LEMMA TickStep == ASSUME ClockInv, Tick PROVE ClockInv'
<1>1. /\ tick' \in 0..(DayTicks - 1)
      /\ tick' = IF tick = DayTicks - 1 THEN 0 ELSE tick + 1
  <2>1. \A d \in Nat \ {0} : \A k \in 0..(d - 1) :
            (k + 1) % d = IF k = d - 1 THEN 0 ELSE k + 1
    OBVIOUS
  <2>2. tick' = IF tick = DayTicks - 1 THEN 0 ELSE tick + 1
    BY <2>1, ClockAssumption DEF ClockInv, Tick
  <2> QED
    BY <2>2, ClockAssumption DEF ClockInv
<1>2. CASE delay_pc # "wait"
  BY <1>1, <1>2, CoverKept DEF ClockInv, Tick, delay, Waiting, DelayExact
<1>3. CASE delay_pc = "wait"
  <2>1. Waiting'
    BY <1>3, CoverKept, ClockAssumption DEF ClockInv, Tick, delay, Waiting
  <2>2. CASE ~crossed
    <3>1. tick = start + past /\ past < ticks_to_wait /\ past <= DayTicks
      BY <1>3, <2>2, ClockAssumption DEF ClockInv, Tick, delay, Waiting, BeforeMidnight
    <3>2. past' = past + 1 /\ (crossed' <=> tick' = 0) /\ ~polled'
      BY <1>3, <2>2, <3>1 DEF Tick
    <3>3. CASE tick = DayTicks - 1
      BY <1>1, <1>3, <2>1, <2>2, <3>1, <3>2, <3>3, ClockAssumption
      DEF ClockInv, Tick, delay, Waiting, AfterMidnight, DelayExact
    <3>4. CASE tick # DayTicks - 1
      BY <1>1, <1>3, <2>1, <2>2, <3>1, <3>2, <3>4, ClockAssumption
      DEF ClockInv, Tick, delay, Waiting, BeforeMidnight, DelayExact
    <3> QED
      BY <3>3, <3>4
  <2>3. CASE crossed
    BY <1>1, <1>3, <2>1, <2>3, ClockAssumption
    DEF ClockInv, Tick, delay, Waiting, AfterMidnight, DelayExact
  <2> QED
    BY <2>2, <2>3 DEF ClockInv
<1> QED
  BY <1>2, <1>3

(* The loop's test: the unsigned difference is that of the counters until
   midnight, and from then on larger than any day. *)
LEMMA DelayPollStep == ASSUME ClockInv, DelayPoll PROVE ClockInv'
<1>1. delay_pc = "wait" /\ Waiting /\ ~polled
  BY DEF ClockInv, DelayPoll
<1>2. Width \in Nat /\ DayTicks \in Nat /\ Width > 2 * DayTicks
  BY ClockAssumption, WidthPositive
<1>3. (tick - start) % Width = IF tick >= start THEN tick - start ELSE tick - start + Width
  <2>1. \A w \in Nat \ {0} : \A k \in (1 - w)..(w - 1) :
            k % w = IF k >= 0 THEN k ELSE k + w
    OBVIOUS
  <2>2. tick - start \in (1 - Width)..(Width - 1) /\ Width \in Nat \ {0}
    BY <1>1, <1>2 DEF ClockInv, Waiting
  <2>3. tick - start >= 0 <=> tick >= start
    BY <1>1, <1>2 DEF ClockInv, Waiting
  <2> QED
    BY <2>1, <2>2, <2>3
<1>4. CASE ~WaitedEnough
  BY <1>1, <1>2, <1>3, <1>4, CoverKept
  DEF ClockInv, DelayPoll, WaitedEnough, Waiting, BeforeMidnight, AfterMidnight, DelayExact
<1>5. CASE WaitedEnough
  <2>1. delay_pc' = "over" /\ Waiting'
    BY <1>1, <1>5, CoverKept DEF DelayPoll, Waiting
  <2>2. past <= ticks_to_wait /\ (~crossed => past = ticks_to_wait)
    BY <1>1, <1>2, <1>3, <1>5
    DEF ClockInv, WaitedEnough, Waiting, BeforeMidnight, AfterMidnight
  <2> QED
    BY <1>1, <2>1, <2>2, <1>5 DEF ClockInv, DelayPoll, Waiting, DelayExact
<1> QED
  BY <1>4, <1>5

(* Every step keeps the invariant. *)
LEMMA ClockNextInv == ClockInv /\ [ClockNext]_clockvars => ClockInv'
<1> SUFFICES ASSUME ClockInv, [ClockNext]_clockvars PROVE ClockInv'
  OBVIOUS
<1>1. CASE Tick
  BY <1>1, TickStep
<1>2. ASSUME NEW m \in Delays, DelayBegin(m) PROVE ClockInv'
  BY <1>2, DelayBeginStep, ClockAssumption
<1>3. ASSUME NEW us \in MicroDelays, DelayUsBegin(us) PROVE ClockInv'
  BY <1>3, DelayUsBeginStep, ClockAssumption
<1>4. CASE DelayPoll
  BY <1>4, DelayPollStep
<1>5. CASE DelayReturn
  BY <1>5, WidthPositive DEF ClockInv, DelayReturn, DelayExact
<1>6. CASE CheckTimeouts \/ UNCHANGED clockvars
  BY <1>6, CoverKept DEF ClockInv, CheckTimeouts, clockvars, delay, Waiting, BeforeMidnight,
              AfterMidnight, DelayExact
<1> QED
  BY <1>1, <1>2, <1>3, <1>4, <1>5, <1>6 DEF ClockNext

(* mp_hal_delay_ms and mp_hal_delay_us wait for exactly the ticks that cover
   the time asked for, less only when midnight sets the BIOS counter back and
   never more, for every delay that fits the word, a day of any length and every
   moment the delay begins at. *)
THEOREM DelaysExact == ClockSpec => []DelayExact
<1>1. ClockInv => DelayExact
  BY DEF ClockInv
<1> QED
  BY <1>1, ClockInitInv, ClockNextInv, PTL DEF ClockSpec

-----------------------------------------------------------------------------
(* The key calls of the crypto backend *)

(* What the Ed25519 and Curve25519 calls hand to libssh2. *)
Handed == {"ctx", "sig", "method", "blob", "priv", "pub"}

KeyInv == NothingLeaks /\ owned \subseteq Handed

(* A call whose failing branches free all it got so far, and that hands out all
   it got and did not free, leaks nothing. *)
LEMMA CallExact ==
    ASSUME NEW steps, NEW done, NEW out, KeyInv, Call(steps, done, out),
           Len(steps) \in Nat, out \subseteq Handed, done \cap Handed = {},
           \A i \in 1..Len(steps) : steps[i].frees \cap owned = {},
           \A i, j \in 1..Len(steps) : i < j => steps[i].gets \subseteq steps[j].frees,
           \A i \in 1..Len(steps) : steps[i].gets \subseteq out \cup done,
           \A x \in out : \E i \in 1..Len(steps) : x \in steps[i].gets
    PROVE  KeyInv'
<1> DEFINE Got(n) == UNION {steps[i].gets : i \in 1..n}
<1>1. \A n \in Nat : \A x : x \in Got(n) <=> \E i \in 1..n : x \in steps[i].gets
  OBVIOUS
<1> HIDE DEF Got
<1>2. PICK n \in 0..Len(steps) :
          IF n < Len(steps)
          THEN heap' = (heap \cup Got(n)) \ steps[n + 1].frees /\ UNCHANGED owned
          ELSE heap' = (heap \cup Got(n)) \ done /\ owned' = owned \cup out
  BY DEF Call, Got
<1>3. heap = owned /\ owned \subseteq Handed
  BY DEF KeyInv, NothingLeaks
<1>4. CASE n < Len(steps)
  <2>1. n + 1 \in 1..Len(steps) /\ n \in Nat /\ \A i \in 1..n : i \in 1..Len(steps) /\ i < n + 1
    BY <1>4
  <2>2. Got(n) \subseteq steps[n + 1].frees
    BY <1>1, <2>1
  <2>3. steps[n + 1].frees \cap owned = {}
    BY <2>1
  <2>4. heap' = owned /\ owned' = owned
    BY <1>2, <1>3, <1>4, <2>2, <2>3
  <2> QED
    BY <1>3, <2>4 DEF KeyInv, NothingLeaks
<1>5. CASE n = Len(steps)
  <2>1. n \in Nat /\ ~(n < Len(steps))
    BY <1>5
  <2>2. Got(n) \subseteq out \cup done /\ out \subseteq Got(n)
    BY <1>1, <1>5, <2>1
  <2>3. heap' = (heap \cup Got(n)) \ done /\ owned' = owned \cup out
    BY <1>2, <2>1
  <2>4. heap' = owned'
    BY <1>3, <2>2, <2>3
  <2> QED
    BY <1>3, <2>3, <2>4 DEF KeyInv, NothingLeaks
<1> QED
  BY <1>4, <1>5

(* The calls of the backend, one by one. *)
LEMMA NewPublicStep == ASSUME KeyInv, ed25519_new_public PROVE KeyInv'
<1> DEFINE steps == <<Step({}, {}), Step({"ctx"}, {})>>
<1>1. Call(steps, {}, {"ctx"})
  BY DEF ed25519_new_public
<1>2. /\ Len(steps) = 2 /\ 1..Len(steps) = {1, 2}
      /\ steps[1] = [gets |-> {}, frees |-> {}]
      /\ steps[2] = [gets |-> {"ctx"}, frees |-> {}]
  BY DEF Step
<1> HIDE DEF steps
<1>3. /\ steps[1].gets = {} /\ steps[1].frees = {}
      /\ steps[2].gets = {"ctx"} /\ steps[2].frees = {}
  BY <1>2
<1> QED
  BY <1>1, <1>2, <1>3, CallExact DEF Handed

LEMMA VerifyStep == ASSUME KeyInv, ed25519_verify PROVE KeyInv'
<1> DEFINE steps == <<Step({}, {}), Step({"sm"}, {}), Step({"out"}, {"sm"})>>
<1>1. Call(steps, {"sm", "out"}, {})
  BY DEF ed25519_verify
<1>2. /\ Len(steps) = 3 /\ 1..Len(steps) = {1, 2, 3}
      /\ steps[1] = [gets |-> {}, frees |-> {}]
      /\ steps[2] = [gets |-> {"sm"}, frees |-> {}]
      /\ steps[3] = [gets |-> {"out"}, frees |-> {"sm"}]
  BY DEF Step
<1> HIDE DEF steps
<1>3. /\ steps[1].gets = {} /\ steps[1].frees = {}
      /\ steps[2].gets = {"sm"} /\ steps[2].frees = {}
      /\ steps[3].gets = {"out"} /\ steps[3].frees = {"sm"}
  BY <1>2
<1>4. "sm" \notin owned
  BY DEF KeyInv, Handed
<1> QED
  BY <1>1, <1>2, <1>3, <1>4, CallExact DEF Handed

LEMMA SignStep == ASSUME KeyInv, ed25519_sign PROVE KeyInv'
<1> DEFINE steps == <<Step({}, {}), Step({"sm"}, {}), Step({}, {"sm"}), Step({"sig"}, {"sm"})>>
<1>1. Call(steps, {"sm"}, {"sig"})
  BY DEF ed25519_sign
<1>2. /\ Len(steps) = 4 /\ 1..Len(steps) = {1, 2, 3, 4}
      /\ steps[1] = [gets |-> {}, frees |-> {}]
      /\ steps[2] = [gets |-> {"sm"}, frees |-> {}]
      /\ steps[3] = [gets |-> {}, frees |-> {"sm"}]
      /\ steps[4] = [gets |-> {"sig"}, frees |-> {"sm"}]
  BY DEF Step
<1> HIDE DEF steps
<1>3. /\ steps[1].gets = {} /\ steps[1].frees = {}
      /\ steps[2].gets = {"sm"} /\ steps[2].frees = {}
      /\ steps[3].gets = {} /\ steps[3].frees = {"sm"}
      /\ steps[4].gets = {"sig"} /\ steps[4].frees = {"sm"}
  BY <1>2
<1>4. "sm" \notin owned
  BY DEF KeyInv, Handed
<1> QED
  BY <1>1, <1>2, <1>3, <1>4, CallExact DEF Handed

(* The steps of a call that begins by reading a key in PEM format. *)
LEMMA ParseFirst ==
    ASSUME NEW S, NEW rest \in Seq(S)
    PROVE  LET steps == ed25519_parse_priv \o rest
           IN  /\ Len(steps) = 4 + Len(rest)
               /\ steps[1].gets = {"text"} /\ steps[1].frees = {}
               /\ \A i \in 2..4 : steps[i].gets = {} /\ steps[i].frees = {"text"}
               /\ \A i \in 1..Len(rest) : steps[4 + i] = rest[i]
<1> DEFINE a == Step({"text"}, {})
           b == Step({}, {"text"})
           p == <<a, b, b, b>>
           R == S \cup {a, b}
           steps == p \o rest
<1>1. a.gets = {"text"} /\ a.frees = {} /\ b.gets = {} /\ b.frees = {"text"}
  BY DEF Step
<1> HIDE DEF a, b
<1>2. p \in Seq(R) /\ Len(p) = 4 /\ p[1] = a /\ p[2] = b /\ p[3] = b /\ p[4] = b
  OBVIOUS
<1>3. ed25519_parse_priv = p
  BY DEF ed25519_parse_priv, a, b
<1>4. rest \in Seq(R) /\ Len(rest) \in Nat
  OBVIOUS
<1> HIDE DEF p, R
<1>5. /\ Len(steps) = Len(p) + Len(rest)
      /\ \A i \in 1..(Len(p) + Len(rest)) :
            steps[i] = IF i <= Len(p) THEN p[i] ELSE rest[i - Len(p)]
  BY <1>2, <1>4, ConcatProperties
<1> HIDE DEF steps
<1>6. \A i \in 1..4 : steps[i] = p[i]
  BY <1>2, <1>4, <1>5
<1>7. \A i \in 1..Len(rest) : steps[4 + i] = rest[i]
  BY <1>2, <1>4, <1>5
<1>8. steps[1] = a /\ steps[2] = b /\ steps[3] = b /\ steps[4] = b
  BY <1>2, <1>6
<1>9. \A i \in 2..4 : i \in {2, 3, 4}
  OBVIOUS
<1>10. \A i \in 2..4 : steps[i].gets = {} /\ steps[i].frees = {"text"}
  BY <1>1, <1>8, <1>9
<1> QED
  BY <1>1, <1>2, <1>3, <1>4, <1>5, <1>7, <1>8, <1>10 DEF steps

LEMMA NewPrivateStep == ASSUME KeyInv, ed25519_new_private_frommemory PROVE KeyInv'
<1> DEFINE c == Step({"ctx"}, {"text"})
           rest == <<c>>
           steps == ed25519_parse_priv \o rest
<1>1. Call(steps, {"text"}, {"ctx"})
  BY DEF ed25519_new_private_frommemory
<1>2. c.gets = {"ctx"} /\ c.frees = {"text"}
  BY DEF Step
<1> HIDE DEF c
<1>3. rest \in Seq({c}) /\ Len(rest) = 1 /\ rest[1] = c
  OBVIOUS
<1> HIDE DEF rest
<1>4. /\ Len(steps) = 4 + Len(rest)
      /\ steps[1].gets = {"text"} /\ steps[1].frees = {}
      /\ \A i \in 2..4 : steps[i].gets = {} /\ steps[i].frees = {"text"}
      /\ \A i \in 1..Len(rest) : steps[4 + i] = rest[i]
  BY <1>3, ParseFirst
<1> HIDE DEF steps
<1>5. Len(steps) = 5 /\ steps[5].gets = {"ctx"} /\ steps[5].frees = {"text"}
  <2>1. 1 \in 1..Len(rest) /\ 4 + 1 = 5 /\ Len(steps) = 5
    BY <1>3, <1>4
  <2>2. steps[5] = c
    BY <1>3, <1>4, <2>1
  <2> QED
    BY <1>2, <2>1, <2>2
<1>6. \A i \in 1..5 : i = 1 \/ i \in 2..4 \/ i = 5
  OBVIOUS
<1>7. "text" \notin owned
  BY DEF KeyInv, Handed
<1>8. /\ \A i \in 1..5 : steps[i].frees \cap owned = {}
      /\ \A i \in 1..5 : steps[i].gets \subseteq {"ctx"} \cup {"text"}
  BY <1>4, <1>5, <1>6, <1>7
<1>9. \A i, j \in 1..5 : i < j => steps[i].gets \subseteq steps[j].frees
  <2>1. \A i, j \in 1..5 : i < j => i # 5 /\ j # 1
    OBVIOUS
  <2> QED
    BY <1>4, <1>5, <1>6, <2>1
<1>10. \A x \in {"ctx"} : \E i \in 1..Len(steps) : x \in steps[i].gets
  BY <1>5
<1> QED
  BY <1>1, <1>5, <1>8, <1>9, <1>10, CallExact DEF Handed

LEMMA KeyfileStep == ASSUME KeyInv, pub_priv_keyfilememory PROVE KeyInv'
<1> DEFINE c == Step({"method"}, {"text"})
           d == Step({"blob"}, {"method", "text"})
           rest == <<c, d>>
           steps == ed25519_parse_priv \o rest
<1>1. Call(steps, {"text"}, {"method", "blob"}) /\ "method" \notin owned
  BY DEF pub_priv_keyfilememory
<1>2. /\ c.gets = {"method"} /\ c.frees = {"text"}
      /\ d.gets = {"blob"} /\ d.frees = {"method", "text"}
  BY DEF Step
<1> HIDE DEF c, d
<1>3. rest \in Seq({c, d}) /\ Len(rest) = 2 /\ rest[1] = c /\ rest[2] = d
  OBVIOUS
<1> HIDE DEF rest
<1>4. /\ Len(steps) = 4 + Len(rest)
      /\ steps[1].gets = {"text"} /\ steps[1].frees = {}
      /\ \A i \in 2..4 : steps[i].gets = {} /\ steps[i].frees = {"text"}
      /\ \A i \in 1..Len(rest) : steps[4 + i] = rest[i]
  BY <1>3, ParseFirst
<1> HIDE DEF steps
<1>5. /\ Len(steps) = 6
      /\ steps[5].gets = {"method"} /\ steps[5].frees = {"text"}
      /\ steps[6].gets = {"blob"} /\ steps[6].frees = {"method", "text"}
  <2>1. 1 \in 1..Len(rest) /\ 2 \in 1..Len(rest) /\ 4 + 1 = 5 /\ 4 + 2 = 6 /\ Len(steps) = 6
    BY <1>3, <1>4
  <2>2. steps[5] = c /\ steps[6] = d
    BY <1>3, <1>4, <2>1
  <2> QED
    BY <1>2, <2>1, <2>2
<1>6. \A i \in 1..6 : i = 1 \/ i \in 2..4 \/ i = 5 \/ i = 6
  OBVIOUS
<1>7. "text" \notin owned
  BY DEF KeyInv, Handed
<1>8. /\ \A i \in 1..6 : steps[i].frees \cap owned = {}
      /\ \A i \in 1..6 : steps[i].gets \subseteq {"method", "blob"} \cup {"text"}
  BY <1>1, <1>4, <1>5, <1>6, <1>7
<1>9. \A i, j \in 1..6 : i < j => steps[i].gets \subseteq steps[j].frees
  <2>1. \A i, j \in 1..6 : i < j => i # 6 /\ j # 1 /\ (i = 5 => j = 6)
    OBVIOUS
  <2> QED
    BY <1>4, <1>5, <1>6, <2>1
<1>10. \A x \in {"method", "blob"} : \E i \in 1..Len(steps) : x \in steps[i].gets
  BY <1>5
<1>11. Len(steps) \in Nat /\ 1..Len(steps) = 1..6
  BY <1>5
<1> DEFINE out == {"method", "blob"}
           done == {"text"}
<1>12. out \subseteq Handed /\ done \cap Handed = {}
  BY DEF Handed
<1>13. /\ Call(steps, done, out)
       /\ \A i \in 1..6 : steps[i].gets \subseteq out \cup done
       /\ \A x \in out : \E i \in 1..Len(steps) : x \in steps[i].gets
  BY <1>1, <1>8, <1>10
<1> HIDE DEF out, done
<1> QED
  BY <1>8, <1>9, <1>11, <1>12, <1>13, CallExact

LEMMA CurveStep == ASSUME KeyInv, curve25519_new PROVE KeyInv'
<1>1. PICK a, b \in BOOLEAN :
          LET live == (IF a THEN {"priv"} ELSE {}) \cup (IF b THEN {"pub"} ELSE {})
          IN  IF a /\ b
              THEN heap' = heap \cup live /\ owned' = owned \cup live
              ELSE heap' = (heap \cup live) \ live /\ UNCHANGED owned
  BY DEF curve25519_new
<1>2. heap = owned /\ owned \subseteq Handed /\ "priv" \notin owned /\ "pub" \notin owned
  BY DEF KeyInv, NothingLeaks, curve25519_new
<1>3. heap' = owned' /\ owned' \subseteq Handed
  BY <1>1, <1>2 DEF Handed
<1> QED
  BY <1>3 DEF KeyInv, NothingLeaks

LEMMA FreeStep == ASSUME KeyInv, ed25519_free \/ LibsshFree PROVE KeyInv'
  BY DEF KeyInv, NothingLeaks, ed25519_free, LibsshFree

LEMMA KeyCallStep == ASSUME KeyInv, KeyCall PROVE KeyInv'
  BY NewPublicStep, VerifyStep, SignStep, NewPrivateStep, KeyfileStep, CurveStep, FreeStep
  DEF KeyCall

(* Every step keeps the invariant. *)
LEMMA KeyNextInv == KeyInv /\ [LNext]_lvars => KeyInv'
<1> SUFFICES ASSUME KeyInv, [LNext]_lvars PROVE KeyInv'
  OBVIOUS
<1>1. CASE KeyCall
  BY <1>1, KeyCallStep
<1>2. CASE UNCHANGED heapvars
  BY <1>2 DEF KeyInv, NothingLeaks, heapvars
<1>3. KeyCall \/ UNCHANGED heapvars
  BY DEF LNext, lvars, cvars, CallFunction, UseFiles, UseCrypto, KexNext, CipherNext,
         bn_init, bn_free, bn_set_word, bn_load, curve25519_gen_k, cipher_init, Encrypt, Decrypt
<1> QED
  BY <1>1, <1>2, <1>3

(* Whatever allocation or test of an Ed25519 or Curve25519 entry point fails, in
   whatever order libssh2 calls them, nothing stays allocated that libssh2 does
   not hold, and nothing it holds was freed. *)
THEOREM BackendLeaksNothing == LSpec => []NothingLeaks
<1>1. LInit => KeyInv
  BY DEF LInit, CryptoInit, KeyInv, NothingLeaks
<1>2. KeyInv => NothingLeaks
  BY DEF KeyInv
<1> QED
  BY <1>1, <1>2, KeyNextInv, PTL DEF LSpec

-----------------------------------------------------------------------------
(* copyfile and move *)

Calls == [op : {"copy", "move"}, src : Files, dst : Files, before : [Files -> Seq(Int)]]

(* What each call of copyfile and move between two different files knows: from
   the truncation on, what is in the destination and what is in the buffer are
   together the bytes read so far. *)
CopyFacts(was) ==
    /\ disk[call.src] = was \/ (call.op = "move" /\ pc = "ok")
    /\ pc = "ok" => disk[call.dst] = was /\ was # NoFile
    /\ pc = "ok" /\ call.op = "move" => disk[call.src] = NoFile
    /\ \A f \in Files \ {call.src, call.dst} : disk[f] = call.before[f]
    /\ pc \in {"open_dst", "read", "write", "close", "unlink"} => was # NoFile
    /\ pc \in {"read", "write"} =>
          pos <= Len(was) /\ disk[call.dst] \o buf = SubSeq(was, 1, pos)
    /\ pc \in {"close", "unlink"} => disk[call.dst] = was

CopyInv ==
    /\ disk \in [Files -> Seq(Int)]
    /\ pos \in Nat /\ buf \in Seq(Int)
    /\ pc \in {"idle", "rename", "open_src", "open_dst", "read", "write", "close",
               "unlink", "ok", "raised"}
    /\ pc \in {"rename", "open_src", "open_dst", "read"} => buf = <<>>
    /\ pc \in {"rename", "open_src", "open_dst"} => pos = 0
    /\ call = [op |-> "none"] \/ call \in Calls
    /\ pc # "idle" => call \in Calls
    /\ pc \in {"rename", "unlink"} => call.op = "move"
    /\ call \in Calls /\ call.src # call.dst => CopyFacts(call.before[call.src])

(* The fields of a call. *)
LEMMA CallFields ==
    ASSUME NEW c \in Calls
    PROVE  /\ c.op \in {"copy", "move"} /\ c.src \in Files /\ c.dst \in Files
           /\ c.before \in [Files -> Seq(Int)] /\ c.before[c.src] \in Seq(Int)
  BY DEF Calls

(* No file has no bytes in it. *)
LEMMA NoFileType == NoFile \in Seq(Int)
  BY DEF NoFile

(* A part of a sequence and what is left of it. *)
LEMMA PartialParts ==
    ASSUME NEW s \in Seq(Int), NEW t \in Partial(s)
    PROVE  /\ t \in Seq(Int) /\ Len(t) \in 1..Len(s)
           /\ t = SubSeq(s, 1, Len(t))
           /\ SubSeq(s, Len(t) + 1, Len(s)) \in Seq(Int)
           /\ t \o SubSeq(s, Len(t) + 1, Len(s)) = s
<1>1. PICK n \in 1..Len(s) : t = SubSeq(s, 1, n)
  BY DEF Partial
<1>2. Len(s) \in Nat /\ \A i \in 1..Len(s) : s[i] \in Int
  BY LenProperties, ElementOfSeq
<1>3. t \in Seq(Int) /\ Len(t) = n
  BY <1>1, <1>2, SubSeqProperties
<1>4. SubSeq(s, n + 1, Len(s)) \in Seq(Int)
  BY <1>2, SubSeqProperties
<1>5. SubSeq(s, 1, n) \o SubSeq(s, n + 1, Len(s)) = SubSeq(s, 1, Len(s))
  BY <1>2, ConcatAdjacentSubSeq
<1>6. SubSeq(s, 1, Len(s)) = s
  BY SubSeqFull
<1> QED
  BY <1>1, <1>3, <1>4, <1>5, <1>6

(* The next part of a file after its first p bytes. *)
LEMMA NextChunk ==
    ASSUME NEW w \in Seq(Int), NEW p \in Nat, p <= Len(w),
           NEW t \in Partial(SubSeq(w, p + 1, Len(w)))
    PROVE  /\ t \in Seq(Int) /\ p + Len(t) \in Nat /\ p + Len(t) <= Len(w)
           /\ SubSeq(w, 1, p) \o t = SubSeq(w, 1, p + Len(t))
<1> DEFINE r == SubSeq(w, p + 1, Len(w))
<1>1. Len(w) \in Nat /\ \A i \in 1..Len(w) : w[i] \in Int
  BY LenProperties, ElementOfSeq
<1>2. r \in Seq(Int) /\ Len(r) = Len(w) - p
  BY <1>1, SubSeqProperties
<1> HIDE DEF r
<1>3. t \in Seq(Int) /\ Len(t) \in 1..Len(r) /\ t = SubSeq(r, 1, Len(t))
  BY <1>2, PartialParts DEF r
<1> DEFINE n == Len(w)
           k == Len(t)
<1>4. /\ n \in Int /\ k \in Int /\ 1 <= k /\ k <= n - p /\ k <= Len(r)
      /\ n - (p + 1) + 1 = n - p
  <2>1. n \in Int /\ k \in Int /\ Len(r) = n - p
    BY <1>1, <1>2, <1>3, LenProperties
  <2>2. 1 <= k /\ k <= Len(r)
    BY <1>3
  <2> QED
    BY <2>1, <2>2
<1> HIDE DEF n, k
<1>5. /\ 1 <= p + 1 /\ p + 1 <= n /\ 1 <= n /\ k >= 0 /\ 1 <= n - p
      /\ p <= p + k /\ p + k <= n /\ 0 <= p /\ p <= n
  BY <1>4
<1>6. p + 1 \in 1..Len(w) /\ Len(w) \in 1..Len(w) /\ Len(t) \in Nat
  BY <1>4, <1>5 DEF n, k
<1>7. 1 \in 1..(Len(w) - (p + 1) + 1) /\ Len(t) \in 1..(Len(w) - (p + 1) + 1)
  BY <1>4, <1>5 DEF n, k
<1>8. SubSeq(r, 1, Len(t)) = SubSeq(w, p + 1 + 1 - 1, p + 1 + Len(t) - 1)
  BY <1>6, <1>7, SubSeqOfSubSeq DEF r
<1>9. p + 1 + 1 - 1 = p + 1 /\ p + 1 + Len(t) - 1 = p + Len(t)
  BY <1>6
<1>10. t = SubSeq(w, p + 1, p + Len(t))
  BY <1>3, <1>8, <1>9
<1>11. p + Len(t) \in p..Len(w) /\ p \in 0..Len(w) /\ 1 \in 1..(Len(w) + 1) /\ p \in (1 - 1)..Len(w)
  BY <1>4, <1>5 DEF n, k
<1>12. SubSeq(w, 1, p) \o SubSeq(w, p + 1, p + Len(t)) = SubSeq(w, 1, p + Len(t))
  BY <1>11, ConcatAdjacentSubSeq
<1>13. p + Len(t) \in Nat /\ p + Len(t) <= Len(w)
  BY <1>4, <1>5 DEF n, k
<1> QED
  BY <1>3, <1>10, <1>12, <1>13

(* Init establishes the invariant, whatever files there are. *)
LEMMA CopyInitInv == ToolsInit => CopyInv
<1> SUFFICES ASSUME ToolsInit PROVE CopyInv
  OBVIOUS
<1>1. Source \in Seq(Int)
  <2>1. 0..255 \subseteq Int
    OBVIOUS
  <2> QED
    BY <2>1, ToolsAssumption, SeqMonotonic
<1>2. disk \in [Files -> Seq(Int)]
  BY <1>1, NoFileType DEF ToolsInit
<1>3. call = [op |-> "none"] /\ call.op = "none"
  BY DEF ToolsInit
<1>4. call \notin Calls
  BY <1>3, CallFields
<1> QED
  BY <1>2, <1>3, <1>4, EmptySeq DEF ToolsInit, CopyInv

(* The steps of copyfile and move, one by one. *)
LEMMA BeginStep == ASSUME CopyInv, Begin PROVE CopyInv'
<1>1. PICK op \in {"copy", "move"}, src \in Files, dst \in Files :
          /\ call' = [op |-> op, src |-> src, dst |-> dst, before |-> disk]
          /\ pc' = IF op = "move" THEN "rename" ELSE "open_src"
  BY DEF Begin
<1>2. call' \in Calls
  BY <1>1 DEF Calls, CopyInv
<1>3. call'.op = op /\ call'.src = src /\ call'.dst = dst /\ call'.before = disk
  BY <1>1
<1>4. disk' = disk /\ pos' = 0 /\ buf' = <<>> /\ pc' \in {"rename", "open_src"}
  BY <1>1 DEF Begin
<1>5. pc' = "rename" => call'.op = "move"
  BY <1>1, <1>3
<1>6. CopyFacts(call.before[call.src])'
  BY <1>3, <1>4 DEF CopyFacts
<1> QED
  BY <1>2, <1>4, <1>5, <1>6, EmptySeq DEF CopyInv

(* What an action of a call may assume. *)
LEMMA Running ==
    ASSUME CopyInv, pc # "idle"
    PROVE  /\ call \in Calls /\ disk \in [Files -> Seq(Int)] /\ pos \in Nat /\ buf \in Seq(Int)
           /\ call.op \in {"copy", "move"} /\ call.src \in Files /\ call.dst \in Files
           /\ call.before[call.src] \in Seq(Int)
           /\ call.src # call.dst => CopyFacts(call.before[call.src])
  BY CallFields DEF CopyInv

(* The steps of copyfile and move, one by one. *)
LEMMA RenameStep == ASSUME CopyInv, Rename PROVE CopyInv'
<1> USE Running
<1>1. pc = "rename" /\ call.op = "move" /\ UNCHANGED <<call, pos, buf>>
  BY DEF CopyInv, Rename
<1>2. CASE /\ disk[call.src] # NoFile /\ disk[call.dst] = NoFile
           /\ disk' = [disk EXCEPT ![call.dst] = disk[call.src], ![call.src] = NoFile]
           /\ pc' = "ok"
  <2>1. disk' \in [Files -> Seq(Int)]
    BY <1>1, <1>2, NoFileType
  <2>2. ASSUME call.src # call.dst PROVE CopyFacts(call.before[call.src])'
    <3>1. /\ disk'[call.src] = NoFile /\ disk'[call.dst] = disk[call.src]
          /\ \A f \in Files \ {call.src, call.dst} : disk'[f] = disk[f]
      BY <1>1, <1>2, <2>2
    <3> QED
      BY <1>1, <1>2, <2>2, <3>1 DEF CopyFacts
  <2> QED
    BY <1>1, <1>2, <2>1, <2>2 DEF CopyInv
<1>3. CASE pc' = "open_src" /\ UNCHANGED disk
  BY <1>1, <1>3 DEF CopyInv, CopyFacts
<1> QED
  BY <1>2, <1>3 DEF Rename

LEMMA OpenSrcStep == ASSUME CopyInv, OpenSrc PROVE CopyInv'
<1> USE Running
<1>1. pc = "open_src" /\ UNCHANGED <<disk, call, pos, buf>> /\ pc' \in {"open_dst", "raised"}
  BY DEF OpenSrc
<1>2. pc' = "open_dst" => disk[call.src] # NoFile
  BY DEF OpenSrc
<1> QED
  BY <1>1, <1>2 DEF CopyInv, CopyFacts

LEMMA OpenDstStep == ASSUME CopyInv, OpenDst PROVE CopyInv'
<1> USE Running
<1>1. pc = "open_dst" /\ UNCHANGED <<call, pos, buf>> /\ pos = 0 /\ buf = <<>>
  BY DEF OpenDst, CopyInv
<1>2. CASE pc' = "read" /\ disk' = [disk EXCEPT ![call.dst] = <<>>]
  <2>1. disk' \in [Files -> Seq(Int)]
    BY <1>1, <1>2, EmptySeq
  <2>2. ASSUME call.src # call.dst PROVE CopyFacts(call.before[call.src])'
    <3>1. /\ disk'[call.src] = disk[call.src] /\ disk'[call.dst] = <<>>
          /\ \A f \in Files \ {call.src, call.dst} : disk'[f] = disk[f]
      BY <1>1, <1>2, <2>2
    <3>2. <<>> \o <<>> = <<>> /\ SubSeq(call.before[call.src], 1, 0) = <<>>
      BY SubSeqEmpty, ConcatEmptySeq, EmptySeq
    <3>3. 0 <= Len(call.before[call.src])
      BY <1>1, LenProperties
    <3> QED
      BY <1>1, <1>2, <2>2, <3>1, <3>2, <3>3 DEF CopyFacts
  <2> QED
    BY <1>1, <1>2, <2>1, <2>2 DEF CopyInv
<1>3. CASE pc' = "raised" /\ UNCHANGED disk
  BY <1>1, <1>3 DEF CopyInv, CopyFacts
<1> QED
  BY <1>2, <1>3 DEF OpenDst

LEMMA ReadStep == ASSUME CopyInv, Read PROVE CopyInv'
<1> USE Running
<1>1. pc = "read" /\ UNCHANGED <<disk, call>> /\ buf = <<>>
  BY DEF Read, CopyInv
<1> DEFINE rest == SubSeq(disk[call.src], pos + 1, Len(disk[call.src]))
<1>2. CASE pc' = "raised" /\ UNCHANGED <<pos, buf>>
  BY <1>1, <1>2 DEF CopyInv, CopyFacts
<1>3. CASE rest = <<>> /\ pc' = "close" /\ UNCHANGED <<pos, buf>>
  <2>1. ASSUME call.src # call.dst PROVE disk[call.dst] = call.before[call.src]
    <3> DEFINE w == call.before[call.src]
    <3>1. /\ w \in Seq(Int) /\ disk[call.src] = w /\ pos <= Len(w) /\ pos \in Nat
          /\ disk[call.dst] \o <<>> = SubSeq(w, 1, pos) /\ disk[call.dst] \in Seq(Int)
      BY <1>1, <2>1 DEF CopyFacts
    <3> HIDE DEF w
    <3>2. Len(w) \in Nat /\ \A i \in 1..Len(w) : w[i] \in Int
      BY <3>1, LenProperties, ElementOfSeq
    <3>3. Len(rest) = IF pos + 1 <= Len(w) THEN Len(w) - (pos + 1) + 1 ELSE 0
      BY <3>1, <3>2, SubSeqProperties
    <3>4. Len(rest) = 0
      BY <1>3, EmptySeq
    <3>5. pos = Len(w)
      BY <3>1, <3>2, <3>3, <3>4
    <3>6. SubSeq(w, 1, Len(w)) = w /\ disk[call.dst] \o <<>> = disk[call.dst]
      BY <3>1, SubSeqFull, ConcatEmptySeq
    <3> QED
      BY <3>1, <3>5, <3>6 DEF w
  <2> QED
    BY <1>1, <1>3, <2>1 DEF CopyInv, CopyFacts
<1>4. ASSUME NEW s \in Partial(rest), buf' = s, pos' = pos + Len(s), pc' = "write"
      PROVE  CopyInv'
  <2>1. s \in Seq(Int) /\ pos + Len(s) \in Nat
    <3>1. disk[call.src] \in Seq(Int) /\ Len(disk[call.src]) \in Nat
      BY <1>1, LenProperties
    <3>2. rest \in Seq(Int)
      <4>1. \A i \in (pos + 1)..Len(disk[call.src]) : disk[call.src][i] \in Int
        BY <1>1, <3>1, ElementOfSeq
      <4> QED
        BY <1>1, <3>1, <4>1, SubSeqProperties
    <3> HIDE DEF rest
    <3>3. s \in Seq(Int)
      BY <1>4, <3>2, PartialParts
    <3> QED
      BY <1>1, <3>3, LenProperties
  <2>2. ASSUME call.src # call.dst
        PROVE  /\ pos + Len(s) <= Len(call.before[call.src])
               /\ disk[call.dst] \o s = SubSeq(call.before[call.src], 1, pos + Len(s))
    <3> DEFINE w == call.before[call.src]
    <3>1. /\ w \in Seq(Int) /\ disk[call.src] = w /\ pos <= Len(w) /\ pos \in Nat
          /\ disk[call.dst] \o <<>> = SubSeq(w, 1, pos) /\ disk[call.dst] \in Seq(Int)
      BY <1>1, <2>2 DEF CopyFacts
    <3> HIDE DEF w
    <3>2. disk[call.dst] = SubSeq(w, 1, pos)
      BY <3>1, ConcatEmptySeq
    <3>3. s \in Partial(SubSeq(w, pos + 1, Len(w)))
      BY <1>4, <3>1
    <3>4. pos + Len(s) <= Len(w) /\ SubSeq(w, 1, pos) \o s = SubSeq(w, 1, pos + Len(s))
      BY <3>1, <3>3, NextChunk
    <3> QED
      BY <3>2, <3>4 DEF w
  <2> QED
    BY <1>1, <1>4, <2>1, <2>2 DEF CopyInv, CopyFacts
<1> QED
  BY <1>2, <1>3, <1>4 DEF Read, ReadFailed

LEMMA WriteStep == ASSUME CopyInv, Write PROVE CopyInv'
<1> USE Running
<1>1. pc = "write" /\ UNCHANGED <<call, pos>>
  BY DEF Write
<1>2. CASE pc' = "raised" /\ UNCHANGED <<disk, buf>>
  BY <1>1, <1>2 DEF CopyInv, CopyFacts
<1>3. ASSUME NEW s \in Partial(buf),
             disk' = [disk EXCEPT ![call.dst] = @ \o s],
             buf' = SubSeq(buf, Len(s) + 1, Len(buf)),
             pc' = IF buf' = <<>> THEN "read" ELSE "write"
      PROVE  CopyInv'
  <2>1. s \in Seq(Int) /\ buf' \in Seq(Int) /\ s \o buf' = buf
    BY <1>1, <1>3, PartialParts
  <2>2. disk[call.dst] \o s \in Seq(Int) /\ disk[call.dst] \in Seq(Int)
    BY <1>1, <2>1, ConcatProperties
  <2>3. disk' \in [Files -> Seq(Int)] /\ disk'[call.dst] = disk[call.dst] \o s
    BY <1>1, <1>3, <2>2
  <2>4. ASSUME call.src # call.dst PROVE CopyFacts(call.before[call.src])'
    <3>1. /\ disk'[call.src] = disk[call.src]
          /\ \A f \in Files \ {call.src, call.dst} : disk'[f] = disk[f]
      BY <1>1, <1>3, <2>4
    <3>2. disk'[call.dst] \o buf' = disk[call.dst] \o buf
      <4> DEFINE d == disk[call.dst]
                 b == buf'
      <4>1. d \in Seq(Int) /\ s \in Seq(Int) /\ b \in Seq(Int)
        BY <2>1, <2>2
      <4>2. (d \o s) \o b = d \o (s \o b)
        <5> DEFINE S == Int
        <5>1. d \in Seq(S) /\ s \in Seq(S) /\ b \in Seq(S)
          BY <4>1
        <5> HIDE DEF d, b, S
        <5>2. Grouped(d, s, b)
          BY <5>1, ConcatGrouped
        <5> QED
          BY <5>2 DEF Grouped
      <4> QED
        BY <2>1, <2>3, <4>2
    <3> QED
      BY <1>1, <1>3, <2>4, <3>1, <3>2 DEF CopyFacts
  <2> QED
    BY <1>1, <1>3, <2>1, <2>3, <2>4 DEF CopyInv
<1> QED
  BY <1>2, <1>3 DEF Write

LEMMA CloseStep == ASSUME CopyInv, Close PROVE CopyInv'
<1> USE Running
<1>1. pc = "close" /\ UNCHANGED <<disk, call, pos, buf>>
  BY DEF Close
<1>2. pc' = IF call.op = "move" THEN "unlink" ELSE "ok"
  BY DEF Close
<1> QED
  BY <1>1, <1>2 DEF CopyInv, CopyFacts

LEMMA UnlinkStep == ASSUME CopyInv, Unlink PROVE CopyInv'
<1> USE Running
<1>1. pc = "unlink" /\ call.op = "move" /\ UNCHANGED <<call, pos, buf>>
  BY DEF Unlink, CopyInv
<1>2. CASE pc' = "ok" /\ disk' = [disk EXCEPT ![call.src] = NoFile]
  <2>1. disk' \in [Files -> Seq(Int)]
    BY <1>1, <1>2, NoFileType
  <2>2. ASSUME call.src # call.dst PROVE CopyFacts(call.before[call.src])'
    <3>1. /\ disk'[call.src] = NoFile /\ disk'[call.dst] = disk[call.dst]
          /\ \A f \in Files \ {call.src, call.dst} : disk'[f] = disk[f]
      BY <1>1, <1>2, <2>2
    <3> QED
      BY <1>1, <1>2, <2>2, <3>1 DEF CopyFacts
  <2> QED
    BY <1>1, <1>2, <2>1, <2>2 DEF CopyInv
<1>3. CASE pc' = "raised" /\ UNCHANGED disk
  BY <1>1, <1>3 DEF CopyInv, CopyFacts
<1> QED
  BY <1>2, <1>3 DEF Unlink

(* Every step keeps the invariant. *)
LEMMA CopyNextInv == CopyInv /\ [LNext]_lvars => CopyInv'
<1> SUFFICES ASSUME CopyInv, [LNext]_lvars PROVE CopyInv'
  OBVIOUS
<1>1. CASE CopyNext
  BY <1>1, BeginStep, RenameStep, OpenSrcStep, OpenDstStep, ReadStep, WriteStep, CloseStep,
     UnlinkStep DEF CopyNext
<1>2. CASE UNCHANGED <<disk, pc, call, pos, buf>>
  BY <1>2 DEF CopyInv, CopyFacts
<1>3. CopyNext \/ UNCHANGED <<disk, pc, call, pos, buf>>
  BY DEF LNext, lvars, toolvars, CallFunction, UseFiles, UseCrypto, TempNext, mktemp, OthersFile
<1> QED
  BY <1>1, <1>2, <1>3

(* copyfile and move never lose a byte of the source, whatever DOS call fails at
   whatever moment and however short the reads and writes are, for every set of
   files, every contents and every size of the buffer. *)
THEOREM CopiesKeepData == LSpec => []CopyKeepsData
<1>1. LInit => CopyInv
  BY CopyInitInv DEF LInit
<1>2. CopyInv => CopyKeepsData
  <2>1. call = [op |-> "none"] => call.op = "none"
    OBVIOUS
  <2> QED
    BY <2>1, CallFields DEF CopyInv, CopyFacts, CopyKeepsData
<1> QED
  BY <1>1, <1>2, CopyNextInv, PTL DEF LSpec

-----------------------------------------------------------------------------
(* mktemp and its callers *)

(* The names given out carry the counters they were made from. *)
TempInv ==
    /\ tmp_counter \in Nat
    /\ given \in Seq([n : Nat, name : Int])
    /\ \A i \in DOMAIN given :
          given[i].n <= tmp_counter /\ given[i].name = TempName(given[i].n)

(* Two numbers that agree modulo b are at least b apart. *)
LEMMA ModGap ==
    ASSUME NEW a \in Nat, NEW c \in Nat, NEW b \in Nat \ {0}, a % b = c % b, a < c
    PROVE  c - a >= b
<1>1. /\ a = b * (a \div b) + (a % b) /\ c = b * (c \div b) + (c % b)
      /\ a \div b \in Nat /\ c \div b \in Nat /\ a % b \in Nat
  OBVIOUS
<1>2. c - a = b * (c \div b) - b * (a \div b)
  BY <1>1
<1>3. \A p, q \in Nat : p < q => b * q >= b * p + b
  <2> SUFFICES ASSUME NEW p \in Nat, NEW q \in Nat, p < q PROVE b * q >= b * p + b
    OBVIOUS
  <2>1. \A k \in Nat : k >= 1 => b * k >= b
    OBVIOUS
  <2>2. b * (q - p) >= b
    BY <2>1
  <2> QED
    BY <2>2
<1>4. CASE a \div b < c \div b
  BY <1>1, <1>2, <1>3, <1>4
<1>5. CASE a \div b = c \div b
  BY <1>1, <1>2, <1>5
<1>6. CASE a \div b > c \div b
  <2>1. b * (a \div b) >= b * (c \div b) + b
    BY <1>1, <1>3, <1>6
  <2> QED
    BY <1>1, <1>2, <2>1
<1> QED
  BY <1>1, <1>4, <1>5, <1>6

(* What mktemp does: it tries a number of names, and returns the last of them if
   no file has it. *)
LEMMA MktempOutcome ==
    ASSUME TempInv, mktemp
    PROVE  \/ tmp_counter' = tmp_counter + Attempts /\ UNCHANGED given
           \/ \E k \in 1..Attempts :
                 /\ tmp_counter' = tmp_counter + k
                 /\ TempName(tmp_counter + k) \notin taken
                 /\ given' = Append(given, [n |-> tmp_counter + k,
                                            name |-> TempName(tmp_counter + k)])
<1> DEFINE tried(k) == TempName(tmp_counter + k)
           free == {k \in 1..Attempts : tried(k) \notin taken}
           k0 == CHOOSE i \in free : \A j \in free : i <= j
<1>1. CASE free = {}
  BY <1>1 DEF mktemp, CounterAfter
<1>2. CASE free # {}
  <2>1. free \in SUBSET Nat
    BY ToolsAssumption
  <2>2. \E i \in free : \A j \in free : i <= j
    <3> HIDE DEF free
    <3> QED
      BY <1>2, <2>1, LeastNumber
  <2>3. k0 \in free
    <3> HIDE DEF free
    <3> QED
      BY <2>2
  <2>4. /\ tmp_counter' = tmp_counter + k0
        /\ given' = Append(given, [n |-> tmp_counter + k0, name |-> tried(k0)])
    BY <1>2 DEF mktemp, CounterAfter
  <2>5. k0 \in 1..Attempts /\ tried(k0) \notin taken
    BY <2>3
  <2> HIDE DEF k0
  <2> QED
    BY <2>4, <2>5
<1> QED
  BY <1>1, <1>2

(* The names given out are names. *)
LEMMA GivenType ==
    ASSUME TempInv
    PROVE  /\ Len(given) \in Nat /\ DOMAIN given = 1..Len(given)
           /\ \A i \in DOMAIN given : /\ given[i].n \in Nat /\ given[i].n <= tmp_counter
                                      /\ given[i].name = TempName(given[i].n)
<1> DEFINE R == [n : Nat, name : Int]
<1>1. given \in Seq(R)
  BY DEF TempInv
<1>2. \A e \in R : e.n \in Nat
  OBVIOUS
<1> HIDE DEF R
<1>3. Len(given) \in Nat /\ DOMAIN given = 1..Len(given) /\ \A i \in 1..Len(given) : given[i] \in R
  BY <1>1, LenProperties, ElementOfSeq
<1> QED
  BY <1>2, <1>3 DEF TempInv

(* mktemp tries names until one is free. *)
LEMMA MktempStep ==
    ASSUME TempInv, mktemp
    PROVE  /\ TempInv'
           /\ given' # given =>
                LET g == given'[Len(given')]
                IN  /\ g.name \notin taken
                    /\ \A i \in DOMAIN given :
                          g.n - given[i].n < TempNames => given[i].name # g.name
<1>1. TempNames \in Nat \ {0} /\ Attempts \in Nat \ {0} /\ tmp_counter \in Nat
  BY ToolsAssumption DEF TempInv
<1>2. CASE tmp_counter' = tmp_counter + Attempts /\ UNCHANGED given
  <2>1. \A k \in Nat : k <= tmp_counter => k <= tmp_counter + Attempts
    BY <1>1
  <2>2. tmp_counter' \in Nat
    BY <1>1, <1>2
  <2>3. \A i \in DOMAIN given : given[i].n <= tmp_counter'
    BY <1>2, <2>1, GivenType
  <2> QED
    BY <1>2, <2>2, <2>3, GivenType DEF TempInv, TempName
<1>3. ASSUME NEW k \in 1..Attempts,
             tmp_counter' = tmp_counter + k,
             TempName(tmp_counter + k) \notin taken,
             given' = Append(given, [n |-> tmp_counter + k, name |-> TempName(tmp_counter + k)])
      PROVE  /\ TempInv'
             /\ LET g == given'[Len(given')]
                IN  /\ g.name \notin taken
                    /\ \A i \in DOMAIN given :
                          g.n - given[i].n < TempNames => given[i].name # g.name
  <2> DEFINE R == [n : Nat, name : Int]
             c == tmp_counter + k
             e == [n |-> c, name |-> TempName(c)]
  <2>1. c \in Nat /\ c > tmp_counter /\ tmp_counter' = c
    BY <1>1, <1>3
  <2> HIDE DEF c
  <2>2. TempName(c) = c % TempNames /\ TempName(c) \in Int
    BY <1>1, <2>1 DEF TempName
  <2>3. e \in R /\ e.n = c /\ e.name = TempName(c)
    BY <2>1, <2>2
  <2>4. given' = Append(given, e) /\ TempName(c) \notin taken
    BY <1>3 DEF c
  <2> HIDE DEF e, R
  <2>5. given \in Seq(R) /\ Len(given) \in Nat /\ DOMAIN given = 1..Len(given)
    BY LenProperties DEF TempInv, R
  <2>6. /\ given' \in Seq(R) /\ Len(given') = Len(given) + 1
        /\ \A i \in 1..Len(given) : given'[i] = given[i]
        /\ given'[Len(given) + 1] = e
    BY <2>3, <2>4, <2>5, AppendProperties
  <2>7. DOMAIN given' = 1..(Len(given) + 1)
    BY <2>5, <2>6, LenProperties
  <2>8. \A i \in 1..(Len(given) + 1) : i \in 1..Len(given) \/ i = Len(given) + 1
    BY <2>5
  <2>9. \A i \in 1..Len(given) : /\ given[i].n \in Nat /\ given[i].n <= tmp_counter
                                 /\ given[i].name = TempName(given[i].n)
    BY <2>5, GivenType
  <2>10. \A i \in DOMAIN given' :
            given'[i].n <= tmp_counter' /\ given'[i].name = TempName(given'[i].n)
    <3>1. \A i \in 1..Len(given) : given[i].n <= c
      BY <1>1, <2>1, <2>9
    <3> QED
      BY <2>1, <2>3, <2>6, <2>7, <2>8, <2>9, <3>1
  <2>11. TempInv'
    BY <2>1, <2>6, <2>10 DEF TempInv, R
  <2>12. ASSUME NEW i \in DOMAIN given, c - given[i].n < TempNames
         PROVE  given[i].name # TempName(c)
    <3>1. given[i].n \in Nat /\ given[i].n < c /\ given[i].name = given[i].n % TempNames
      BY <1>1, <2>1, <2>5, <2>9, <2>12 DEF TempName
    <3> DEFINE a == given[i].n
    <3> HIDE DEF a
    <3>2. a \in Nat /\ a < c /\ c - a < TempNames
      BY <2>12, <3>1 DEF a
    <3>3. a % TempNames # c % TempNames
      <4>1. c - a >= TempNames => FALSE
        BY <1>1, <2>1, <3>2
      <4> QED
        BY <1>1, <2>1, <3>2, <4>1, ModGap
    <3> QED
      BY <2>2, <3>1, <3>3 DEF a
  <2> QED
    BY <2>3, <2>4, <2>6, <2>11, <2>12
<1> QED
  BY <1>2, <1>3, MktempOutcome

(* Every step keeps the invariant. *)
LEMMA TempNextInv == TempInv /\ [LNext]_lvars => TempInv'
<1>1. mktemp \/ UNCHANGED <<tmp_counter, given>> \/ ~[LNext]_lvars
  BY DEF LNext, lvars, toolvars, tempvars, CallFunction, UseFiles, UseCrypto, TempNext, OthersFile,
         CopyNext, Begin, Rename, OpenSrc, OpenDst, Read, Write, Close, Unlink
<1>2. ASSUME TempInv, UNCHANGED <<tmp_counter, given>> PROVE TempInv'
  BY <1>2 DEF TempInv
<1> QED
  BY <1>1, <1>2, MktempStep

(* mktemp never returns the name of an existing file, nor one it returned before
   until its counter has gone through all the digits of a name, whether the files
   were created meanwhile or not and however many names it tried. *)
THEOREM TempNamesAreFresh == LSpec => TempNamesFresh
<1> DEFINE Fresh == given' # given =>
                LET g == given'[Len(given')]
                IN  /\ g.name \notin taken
                    /\ \A i \in DOMAIN given :
                          g.n - given[i].n < TempNames => given[i].name # g.name
<1>1. LInit => TempInv
  BY EmptySeq DEF LInit, ToolsInit, TempInv
<1>2. TempInv /\ [LNext]_lvars => [Fresh]_toolvars
  <2>1. mktemp \/ UNCHANGED given \/ ~[LNext]_lvars
    BY DEF LNext, lvars, toolvars, tempvars, CallFunction, UseFiles, UseCrypto, TempNext, OthersFile,
           CopyNext, Begin, Rename, OpenSrc, OpenDst, Read, Write, Close, Unlink
  <2> QED
    BY <2>1, MktempStep
<1> QED
  BY <1>1, <1>2, TempNextInv, PTL DEF LSpec, TempNamesFresh

-----------------------------------------------------------------------------
(* The calendar *)

(* The date is a date, and its number is the count of the days. *)
CalendarInv ==
    /\ year \in FirstYear..LastYear /\ month \in 1..12
    /\ day \in 1..MonthDays(year, month)
    /\ DaysExact

(* The lengths of the months. *)
LEMMA MonthLengths ==
    ASSUME NEW y \in Int, 1970 <= y, y <= 2099, NEW m \in Int, 1 <= m, m <= 12
    PROVE  /\ MonthDays(y, m) \in Int /\ 28 <= MonthDays(y, m) /\ MonthDays(y, m) <= 31
           /\ m \in {1, 3, 5, 7, 8, 10, 12} => MonthDays(y, m) = 31
           /\ m \in {4, 6, 9, 11} => MonthDays(y, m) = 30
           /\ m = 2 => MonthDays(y, m) = IF IsLeap(y) THEN 29 ELSE 28
<1>1. m \in {1, 3, 5, 7, 8, 10, 12} \/ m \in {4, 6, 9, 11} \/ m = 2
  OBVIOUS
<1>2. CASE m = 2
  BY <1>2 DEF MonthDays
<1>3. CASE m \in {4, 6, 9, 11}
  BY <1>3 DEF MonthDays
<1>4. CASE m \in {1, 3, 5, 7, 8, 10, 12}
  BY <1>4 DEF MonthDays
<1> QED
  BY <1>1, <1>2, <1>3, <1>4

(* The number of the last day of February of the year before a year that begins
   in March. *)
MarchDays(y) ==
    (y \div 400) * 146097 + (y - (y \div 400) * 400) * 365
        + (y - (y \div 400) * 400) \div 4 - (y - (y \div 400) * 400) \div 100 - 719468

(* Days before month m in a year that begins in March. *)
MarchMonth(m) == (153 * (IF m > 2 THEN m - 3 ELSE m + 9) + 2) \div 5

LEMMA CivilIs ==
    ASSUME NEW y \in Int, 1970 <= y, y <= 2099,
           NEW m \in Int, 1 <= m, m <= 12,
           NEW d \in Int, 1 <= d, d <= 31
    PROVE  days_from_civil(y, m, d) = MarchDays(IF m <= 2 THEN y - 1 ELSE y) + MarchMonth(m) + d - 1
<1> DEFINE z == IF m <= 2 THEN y - 1 ELSE y
           era == z \div 400
           yoe == z - era * 400
           a == MarchMonth(m)
<1>1. z \in Int /\ era \in Int /\ yoe \in Int /\ yoe \div 4 \in Int /\ yoe \div 100 \in Int
  OBVIOUS
<1>2. a \in Int
  BY DEF MarchMonth
<1>3. days_from_civil(y, m, d) =
         era * 146097 + (yoe * 365 + yoe \div 4 - yoe \div 100 + (a + d - 1)) - 719468
  BY DEF days_from_civil, MarchMonth
<1>4. MarchDays(z) = era * 146097 + yoe * 365 + yoe \div 4 - yoe \div 100 - 719468
  BY DEF MarchDays
<1>5. MarchDays(IF m <= 2 THEN y - 1 ELSE y) = MarchDays(z) /\ MarchMonth(m) = a
  OBVIOUS
<1> HIDE DEF a, yoe, era, z
<1>6. \A e, q, h, p, x \in Int :
          e * 146097 + (q * 365 + h - p + (x + d - 1)) - 719468 =
             (e * 146097 + q * 365 + h - p - 719468) + x + d - 1
  OBVIOUS
<1> QED
  BY <1>1, <1>2, <1>3, <1>4, <1>5, <1>6

LEMMA MarchYear ==
    ASSUME NEW y \in Int, 1970 <= y, y <= 2099
    PROVE  MarchDays(y) = MarchDays(y - 1) + YearDays(y) /\ MarchDays(y) \in Int
<1>1. CASE y < 2000
  <2>1. y \div 400 = 4 /\ (y - 1) \div 400 = 4
    BY <1>1
  <2> QED
    BY <1>1, <2>1 DEF MarchDays, YearDays, IsLeap
<1>2. CASE y = 2000
  BY <1>2 DEF MarchDays, YearDays, IsLeap
<1>3. CASE y > 2000
  <2>1. y \div 400 = 5 /\ (y - 1) \div 400 = 5
    BY <1>3
  <2> QED
    BY <1>3, <2>1 DEF MarchDays, YearDays, IsLeap
<1> QED
  BY <1>1, <1>2, <1>3

LEMMA MarchMonths ==
    /\ MarchMonth(1) = 306 /\ MarchMonth(2) = 337 /\ MarchMonth(3) = 0 /\ MarchMonth(4) = 31
    /\ MarchMonth(5) = 61 /\ MarchMonth(6) = 92 /\ MarchMonth(7) = 122 /\ MarchMonth(8) = 153
    /\ MarchMonth(9) = 184 /\ MarchMonth(10) = 214 /\ MarchMonth(11) = 245 /\ MarchMonth(12) = 275
  BY DEF MarchMonth

LEMMA CivilType ==
    ASSUME NEW y \in Int, 1970 <= y, y <= 2099,
           NEW m \in Int, 1 <= m, m <= 12,
           NEW d \in Int, 1 <= d, d <= 31
    PROVE  /\ MarchDays(y) \in Int /\ MarchDays(y - 1) \in Int
           /\ days_from_civil(y, m, d) \in Int
<1>1. MarchDays(y) \in Int
  BY MarchYear
<1>2. MarchDays(y - 1) \in Int
  <2>1. \A z \in Int : z \div 400 \in Int /\ z \div 4 \in Int /\ z \div 100 \in Int
    OBVIOUS
  <2> DEFINE e == (y - 1) \div 400
             q == y - 1 - e * 400
  <2>2. e \in Int
    BY <2>1
  <2>3. MarchDays(y - 1) = e * 146097 + q * 365 + q \div 4 - q \div 100 - 719468
    BY DEF MarchDays
  <2> HIDE DEF e
  <2>4. q \in Int /\ q \div 4 \in Int /\ q \div 100 \in Int
    BY <2>1, <2>2
  <2> HIDE DEF q
  <2> QED
    BY <2>2, <2>3, <2>4
<1>3. MarchMonth(m) \in Int
  BY DEF MarchMonth
<1> QED
  BY <1>1, <1>2, <1>3, CivilIs

(* The day after a day has the next number. *)
LEMMA NextDayNumber ==
    ASSUME NEW y \in Int, 1970 <= y, y <= 2099,
           NEW m \in Int, 1 <= m, m <= 12,
           NEW d \in Int, 1 <= d, d <= MonthDays(y, m)
    PROVE  /\ d <= 31
           /\ d < MonthDays(y, m) =>
                 days_from_civil(y, m, d + 1) = days_from_civil(y, m, d) + 1
           /\ d = MonthDays(y, m) /\ m < 12 =>
                 days_from_civil(y, m + 1, 1) = days_from_civil(y, m, d) + 1
           /\ d = MonthDays(y, m) /\ m = 12 /\ y < 2099 =>
                 days_from_civil(y + 1, 1, 1) = days_from_civil(y, m, d) + 1
<1>1. MonthDays(y, m) \in Int /\ 28 <= MonthDays(y, m) /\ MonthDays(y, m) <= 31
  BY MonthLengths
<1>2. d <= 31
  BY <1>1
<1>3. MarchDays(y) \in Int /\ MarchDays(y - 1) \in Int /\ MarchMonth(m) \in Int
  BY <1>2, CivilType DEF MarchMonth
<1>4. days_from_civil(y, m, d) = MarchDays(IF m <= 2 THEN y - 1 ELSE y) + MarchMonth(m) + d - 1
  BY <1>2, CivilIs
<1>5. ASSUME d < MonthDays(y, m)
      PROVE  days_from_civil(y, m, d + 1) = days_from_civil(y, m, d) + 1
  <2>1. d + 1 \in Int /\ 1 <= d + 1 /\ d + 1 <= 31
    BY <1>1, <1>5
  <2>2. days_from_civil(y, m, d + 1) =
            MarchDays(IF m <= 2 THEN y - 1 ELSE y) + MarchMonth(m) + (d + 1) - 1
    BY <2>1, CivilIs
  <2> QED
    BY <1>2, <1>3, <1>4, <2>1, <2>2
<1>6. ASSUME d = MonthDays(y, m), m < 12
      PROVE  days_from_civil(y, m + 1, 1) = days_from_civil(y, m, d) + 1
  <2>1. m + 1 \in Int /\ 1 <= m + 1 /\ m + 1 <= 12
    BY <1>6
  <2>2. days_from_civil(y, m + 1, 1) =
            MarchDays(IF m + 1 <= 2 THEN y - 1 ELSE y) + MarchMonth(m + 1) + 1 - 1
    BY <2>1, CivilIs
  <2>3. CASE m = 2
    <3>1. d = IF IsLeap(y) THEN 29 ELSE 28
      BY <1>6, <2>3, MonthLengths
    <3>2. MarchDays(y) = MarchDays(y - 1) + (IF IsLeap(y) THEN 366 ELSE 365)
      BY MarchYear DEF YearDays
    <3>3. days_from_civil(y, m + 1, 1) = MarchDays(y)
      BY <1>3, <2>2, <2>3, MarchMonths
    <3>4. days_from_civil(y, m, d) = MarchDays(y - 1) + 337 + d - 1
      BY <1>4, <2>3, MarchMonths
    <3> QED
      BY <1>2, <1>3, <3>1, <3>2, <3>3, <3>4
  <2>4. CASE m # 2
    <3>1. m \in {1, 3, 4, 5, 6, 7, 8, 9, 10, 11}
      BY <1>6, <2>4
    <3>2. MarchMonth(m + 1) = MarchMonth(m) + d
      BY <1>6, <3>1, MarchMonths, MonthLengths
    <3>3. (IF m + 1 <= 2 THEN y - 1 ELSE y) = (IF m <= 2 THEN y - 1 ELSE y)
      BY <3>1
    <3> QED
      BY <1>2, <1>3, <1>4, <2>2, <3>2, <3>3
  <2> QED
    BY <2>3, <2>4
<1>7. ASSUME d = MonthDays(y, m), m = 12, y < 2099
      PROVE  days_from_civil(y + 1, 1, 1) = days_from_civil(y, m, d) + 1
  <2>1. y + 1 \in Int /\ 1970 <= y + 1 /\ y + 1 <= 2099 /\ y + 1 - 1 = y
    BY <1>7
  <2>2. days_from_civil(y + 1, 1, 1) = MarchDays(y) + 306 + 1 - 1
    BY <2>1, CivilIs, MarchMonths
  <2>3. days_from_civil(y, m, d) = MarchDays(y) + 275 + 31 - 1
    BY <1>4, <1>7, MarchMonths, MonthLengths
  <2> QED
    BY <1>3, <2>2, <2>3
<1> QED
  BY <1>2, <1>5, <1>6, <1>7

(* A year is as long as the calendar says. *)
LEMMA NextYearNumber ==
    ASSUME NEW y \in Int, 1970 <= y, y <= 2099, y > 1970
    PROVE  days_from_civil(y, 1, 1) = days_from_civil(y - 1, 1, 1) + YearDays(y - 1)
<1>1. y - 1 \in Int /\ 1970 <= y - 1 /\ y - 1 <= 2099
  OBVIOUS
<1>2. days_from_civil(y, 1, 1) = MarchDays(y - 1) + 306 + 1 - 1
  BY <1>1, CivilIs, MarchMonths
<1>3. days_from_civil(y - 1, 1, 1) = MarchDays(y - 1 - 1) + 306 + 1 - 1
  BY <1>1, CivilIs, MarchMonths
<1>4. MarchDays(y - 1) = MarchDays(y - 1 - 1) + YearDays(y - 1)
  BY <1>1, MarchYear
<1>5. MarchDays(y - 1) \in Int /\ MarchDays(y - 1 - 1) \in Int /\ YearDays(y - 1) \in Int
  BY <1>1, CivilType DEF YearDays
<1> QED
  BY <1>2, <1>3, <1>4, <1>5

LEMMA EpochNumber == days_from_civil(1970, 1, 1) = 0
  BY DEF days_from_civil

(* The reference count exists, and is the number of the first of January. *)
LEMMA DaysBeforeIs ==
    ASSUME NEW y \in 1970..LastYear
    PROVE  DaysBefore[y] = days_from_civil(y, 1, 1)
<1> DEFINE Years == 1970..LastYear
           Body(f) == [z \in Years |-> IF z = 1970 THEN 0 ELSE f[z - 1] + YearDays(z - 1)]
           Eq(f) == f = Body(f)
           g == [z \in Years |-> days_from_civil(z, 1, 1)]
<1>1. LastYear \in Int /\ LastYear <= 2099
  BY YearsAssumption
<1>2. \A z \in Years : z \in Int /\ 1970 <= z /\ z <= 2099 /\ (z # 1970 => z - 1 \in Years /\ z > 1970)
  BY <1>1
<1>3. Eq(g)
  BY <1>2, NextYearNumber, EpochNumber
<1>4. DaysBefore = CHOOSE f : Eq(f)
  BY DEF DaysBefore
<1>5. Eq(DaysBefore)
  <2> HIDE DEF Eq
  <2> QED
    BY <1>3, <1>4
<1>6. \A z \in Years :
          DaysBefore[z] = IF z = 1970 THEN 0 ELSE DaysBefore[z - 1] + YearDays(z - 1)
  <2>1. ASSUME NEW f, NEW z \in Years
        PROVE  Body(f)[z] = IF z = 1970 THEN 0 ELSE f[z - 1] + YearDays(z - 1)
    OBVIOUS
  <2> HIDE DEF Body
  <2>2. DaysBefore = Body(DaysBefore)
    BY <1>5
  <2>3. \A z \in Years : Body(DaysBefore)[z] = IF z = 1970 THEN 0 ELSE DaysBefore[z - 1] + YearDays(z - 1)
    BY <2>1
  <2>4. \A z : DaysBefore[z] = Body(DaysBefore)[z]
    BY <2>2
  <2> QED
    BY <2>3, <2>4
<1> DEFINE Wrong == {z \in Years : DaysBefore[z] # days_from_civil(z, 1, 1)}
<1>7. Wrong = {}
  <2> SUFFICES ASSUME Wrong # {} PROVE FALSE
    OBVIOUS
  <2>1. Wrong \in SUBSET Nat
    BY <1>1
  <2>2. PICK z \in Wrong : \A x \in Wrong : z <= x
    <3> HIDE DEF Wrong
    <3> QED
      BY <2>1, LeastNumber
  <2>3. z # 1970
    BY <1>6, <2>2, EpochNumber
  <2>4. z - 1 \notin Wrong /\ z \in Years
    BY <1>1, <2>2
  <2>5. DaysBefore[z - 1] = days_from_civil(z - 1, 1, 1)
    BY <1>2, <2>3, <2>4
  <2> QED
    BY <1>2, <1>6, <2>2, <2>3, <2>5, NextYearNumber
<1> QED
  BY <1>7

(* A legal date, its day in its month. *)
LEMMA DateRange ==
    ASSUME CalendarInv
    PROVE  /\ year \in Int /\ 1970 <= year /\ year <= 2099
           /\ month \in Int /\ 1 <= month /\ month <= 12
           /\ day \in Int /\ 1 <= day /\ day <= MonthDays(year, month)
<1>1. FirstYear \in Int /\ LastYear \in Int /\ 1970 <= FirstYear /\ LastYear <= 2099
  BY YearsAssumption
<1>2. year \in Int /\ 1970 <= year /\ year <= 2099 /\ month \in Int /\ 1 <= month /\ month <= 12
  BY <1>1 DEF CalendarInv
<1> QED
  BY <1>2 DEF CalendarInv

(* A day later the date is the next one. *)
LEMMA NextDayStep ==
    ASSUME CalendarInv, NextDay
    PROVE  /\ CalendarInv' /\ count' = count + 1
           /\ days_from_civil(year', month', day') = days_from_civil(year, month, day) + 1
<1>1. /\ year \in Int /\ 1970 <= year /\ year <= 2099
      /\ month \in Int /\ 1 <= month /\ month <= 12
      /\ day \in Int /\ 1 <= day /\ day <= MonthDays(year, month)
  BY DateRange
<1>2. FirstYear \in Int /\ LastYear \in Int /\ LastYear <= 2099
  BY YearsAssumption
<1>3. MonthDays(year, month) \in Int
  BY <1>1, MonthLengths
<1>4. SUFFICES /\ year' \in FirstYear..LastYear /\ month' \in 1..12
               /\ day' \in 1..MonthDays(year', month')
               /\ days_from_civil(year', month', day') = days_from_civil(year, month, day) + 1
  BY DEF CalendarInv, DaysExact, NextDay
<1>5. CASE day < MonthDays(year, month) /\ day' = day + 1 /\ UNCHANGED <<year, month>>
  <2>1. day + 1 \in 1..MonthDays(year, month)
    BY <1>1, <1>3, <1>5
  <2> QED
    BY <1>1, <1>5, <2>1, NextDayNumber DEF CalendarInv
<1>6. CASE /\ day = MonthDays(year, month) /\ month < 12
           /\ day' = 1 /\ month' = month + 1 /\ UNCHANGED year
  <2>1. 28 <= MonthDays(year, month + 1) /\ MonthDays(year, month + 1) \in Int
    BY <1>1, <1>6, MonthLengths
  <2>2. 1 \in 1..MonthDays(year, month + 1)
    BY <2>1
  <2>3. month + 1 \in 1..12
    BY <1>1, <1>6
  <2> QED
    BY <1>1, <1>6, <2>2, <2>3, NextDayNumber DEF CalendarInv
<1>7. CASE /\ day = MonthDays(year, month) /\ month = 12 /\ year < LastYear
           /\ day' = 1 /\ month' = 1 /\ year' = year + 1
  <2>1. year + 1 \in FirstYear..LastYear /\ year < 2099
    BY <1>1, <1>2, <1>7 DEF CalendarInv
  <2>2. MonthDays(year + 1, 1) = 31
    BY <1>1, <2>1, MonthLengths
  <2>3. 1 \in 1..MonthDays(year + 1, 1)
    BY <2>2
  <2> QED
    BY <1>1, <1>7, <2>1, <2>3, NextDayNumber
<1> QED
  BY <1>5, <1>6, <1>7 DEF NextDay

(* The first day is a date. *)
LEMMA CalendarInitInv == Init => CalendarInv
<1> SUFFICES ASSUME Init PROVE CalendarInv
  OBVIOUS
<1>1. FirstYear \in 1970..LastYear /\ FirstYear \in FirstYear..LastYear
  BY YearsAssumption
<1>2. DaysBefore[FirstYear] = days_from_civil(FirstYear, 1, 1)
  BY <1>1, DaysBeforeIs
<1>3. MonthDays(year, 1) = 31
  BY YearsAssumption, MonthLengths DEF Init
<1>4. 1 \in 1..31 /\ 1 \in 1..12
  OBVIOUS
<1> QED
  BY <1>1, <1>2, <1>3, <1>4 DEF Init, CalendarInv, DaysExact

(* Every step keeps the invariant. *)
LEMMA CalendarNextInv == CalendarInv /\ [LNext]_lvars => CalendarInv'
<1>1. NextDay \/ UNCHANGED vars \/ ~[LNext]_lvars
  BY DEF LNext, lvars, fvars, CallFunction, UseFiles, UseCrypto, FNext, Extend, AnotherDay
<1>2. ASSUME CalendarInv, UNCHANGED vars PROVE CalendarInv'
  BY <1>2 DEF CalendarInv, DaysExact, vars
<1> QED
  BY <1>1, <1>2, NextDayStep

(* days_from_civil gives every day of the years DOS can represent, leap days and
   the ends of months and centuries included, its number. *)
THEOREM DayNumbersExact == LSpec => []DaysExact
<1>1. LInit => CalendarInv
  BY CalendarInitInv DEF LInit, FInit
<1>2. CalendarInv => DaysExact
  BY DEF CalendarInv
<1> QED
  BY <1>1, <1>2, CalendarNextInv, PTL DEF LSpec

(* The count is not negative. *)
LEMMA CountRange == ASSUME CalendarInv PROVE count \in Int /\ 0 <= count
<1>1. /\ year \in Int /\ 1970 <= year /\ year <= 2099
      /\ month \in Int /\ 1 <= month /\ month <= 12
      /\ day \in Int /\ 1 <= day /\ day <= 31
  BY DateRange, NextDayNumber
<1>2. count = days_from_civil(year, month, day)
  BY DEF CalendarInv, DaysExact
<1> QED
  BY <1>1, <1>2 DEF days_from_civil

(* The number of seconds, when it fits 31 bits, is cut into halves. *)
LEMMA WordIs ==
    ASSUME NEW d \in Int, 0 <= d, d <= LastGoodDay,
           NEW s \in Int, 0 <= s, s < 86400
    PROVE  /\ Word(d, s)[1] \in Int /\ Word(d, s)[2] \in Int
           /\ Word(d, s)[1] * 65536 + Word(d, s)[2] = d * 86400 + s
           /\ 0 <= Word(d, s)[1] /\ Word(d, s)[1] < 32768
           /\ 0 <= Word(d, s)[2] /\ Word(d, s)[2] < 65536
<1> DEFINE low == d * 20864 + s
           q == low \div 65536
           l == low % 65536
<1>1. low \in Int /\ low >= 0 /\ low = d * 20864 + s
  OBVIOUS
<1>2. q \in Int /\ l \in Int /\ 0 <= l /\ l < 65536 /\ low = q * 65536 + l /\ q >= 0
  <2>1. \A x \in Int : x >= 0 =>
            /\ x \div 65536 \in Int /\ x % 65536 \in Int /\ 0 <= x % 65536 /\ x % 65536 < 65536
            /\ x = (x \div 65536) * 65536 + (x % 65536) /\ x \div 65536 >= 0
    OBVIOUS
  <2> HIDE DEF low
  <2> QED
    BY <1>1, <2>1
<1>3. Word(d, s) = <<(d + q) % 65536, l>>
  BY DEF Word
<1> HIDE DEF low, q, l
<1>4. /\ 0 <= d + q /\ d + q < 32768 /\ d + q \in Int
      /\ (d + q) * 65536 + l = d * 86400 + s
  BY <1>1, <1>2 DEF LastGoodDay
<1>5. (d + q) % 65536 = d + q
  <2>1. \A x \in Int : 0 <= x /\ x < 32768 => x % 65536 = x
    OBVIOUS
  <2> QED
    BY <1>4, <2>1
<1> QED
  BY <1>2, <1>3, <1>4, <1>5

LEMMA WordsOrdered ==
    ASSUME NEW d \in Int, 0 <= d, d < LastGoodDay
    PROVE  Before(Word(d, 86399), Word(d + 1, 0))
<1>1. LastGoodDay \in Int
  BY DEF LastGoodDay
<1> DEFINE v == Word(d, 86399)
           w == Word(d + 1, 0)
<1>2. /\ v[1] \in Int /\ v[2] \in Int /\ v[1] * 65536 + v[2] = d * 86400 + 86399
      /\ 0 <= v[1] /\ v[1] < 32768 /\ 0 <= v[2] /\ v[2] < 65536
  BY <1>1, WordIs
<1>3. /\ w[1] \in Int /\ w[2] \in Int /\ w[1] * 65536 + w[2] = (d + 1) * 86400 + 0
      /\ 0 <= w[1] /\ w[1] < 32768 /\ 0 <= w[2] /\ w[2] < 65536
  <2>1. d + 1 \in Int /\ 0 <= d + 1 /\ d + 1 <= LastGoodDay
    BY <1>1
  <2> QED
    BY <2>1, WordIs
<1> HIDE DEF v, w
<1>4. v[1] < w[1] \/ (v[1] = w[1] /\ v[2] < w[2])
  BY <1>2, <1>3
<1>5. Before(v, w)
  BY <1>2, <1>3, <1>4 DEF Before, Signed
<1> QED
  BY <1>5 DEF v, w

(* mktime and gettimeofday number every instant alike, and the last second of a
   day comes before the first of the next one, as long as the number fits 31
   bits. *)
THEOREM EpochsOrdered == LSpec => EpochOrdered
<1> DEFINE Ordered ==
        count' <= LastGoodDay =>
            LET late == mktime(year, month - 1, day, 23, 59, 59)
                early == mktime(year', month' - 1, day', 0, 0, 0)
            IN  /\ Before(late, early)
                /\ early = epoch_now([year |-> year', month |-> month', day |-> day',
                                      hour |-> 0, min |-> 0, sec |-> 0])
<1>1. LInit => CalendarInv
  BY CalendarInitInv DEF LInit, FInit
<1>2. ASSUME CalendarInv, NextDay, count' <= LastGoodDay PROVE Ordered
  <2>1. /\ count' = count + 1
        /\ days_from_civil(year, month, day) = count
        /\ days_from_civil(year', month', day') = count + 1
    BY <1>2, NextDayStep DEF CalendarInv, DaysExact
  <2>2. month \in Int /\ month - 1 + 1 = month
    BY <1>2, DateRange
  <2>3. month' \in Int /\ month' - 1 + 1 = month'
    <3>1. month' \in 1..12
      BY <1>2, NextDayStep DEF CalendarInv
    <3>2. \A k \in 1..12 : k \in Int /\ k - 1 + 1 = k
      OBVIOUS
    <3> QED
      BY <3>1, <3>2
  <2>4. mktime(year, month - 1, day, 23, 59, 59) = Word(count, 86399)
    BY <2>1, <2>2 DEF mktime
  <2>5. mktime(year', month' - 1, day', 0, 0, 0) = Word(count + 1, 0)
    BY <2>1, <2>3 DEF mktime
  <2>6. epoch_now([year |-> year', month |-> month', day |-> day',
                   hour |-> 0, min |-> 0, sec |-> 0]) = Word(count + 1, 0)
    BY <2>1 DEF epoch_now
  <2>7. count \in Int /\ 0 <= count /\ count < LastGoodDay
    BY <1>2, <2>1, CountRange DEF LastGoodDay
  <2> QED
    BY <2>4, <2>5, <2>6, <2>7, WordsOrdered
<1>3. CalendarInv /\ [LNext]_lvars => [Ordered]_vars
  <2>1. NextDay \/ UNCHANGED vars \/ ~[LNext]_lvars
    BY DEF LNext, lvars, fvars, CallFunction, UseFiles, UseCrypto, FNext, Extend, AnotherDay
  <2> QED
    BY <1>2, <2>1
<1> QED
  BY <1>1, <1>3, CalendarNextInv, PTL DEF LSpec, EpochOrdered

-----------------------------------------------------------------------------
(* The cipher contexts *)

(* The number the first j digits of a counter stand for, and the whole of it. *)
Places(c) == CHOOSE w \in [0..CounterLen -> Nat] :
    /\ w[0] = 0
    /\ \A j \in 1..CounterLen : w[j] = CounterBase * w[j - 1] + c[j]
Worth(c) == Places(c)[CounterLen]

(* A context that has been through the first n bytes of the stream that started
   with counter iv. *)
Context(k, algo, iv, n, schedule) ==
    [key |-> k, is_ctr |-> algo \in Ctr,
     ctr_iv |-> IF algo \in Ctr THEN CounterAt(iv, Blocks(n)) ELSE iv,
     chain |-> IF algo \in Ctr THEN 0 ELSE Blocks(n),
     schedule |-> schedule]
Sender(k, algo, iv, n) == Context(k, algo, iv, n, "forward")
Receiver(k, algo, iv, n) ==
    Context(k, algo, iv, n, IF algo \in Ctr THEN "forward" ELSE "inverse")

(* The keystream byte of byte p of a call that starts after n bytes. *)
Place(algo, iv, i) == IF algo \in Ctr THEN CounterAt(iv, i) ELSE i
Name(k, algo, iv, n, p) ==
    <<k, IF algo \in Ctr THEN "ctr" ELSE "cbc", IF algo \in Ctr THEN "forward" ELSE "aes",
      Place(algo, iv, Blocks(n) + (p \div BlockLen)), p % BlockLen>>

Names == {Name(k, algo, iv, n, p) :
             k \in Nat, algo \in Supported, iv \in Counters, n \in Nat, p \in Nat}
Bytes == [byte : Nat, with : SUBSET Names]

(* A segment on the wire: where in the stream it starts, and that every byte of it
   is combined with its keystream byte.  One that starts inside a block has
   whole blocks. *)
First(s) == s[1].byte - 1
Piece(s, k, algo, iv) ==
    /\ s # <<>> /\ First(s) \in Nat
    /\ First(s) % BlockLen = 0 \/ Len(s) % BlockLen = 0
    /\ \A i \in 1..Len(s) :
          s[i] = [byte |-> First(s) + i, with |-> {Name(k, algo, iv, First(s), i - 1)}]

(* What is on the wire goes on where the receiver is, without a gap, up to where
   the sender is. *)
StreamInv(algo, iv) ==
    /\ enc = Sender(key, algo, iv, sent)
    /\ dec = Receiver(key, algo, iv, Len(got))
    /\ \A m \in 1..Len(wire) : Piece(wire[m], key, algo, iv)
    /\ \A m \in 1..(Len(wire) - 1) : First(wire[m + 1]) = First(wire[m]) + Len(wire[m])
    /\ wire = <<>> => Len(got) = sent
    /\ wire # <<>> => /\ First(wire[1]) = Len(got)
                      /\ First(wire[Len(wire)]) + Len(wire[Len(wire)]) = sent
    /\ \A u \in used : \E i \in Nat : i < Blocks(sent) /\ u[4] = Place(algo, iv, i)

CipherInv ==
    /\ key \in Nat /\ sent \in Nat /\ sent <= StreamLen /\ IsFiniteSet(used)
    /\ wire \in Seq(Seq(Bytes)) /\ got \in Seq(Bytes)
    /\ CipherStreamExact
    /\ \/ enc = NULL /\ wire = <<>>
       \/ \E algo \in Supported, iv \in Counters : StreamInv(algo, iv)

(* A counter has digits, and a digit at least two values. *)
LEMMA CounterSizes ==
    /\ BlockLen \in Nat \ {0} /\ CounterLen \in Nat \ {0} /\ StreamLen \in Nat \ {0}
    /\ Keys \in Nat \ {0} /\ CounterBase \in Nat /\ CounterBase >= 2
  BY CryptoAssumption

(* The period is the product it is defined to be. *)
LEMMA PeriodIs ==
    /\ Period \in [0..CounterLen -> Nat]
    /\ Period[0] = 1
    /\ \A n \in 1..CounterLen : Period[n] = CounterBase * Period[n - 1]
<1> DEFINE D == 0..CounterLen
           Body(f) == [n \in D |-> IF n = 0 THEN 1 ELSE CounterBase * f[n - 1]]
           Eq(f) == f = Body(f)
           F == [k \in Nat |-> [x \in Nat |-> CounterBase * x]]
<1>1. PICK g \in [0..CounterLen -> Nat] : Recurs(g, 1, F, CounterLen)
  <2>1. F \in [Nat -> [Nat -> Nat]] /\ 1 \in Nat /\ CounterLen \in Nat
    BY CounterSizes
  <2> HIDE DEF F
  <2> QED
    BY <2>1, RecursionExists
<1>2. g[0] = 1 /\ \A n \in 1..CounterLen : g[n] = CounterBase * g[n - 1]
  <2>1. \A n \in 1..CounterLen : n \in Nat /\ n - 1 \in 0..CounterLen
    BY CounterSizes
  <2>2. \A k \in Nat, x \in Nat : F[k][x] = CounterBase * x
    OBVIOUS
  <2> HIDE DEF F
  <2> QED
    BY <1>1, <2>1, <2>2 DEF Recurs
<1>3. Eq(g)
  <2>1. \A n \in D : n # 0 => n \in 1..CounterLen
    BY CounterSizes
  <2> QED
    BY <1>2, <2>1
<1>4. Period = CHOOSE f : Eq(f)
  BY DEF Period
<1>5. Eq(Period)
  <2> HIDE DEF Eq
  <2> QED
    BY <1>3, <1>4
<1>6. ASSUME NEW n \in D
      PROVE Period[n] = IF n = 0 THEN 1 ELSE CounterBase * Period[n - 1]
  <2>1. \A f : Body(f)[n] = IF n = 0 THEN 1 ELSE CounterBase * f[n - 1]
    OBVIOUS
  <2>2. Period = Body(Period)
    BY <1>5
  <2> HIDE DEF Body
  <2> QED
    BY <2>1, <2>2
<1>7. Period = [n \in D |-> Period[n]]
  <2> DEFINE p == Period
  <2>1. p = Body(p)
    BY <1>5
  <2> HIDE DEF p
  <2>2. p = [n \in D |-> p[n]]
    BY <2>1
  <2> QED
    BY <2>2 DEF p
<1> HIDE DEF Body, Eq
<1>8. Period[0] = 1 /\ \A n \in 1..CounterLen : Period[n] = CounterBase * Period[n - 1]
  <2>1. 0 \in D /\ \A n \in 1..CounterLen : n \in D /\ n # 0
    BY CounterSizes
  <2> QED
    BY <1>6, <2>1
<1>9. \A n \in D : Period[n] \in Nat
  <2> DEFINE T == {n \in Nat : n \in D => Period[n] \in Nat}
  <2>1. 0 \in T
    BY <1>8
  <2>2. ASSUME NEW n \in Nat, n \in T PROVE n + 1 \in T
    <3>1. CASE n + 1 \in D
      <4>1. n \in D /\ n + 1 \in 1..CounterLen /\ n + 1 - 1 = n
        BY <3>1, CounterSizes
      <4>2. Period[n + 1] = CounterBase * Period[n]
        BY <1>8, <4>1
      <4> QED
        BY <2>2, <4>1, <4>2, CounterSizes
    <3> QED
      BY <3>1
  <2>3. \A n \in Nat : n \in T
    <3> HIDE DEF T
    <3> QED
      BY <2>1, <2>2, SetInduction
  <2> QED
    BY <2>3
<1> QED
  BY <1>7, <1>8, <1>9

(* The counter after a step, and the digit where the carry stops. *)
LEMMA IncrementType ==
    ASSUME NEW c \in Counters
    PROVE  /\ Increment(c) \in Counters
           /\ \E k \in 0..CounterLen :
                 /\ k # 0 => c[k] # CounterBase - 1
                 /\ \A j \in 1..CounterLen : j > k => c[j] = CounterBase - 1
                 /\ \A j \in 1..CounterLen :
                       Increment(c)[j] = IF j > k THEN 0 ELSE IF j = k THEN c[j] + 1 ELSE c[j]
<1> DEFINE E == {0} \cup {j \in 1..CounterLen : c[j] # CounterBase - 1}
           k == Max(E)
<1>1. k \in E /\ \A j \in E : k >= j
  <2> DEFINE G == {CounterLen - j : j \in E}
  <2>1. G \in SUBSET Nat /\ G # {}
    BY CounterSizes
  <2>2. PICK m \in G : \A x \in G : m <= x
    <3> HIDE DEF G
    <3> QED
      BY <2>1, LeastNumber
  <2>3. PICK i \in E : m = CounterLen - i
    BY <2>2
  <2>4. \A j \in E : i >= j
    <3> SUFFICES ASSUME NEW j \in E PROVE i >= j
      OBVIOUS
    <3>1. CounterLen - i <= CounterLen - j
      BY <2>2, <2>3
    <3>2. i \in Int /\ j \in Int
      BY CounterSizes
    <3> QED
      BY <3>1, <3>2, CounterSizes
  <2> HIDE DEF E
  <2> QED
    BY <2>4 DEF Max
<1>2. Increment(c) = [j \in 1..CounterLen |-> IF j > k THEN 0 ELSE IF j = k THEN c[j] + 1 ELSE c[j]]
  BY DEF Increment
<1>3. k \in 0..CounterLen /\ (k # 0 => c[k] # CounterBase - 1)
  <2>1. E \subseteq 0..CounterLen
    BY CounterSizes
  <2> QED
    BY <1>1, <2>1
<1>4. \A j \in 1..CounterLen : j > k => c[j] = CounterBase - 1
  <2> SUFFICES ASSUME NEW j \in 1..CounterLen, j > k, c[j] # CounterBase - 1 PROVE FALSE
    OBVIOUS
  <2>1. j \in E
    OBVIOUS
  <2>2. k >= j
    BY <1>1, <2>1
  <2> QED
    BY <1>3, <2>2, CounterSizes
<1> HIDE DEF k
<1>5. \A j \in 1..CounterLen : c[j] \in 0..(CounterBase - 1)
  BY DEF Counters
<1>6. Increment(c) \in Counters
  <2>1. ASSUME NEW j \in 1..CounterLen
        PROVE  (IF j > k THEN 0 ELSE IF j = k THEN c[j] + 1 ELSE c[j]) \in 0..(CounterBase - 1)
    BY <1>3, <1>5, CounterSizes
  <2> QED
    BY <1>2, <2>1 DEF Counters
<1>7. \A j \in 1..CounterLen :
          Increment(c)[j] = IF j > k THEN 0 ELSE IF j = k THEN c[j] + 1 ELSE c[j]
  BY <1>2
<1> QED
  BY <1>3, <1>4, <1>6, <1>7

(* The sequence of counters of a call. *)
LEMMA CounterPath ==
    ASSUME NEW c \in Counters, NEW i \in Nat
    PROVE  \E g \in [0..i -> Counters] :
              /\ g[0] = c /\ \A n \in 1..i : g[n] = Increment(g[n - 1])
              /\ CounterAt(c, i) = g[i]
<1> DEFINE D == 0..i
           Body(f) == [n \in D |-> IF n = 0 THEN c ELSE Increment(f[n - 1])]
           Eq(f) == f = Body(f)
           F == [k \in Nat |-> [x \in Counters |-> Increment(x)]]
           at == CHOOSE f : Eq(f)
<1>1. PICK g \in [0..i -> Counters] : Recurs(g, c, F, i)
  <2>1. F \in [Nat -> [Counters -> Counters]]
    BY IncrementType
  <2> HIDE DEF F
  <2> QED
    BY <2>1, RecursionExists
<1>2. g[0] = c /\ \A n \in 1..i : g[n] = Increment(g[n - 1])
  <2>1. \A n \in 1..i : n \in Nat /\ n - 1 \in 0..i
    OBVIOUS
  <2>2. \A k \in Nat, x \in Counters : F[k][x] = Increment(x)
    OBVIOUS
  <2> HIDE DEF F
  <2> QED
    BY <1>1, <2>1, <2>2 DEF Recurs
<1>3. Eq(g)
  <2>1. \A n \in D : n # 0 => n \in 1..i
    OBVIOUS
  <2> QED
    BY <1>2, <2>1
<1>4. CounterAt(c, i) = at[i]
  BY DEF CounterAt
<1>5. Eq(at)
  <2> HIDE DEF Eq
  <2> QED
    BY <1>3
<1> HIDE DEF at
<1>6. ASSUME NEW n \in D
      PROVE  at[n] = IF n = 0 THEN c ELSE Increment(at[n - 1])
  <2>1. \A f : Body(f)[n] = IF n = 0 THEN c ELSE Increment(f[n - 1])
    OBVIOUS
  <2>2. at = Body(at)
    BY <1>5
  <2> HIDE DEF Body
  <2> QED
    BY <2>1, <2>2
<1> HIDE DEF Eq, Body
<1>7. \A n \in D : at[n] = g[n]
  <2> DEFINE T == {n \in Nat : n \in D => at[n] = g[n]}
  <2>1. 0 \in T
    BY <1>2, <1>6
  <2>2. ASSUME NEW n \in Nat, n \in T PROVE n + 1 \in T
    <3>1. CASE n + 1 \in D
      <4>1. n \in D /\ n + 1 \in 1..i /\ n + 1 - 1 = n /\ n + 1 # 0
        BY <3>1
      <4>2. at[n + 1] = Increment(at[n]) /\ g[n + 1] = Increment(g[n])
        BY <1>2, <1>6, <3>1, <4>1
      <4> QED
        BY <2>2, <4>1, <4>2
    <3> QED
      BY <3>1
  <2>3. \A n \in Nat : n \in T
    <3> HIDE DEF T
    <3> QED
      BY <2>1, <2>2, SetInduction
  <2> QED
    BY <2>3
<1> QED
  BY <1>1, <1>2, <1>4, <1>7

(* Two such sequences agree where both are defined. *)
LEMMA CounterStep ==
    ASSUME NEW c \in Counters, NEW i \in Nat
    PROVE  /\ CounterAt(c, i) \in Counters
           /\ CounterAt(c, 0) = c
           /\ CounterAt(c, i + 1) = Increment(CounterAt(c, i))
<1>1. CounterAt(c, 0) = c
  BY CounterPath
<1>2. PICK g \in [0..i -> Counters] :
          /\ g[0] = c /\ \A n \in 1..i : g[n] = Increment(g[n - 1])
          /\ CounterAt(c, i) = g[i]
  BY CounterPath
<1>3. PICK h \in [0..(i + 1) -> Counters] :
          /\ h[0] = c /\ \A n \in 1..(i + 1) : h[n] = Increment(h[n - 1])
          /\ CounterAt(c, i + 1) = h[i + 1]
  <2> DEFINE e == i + 1
  <2>1. e \in Nat
    OBVIOUS
  <2> HIDE DEF e
  <2>2. \E h \in [0..e -> Counters] :
          /\ h[0] = c /\ \A n \in 1..e : h[n] = Increment(h[n - 1])
          /\ CounterAt(c, e) = h[e]
    BY <2>1, CounterPath
  <2> QED
    BY <2>2 DEF e
<1> DEFINE T == {n \in Nat : n \in 0..i => g[n] = h[n]}
<1>4. 0 \in T
  BY <1>2, <1>3
<1>5. ASSUME NEW n \in Nat, n \in T PROVE n + 1 \in T
  <2>1. CASE n + 1 \in 0..i
    <3>1. n \in 0..i /\ n + 1 \in 1..i /\ n + 1 \in 1..(i + 1) /\ n + 1 - 1 = n
      BY <2>1
    <3>2. g[n + 1] = Increment(g[n]) /\ h[n + 1] = Increment(h[n])
      BY <1>2, <1>3, <3>1
    <3> QED
      BY <1>5, <3>1, <3>2
  <2> QED
    BY <2>1
<1>6. \A n \in Nat : n \in T
  <2> HIDE DEF T
  <2> QED
    BY <1>4, <1>5, SetInduction
<1>7. g[i] = h[i] /\ g[i] \in Counters
  BY <1>6
<1>8. i + 1 \in 1..(i + 1) /\ i + 1 - 1 = i
  OBVIOUS
<1>9. h[i + 1] = Increment(h[i])
  BY <1>3, <1>8
<1> QED
  BY <1>1, <1>2, <1>3, <1>7, <1>9

(* The counter a steps on, and b steps on from there. *)
LEMMA CounterAdd ==
    ASSUME NEW c \in Counters, NEW a \in Nat
    PROVE  \A b \in Nat : CounterAt(CounterAt(c, a), b) = CounterAt(c, a + b)
<1> DEFINE d == CounterAt(c, a)
           T == {b \in Nat : CounterAt(d, b) = CounterAt(c, a + b)}
<1>1. d \in Counters
  BY CounterStep
<1> HIDE DEF d
<1>2. 0 \in T
  <2>1. a + 0 = a /\ CounterAt(d, 0) = d
    BY <1>1, CounterStep
  <2> QED
    BY <2>1 DEF d
<1>3. ASSUME NEW b \in Nat, b \in T PROVE b + 1 \in T
  <2>1. a + b \in Nat /\ a + (b + 1) = a + b + 1
    OBVIOUS
  <2>2. CounterAt(d, b + 1) = Increment(CounterAt(d, b))
    BY <1>1, CounterStep
  <2>3. CounterAt(c, a + b + 1) = Increment(CounterAt(c, a + b))
    BY <2>1, CounterStep
  <2> QED
    BY <1>3, <2>1, <2>2, <2>3
<1>4. \A b \in Nat : b \in T
  <2> HIDE DEF T
  <2> QED
    BY <1>2, <1>3, SetInduction
<1> QED
  BY <1>4 DEF d

(* Places[j] is the number the first j digits of a counter stand for. *)
LEMMA PlacesExist ==
    ASSUME NEW c \in Counters
    PROVE  /\ Places(c) \in [0..CounterLen -> Nat]
           /\ Places(c)[0] = 0
           /\ \A j \in 1..CounterLen : Places(c)[j] = CounterBase * Places(c)[j - 1] + c[j]
<1> DEFINE F == [k \in Nat |-> [x \in Nat |-> CounterBase * x + (IF k \in 1..CounterLen THEN c[k] ELSE 0)]]
<1>1. PICK g \in [0..CounterLen -> Nat] : Recurs(g, 0, F, CounterLen)
  <2>1. \A k \in 1..CounterLen : c[k] \in Nat
    BY CounterSizes DEF Counters
  <2>2. F \in [Nat -> [Nat -> Nat]] /\ 0 \in Nat /\ CounterLen \in Nat
    BY <2>1, CounterSizes
  <2> HIDE DEF F
  <2> QED
    BY <2>2, RecursionExists
<1>2. g[0] = 0 /\ \A j \in 1..CounterLen : g[j] = CounterBase * g[j - 1] + c[j]
  <2>1. \A n \in 1..CounterLen : n \in Nat /\ n - 1 \in 0..CounterLen
    BY CounterSizes
  <2>2. \A k \in 1..CounterLen, x \in Nat : F[k][x] = CounterBase * x + c[k]
    BY CounterSizes
  <2> HIDE DEF F
  <2> QED
    BY <1>1, <2>1, <2>2 DEF Recurs
<1> QED
  BY <1>1, <1>2 DEF Places

(* A step adds one to the number a counter stands for, modulo the period. *)
LEMMA IncrementWorth ==
    ASSUME NEW c \in Counters
    PROVE  /\ Worth(c) \in Nat /\ Worth(c) < Period[CounterLen]
           /\ Worth(Increment(c)) = (Worth(c) + 1) % Period[CounterLen]
<1> DEFINE d == Increment(c)
           w == Places(c)
           v == Places(d)
<1>1. d \in Counters
  BY IncrementType
<1>2. PICK k \in 0..CounterLen :
          /\ k # 0 => c[k] # CounterBase - 1
          /\ \A j \in 1..CounterLen : j > k => c[j] = CounterBase - 1
          /\ \A j \in 1..CounterLen : d[j] = IF j > k THEN 0 ELSE IF j = k THEN c[j] + 1 ELSE c[j]
  BY IncrementType
<1> HIDE DEF d
<1>3. /\ w \in [0..CounterLen -> Nat] /\ w[0] = 0
      /\ \A j \in 1..CounterLen : w[j] = CounterBase * w[j - 1] + c[j]
  BY PlacesExist
<1>4. /\ v \in [0..CounterLen -> Nat] /\ v[0] = 0
      /\ \A j \in 1..CounterLen : v[j] = CounterBase * v[j - 1] + d[j]
  BY <1>1, PlacesExist
<1> HIDE DEF w, v
<1> DEFINE B == CounterBase
           P(j) == Period[j]
           OK(j) == /\ w[j] < P(j)
                    /\ j < k => v[j] = w[j]
                    /\ j >= k => \/ v[j] = w[j] + 1 /\ v[j] < P(j)
                                 \/ k = 0 /\ v[j] = 0 /\ w[j] + 1 = P(j)
           T == {j \in Nat : j \in 0..CounterLen => OK(j)}
<1>5. \A j \in 0..CounterLen : P(j) \in Nat /\ w[j] \in Nat /\ v[j] \in Nat
  BY <1>3, <1>4, PeriodIs
<1>6. 0 \in T
  <2>1. P(0) = 1
    BY PeriodIs
  <2>2. w[0] = 0 /\ v[0] = 0 /\ k \in Nat
    BY <1>2, <1>3, <1>4
  <2> QED
    BY <2>1, <2>2
<1>7. ASSUME NEW j \in Nat, j \in T PROVE j + 1 \in T
  <2>1. SUFFICES ASSUME j + 1 \in 0..CounterLen PROVE OK(j + 1)
    OBVIOUS
  <2>2. j \in 0..CounterLen /\ j + 1 \in 1..CounterLen /\ j + 1 - 1 = j
    BY <2>1, CounterSizes
  <2>3. OK(j)
    BY <1>7, <2>2
  <2>4. /\ w[j + 1] = B * w[j] + c[j + 1] /\ v[j + 1] = B * v[j] + d[j + 1]
        /\ P(j + 1) = B * P(j)
    BY <1>3, <1>4, <2>2, PeriodIs
  <2>5. c[j + 1] \in Nat /\ c[j + 1] <= B - 1 /\ B \in Nat /\ B >= 2
    BY <2>2, CounterSizes DEF Counters
  <2>6. P(j) \in Nat /\ w[j] \in Nat /\ v[j] \in Nat /\ k \in Nat
    BY <1>2, <1>5, <2>2
  <2>7. d[j + 1] = IF j + 1 > k THEN 0 ELSE IF j + 1 = k THEN c[j + 1] + 1 ELSE c[j + 1]
    BY <1>2, <2>2
  <2>8. (j + 1 > k => c[j + 1] = B - 1) /\ (j + 1 = k => c[j + 1] # B - 1)
    BY <1>2, <2>2
  <2>9. \A x, p \in Nat : x < p => B * x + B <= B * p
    <3> SUFFICES ASSUME NEW x \in Nat, NEW p \in Nat, x < p PROVE B * x + B <= B * p
      OBVIOUS
    <3>1. PICK q \in Nat : p = x + 1 + q
      <4>1. p - x - 1 \in Nat /\ p = x + 1 + (p - x - 1)
        OBVIOUS
      <4> QED
        BY <4>1
    <3>2. B * q \in Nat /\ B * p = B * x + B + B * q
      BY <2>5, <3>1
    <3> QED
      BY <2>5, <3>2
  <2>10. B * w[j] \in Nat /\ B * v[j] \in Nat /\ B * P(j) \in Nat
    BY <2>5, <2>6
  <2>11. B * w[j] + B <= B * P(j)
    BY <2>3, <2>6, <2>9
  <2>12. v[j] = w[j] + 1 => B * v[j] = B * w[j] + B
    BY <2>5, <2>6
  <2>13. v[j] < P(j) => B * v[j] + B <= B * P(j)
    BY <2>6, <2>9
  <2>14. w[j] + 1 = P(j) => B * P(j) = B * w[j] + B
    BY <2>5, <2>6
  <2>15. v[j] = 0 => B * v[j] = 0
    BY <2>5
  <2>16. v[j] = w[j] => B * v[j] = B * w[j]
    OBVIOUS
  <2> DEFINE bw == B * w[j]
             bv == B * v[j]
             bp == B * P(j)
  <2> HIDE DEF bw, bv, bp
  <2>17. /\ w[j + 1] = bw + c[j + 1] /\ v[j + 1] = bv + d[j + 1] /\ P(j + 1) = bp
         /\ bw \in Nat /\ bv \in Nat /\ bp \in Nat
         /\ bw + B <= bp
         /\ v[j] = w[j] + 1 => bv = bw + B
         /\ v[j] < P(j) => bv + B <= bp
         /\ w[j] + 1 = P(j) => bp = bw + B
         /\ v[j] = 0 => bv = 0
         /\ v[j] = w[j] => bv = bw
    BY <2>4, <2>10, <2>11, <2>12, <2>13, <2>14, <2>15, <2>16 DEF bw, bv, bp
  <2>18. w[j + 1] < P(j + 1)
    BY <2>5, <2>17
  <2>19. CASE j + 1 < k
    BY <2>3, <2>6, <2>7, <2>17, <2>18, <2>19
  <2>20. CASE j + 1 = k
    BY <2>3, <2>5, <2>6, <2>7, <2>8, <2>17, <2>18, <2>20
  <2>21. CASE j >= k
    BY <2>3, <2>5, <2>6, <2>7, <2>8, <2>17, <2>18, <2>21
  <2> QED
    BY <2>6, <2>19, <2>20, <2>21
<1>8. OK(CounterLen)
  <2>1. \A j \in Nat : j \in T
    <3> HIDE DEF T
    <3> QED
      BY <1>6, <1>7, SetInduction
  <2> QED
    BY <2>1, CounterSizes
<1>9. /\ P(CounterLen) \in Nat /\ w[CounterLen] \in Nat /\ v[CounterLen] \in Nat
      /\ CounterLen >= k
  BY <1>2, <1>5, CounterSizes
<1>10. \A x, p \in Nat : (x < p => x % p = x) /\ (p > 0 => p % p = 0)
  OBVIOUS
<1>11. v[CounterLen] = (w[CounterLen] + 1) % P(CounterLen)
  BY <1>8, <1>9, <1>10
<1> QED
  BY <1>8, <1>9, <1>11 DEF Worth, w, v, d

(* The counters of as many blocks as the counter can count are all different. *)
LEMMA CountersDiffer ==
    ASSUME NEW c \in Counters, NEW i \in Nat, NEW j \in Nat,
           i < j, j < Period[CounterLen]
    PROVE  CounterAt(c, i) # CounterAt(c, j)
<1> DEFINE P == Period[CounterLen]
           T == {n \in Nat : Worth(CounterAt(c, n)) = (Worth(c) + n) % P}
<1>1. Worth(c) \in Nat /\ Worth(c) < P /\ P \in Nat \ {0}
  BY IncrementWorth, PeriodIs, CounterSizes
<1> HIDE DEF P
<1>2. 0 \in T
  <2>1. \A x, p \in Nat : x < p => (x + 0) % p = x
    OBVIOUS
  <2> QED
    BY <1>1, <2>1, CounterStep
<1>3. ASSUME NEW n \in Nat, n \in T PROVE n + 1 \in T
  <2>1. CounterAt(c, n) \in Counters /\ CounterAt(c, n + 1) = Increment(CounterAt(c, n))
    BY CounterStep
  <2>2. Worth(CounterAt(c, n + 1)) = (Worth(CounterAt(c, n)) + 1) % P
    BY <2>1, IncrementWorth DEF P
  <2>3. \A x \in Nat : ((x % P) + 1) % P = (x + 1) % P
    <3> SUFFICES ASSUME NEW x \in Nat PROVE ((x % P) + 1) % P = (x + 1) % P
      OBVIOUS
    <3> DEFINE q == x \div P
               r == x % P
    <3>1. x = P * q + r /\ r \in Nat /\ q \in Nat /\ r < P
      BY <1>1
    <3> HIDE DEF q, r
    <3>2. (r + 1) % P = (P * q + (r + 1)) % P
      BY <1>1, <3>1
    <3>3. x + 1 = P * q + (r + 1)
      BY <1>1, <3>1
    <3>4. (r + 1) % P = (x + 1) % P
      BY <3>2, <3>3
    <3> QED
      BY <3>4 DEF r
  <2>4. Worth(c) + n \in Nat /\ Worth(c) + (n + 1) = Worth(c) + n + 1
    BY <1>1
  <2> QED
    BY <1>3, <2>2, <2>3, <2>4
<1>4. \A n \in Nat : n \in T
  <2> HIDE DEF T
  <2> QED
    BY <1>2, <1>3, SetInduction
<1>5. SUFFICES ASSUME CounterAt(c, i) = CounterAt(c, j) PROVE FALSE
  OBVIOUS
<1> DEFINE a == Worth(c) + i
           b == Worth(c) + j
<1>6. a % P = b % P /\ a \in Nat /\ b \in Nat /\ a < b /\ b - a = j - i
  <2>1. Worth(CounterAt(c, i)) = a % P /\ Worth(CounterAt(c, j)) = b % P
    <3>1. i \in T /\ j \in T
      BY <1>4
    <3> QED
      BY <3>1
  <2>2. a % P = b % P
    BY <1>5, <2>1
  <2>3. a \in Nat /\ b \in Nat /\ a < b /\ b - a = j - i
    BY <1>1
  <2> QED
    BY <2>2, <2>3
<1> HIDE DEF a, b
<1>7. b - a >= P
  BY <1>1, <1>6, ModGap
<1> QED
  BY <1>1, <1>6, <1>7 DEF P

(* Blocks rounds up. *)
LEMMA BlocksIs ==
    ASSUME NEW n \in Nat
    PROVE  /\ Blocks(n) \in Nat /\ n <= BlockLen * Blocks(n)
           /\ BlockLen * Blocks(n) < n + BlockLen
<1> DEFINE a == n + BlockLen - 1
<1>1. a \in Nat /\ BlockLen \in Nat \ {0} /\ a = n + BlockLen - 1
  BY CounterSizes
<1> HIDE DEF a
<1>2. a = BlockLen * (a \div BlockLen) + (a % BlockLen) /\ a \div BlockLen \in Nat /\ a % BlockLen \in 0..(BlockLen - 1)
  BY <1>1
<1>3. Blocks(n) = a \div BlockLen
  BY DEF Blocks, a
<1> QED
  BY <1>1, <1>2, <1>3

(* A multiple of the block length is so many blocks. *)
LEMMA Multiple ==
    ASSUME NEW n \in Nat, n % BlockLen = 0
    PROVE  \E q \in Nat : n = BlockLen * q
<1>1. n = BlockLen * (n \div BlockLen) + (n % BlockLen) /\ n \div BlockLen \in Nat
  BY CounterSizes
<1>2. n = BlockLen * (n \div BlockLen)
  BY <1>1, CounterSizes
<1> QED
  BY <1>1, <1>2

(* The number of blocks is the only one that rounds up. *)
LEMMA BlocksUnique ==
    ASSUME NEW n \in Nat, NEW q \in Nat, n <= BlockLen * q, BlockLen * q < n + BlockLen
    PROVE  q = Blocks(n)
<1> DEFINE r == Blocks(n)
<1>1. r \in Nat /\ n <= BlockLen * r /\ BlockLen * r < n + BlockLen /\ BlockLen \in Nat \ {0}
  BY BlocksIs, CounterSizes
<1> HIDE DEF r
<1>2. \A x, y \in Nat : x < y => BlockLen * x + BlockLen <= BlockLen * y
  <2> SUFFICES ASSUME NEW x \in Nat, NEW y \in Nat, x < y
               PROVE  BlockLen * x + BlockLen <= BlockLen * y
    OBVIOUS
  <2>1. PICK z \in Nat : y = x + 1 + z
    <3>1. y - x - 1 \in Nat /\ y = x + 1 + (y - x - 1)
      OBVIOUS
    <3> QED
      BY <3>1
  <2>2. BlockLen * z \in Nat /\ BlockLen * y = BlockLen * x + BlockLen + BlockLen * z
    BY <1>1, <2>1
  <2> QED
    BY <1>1, <2>2
<1>3. BlockLen * q \in Nat /\ BlockLen * r \in Nat
  BY <1>1
<1>4. ~(q < r) /\ ~(r < q)
  BY <1>1, <1>2, <1>3
<1> QED
  BY <1>1, <1>4 DEF r

(* Stretches of the stream that meet at a block boundary have the blocks of both. *)
LEMMA BlocksAdd ==
    ASSUME NEW n \in Nat, NEW m \in Nat, n % BlockLen = 0 \/ m % BlockLen = 0
    PROVE  Blocks(n + m) = Blocks(n) + Blocks(m)
<1> DEFINE q == Blocks(n)
           r == Blocks(m)
<1>1. /\ q \in Nat /\ n <= BlockLen * q /\ BlockLen * q < n + BlockLen
      /\ r \in Nat /\ m <= BlockLen * r /\ BlockLen * r < m + BlockLen
      /\ BlockLen \in Nat \ {0}
  BY BlocksIs, CounterSizes
<1>2. n % BlockLen = 0 => BlockLen * q = n
  <2> SUFFICES ASSUME n % BlockLen = 0 PROVE BlockLen * q = n
    OBVIOUS
  <2>1. PICK z \in Nat : n = BlockLen * z
    BY Multiple
  <2>2. z = q
    BY <1>1, <2>1, BlocksUnique
  <2> QED
    BY <2>1, <2>2
<1>3. m % BlockLen = 0 => BlockLen * r = m
  <2> SUFFICES ASSUME m % BlockLen = 0 PROVE BlockLen * r = m
    OBVIOUS
  <2>1. PICK z \in Nat : m = BlockLen * z
    BY Multiple
  <2>2. z = r
    BY <1>1, <2>1, BlocksUnique
  <2> QED
    BY <2>1, <2>2
<1> HIDE DEF q, r
<1>4. BlockLen * (q + r) = BlockLen * q + BlockLen * r /\ BlockLen * q \in Nat /\ BlockLen * r \in Nat
  BY <1>1
<1>5. n + m <= BlockLen * (q + r) /\ BlockLen * (q + r) < (n + m) + BlockLen
  BY <1>1, <1>2, <1>3, <1>4
<1>6. q + r = Blocks(n + m)
  <2>1. q + r \in Nat /\ n + m \in Nat
    BY <1>1
  <2> QED
    BY <1>5, <2>1, BlocksUnique
<1> QED
  BY <1>6 DEF q, r

(* What a context combines a byte with, and where a call leaves it. *)
LEMMA KeystreamIs ==
    ASSUME NEW k \in Nat, NEW algo \in Supported, NEW iv \in Counters, NEW n \in Nat,
           NEW p \in Nat
    PROVE  /\ Keystream(Sender(k, algo, iv, n), p, TRUE) = Name(k, algo, iv, n, p)
           /\ Keystream(Receiver(k, algo, iv, n), p, FALSE) = Name(k, algo, iv, n, p)
<1>1. p \div BlockLen \in Nat /\ Blocks(n) \in Nat
  BY BlocksIs, CounterSizes
<1>2. CASE algo \in Ctr
  <2>1. CounterAt(CounterAt(iv, Blocks(n)), p \div BlockLen) = CounterAt(iv, Blocks(n) + (p \div BlockLen))
    BY <1>1, CounterAdd
  <2> QED
    BY <1>2, <2>1 DEF Name, Place, Keystream, Context, Sender, Receiver
<1>3. CASE algo \notin Ctr
  BY <1>3 DEF Name, Place, Keystream, Context, Sender, Receiver
<1> QED
  BY <1>2, <1>3

(* The context after a call. *)
LEMMA AdvancedIs ==
    ASSUME NEW k \in Nat, NEW algo \in Supported, NEW iv \in Counters, NEW n \in Nat,
           NEW m \in Nat, n % BlockLen = 0 \/ m % BlockLen = 0
    PROVE  /\ Advanced(Sender(k, algo, iv, n), m) = Sender(k, algo, iv, n + m)
           /\ Advanced(Receiver(k, algo, iv, n), m) = Receiver(k, algo, iv, n + m)
<1>1. Blocks(n + m) = Blocks(n) + Blocks(m) /\ Blocks(n) \in Nat /\ Blocks(m) \in Nat
  BY BlocksAdd, BlocksIs
<1>2. CounterAt(CounterAt(iv, Blocks(n)), Blocks(m)) = CounterAt(iv, Blocks(n + m))
  BY <1>1, CounterAdd
<1>3. CASE algo \in Ctr
  BY <1>2, <1>3 DEF Advanced, Context, Sender, Receiver
<1>4. CASE algo \notin Ctr
  BY <1>1, <1>4 DEF Advanced, Context, Sender, Receiver
<1> QED
  BY <1>3, <1>4

(* The same byte of the stream, counted from another call. *)
LEMMA NameShift ==
    ASSUME NEW k \in Nat, NEW algo \in Supported, NEW iv \in Counters, NEW n \in Nat,
           NEW m \in Nat, m % BlockLen = 0, NEW p \in Nat
    PROVE  Name(k, algo, iv, n, m + p) = Name(k, algo, iv, n + m, p)
<1>1. PICK q \in Nat : m = BlockLen * q
  BY Multiple
<1>2. Blocks(m) = q
  BY <1>1, BlocksUnique, CounterSizes
<1>3. (m + p) \div BlockLen = q + (p \div BlockLen) /\ (m + p) % BlockLen = p % BlockLen
  <2> DEFINE x == p \div BlockLen
             y == p % BlockLen
  <2>1. p = BlockLen * x + y /\ x \in Nat /\ y \in 0..(BlockLen - 1)
    BY CounterSizes
  <2> HIDE DEF x, y
  <2>2. m + p = BlockLen * (q + x) + y
    BY <1>1, <2>1, CounterSizes
  <2>3. (m + p) \div BlockLen = q + x /\ (m + p) % BlockLen = y
    <3>1. \A z \in Nat : (BlockLen * z + y) \div BlockLen = z /\ (BlockLen * z + y) % BlockLen = y
      BY <2>1, CounterSizes
    <3> QED
      BY <2>1, <2>2, <3>1
  <2> QED
    BY <2>3 DEF x, y
<1>4. Blocks(n + m) = Blocks(n) + q /\ Blocks(n) \in Nat /\ p \div BlockLen \in Nat
  <2>1. Blocks(n + m) = Blocks(n) + Blocks(m)
    BY BlocksAdd
  <2>2. Blocks(n) \in Nat
    BY BlocksIs
  <2>3. p \div BlockLen \in Nat
    BY CounterSizes
  <2> QED
    BY <1>2, <2>1, <2>2, <2>3
<1>5. Blocks(n) + (q + (p \div BlockLen)) = (Blocks(n) + q) + (p \div BlockLen)
  BY <1>4
<1>6. Blocks(n) + ((m + p) \div BlockLen) = Blocks(n + m) + (p \div BlockLen)
  BY <1>3, <1>4, <1>5
<1> QED
  BY <1>3, <1>6 DEF Name

(* No two blocks of a stream have the same counter. *)
LEMMA PlacesDiffer ==
    ASSUME NEW algo, NEW iv \in Counters, NEW i \in Nat, NEW j \in Nat,
           i < Period[CounterLen], j < Period[CounterLen],
           Place(algo, iv, i) = Place(algo, iv, j)
    PROVE  i = j
<1>1. CASE algo \in Ctr
  BY <1>1, CountersDiffer DEF Place
<1>2. CASE algo \notin Ctr
  BY <1>2 DEF Place
<1> QED
  BY <1>1, <1>2

(* A stream is shorter than the blocks the counter can count. *)
LEMMA PeriodBound == /\ Period[CounterLen] \in Nat
                     /\ StreamLen <= BlockLen * (Period[CounterLen] - 1)
  BY PeriodIs, CounterSizes, CryptoAssumption

(* As many blocks as a stream has are fewer than there are counters. *)
LEMMA BlocksFew ==
    ASSUME NEW n \in Nat, n <= StreamLen
    PROVE  Blocks(n) < Period[CounterLen]
<1> DEFINE P == Period[CounterLen]
           q == Blocks(n)
<1>1. /\ q \in Nat /\ BlockLen * q < n + BlockLen /\ P \in Nat
      /\ StreamLen <= BlockLen * (P - 1) /\ BlockLen \in Nat \ {0} /\ StreamLen \in Nat
  BY BlocksIs, PeriodBound, CounterSizes
<1> HIDE DEF P, q
<1> SUFFICES ASSUME ~(q < P) PROVE FALSE
  BY DEF P, q
<1>2. PICK z \in Nat : q = P + z
  <2>1. q - P \in Nat /\ q = P + (q - P)
    BY <1>1
  <2> QED
    BY <2>1
<1>3. BlockLen * q = BlockLen * (P - 1) + BlockLen + BlockLen * z /\ BlockLen * z \in Nat
  BY <1>1, <1>2
<1> QED
  BY <1>1, <1>3

(* The keystream bytes of a stream are keystream bytes. *)
LEMMA SupportedBytes ==
    ASSUME NEW k \in Nat, NEW algo \in Supported, NEW iv \in Counters, NEW n \in Nat, NEW p \in Nat
    PROVE  Name(k, algo, iv, n, p) \in Names
  BY DEF Names

(* Combining a byte with a keystream byte. *)
LEMMA XorIs ==
    ASSUME NEW b \in Bytes, NEW z \in Names
    PROVE  /\ Xor(b, z) = [byte |-> b.byte, with |-> SymDiff(b.with, {z})]
           /\ Xor(b, z) \in Bytes
<1>1. SymDiff(b.with, {z}) \in SUBSET Names /\ b.byte \in Nat
  BY DEF SymDiff, Bytes
<1> DEFINE d == SymDiff(b.with, {z})
<1>2. Xor(b, z) = [b EXCEPT !.with = d]
  BY DEF Xor
<1> HIDE DEF d
<1>3. [b EXCEPT !.with = d] = [byte |-> b.byte, with |-> d]
  BY DEF Bytes
<1> QED
  BY <1>1, <1>2, <1>3 DEF Bytes, d

(* What a call makes of the bytes it is given. *)
LEMMA CryptIs ==
    ASSUME NEW x \in Seq(Bytes), NEW N \in [1..Len(x) -> Names]
    PROVE  /\ Len(x) \in Nat /\ DOMAIN x = 1..Len(x)
           /\ \A i \in 1..Len(x) :
                 /\ Xor(x[i], N[i]) = [byte |-> x[i].byte, with |-> SymDiff(x[i].with, {N[i]})]
                 /\ Xor(x[i], N[i]) \in Bytes
<1>1. Len(x) \in Nat /\ DOMAIN x = 1..Len(x) /\ \A i \in 1..Len(x) : x[i] \in Bytes
  BY LenProperties, ElementOfSeq
<1> QED
  BY <1>1, XorIs

(* Before the first key there is nothing on the wire. *)
LEMMA CipherInitInv == CryptoInit => CipherInv
<1> SUFFICES ASSUME CryptoInit PROVE CipherInv
  OBVIOUS
<1>1. /\ key = 0 /\ sent = 0 /\ used = {} /\ wire = <<>> /\ got = <<>> /\ enc = NULL
  BY DEF CryptoInit
<1>2. IsFiniteSet(used) /\ Cardinality(used) = 0
  BY <1>1, FS_EmptySet
<1>3. DOMAIN got = {}
  BY <1>1
<1>4. sent <= StreamLen
  BY <1>1, CounterSizes
<1>5. wire \in Seq(Seq(Bytes)) /\ got \in Seq(Bytes)
  BY <1>1
<1> QED
  BY <1>1, <1>2, <1>3, <1>4, <1>5 DEF CipherInv, CipherStreamExact

(* A new key starts a new stream, with nothing of the old one on the wire. *)
LEMMA CipherInitStep == ASSUME CipherInv, cipher_init PROVE CipherInv'
<1>1. /\ key' = key + 1 /\ key \in Nat /\ sent' = 0 /\ used' = {} /\ wire = <<>> /\ wire' = <<>> /\ got' = <<>>
  BY DEF CipherInv, cipher_init
<1>2. IsFiniteSet(used') /\ Cardinality(used') = 0
  BY <1>1, FS_EmptySet
<1>3. DOMAIN got' = {} /\ Len(got') = 0 /\ Len(wire') = 0
  BY <1>1
<1>4. key' \in Nat /\ sent' \in Nat /\ sent' <= StreamLen
  BY <1>1, CounterSizes
<1>5. wire' \in Seq(Seq(Bytes)) /\ got' \in Seq(Bytes)
  BY <1>1
<1>6. CipherStreamExact'
  BY <1>1, <1>2, <1>3 DEF CipherStreamExact
<1>7. (enc' = NULL /\ wire' = <<>>) \/ \E algo \in Supported, iv \in Counters : StreamInv(algo, iv)'
  <2>1. PICK algo \in Algorithms, iv \in Counters :
            IF algo \in Supported
            THEN enc' = CipherContext(algo, key', iv, TRUE) /\ dec' = CipherContext(algo, key', iv, FALSE)
            ELSE enc' = NULL /\ dec' = NULL
    BY DEF cipher_init
  <2>2. CASE algo \in Supported
    <3>1. Blocks(0) = 0
      <4>1. 0 \in Nat /\ 0 <= BlockLen * 0 /\ BlockLen * 0 < 0 + BlockLen
        BY CounterSizes
      <4> QED
        BY <4>1, BlocksUnique
    <3>2. CounterAt(iv, 0) = iv
      BY CounterStep
    <3>3. /\ CipherContext(algo, key', iv, TRUE) = Sender(key', algo, iv, 0)
          /\ CipherContext(algo, key', iv, FALSE) = Receiver(key', algo, iv, 0)
      BY <3>1, <3>2 DEF CipherContext, Context, Sender, Receiver
    <3>4. enc' = Sender(key', algo, iv, 0) /\ dec' = Receiver(key', algo, iv, 0)
      BY <2>1, <2>2, <3>3
    <3>5. StreamInv(algo, iv)'
      BY <1>1, <1>3, <3>4 DEF StreamInv
    <3> QED
      BY <2>2, <3>5
  <2>3. CASE algo \notin Supported
    BY <1>1, <2>1, <2>3
  <2> QED
    BY <2>2, <2>3
<1> QED
  BY <1>2, <1>4, <1>5, <1>6, <1>7 DEF CipherInv

(* While there is a stream, both contexts exist. *)
LEMMA StreamContexts ==
    ASSUME CipherInv, NEW algo \in Supported, NEW iv \in Counters, StreamInv(algo, iv), NEW p \in Nat
    PROVE  /\ Keystream(enc, p, TRUE) = Name(key, algo, iv, sent, p)
           /\ Keystream(dec, p, FALSE) = Name(key, algo, iv, Len(got), p)
           /\ Name(key, algo, iv, sent, p) \in Names
           /\ Name(key, algo, iv, Len(got), p) \in Names
<1>1. key \in Nat /\ sent \in Nat /\ got \in Seq(Bytes)
  BY DEF CipherInv
<1>2. Len(got) \in Nat
  BY <1>1, LenProperties
<1>3. enc = Sender(key, algo, iv, sent) /\ dec = Receiver(key, algo, iv, Len(got))
  BY DEF StreamInv
<1>4. Keystream(Sender(key, algo, iv, sent), p, TRUE) = Name(key, algo, iv, sent, p)
  BY <1>1, KeystreamIs
<1>5. Keystream(Receiver(key, algo, iv, Len(got)), p, FALSE) = Name(key, algo, iv, Len(got), p)
  <2> DEFINE q == Len(got)
  <2>1. q \in Nat /\ key \in Nat
    BY <1>1, <1>2
  <2> HIDE DEF q
  <2>2. Keystream(Receiver(key, algo, iv, q), p, FALSE) = Name(key, algo, iv, q, p)
    BY <2>1, KeystreamIs
  <2> QED
    BY <2>2 DEF q
<1>6. Keystream(enc, p, TRUE) = Name(key, algo, iv, sent, p)
  BY <1>3, <1>4
<1>7. Keystream(dec, p, FALSE) = Name(key, algo, iv, Len(got), p)
  BY <1>3, <1>5
<1> QED
  BY <1>1, <1>2, <1>6, <1>7, SupportedBytes

(* Encrypt: what is appended to the wire is the next piece of the stream, and its
   keystream bytes are new. *)
LEMMA EncryptPiece ==
    ASSUME CipherInv, NEW algo \in Supported, NEW iv \in Counters, StreamInv(algo, iv),
           NEW n \in 1..(StreamLen - sent),
           n % BlockLen = 0 \/ sent % BlockLen = 0
    PROVE  LET s == cipher_crypt(enc, [k \in 1..n |-> [byte |-> sent + k, with |-> {}]], TRUE)
           IN  s \in Seq(Bytes) /\ Len(s) = n /\ First(s) = sent /\ Piece(s, key, algo, iv)
<1> DEFINE plain == [k \in 1..n |-> [byte |-> sent + k, with |-> {}]]
           s == cipher_crypt(enc, plain, TRUE)
           N == [i \in 1..n |-> Name(key, algo, iv, sent, i - 1)]
<1>1. n \in Nat \ {0} /\ sent \in Nat /\ key \in Nat /\ enc = Sender(key, algo, iv, sent)
  BY CounterSizes DEF CipherInv, StreamInv
<1>2. plain \in Seq(Bytes) /\ Len(plain) = n /\ \A i \in 1..n : plain[i] = [byte |-> sent + i, with |-> {}]
  <2>1. \A k \in 1..n : [byte |-> sent + k, with |-> {}] \in Bytes
    BY <1>1 DEF Bytes
  <2>2. plain \in [1..n -> Bytes]
    BY <2>1
  <2> QED
    BY <1>1, <2>2
<1>3. /\ N \in [1..n -> Names]
      /\ \A i \in 1..n : Keystream(enc, i - 1, TRUE) = N[i]
  <2>1. \A i \in 1..n : i - 1 \in Nat
    OBVIOUS
  <2>2. \A p \in Nat : /\ Keystream(enc, p, TRUE) = Name(key, algo, iv, sent, p)
                       /\ Name(key, algo, iv, sent, p) \in Names
    BY StreamContexts
  <2> QED
    BY <2>1, <2>2
<1> HIDE DEF plain, N
<1>4. /\ s \in Seq(Bytes) /\ Len(s) = n
      /\ \A i \in 1..n : s[i] = [byte |-> sent + i, with |-> {N[i]}]
  <2>1. \A x : SymDiff({}, {x}) = {x}
    BY DEF SymDiff
  <2>2. /\ plain \in Seq(Bytes) /\ N \in [1..Len(plain) -> Names]
        /\ \A i \in 1..Len(plain) : Keystream(enc, i - 1, TRUE) = N[i]
    BY <1>2, <1>3
  <2>3. /\ DOMAIN plain = 1..n
        /\ \A i \in 1..n :
              /\ Xor(plain[i], N[i]) = [byte |-> plain[i].byte, with |-> SymDiff(plain[i].with, {N[i]})]
              /\ Xor(plain[i], N[i]) \in Bytes
    BY <1>2, <2>2, CryptIs
  <2>4. /\ s \in Seq(Bytes) /\ Len(s) = n
        /\ \A i \in 1..n : s[i] = [byte |-> plain[i].byte, with |-> SymDiff(plain[i].with, {N[i]})]
    <3>1. s = [i \in 1..n |-> Xor(plain[i], Keystream(enc, i - 1, TRUE))]
      BY <2>3 DEF cipher_crypt
    <3> HIDE DEF s
    <3>2. s \in [1..n -> Bytes] /\ \A i \in 1..n : s[i] = Xor(plain[i], N[i])
      BY <1>3, <2>3, <3>1
    <3>3. s \in Seq(Bytes) /\ Len(s) = n
      BY <1>1, <3>2
    <3> QED
      BY <2>3, <3>2, <3>3
  <2> HIDE DEF s
  <2>5. \A i \in 1..n : plain[i].byte = sent + i /\ plain[i].with = {}
    BY <1>2
  <2> QED
    BY <1>2, <2>1, <2>4, <2>5
<1> HIDE DEF s
<1>5. First(s) = sent
  <2>1. s[1] = [byte |-> sent + 1, with |-> {N[1]}]
    BY <1>1, <1>4
  <2>2. s[1].byte = sent + 1
    BY <2>1
  <2> QED
    BY <1>1, <2>2 DEF First
<1>6. s # <<>>
  BY <1>1, <1>4
<1>7. \A i \in 1..n : N[i] = Name(key, algo, iv, sent, i - 1)
  BY DEF N
<1>8. Piece(s, key, algo, iv)
  BY <1>1, <1>4, <1>5, <1>6, <1>7 DEF Piece
<1> QED
  BY <1>4, <1>5, <1>8 DEF s, plain

(* The keystream bytes of the call are new. *)
LEMMA EncryptNames ==
    ASSUME CipherInv, NEW algo \in Supported, NEW iv \in Counters, StreamInv(algo, iv),
           NEW n \in 1..(StreamLen - sent),
           n % BlockLen = 0 \/ sent % BlockLen = 0
    PROVE  LET new == {Keystream(enc, k - 1, TRUE) : k \in 1..n}
           IN  /\ IsFiniteSet(used \cup new)
               /\ Cardinality(used \cup new) = sent + n
               /\ \A u \in used \cup new :
                     \E i \in Nat : i < Blocks(sent + n) /\ u[4] = Place(algo, iv, i)
<1> DEFINE N(p) == Name(key, algo, iv, sent, p)
           f == [k \in 1..n |-> N(k - 1)]
           new == {Keystream(enc, k - 1, TRUE) : k \in 1..n}
           P == Period[CounterLen]
<1>1. /\ n \in Nat \ {0} /\ sent \in Nat /\ key \in Nat /\ enc = Sender(key, algo, iv, sent)
      /\ sent + n \in Nat /\ sent + n <= StreamLen /\ BlockLen \in Nat \ {0}
  BY CounterSizes DEF CipherInv, StreamInv
<1>2. \A k \in 1..n : k - 1 \in Nat /\ Keystream(enc, k - 1, TRUE) = N(k - 1)
  <2>1. \A k \in 1..n : k - 1 \in Nat
    OBVIOUS
  <2>2. \A p \in Nat : Keystream(enc, p, TRUE) = N(p)
    BY StreamContexts
  <2> QED
    BY <2>1, <2>2
<1>3. /\ Blocks(sent + n) = Blocks(sent) + Blocks(n) /\ Blocks(sent) \in Nat /\ Blocks(n) \in Nat
      /\ Blocks(sent + n) < P /\ P \in Nat
  <2>1. Blocks(sent + n) = Blocks(sent) + Blocks(n)
    BY <1>1, BlocksAdd
  <2>2. Blocks(sent) \in Nat /\ Blocks(n) \in Nat
    BY <1>1, BlocksIs
  <2>3. Blocks(sent + n) < P /\ P \in Nat
    BY <1>1, BlocksFew, PeriodBound
  <2> QED
    BY <2>1, <2>2, <2>3
<1> HIDE DEF P
<1>4. \A k \in 1..n : (k - 1) \div BlockLen \in Nat /\ (k - 1) \div BlockLen < Blocks(n)
  <2> SUFFICES ASSUME NEW k \in 1..n
               PROVE  (k - 1) \div BlockLen \in Nat /\ (k - 1) \div BlockLen < Blocks(n)
    OBVIOUS
  <2> DEFINE a == k - 1
             d == a \div BlockLen
             q == Blocks(n)
  <2>1. a \in Nat /\ a < n
    BY <1>1
  <2>2. d \in Nat /\ BlockLen * d <= a
    <3> HIDE DEF a
    <3> QED
      BY <1>1, <2>1
  <2>3. q \in Nat /\ n <= BlockLen * q
    BY <1>1, BlocksIs
  <2> HIDE DEF a, d, q
  <2>4. d < q
    <3> SUFFICES ASSUME ~(d < q) PROVE FALSE
      OBVIOUS
    <3>1. PICK z \in Nat : d = q + z
      <4>1. d - q \in Nat /\ d = q + (d - q)
        BY <2>2, <2>3
      <4> QED
        BY <4>1
    <3>2. BlockLen * d = BlockLen * q + BlockLen * z /\ BlockLen * z \in Nat /\ BlockLen * q \in Nat
      BY <1>1, <2>3, <3>1
    <3> QED
      BY <1>1, <2>1, <2>2, <2>3, <3>2
  <2> QED
    BY <2>2, <2>4 DEF a, d, q
<1>5. \A k \in 1..n :
          /\ N(k - 1)[4] = Place(algo, iv, Blocks(sent) + ((k - 1) \div BlockLen))
          /\ N(k - 1)[5] = (k - 1) % BlockLen
  BY DEF Name
<1> HIDE DEF N
<1>6. \A k \in 1..n : /\ Blocks(sent) + ((k - 1) \div BlockLen) \in Nat
                      /\ Blocks(sent) + ((k - 1) \div BlockLen) < Blocks(sent + n)
                      /\ Blocks(sent) <= Blocks(sent) + ((k - 1) \div BlockLen)
  BY <1>3, <1>4
<1>7. new = {N(k - 1) : k \in 1..n}
  BY <1>2
<1> HIDE DEF new
<1>8. \A k, l \in 1..n : N(k - 1) = N(l - 1) => k = l
  <2> SUFFICES ASSUME NEW k \in 1..n, NEW l \in 1..n, N(k - 1) = N(l - 1) PROVE k = l
    OBVIOUS
  <2> DEFINE i == Blocks(sent) + ((k - 1) \div BlockLen)
             j == Blocks(sent) + ((l - 1) \div BlockLen)
  <2>1. i \in Nat /\ j \in Nat /\ i < P /\ j < P
    BY <1>3, <1>6
  <2>2. Place(algo, iv, i) = Place(algo, iv, j) /\ (k - 1) % BlockLen = (l - 1) % BlockLen
    BY <1>5
  <2>3. i = j
    <3> HIDE DEF i, j
    <3> QED
      BY <2>1, <2>2, PlacesDiffer DEF P
  <2>4. (k - 1) \div BlockLen = (l - 1) \div BlockLen
    BY <1>3, <1>4, <2>3
  <2>5. \A a, b \in Nat : a \div BlockLen = b \div BlockLen /\ a % BlockLen = b % BlockLen => a = b
    <3> SUFFICES ASSUME NEW a \in Nat, NEW b \in Nat, a \div BlockLen = b \div BlockLen, a % BlockLen = b % BlockLen
                 PROVE  a = b
      OBVIOUS
    <3>1. /\ a = BlockLen * (a \div BlockLen) + (a % BlockLen)
          /\ b = BlockLen * (b \div BlockLen) + (b % BlockLen)
      BY <1>1
    <3> QED
      BY <3>1
  <2>6. k - 1 \in Nat /\ l - 1 \in Nat /\ k \in Int /\ l \in Int
    OBVIOUS
  <2>7. k - 1 = l - 1
    BY <2>2, <2>4, <2>5, <2>6
  <2> QED
    BY <2>6, <2>7
<1>9. IsFiniteSet(new) /\ Cardinality(new) = n
  <2>1. f \in Bijection(1..n, new)
    <3>1. f \in [1..n -> new]
      BY <1>7
    <3>2. \A a, b \in 1..n : f[a] = f[b] => a = b
      BY <1>8
    <3>3. \A t \in new : \E a \in 1..n : f[a] = t
      BY <1>7
    <3> HIDE DEF f
    <3> QED
      BY <3>1, <3>2, <3>3 DEF Bijection, Injection, Surjection, IsInjective
  <2>2. ExistsBijection(1..n, new)
    BY <2>1 DEF ExistsBijection
  <2>3. IsFiniteSet(1..n) /\ Cardinality(1..n) = n
    <3>1. 1 \in Int /\ n \in Int /\ ~(1 > n) /\ n - 1 + 1 = n
      BY <1>1
    <3> QED
      BY <3>1, FS_Interval
  <2> QED
    BY <2>2, <2>3, FS_Bijection
<1>10. used \cap new = {}
  <2> SUFFICES ASSUME NEW u \in used, u \in new PROVE FALSE
    OBVIOUS
  <2>1. PICK i \in Nat : i < Blocks(sent) /\ u[4] = Place(algo, iv, i)
    BY DEF StreamInv
  <2>2. PICK k \in 1..n : u = N(k - 1)
    BY <1>7
  <2> DEFINE j == Blocks(sent) + ((k - 1) \div BlockLen)
  <2>3. j \in Nat /\ Place(algo, iv, i) = Place(algo, iv, j) /\ j < P /\ i < P /\ i < j
    BY <1>3, <1>5, <1>6, <2>1, <2>2
  <2> HIDE DEF j
  <2>4. i = j
    BY <2>3, PlacesDiffer DEF P
  <2> QED
    BY <2>3, <2>4
<1>11. IsFiniteSet(used \cup new) /\ Cardinality(used \cup new) = sent + n
  <2>1. IsFiniteSet(used) /\ Cardinality(used) = sent
    BY DEF CipherInv, CipherStreamExact
  <2>2. /\ IsFiniteSet(used \cup new)
        /\ Cardinality(used \cup new) = Cardinality(used) + Cardinality(new) - Cardinality(used \cap new)
    BY <1>9, <2>1, FS_Union
  <2>3. Cardinality(used \cap new) = 0
    BY <1>10, FS_EmptySet
  <2> QED
    BY <1>1, <1>9, <2>1, <2>2, <2>3
<1>12. \A u \in used \cup new : \E i \in Nat : i < Blocks(sent + n) /\ u[4] = Place(algo, iv, i)
  <2>1. ASSUME NEW u \in used
        PROVE  \E i \in Nat : i < Blocks(sent + n) /\ u[4] = Place(algo, iv, i)
    <3>1. PICK i \in Nat : i < Blocks(sent) /\ u[4] = Place(algo, iv, i)
      BY DEF StreamInv
    <3>2. i < Blocks(sent + n)
      BY <1>3, <3>1
    <3> QED
      BY <3>1, <3>2
  <2>2. ASSUME NEW u \in new
        PROVE  \E i \in Nat : i < Blocks(sent + n) /\ u[4] = Place(algo, iv, i)
    <3>1. PICK k \in 1..n : u = N(k - 1)
      BY <1>7
    <3> QED
      BY <1>5, <1>6, <3>1
  <2> QED
    BY <2>1, <2>2
<1> QED
  BY <1>11, <1>12 DEF new

(* Encrypting keeps the stream whole. *)
LEMMA EncryptStep == ASSUME CipherInv, Encrypt PROVE CipherInv'
<1>1. PICK algo \in Supported, iv \in Counters : StreamInv(algo, iv)
  BY DEF CipherInv, Encrypt
<1>2. PICK n \in 1..(StreamLen - sent) :
          LET plain == [k \in 1..n |-> [byte |-> sent + k, with |-> {}]]
          IN  /\ n % BlockLen = 0 \/ (enc.is_ctr /\ sent % BlockLen = 0)
              /\ wire' = Append(wire, cipher_crypt(enc, plain, TRUE))
              /\ used' = used \cup {Keystream(enc, k - 1, TRUE) : k \in 1..n}
              /\ sent' = sent + n
              /\ enc' = Advanced(enc, n)
  BY DEF Encrypt
<1> DEFINE s == cipher_crypt(enc, [k \in 1..n |-> [byte |-> sent + k, with |-> {}]], TRUE)
           new == {Keystream(enc, k - 1, TRUE) : k \in 1..n}
<1>3. n % BlockLen = 0 \/ sent % BlockLen = 0
  BY <1>2
<1>4. wire' = Append(wire, s) /\ used' = used \cup new /\ sent' = sent + n /\ enc' = Advanced(enc, n)
  BY <1>2
<1>5. UNCHANGED <<key, dec, got>>
  BY DEF Encrypt
<1>6. /\ n \in Nat \ {0} /\ sent \in Nat /\ key \in Nat /\ sent + n \in Nat /\ sent + n <= StreamLen
      /\ wire \in Seq(Seq(Bytes)) /\ got \in Seq(Bytes)
  BY CounterSizes DEF CipherInv
<1>7. s \in Seq(Bytes) /\ Len(s) = n /\ First(s) = sent /\ Piece(s, key, algo, iv)
  BY <1>1, <1>3, EncryptPiece
<1>8. /\ IsFiniteSet(used \cup new) /\ Cardinality(used \cup new) = sent + n
      /\ \A u \in used \cup new :
            \E i \in Nat : i < Blocks(sent + n) /\ u[4] = Place(algo, iv, i)
  BY <1>1, <1>3, EncryptNames
<1> HIDE DEF s, new
<1>9. /\ Len(wire) \in Nat /\ wire' \in Seq(Seq(Bytes)) /\ Len(wire') = Len(wire) + 1
      /\ \A m \in 1..Len(wire) : wire'[m] = wire[m]
      /\ wire'[Len(wire) + 1] = s /\ wire' # <<>>
  <2> DEFINE S == Seq(Bytes)
             v == wire'
  <2>1. wire \in Seq(S) /\ s \in S /\ v = Append(wire, s)
    BY <1>4, <1>6, <1>7
  <2> HIDE DEF S, v
  <2>2. Len(wire) \in Nat
    BY <2>1, LenProperties
  <2>3. /\ v \in Seq(S) /\ Len(v) = Len(wire) + 1
        /\ \A m \in 1..Len(wire) : v[m] = wire[m]
        /\ v[Len(wire) + 1] = s
    BY <2>1, AppendProperties
  <2>4. v # <<>>
    BY <2>2, <2>3, EmptySeq
  <2> QED
    BY <2>2, <2>3, <2>4 DEF S, v
<1>10. enc' = Sender(key, algo, iv, sent + n)
  <2>1. enc = Sender(key, algo, iv, sent)
    BY <1>1 DEF StreamInv
  <2>2. Advanced(Sender(key, algo, iv, sent), n) = Sender(key, algo, iv, sent + n)
    BY <1>3, <1>6, AdvancedIs
  <2> QED
    BY <1>4, <2>1, <2>2
<1>11. \A m \in 1..Len(wire') : Piece(wire'[m], key, algo, iv)
  <2> SUFFICES ASSUME NEW m \in 1..Len(wire') PROVE Piece(wire'[m], key, algo, iv)
    OBVIOUS
  <2>1. CASE m \in 1..Len(wire)
    BY <1>1, <1>9, <2>1 DEF StreamInv
  <2>2. CASE m = Len(wire) + 1
    BY <1>7, <1>9, <2>2
  <2> QED
    BY <1>9, <2>1, <2>2
<1> DEFINE L == Len(wire)
<1>12. \A m \in 1..(Len(wire') - 1) : First(wire'[m + 1]) = First(wire'[m]) + Len(wire'[m])
  <2> SUFFICES ASSUME NEW m \in 1..(Len(wire') - 1)
               PROVE  First(wire'[m + 1]) = First(wire'[m]) + Len(wire'[m])
    OBVIOUS
  <2>1. m \in 1..L /\ L \in Nat
    BY <1>9
  <2>2. wire'[m] = wire[m]
    BY <1>9, <2>1
  <2>3. CASE m = L
    <3>1. wire # <<>> /\ wire'[m + 1] = s
      BY <1>6, <1>9, <2>1, <2>3
    <3>2. First(wire[L]) + Len(wire[L]) = sent
      BY <1>1, <3>1 DEF StreamInv
    <3> QED
      BY <1>7, <2>2, <2>3, <3>1, <3>2
  <2>4. CASE m # L
    <3>1. m \in 1..(L - 1) /\ m + 1 \in 1..L
      BY <2>1, <2>4
    <3>2. First(wire[m + 1]) = First(wire[m]) + Len(wire[m]) /\ wire'[m + 1] = wire[m + 1]
      BY <1>1, <1>9, <3>1 DEF StreamInv
    <3> QED
      BY <2>2, <3>2
  <2> QED
    BY <2>3, <2>4
<1>13. First(wire'[1]) = Len(got)
  <2>1. CASE wire = <<>>
    <3>1. Len(wire) = 0 /\ Len(got) = sent
      BY <1>1, <2>1 DEF StreamInv
    <3>2. wire'[1] = s
      BY <1>9, <3>1
    <3> QED
      BY <1>7, <3>1, <3>2
  <2>2. CASE wire # <<>>
    <3>1. 1 \in 1..Len(wire)
      BY <1>6, <1>9, <2>2
    <3> QED
      BY <1>1, <1>9, <2>2, <3>1 DEF StreamInv
  <2> QED
    BY <2>1, <2>2
<1>14. First(wire'[Len(wire')]) + Len(wire'[Len(wire')]) = sent + n
  BY <1>7, <1>9
<1>15. StreamInv(algo, iv)'
  <2>1. enc' = Sender(key', algo, iv, sent') /\ dec' = Receiver(key', algo, iv, Len(got'))
    BY <1>1, <1>4, <1>5, <1>10 DEF StreamInv
  <2>2. \A m \in 1..Len(wire') : Piece(wire'[m], key', algo, iv)
    BY <1>5, <1>11
  <2>3. \A u \in used' : \E i \in Nat : i < Blocks(sent') /\ u[4] = Place(algo, iv, i)
    BY <1>4, <1>8
  <2>4. First(wire'[1]) = Len(got') /\ First(wire'[Len(wire')]) + Len(wire'[Len(wire')]) = sent'
    BY <1>4, <1>5, <1>13, <1>14
  <2> QED
    BY <1>9, <1>12, <2>1, <2>2, <2>3, <2>4 DEF StreamInv
<1>16. CipherStreamExact'
  BY <1>4, <1>5, <1>8 DEF CipherInv, CipherStreamExact
<1> QED
  BY <1>4, <1>5, <1>6, <1>8, <1>9, <1>15, <1>16 DEF CipherInv

(* Decrypt: the bytes taken come out as they were sent. *)
LEMMA DecryptBytes ==
    ASSUME CipherInv, NEW algo \in Supported, NEW iv \in Counters, StreamInv(algo, iv),
           wire # <<>>, NEW n \in 1..Len(Head(wire))
    PROVE  LET y == cipher_crypt(dec, SubSeq(Head(wire), 1, n), FALSE)
           IN  /\ y \in Seq(Bytes) /\ Len(y) = n
               /\ \A i \in 1..n : y[i] = [byte |-> Len(got) + i, with |-> {}]
<1> DEFINE h == Head(wire)
           x == SubSeq(h, 1, n)
           y == cipher_crypt(dec, x, FALSE)
           N == [i \in 1..n |-> Name(key, algo, iv, Len(got), i - 1)]
<1>1. /\ h \in Seq(Bytes) /\ h = wire[1] /\ Len(wire) \in Nat \ {0}
      /\ got \in Seq(Bytes) /\ Len(got) \in Nat
  BY DEF CipherInv
<1>2. First(h) = Len(got) /\ Piece(h, key, algo, iv)
  BY <1>1 DEF StreamInv
<1> HIDE DEF h
<1>3. Len(h) \in Nat /\ n \in Nat \ {0} /\ n <= Len(h)
  BY <1>1 DEF h
<1>4. \A i \in 1..n : h[i] = [byte |-> Len(got) + i, with |-> {N[i]}]
  BY <1>2, <1>3 DEF Piece
<1>5. x \in Seq(Bytes) /\ Len(x) = n /\ \A i \in 1..n : x[i] = h[i]
  BY <1>1, <1>3
<1> HIDE DEF x
<1>6. N \in [1..n -> Names] /\ \A i \in 1..n : Keystream(dec, i - 1, FALSE) = N[i]
  <2>1. \A i \in 1..n : i - 1 \in Nat
    OBVIOUS
  <2>2. \A p \in Nat : /\ Keystream(dec, p, FALSE) = Name(key, algo, iv, Len(got), p)
                       /\ Name(key, algo, iv, Len(got), p) \in Names
    BY StreamContexts
  <2> QED
    BY <2>1, <2>2
<1> HIDE DEF N
<1>7. /\ DOMAIN x = 1..n
      /\ \A i \in 1..n :
            /\ Xor(x[i], N[i]) = [byte |-> x[i].byte, with |-> SymDiff(x[i].with, {N[i]})]
            /\ Xor(x[i], N[i]) \in Bytes
  <2>1. N \in [1..Len(x) -> Names]
    BY <1>5, <1>6
  <2> QED
    BY <1>5, <2>1, CryptIs
<1>8. y = [i \in 1..n |-> Xor(x[i], Keystream(dec, i - 1, FALSE))]
  BY <1>7 DEF cipher_crypt
<1> HIDE DEF y
<1>9. y \in [1..n -> Bytes] /\ \A i \in 1..n : y[i] = Xor(x[i], N[i])
  BY <1>6, <1>7, <1>8
<1>10. y \in Seq(Bytes) /\ Len(y) = n
  BY <1>3, <1>9
<1>11. \A i \in 1..n : x[i].byte = Len(got) + i /\ x[i].with = {N[i]}
  <2> SUFFICES ASSUME NEW i \in 1..n PROVE x[i].byte = Len(got) + i /\ x[i].with = {N[i]}
    OBVIOUS
  <2>1. x[i] = [byte |-> Len(got) + i, with |-> {N[i]}]
    BY <1>4, <1>5
  <2> QED
    BY <2>1
<1>12. \A z : SymDiff({z}, {z}) = {}
  BY DEF SymDiff
<1>13. \A i \in 1..n : y[i] = [byte |-> Len(got) + i, with |-> {}]
  BY <1>7, <1>9, <1>11, <1>12
<1> QED
  BY <1>10, <1>13 DEF y, x, h

(* What is left of a segment of which whole blocks were taken. *)
LEMMA RestPiece ==
    ASSUME key \in Nat, NEW algo \in Supported, NEW iv \in Counters,
           NEW h \in Seq(Bytes), Piece(h, key, algo, iv),
           NEW n \in 1..Len(h), n # Len(h), n % BlockLen = 0
    PROVE  LET rest == SubSeq(h, n + 1, Len(h))
           IN  /\ rest \in Seq(Bytes) /\ Len(rest) = Len(h) - n
               /\ First(rest) = First(h) + n /\ Piece(rest, key, algo, iv)
<1> DEFINE rest == SubSeq(h, n + 1, Len(h))
           F == First(h)
<1>1. Len(h) \in Nat /\ n \in Nat \ {0} /\ n < Len(h) /\ F \in Nat
  BY DEF Piece
<1>2. /\ rest \in Seq(Bytes) /\ Len(rest) = Len(h) - n
      /\ \A i \in 1..(Len(h) - n) : rest[i] = h[n + i]
  BY <1>1
<1> HIDE DEF rest
<1>3. \A i \in 1..Len(h) : h[i] = [byte |-> F + i, with |-> {Name(key, algo, iv, F, i - 1)}]
  BY DEF Piece
<1>4. F % BlockLen = 0 \/ Len(h) % BlockLen = 0
  BY DEF Piece
<1> HIDE DEF F
<1>5. ASSUME NEW i \in 1..(Len(h) - n)
      PROVE  rest[i] = [byte |-> (F + n) + i, with |-> {Name(key, algo, iv, F + n, i - 1)}]
  <2>1. n + i \in 1..Len(h) /\ i - 1 \in Nat /\ n + i - 1 = n + (i - 1) /\ F + (n + i) = (F + n) + i
    BY <1>1
  <2>2. Name(key, algo, iv, F, n + (i - 1)) = Name(key, algo, iv, F + n, i - 1)
    BY <1>1, <2>1, NameShift
  <2>3. h[n + i] = [byte |-> F + (n + i), with |-> {Name(key, algo, iv, F, n + i - 1)}]
    <3> DEFINE j == n + i
    <3>1. j \in 1..Len(h)
      BY <2>1
    <3> HIDE DEF j
    <3>2. h[j] = [byte |-> F + j, with |-> {Name(key, algo, iv, F, j - 1)}]
      BY <1>3, <3>1
    <3> QED
      BY <3>2 DEF j
  <2> QED
    BY <1>2, <2>1, <2>2, <2>3
<1>6. First(rest) = F + n
  <2>1. 1 \in 1..(Len(h) - n)
    BY <1>1
  <2>2. rest[1] = [byte |-> (F + n) + 1, with |-> {Name(key, algo, iv, F + n, 1 - 1)}]
    BY <1>5, <2>1
  <2>3. rest[1].byte = (F + n) + 1
    BY <2>2
  <2> QED
    BY <1>1, <2>3 DEF First
<1>7. (F + n) % BlockLen = 0 \/ (Len(h) - n) % BlockLen = 0
  <2>1. PICK q \in Nat : n = BlockLen * q
    BY <1>1, Multiple
  <2>2. CASE F % BlockLen = 0
    <3>1. PICK r \in Nat : F = BlockLen * r
      BY <1>1, <2>2, Multiple
    <3>2. F + n = BlockLen * (r + q) /\ r + q \in Nat
      BY <2>1, <3>1, CounterSizes
    <3>3. \A z \in Nat : (BlockLen * z) % BlockLen = 0
      BY CounterSizes
    <3> QED
      BY <3>2, <3>3
  <2>3. CASE Len(h) % BlockLen = 0
    <3>1. PICK r \in Nat : Len(h) = BlockLen * r
      BY <1>1, <2>3, Multiple
    <3>2. Len(h) - n = BlockLen * (r - q) /\ r - q \in Int
      BY <2>1, <3>1, CounterSizes
    <3>3. \A z \in Int : (BlockLen * z) % BlockLen = 0
      BY CounterSizes
    <3> QED
      BY <3>2, <3>3
  <2> QED
    BY <1>4, <2>2, <2>3
<1>8. rest # <<>>
  BY <1>1, <1>2
<1>9. Piece(rest, key, algo, iv)
  BY <1>1, <1>2, <1>5, <1>6, <1>7, <1>8 DEF Piece
<1> QED
  BY <1>2, <1>6, <1>9 DEF rest, F

(* Decrypting takes the stream on from where the receiver was. *)
LEMMA DecryptStep == ASSUME CipherInv, Decrypt PROVE CipherInv'
<1>1. wire # <<>> /\ UNCHANGED <<key, enc, used, sent>>
  BY DEF Decrypt
<1>2. PICK algo \in Supported, iv \in Counters : StreamInv(algo, iv)
  BY <1>1 DEF CipherInv
<1>3. PICK n \in 1..Len(Head(wire)) :
          LET whole == n = Len(Head(wire))
              rest == SubSeq(Head(wire), n + 1, Len(Head(wire)))
          IN  /\ n % BlockLen = 0 \/ whole
              /\ got' = got \o cipher_crypt(dec, SubSeq(Head(wire), 1, n), FALSE)
              /\ wire' = IF whole THEN Tail(wire) ELSE <<rest>> \o Tail(wire)
              /\ dec' = Advanced(dec, n)
  BY DEF Decrypt
<1> DEFINE h == Head(wire)
           L == Len(wire)
           rest == SubSeq(h, n + 1, Len(h))
           y == cipher_crypt(dec, SubSeq(h, 1, n), FALSE)
<1>4. /\ n % BlockLen = 0 \/ n = Len(h)
      /\ got' = got \o y /\ dec' = Advanced(dec, n)
      /\ n = Len(h) => wire' = Tail(wire)
      /\ n # Len(h) => wire' = <<rest>> \o Tail(wire)
  BY <1>3
<1>5. /\ wire \in Seq(Seq(Bytes)) /\ L \in Nat \ {0} /\ h \in Seq(Bytes) /\ h = wire[1]
      /\ got \in Seq(Bytes) /\ Len(got) \in Nat /\ Len(h) \in Nat
      /\ key \in Nat /\ sent \in Nat /\ n \in Nat \ {0}
      /\ Tail(wire) \in Seq(Seq(Bytes)) /\ Len(Tail(wire)) = L - 1
      /\ \A m \in 1..(L - 1) : Tail(wire)[m] = wire[m + 1]
  BY <1>1 DEF CipherInv
<1>6. /\ First(h) = Len(got) /\ Piece(h, key, algo, iv) /\ dec = Receiver(key, algo, iv, Len(got))
  BY <1>1, <1>2, <1>5 DEF StreamInv
<1>7. y \in Seq(Bytes) /\ Len(y) = n /\ \A i \in 1..n : y[i] = [byte |-> Len(got) + i, with |-> {}]
  BY <1>1, <1>2, DecryptBytes
<1> HIDE DEF y
<1>8. /\ got' \in Seq(Bytes) /\ Len(got') = Len(got) + n
      /\ \A i \in 1..Len(got') : got'[i] = [byte |-> i, with |-> {}]
  <2>1. \A i \in 1..Len(got) : got[i] = [byte |-> i, with |-> {}]
    <3>1. DOMAIN got = 1..Len(got)
      BY <1>5, LenProperties
    <3> QED
      BY <3>1 DEF CipherInv, CipherStreamExact
  <2>2. /\ got' \in Seq(Bytes) /\ Len(got') = Len(got) + n
        /\ \A i \in 1..(Len(got) + n) : got'[i] = IF i <= Len(got) THEN got[i] ELSE y[i - Len(got)]
    <3>1. /\ got \o y \in Seq(Bytes) /\ Len(got \o y) = Len(got) + Len(y)
          /\ \A i \in 1..(Len(got) + Len(y)) :
                (got \o y)[i] = IF i <= Len(got) THEN got[i] ELSE y[i - Len(got)]
      <4>1. got \in Seq(Bytes) /\ y \in Seq(Bytes)
        BY <1>5, <1>7
      <4> QED
        BY <4>1, ConcatProperties
    <3> QED
      BY <1>4, <1>7, <3>1
  <2>3. ASSUME NEW i \in 1..(Len(got) + n) PROVE got'[i] = [byte |-> i, with |-> {}]
    <3>1. CASE i <= Len(got)
      <4>1. i \in 1..Len(got)
        BY <1>5, <3>1
      <4> QED
        BY <2>1, <2>2, <3>1, <4>1
    <3>2. CASE ~(i <= Len(got))
      <4>1. i - Len(got) \in 1..n /\ Len(got) + (i - Len(got)) = i
        BY <1>5, <3>2
      <4>2. y[i - Len(got)] = [byte |-> Len(got) + (i - Len(got)), with |-> {}]
        BY <1>7, <4>1
      <4> QED
        BY <2>2, <3>2, <4>1, <4>2
    <3> QED
      BY <3>1, <3>2
  <2> QED
    BY <2>2, <2>3
<1>9. CipherStreamExact'
  <2>1. DOMAIN got' = 1..Len(got')
    BY <1>8, LenProperties
  <2>2. Cardinality(used') = sent'
    BY <1>1 DEF CipherInv, CipherStreamExact
  <2> QED
    BY <1>8, <2>1, <2>2 DEF CipherStreamExact
<1>10. dec' = Receiver(key', algo, iv, Len(got'))
  <2>1. Len(got) % BlockLen = 0 \/ n % BlockLen = 0
    BY <1>4, <1>6 DEF Piece
  <2>2. Advanced(Receiver(key, algo, iv, Len(got)), n) = Receiver(key, algo, iv, Len(got) + n)
    BY <1>5, <2>1, AdvancedIs
  <2> QED
    BY <1>1, <1>4, <1>6, <1>8, <2>2
<1>11. /\ enc' = Sender(key', algo, iv, sent')
       /\ \A u \in used' : \E i \in Nat : i < Blocks(sent') /\ u[4] = Place(algo, iv, i)
  BY <1>1, <1>2 DEF StreamInv
<1>12. /\ \A m \in 1..L : Piece(wire[m], key, algo, iv)
       /\ \A m \in 1..(L - 1) : First(wire[m + 1]) = First(wire[m]) + Len(wire[m])
       /\ First(wire[L]) + Len(wire[L]) = sent
  BY <1>1, <1>2 DEF StreamInv
<1>13. CASE n = Len(h)
  <2>1. wire' = Tail(wire) /\ wire' \in Seq(Seq(Bytes)) /\ Len(wire') = L - 1
    BY <1>4, <1>5, <1>13
  <2>2. \A m \in 1..(L - 1) : wire'[m] = wire[m + 1]
    BY <1>5, <2>1
  <2>3. \A m \in 1..Len(wire') : Piece(wire'[m], key', algo, iv)
    BY <1>1, <1>5, <1>12, <2>1, <2>2
  <2>4. \A m \in 1..(Len(wire') - 1) : First(wire'[m + 1]) = First(wire'[m]) + Len(wire'[m])
    BY <1>5, <1>12, <2>1, <2>2
  <2>5. wire' = <<>> => Len(got') = sent'
    <3> SUFFICES ASSUME wire' = <<>> PROVE Len(got') = sent'
      OBVIOUS
    <3>1. L = 1
      <4>1. Len(wire') = 0
        BY EmptySeq
      <4>2. Len(wire') = L - 1 /\ L \in Nat
        BY <1>5, <2>1
      <4>3. \A a \in Nat : 0 = a - 1 => a = 1
        OBVIOUS
      <4> HIDE DEF L
      <4> QED
        BY <4>1, <4>2, <4>3
    <3> QED
      BY <1>1, <1>5, <1>6, <1>8, <1>12, <1>13, <3>1
  <2>6. wire' # <<>> => First(wire'[1]) = Len(got') /\ First(wire'[Len(wire')]) + Len(wire'[Len(wire')]) = sent'
    <3> SUFFICES ASSUME wire' # <<>>
                 PROVE  First(wire'[1]) = Len(got') /\ First(wire'[Len(wire')]) + Len(wire'[Len(wire')]) = sent'
      OBVIOUS
    <3>1. L - 1 \in Nat \ {0}
      <4>1. Len(wire') \in Nat \ {0}
        BY <2>1, EmptySeq
      <4> QED
        BY <2>1, <4>1
    <3>2. wire'[1] = wire[2] /\ First(wire[2]) = First(wire[1]) + Len(wire[1])
      <4>1. 1 \in 1..(L - 1) /\ 1 + 1 = 2
        BY <3>1
      <4>2. wire'[1] = wire[1 + 1] /\ First(wire[1 + 1]) = First(wire[1]) + Len(wire[1])
        BY <1>12, <2>2, <4>1
      <4> QED
        BY <4>1, <4>2
    <3>3. wire'[L - 1] = wire[L]
      <4>1. L - 1 \in 1..(L - 1) /\ L - 1 + 1 = L
        BY <1>5, <3>1
      <4> QED
        BY <2>2, <4>1
    <3> QED
      BY <1>1, <1>5, <1>6, <1>8, <1>12, <1>13, <2>1, <3>2, <3>3
  <2>7. StreamInv(algo, iv)'
    BY <1>10, <1>11, <2>3, <2>4, <2>5, <2>6 DEF StreamInv
  <2> QED
    BY <1>1, <1>8, <1>9, <2>1, <2>7 DEF CipherInv
<1>14. CASE n # Len(h)
  <2>1. /\ rest \in Seq(Bytes) /\ Len(rest) = Len(h) - n
        /\ First(rest) = First(h) + n /\ Piece(rest, key, algo, iv)
    BY <1>4, <1>5, <1>6, <1>14, RestPiece
  <2> HIDE DEF rest
  <2>2. wire' = <<rest>> \o Tail(wire)
    BY <1>4, <1>14
  <2>3. /\ wire' \in Seq(Seq(Bytes)) /\ Len(wire') = L /\ wire'[1] = rest
        /\ \A m \in 2..L : wire'[m] = wire[m]
    <3>1. <<rest>> \in Seq(Seq(Bytes)) /\ Len(<<rest>>) = 1 /\ <<rest>>[1] = rest
      BY <2>1
    <3>2. /\ wire' \in Seq(Seq(Bytes)) /\ Len(wire') = 1 + (L - 1)
          /\ \A m \in 1..(1 + (L - 1)) : wire'[m] = IF m <= 1 THEN <<rest>>[m] ELSE Tail(wire)[m - 1]
      <4>1. Tail(wire) \in Seq(Seq(Bytes)) /\ Len(Tail(wire)) = L - 1
        BY <1>5
      <4>2. \A s, t \in Seq(Seq(Bytes)) :
              /\ s \o t \in Seq(Seq(Bytes)) /\ Len(s \o t) = Len(s) + Len(t)
              /\ \A m \in 1..(Len(s) + Len(t)) :
                   (s \o t)[m] = IF m <= Len(s) THEN s[m] ELSE t[m - Len(s)]
        BY ConcatProperties
      <4> QED
        BY <2>2, <3>1, <4>1, <4>2
    <3>3. wire'[1] = rest
      <4>1. 1 \in 1..(1 + (L - 1)) /\ 1 <= 1
        BY <1>5
      <4> QED
        BY <3>1, <3>2, <4>1
    <3>4. ASSUME NEW m \in 2..L PROVE wire'[m] = wire[m]
      <4>1. m \in 1..(1 + (L - 1)) /\ ~(m <= 1) /\ m - 1 \in 1..(L - 1) /\ m - 1 + 1 = m
        BY <1>5
      <4> QED
        BY <1>5, <3>2, <4>1
    <3>5. 1 + (L - 1) = L
      BY <1>5
    <3> QED
      BY <3>2, <3>3, <3>4, <3>5
  <2>4. \A m \in 1..L : Piece(wire'[m], key, algo, iv)
    <3> SUFFICES ASSUME NEW m \in 1..L PROVE Piece(wire'[m], key, algo, iv)
      OBVIOUS
    <3>1. CASE m = 1
      BY <2>1, <2>3, <3>1
    <3>2. CASE m # 1
      <4>1. m \in 2..L
        BY <1>5, <3>2
      <4> QED
        BY <1>12, <2>3, <4>1
    <3> QED
      BY <3>1, <3>2
  <2>5. First(rest) + Len(rest) = First(h) + Len(h)
    BY <1>5, <1>6, <2>1
  <2>6. \A m \in 1..L : First(wire'[m]) + Len(wire'[m]) = First(wire[m]) + Len(wire[m])
    <3> SUFFICES ASSUME NEW m \in 1..L
                 PROVE  First(wire'[m]) + Len(wire'[m]) = First(wire[m]) + Len(wire[m])
      OBVIOUS
    <3>1. CASE m = 1
      BY <1>5, <2>3, <2>5, <3>1
    <3>2. CASE m # 1
      <4>1. m \in 2..L
        BY <1>5, <3>2
      <4> QED
        BY <2>3, <4>1
    <3> QED
      BY <3>1, <3>2
  <2>7. \A m \in 1..(L - 1) : First(wire'[m + 1]) = First(wire'[m]) + Len(wire'[m])
    <3> SUFFICES ASSUME NEW m \in 1..(L - 1)
                 PROVE  First(wire'[m + 1]) = First(wire'[m]) + Len(wire'[m])
      OBVIOUS
    <3>1. m \in 1..L /\ m + 1 \in 2..L
      BY <1>5
    <3>2. wire'[m + 1] = wire[m + 1] /\ First(wire[m + 1]) = First(wire[m]) + Len(wire[m])
      BY <1>12, <2>3, <3>1
    <3> QED
      BY <2>6, <3>1, <3>2
  <2>8. First(wire'[L]) + Len(wire'[L]) = sent
    <3>1. L \in 1..L
      BY <1>5
    <3> QED
      BY <1>12, <2>6, <3>1
  <2>9. First(wire'[1]) = Len(got')
    BY <1>6, <1>8, <2>1, <2>3
  <2>10. wire' # <<>>
    BY <1>5, <2>3
  <2>11. StreamInv(algo, iv)'
    BY <1>1, <1>10, <1>11, <2>3, <2>4, <2>7, <2>8, <2>9, <2>10 DEF StreamInv
  <2> QED
    BY <1>1, <1>8, <1>9, <2>3, <2>11 DEF CipherInv
<1> QED
  BY <1>13, <1>14

(* Every step keeps the invariant. *)
LEMMA CipherNextInv == CipherInv /\ [LNext]_lvars => CipherInv'
<1> SUFFICES ASSUME CipherInv, [LNext]_lvars PROVE CipherInv'
  OBVIOUS
<1>1. CASE CipherNext
  BY <1>1, CipherInitStep, EncryptStep, DecryptStep DEF CipherNext
<1>2. CASE UNCHANGED ciphervars
  BY <1>2 DEF CipherInv, StreamInv, CipherStreamExact, ciphervars
<1>3. CipherNext \/ UNCHANGED ciphervars
  BY DEF LNext, lvars, cvars, CallFunction, UseFiles, UseCrypto, KexNext, KeyCall,
         bn_init, bn_free, bn_set_word, bn_load, curve25519_gen_k
<1> QED
  BY <1>1, <1>2, <1>3

(* However both ends cut the stream into calls, across carries of the counter and
   a change of keys, the receiver has the first bytes that were sent, and no
   keystream byte was used twice. *)
THEOREM CipherStreamsExact == LSpec => []CipherStreamExact
<1>1. LInit => CipherInv
  BY CipherInitInv DEF LInit
<1>2. CipherInv => CipherStreamExact
  BY DEF CipherInv
<1> QED
  BY <1>1, <1>2, CipherNextInv, PTL DEF LSpec

-----------------------------------------------------------------------------
(* The big number *)

(* The number as the buffer holds it: without leading zeros, in no more bytes than
   there are. *)
Octets == {b \in Int : 0 <= b /\ b < 256}
Number(b) ==
    /\ b \in [len : Nat, data : Seq(Octets)]
    /\ b.len <= Len(b.data) /\ Len(b.data) <= NumberLen
    /\ b.len > 0 => b.data[1] # 0

NumberInv ==
    /\ worth \in Nat
    /\ bn = NULL \/ (Number(bn) /\ Value(bn_to_bin(bn)) = worth)

(* The buffer has room for a byte. *)
LEMMA NumberSizes == NumberLen \in Nat \ {0} /\ 8 * NumberLen \in Nat /\ 8 * NumberLen >= 8
  BY CryptoAssumption

(* The powers of two are the products they are defined to be. *)
LEMMA PowersIs ==
    /\ \A n \in 0..(8 * NumberLen) : PowerOfTwo[n] \in Nat \ {0}
    /\ PowerOfTwo[0] = 1
    /\ \A n \in 1..(8 * NumberLen) : PowerOfTwo[n] = 2 * PowerOfTwo[n - 1]
<1> DEFINE M == 8 * NumberLen
           D == 0..M
           Body(f) == [n \in D |-> IF n = 0 THEN 1 ELSE 2 * f[n - 1]]
           Eq(f) == f = Body(f)
           F == [k \in Nat |-> [x \in Nat |-> 2 * x]]
<1>0. M \in Nat
  BY NumberSizes
<1>1. PICK g \in [0..M -> Nat] : Recurs(g, 1, F, M)
  <2>1. F \in [Nat -> [Nat -> Nat]] /\ 1 \in Nat
    OBVIOUS
  <2> HIDE DEF F, M
  <2> QED
    BY <1>0, <2>1, RecursionExists
<1>2. g[0] = 1 /\ \A n \in 1..M : g[n] = 2 * g[n - 1]
  <2> HIDE DEF M
  <2>1. \A n \in 1..M : n \in Nat /\ n - 1 \in 0..M
    BY <1>0
  <2>2. \A k \in Nat, x \in Nat : F[k][x] = 2 * x
    OBVIOUS
  <2> HIDE DEF F
  <2> QED
    BY <1>1, <2>1, <2>2 DEF Recurs
<1>3. PowerOfTwo = CHOOSE f : Eq(f)
  BY DEF PowerOfTwo
<1> HIDE DEF M
<1>4. Eq(g)
  <2>1. \A n \in D : n # 0 => n \in 1..M
    BY <1>0
  <2> QED
    BY <1>2, <2>1
<1>5. Eq(PowerOfTwo)
  <2> HIDE DEF Eq
  <2> QED
    BY <1>3, <1>4
<1>6. ASSUME NEW n \in D
      PROVE  PowerOfTwo[n] = IF n = 0 THEN 1 ELSE 2 * PowerOfTwo[n - 1]
  <2>1. \A f : Body(f)[n] = IF n = 0 THEN 1 ELSE 2 * f[n - 1]
    OBVIOUS
  <2>2. PowerOfTwo = Body(PowerOfTwo)
    BY <1>5
  <2> HIDE DEF Body
  <2> QED
    BY <2>1, <2>2
<1> HIDE DEF Body, Eq
<1>7. PowerOfTwo[0] = 1 /\ \A n \in 1..M : PowerOfTwo[n] = 2 * PowerOfTwo[n - 1]
  <2>1. 0 \in D /\ \A n \in 1..M : n \in D /\ n # 0
    BY <1>0
  <2> QED
    BY <1>6, <2>1
<1>8. \A n \in D : PowerOfTwo[n] \in Nat \ {0}
  <2> DEFINE T == {n \in Nat : n \in D => PowerOfTwo[n] \in Nat \ {0}}
  <2>1. 0 \in T
    BY <1>7
  <2>2. ASSUME NEW n \in Nat, n \in T PROVE n + 1 \in T
    <3>1. CASE n + 1 \in D
      <4>1. n \in D /\ n + 1 \in 1..M /\ n + 1 - 1 = n
        BY <1>0, <3>1
      <4>2. PowerOfTwo[n + 1] = 2 * PowerOfTwo[n]
        BY <1>7, <4>1
      <4> QED
        BY <2>2, <4>1, <4>2
    <3> QED
      BY <3>1
  <2>3. \A n \in Nat : n \in T
    <3> HIDE DEF T
    <3> QED
      BY <2>1, <2>2, SetInduction
  <2> QED
    BY <2>3
<1> QED
  BY <1>7, <1>8 DEF M

(* The small powers, and the powers eight apart. *)
LEMMA SmallPowers ==
    /\ PowerOfTwo[0] = 1 /\ PowerOfTwo[1] = 2 /\ PowerOfTwo[2] = 4 /\ PowerOfTwo[3] = 8
    /\ PowerOfTwo[4] = 16 /\ PowerOfTwo[5] = 32 /\ PowerOfTwo[6] = 64 /\ PowerOfTwo[7] = 128
    /\ PowerOfTwo[8] = 256
<1> DEFINE M == 8 * NumberLen
<1>1. M \in Nat /\ M >= 8 /\ \A n \in 1..M : PowerOfTwo[n] = 2 * PowerOfTwo[n - 1]
  BY NumberSizes, PowersIs
<1> HIDE DEF M
<1>2. 1 \in 1..M /\ 2 \in 1..M /\ 3 \in 1..M /\ 4 \in 1..M /\ 5 \in 1..M /\ 6 \in 1..M /\ 7 \in 1..M /\ 8 \in 1..M
  BY <1>1
<1>3. PowerOfTwo[0] = 1
  BY PowersIs
<1>4. PowerOfTwo[1] = 2 * PowerOfTwo[0] /\ PowerOfTwo[2] = 2 * PowerOfTwo[1] /\ PowerOfTwo[3] = 2 * PowerOfTwo[2]
  BY <1>1, <1>2
<1>5. PowerOfTwo[4] = 2 * PowerOfTwo[3] /\ PowerOfTwo[5] = 2 * PowerOfTwo[4] /\ PowerOfTwo[6] = 2 * PowerOfTwo[5]
  BY <1>1, <1>2
<1>6. PowerOfTwo[7] = 2 * PowerOfTwo[6] /\ PowerOfTwo[8] = 2 * PowerOfTwo[7]
  BY <1>1, <1>2
<1> QED
  BY <1>3, <1>4, <1>5, <1>6

(* Exponents add. *)
LEMMA PowersAdd ==
    ASSUME NEW a \in Nat
    PROVE  \A b \in Nat : a + b <= 8 * NumberLen =>
              PowerOfTwo[a + b] = PowerOfTwo[a] * PowerOfTwo[b]
<1> DEFINE M == 8 * NumberLen
           p(n) == PowerOfTwo[n]
           T == {b \in Nat : a + b <= M => p(a + b) = p(a) * p(b)}
<1>1. M \in Nat /\ p(0) = 1 /\ (\A n \in 0..M : p(n) \in Nat) /\ \A n \in 1..M : p(n) = 2 * p(n - 1)
  BY NumberSizes, PowersIs
<1> HIDE DEF M, p
<1>2. 0 \in T
  <2>1. a + 0 = a /\ (a <= M => a \in 0..M)
    BY <1>1
  <2>2. a <= M => p(a) = p(a) * 1
    BY <1>1, <2>1
  <2> QED
    BY <1>1, <2>1, <2>2
<1>3. ASSUME NEW b \in Nat, b \in T PROVE b + 1 \in T
  <2> SUFFICES ASSUME a + (b + 1) <= M PROVE p(a + (b + 1)) = p(a) * p(b + 1)
    OBVIOUS
  <2>1. /\ a + b <= M /\ a + (b + 1) \in 1..M /\ a + (b + 1) - 1 = a + b
        /\ b + 1 \in 1..M /\ b + 1 - 1 = b /\ a \in 0..M /\ b \in 0..M
    BY <1>1
  <2>2. p(a + (b + 1)) = 2 * p(a + b) /\ p(b + 1) = 2 * p(b) /\ p(a) \in Nat /\ p(b) \in Nat
    BY <1>1, <2>1
  <2>3. p(a + b) = p(a) * p(b)
    BY <1>3, <2>1
  <2>4. \A x, y \in Nat : 2 * (x * y) = x * (2 * y)
    OBVIOUS
  <2> QED
    BY <2>2, <2>3, <2>4
<1>4. \A b \in Nat : b \in T
  <2> HIDE DEF T
  <2> QED
    BY <1>2, <1>3, SetInduction
<1> QED
  BY <1>4 DEF M, p

(* The value of a number, byte by byte. *)
Values(w, s) ==
    /\ w \in [0..Len(s) -> Nat]
    /\ w[0] = 0
    /\ \A k \in 1..Len(s) : w[k] = 256 * w[k - 1] + s[k]

(* The value of a sequence of bytes is what its steps compute. *)
LEMMA ValueIs ==
    ASSUME NEW s \in Seq(Octets)
    PROVE  \E w : Values(w, s) /\ Value(s) = w[Len(s)]
<1> DEFINE M == Len(s)
           D == 0..M
           Body(f) == [n \in D |-> IF n = 0 THEN 0 ELSE 256 * f[n - 1] + s[n]]
           Eq(f) == f = Body(f)
           F == [k \in Nat |-> [x \in Nat |-> 256 * x + (IF k \in 1..M THEN s[k] ELSE 0)]]
           upto == CHOOSE f : Eq(f)
<1>0. M \in Nat /\ \A k \in 1..M : s[k] \in Nat
  BY LenProperties, ElementOfSeq DEF Octets
<1>1. Value(s) = upto[M]
  BY DEF Value
<1> HIDE DEF M
<1>2. PICK g \in [0..M -> Nat] : Recurs(g, 0, F, M)
  <2>1. F \in [Nat -> [Nat -> Nat]] /\ 0 \in Nat
    BY <1>0
  <2> HIDE DEF F
  <2> QED
    BY <1>0, <2>1, RecursionExists
<1>3. g[0] = 0 /\ \A n \in 1..M : g[n] = 256 * g[n - 1] + s[n]
  <2>1. \A n \in 1..M : n \in Nat /\ n - 1 \in 0..M
    BY <1>0
  <2>2. \A k \in 1..M, x \in Nat : F[k][x] = 256 * x + s[k]
    BY <1>0
  <2> HIDE DEF F
  <2>3. ASSUME NEW n \in 1..M PROVE g[n] = 256 * g[n - 1] + s[n]
    <3>1. g[n] = F[n][g[n - 1]]
      BY <1>2 DEF Recurs
    <3>2. g[n - 1] \in Nat
      BY <1>2, <2>1
    <3> QED
      BY <2>2, <3>1, <3>2
  <2> QED
    BY <1>2, <2>3 DEF Recurs
<1>4. Eq(g)
  <2>1. \A n \in D : n # 0 => n \in 1..M
    BY <1>0
  <2> QED
    BY <1>3, <2>1
<1>5. Eq(upto)
  <2> HIDE DEF Eq
  <2> QED
    BY <1>4
<1> HIDE DEF upto
<1>6. ASSUME NEW n \in D
      PROVE  upto[n] = IF n = 0 THEN 0 ELSE 256 * upto[n - 1] + s[n]
  <2>1. \A f : Body(f)[n] = IF n = 0 THEN 0 ELSE 256 * f[n - 1] + s[n]
    OBVIOUS
  <2>2. upto = Body(upto)
    BY <1>5
  <2> HIDE DEF Body
  <2> QED
    BY <2>1, <2>2
<1> HIDE DEF Eq, Body
<1>7. \A n \in D : upto[n] = g[n]
  <2> DEFINE T == {n \in Nat : n \in D => upto[n] = g[n]}
  <2>1. 0 \in T
    BY <1>3, <1>6
  <2>2. ASSUME NEW n \in Nat, n \in T PROVE n + 1 \in T
    <3>1. CASE n + 1 \in D
      <4>1. n \in D /\ n + 1 \in 1..M /\ n + 1 - 1 = n /\ n + 1 # 0
        BY <1>0, <3>1
      <4>2. upto[n + 1] = 256 * upto[n] + s[n + 1] /\ g[n + 1] = 256 * g[n] + s[n + 1]
        BY <1>3, <1>6, <3>1, <4>1
      <4> QED
        BY <2>2, <4>1, <4>2
    <3> QED
      BY <3>1
  <2>3. \A n \in Nat : n \in T
    <3> HIDE DEF T
    <3> QED
      BY <2>1, <2>2, SetInduction
  <2> QED
    BY <2>3
<1>8. upto[M] = g[M]
  BY <1>0, <1>7
<1>9. Values(g, s)
  BY <1>2, <1>3 DEF Values, M
<1> QED
  BY <1>1, <1>8, <1>9 DEF M

(* Leading zeros do not count. *)
LEMMA LeadingZeros ==
    ASSUME NEW s \in Seq(Octets), NEW t \in Seq(Octets), NEW z \in Nat,
           Len(s) = z + Len(t),
           \A i \in 1..z : s[i] = 0,
           \A i \in 1..Len(t) : s[z + i] = t[i]
    PROVE  Value(s) = Value(t)
<1>1. PICK w : Values(w, s) /\ Value(s) = w[Len(s)]
  BY ValueIs
<1>2. PICK v : Values(v, t) /\ Value(t) = v[Len(t)]
  BY ValueIs
<1> DEFINE L == Len(t)
<1>3. L \in Nat /\ Len(s) = z + L
  BY LenProperties
<1>4. w[0] = 0 /\ \A k \in 1..(z + L) : w[k] = 256 * w[k - 1] + s[k]
  BY <1>1, <1>3 DEF Values
<1>5. v[0] = 0 /\ \A k \in 1..L : v[k] = 256 * v[k - 1] + t[k]
  BY <1>2 DEF Values
<1> HIDE DEF L
<1> DEFINE Z == {n \in Nat : n <= z => w[n] = 0}
           T == {n \in Nat : n <= L => w[z + n] = v[n]}
<1>6. w[z] = 0
  <2>1. 0 \in Z
    BY <1>4
  <2>2. ASSUME NEW n \in Nat, n \in Z PROVE n + 1 \in Z
    <3>1. CASE n + 1 <= z
      <4>1. n <= z /\ n + 1 \in 1..z /\ n + 1 \in 1..(z + L) /\ n + 1 - 1 = n
        BY <1>3, <3>1
      <4>2. w[n + 1] = 256 * w[n] + s[n + 1] /\ s[n + 1] = 0 /\ w[n] = 0
        BY <1>4, <2>2, <4>1
      <4> QED
        BY <4>2
    <3> QED
      BY <3>1
  <2>3. \A n \in Nat : n \in Z
    <3> HIDE DEF Z
    <3> QED
      BY <2>1, <2>2, SetInduction
  <2>4. z \in Z
    BY <2>3
  <2> QED
    BY <2>4
<1>7. 0 \in T
  <2>1. z + 0 = z
    OBVIOUS
  <2> QED
    BY <1>5, <1>6, <2>1
<1>8. ASSUME NEW n \in Nat, n \in T PROVE n + 1 \in T
  <2>1. CASE n + 1 <= L
    <3>1. /\ n <= L /\ n + 1 \in 1..L /\ n + 1 - 1 = n
          /\ z + (n + 1) \in 1..(z + L) /\ z + (n + 1) - 1 = z + n
      BY <1>3, <2>1
    <3>2. w[z + (n + 1)] = 256 * w[z + n] + s[z + (n + 1)] /\ v[n + 1] = 256 * v[n] + t[n + 1]
      BY <1>4, <1>5, <3>1
    <3>3. s[z + (n + 1)] = t[n + 1]
      BY <3>1 DEF L
    <3>4. w[z + n] = v[n]
      BY <1>8, <3>1
    <3> QED
      BY <3>2, <3>3, <3>4
  <2> QED
    BY <2>1
<1>9. \A n \in Nat : n \in T
  <2> HIDE DEF T
  <2> QED
    BY <1>7, <1>8, SetInduction
<1>10. w[z + L] = v[L]
  BY <1>3, <1>9
<1> QED
  BY <1>1, <1>2, <1>3, <1>10 DEF L

(* The first byte and the length bound the value. *)
LEMMA ValueBounds ==
    ASSUME NEW t \in Seq(Octets), Len(t) # 0, Len(t) <= NumberLen
    PROVE  LET p == PowerOfTwo[8 * (Len(t) - 1)]
           IN  t[1] * p <= Value(t) /\ Value(t) < (t[1] + 1) * p /\ Value(t) \in Nat
<1> DEFINE L == Len(t)
           b == t[1]
           q(k) == PowerOfTwo[8 * (k - 1)]
<1>1. L \in Nat \ {0} /\ NumberLen \in Nat /\ \A i \in 1..L : t[i] \in Int /\ 0 <= t[i] /\ t[i] < 256
  BY LenProperties, ElementOfSeq, NumberSizes DEF Octets
<1>2. PICK w : Values(w, t) /\ Value(t) = w[L]
  BY ValueIs
<1>3. /\ w[0] = 0 /\ \A k \in 1..L : w[k] = 256 * w[k - 1] + t[k]
      /\ \A k \in 0..L : w[k] \in Nat
  BY <1>2 DEF Values
<1>4. b \in Nat
  <2>1. 1 \in 1..L
    BY <1>1
  <2> QED
    BY <1>1, <2>1
<1>5. q(1) = 1 /\ \A k \in 1..L : /\ q(k) \in Nat \ {0}
                                  /\ k + 1 <= L => q(k + 1) = 256 * q(k)
  <2>1. q(1) = 1
    <3>1. 8 * (1 - 1) = 0
      OBVIOUS
    <3> QED
      BY <3>1, PowersIs
  <2>2. ASSUME NEW k \in 1..L PROVE q(k) \in Nat \ {0}
    <3>1. 8 * (k - 1) \in 0..(8 * NumberLen)
      BY <1>1
    <3> QED
      BY <3>1, PowersIs
  <2>3. ASSUME NEW k \in 1..L, k + 1 <= L PROVE q(k + 1) = 256 * q(k)
    <3> DEFINE a == 8 * (k - 1)
    <3>1. a \in Nat /\ a + 8 <= 8 * NumberLen /\ 8 * (k + 1 - 1) = a + 8
      BY <1>1, <2>3
    <3>2. PowerOfTwo[a + 8] = PowerOfTwo[a] * PowerOfTwo[8]
      <4> HIDE DEF a
      <4> QED
        BY <3>1, PowersAdd
    <3>3. PowerOfTwo[8] = 256 /\ PowerOfTwo[a] \in Nat
      BY <2>2, SmallPowers
    <3> HIDE DEF a
    <3>4. PowerOfTwo[a + 8] = 256 * PowerOfTwo[a]
      BY <3>2, <3>3
    <3> QED
      BY <3>1, <3>4 DEF a
  <2> QED
    BY <2>1, <2>2, <2>3
<1> HIDE DEF q, b
<1> DEFINE OK(k) == b * q(k) <= w[k] /\ w[k] < (b + 1) * q(k)
           T == {n \in Nat : n + 1 <= L => OK(n + 1)}
<1>6. 0 \in T
  <2>1. 1 \in 1..L /\ 1 - 1 = 0 /\ 0 + 1 = 1
    BY <1>1
  <2>2. w[1] = 256 * w[0] + t[1]
    BY <1>3, <2>1
  <2>3. w[1] = b
    BY <1>3, <1>4, <2>2 DEF b
  <2>4. OK(1)
    BY <1>4, <1>5, <2>3
  <2> HIDE DEF OK
  <2> QED
    BY <2>1, <2>4
<1>7. ASSUME NEW n \in Nat, n \in T PROVE n + 1 \in T
  <2> SUFFICES ASSUME n + 1 + 1 <= L PROVE OK(n + 1 + 1)
    OBVIOUS
  <2> DEFINE k == n + 1
  <2>1. k \in 1..L /\ k + 1 <= L /\ k + 1 \in 1..L /\ k + 1 - 1 = k /\ k \in 0..L
    BY <1>1
  <2>2. OK(k)
    BY <1>7, <2>1
  <2> HIDE DEF k
  <2>3. w[k + 1] = 256 * w[k] + t[k + 1] /\ q(k + 1) = 256 * q(k)
    BY <1>3, <1>5, <2>1
  <2>4. /\ t[k + 1] \in Int /\ 0 <= t[k + 1] /\ t[k + 1] < 256
        /\ q(k) \in Nat /\ w[k] \in Nat
    BY <1>1, <1>3, <1>5, <2>1
  <2>5. /\ b * q(k) \in Nat /\ (b + 1) * q(k) \in Nat
        /\ b * (256 * q(k)) = 256 * (b * q(k)) /\ (b + 1) * (256 * q(k)) = 256 * ((b + 1) * q(k))
    <3>1. \A x, y \in Nat : x * y \in Nat /\ x * (256 * y) = 256 * (x * y)
      OBVIOUS
    <3> DEFINE c == b + 1
               r == q(k)
    <3>2. b \in Nat /\ c \in Nat /\ r \in Nat
      BY <1>4, <2>4
    <3> HIDE DEF c, r
    <3>3. b * r \in Nat /\ b * (256 * r) = 256 * (b * r)
      BY <3>1, <3>2
    <3>4. c * r \in Nat /\ c * (256 * r) = 256 * (c * r)
      BY <3>1, <3>2
    <3> QED
      BY <3>3, <3>4 DEF c, r
  <2> DEFINE lo == b * q(k)
             hi == (b + 1) * q(k)
  <2>6. /\ lo \in Nat /\ hi \in Nat /\ lo <= w[k] /\ w[k] < hi
        /\ b * q(k + 1) = 256 * lo /\ (b + 1) * q(k + 1) = 256 * hi
    BY <2>2, <2>3, <2>5
  <2> HIDE DEF lo, hi
  <2>7. 256 * lo <= w[k + 1] /\ w[k + 1] < 256 * hi
    <3>1. \A x, y, c \in Int : 0 <= c /\ c < 256 /\ lo <= x /\ x < hi /\ y = 256 * x + c
            => 256 * lo <= y /\ y < 256 * hi
      BY <2>6
    <3>2. w[k] \in Int /\ w[k + 1] \in Int
      BY <2>3, <2>4
    <3> QED
      BY <2>3, <2>4, <2>6, <3>1, <3>2
  <2>8. OK(k + 1)
    BY <2>6, <2>7
  <2> QED
    BY <2>8 DEF k
<1>8. \A n \in Nat : n \in T
  <2> HIDE DEF T
  <2> QED
    BY <1>6, <1>7, SetInduction
<1>9. OK(L)
  <2>1. L - 1 \in Nat /\ L - 1 + 1 = L /\ L <= L
    BY <1>1
  <2>2. L - 1 \in T
    BY <1>8, <2>1
  <2> HIDE DEF OK
  <2> QED
    BY <2>1, <2>2
<1>10. Value(t) \in Nat /\ b * q(L) <= Value(t) /\ Value(t) < (b + 1) * q(L)
  BY <1>1, <1>2, <1>3, <1>9
<1> QED
  BY <1>10 DEF b, q, L

(* Strip takes off the leading zeros, and them only. *)
LEMMA StripIs ==
    ASSUME NEW s \in Seq(Octets)
    PROVE  /\ Strip(s) \in Seq(Octets) /\ Len(Strip(s)) <= Len(s)
           /\ Len(Strip(s)) # 0 => Strip(s)[1] # 0
           /\ Value(Strip(s)) = Value(s)
<1> DEFINE I == {i \in 1..Len(s) : s[i] # 0}
           k == IF I # {} THEN Min(I) ELSE 0
           t == Strip(s)
<1>1. Len(s) \in Nat /\ \A i \in 1..Len(s) : s[i] \in Octets
  BY LenProperties, ElementOfSeq
<1>2. t = IF k = 0 THEN <<>> ELSE SubSeq(s, k, Len(s))
  BY DEF Strip, SelectInSeq
<1> HIDE DEF t
<1>3. CASE I = {}
  <2>1. t = <<>> /\ t \in Seq(Octets) /\ Len(t) = 0
    BY <1>2, <1>3
  <2>2. \A i \in 1..Len(s) : s[i] = 0
    BY <1>3
  <2>3. Len(s) = Len(s) + Len(t) /\ \A i \in 1..Len(t) : s[Len(s) + i] = t[i]
    BY <1>1, <2>1
  <2>4. Value(s) = Value(t)
    BY <1>1, <2>1, <2>2, <2>3, LeadingZeros
  <2> QED
    BY <1>1, <2>1, <2>4 DEF t
<1>4. CASE I # {}
  <2>1. k \in I /\ \A i \in I : k <= i
    <3>1. I \in SUBSET Nat
      BY <1>1
    <3>2. k = Min(I)
      BY <1>4
    <3> HIDE DEF I, k
    <3>3. \E n \in I : \A m \in I : n <= m
      BY <1>4, <3>1, LeastNumber
    <3> QED
      BY <3>2, <3>3 DEF Min
  <2> HIDE DEF k
  <2>2. k \in 1..Len(s) /\ s[k] # 0 /\ k \in Nat \ {0}
    BY <1>1, <2>1
  <2>3. t = SubSeq(s, k, Len(s))
    BY <1>2, <2>2
  <2>4. /\ t \in Seq(Octets) /\ Len(t) = Len(s) - k + 1
        /\ \A i \in 1..(Len(s) - k + 1) : t[i] = s[k + i - 1]
    BY <1>1, <2>2, <2>3
  <2>5. \A i \in 1..(k - 1) : s[i] = 0
    <3> SUFFICES ASSUME NEW i \in 1..(k - 1), s[i] # 0 PROVE FALSE
      OBVIOUS
    <3>1. i \in 1..Len(s) /\ ~(k <= i)
      BY <1>1, <2>2
    <3> QED
      BY <2>1, <3>1
  <2>6. k - 1 \in Nat /\ Len(s) = (k - 1) + Len(t)
    BY <1>1, <2>2, <2>4
  <2>7. \A i \in 1..Len(t) : s[(k - 1) + i] = t[i]
    <3> SUFFICES ASSUME NEW i \in 1..Len(t) PROVE s[(k - 1) + i] = t[i]
      OBVIOUS
    <3>1. i \in 1..(Len(s) - k + 1) /\ k + i - 1 = (k - 1) + i
      BY <2>2, <2>4
    <3> QED
      BY <2>4, <3>1
  <2>8. Value(s) = Value(t)
    <3> DEFINE z == k - 1
    <3>1. z \in Nat /\ Len(s) = z + Len(t) /\ (\A i \in 1..z : s[i] = 0) /\ \A i \in 1..Len(t) : s[z + i] = t[i]
      BY <2>5, <2>6, <2>7
    <3> HIDE DEF z
    <3> QED
      BY <2>4, <3>1, LeadingZeros
  <2>9. t[1] # 0
    <3>1. 1 \in 1..(Len(s) - k + 1) /\ k + 1 - 1 = k
      BY <1>1, <2>2
    <3> QED
      BY <2>2, <2>4, <3>1
  <2>10. Len(t) <= Len(s)
    BY <1>1, <2>2, <2>4
  <2> QED
    BY <2>4, <2>8, <2>9, <2>10 DEF t
<1> QED
  BY <1>3, <1>4

(* What the buffer holds afterwards. *)
LEMMA StoredIs ==
    ASSUME NEW b, Number(b), NEW s \in Seq(Octets), Len(s) <= NumberLen,
           Len(s) # 0 => s[1] # 0
    PROVE  Number(Stored(b, s)) /\ bn_to_bin(Stored(b, s)) = s
<1> DEFINE L == Len(s)
           d == b.data
           rest == SubSeq(d, L + 1, Len(d))
           e == IF Len(d) >= L THEN s \o rest ELSE s
<1>1. /\ L \in Nat /\ d \in Seq(Octets) /\ Len(d) \in Nat /\ Len(d) <= NumberLen
      /\ NumberLen \in Nat
  BY LenProperties, NumberSizes DEF Number
<1>2. Stored(b, s) = [len |-> L, data |-> e]
  BY DEF Stored
<1> HIDE DEF d
<1>3. /\ e \in Seq(Octets) /\ Len(e) \in Nat /\ L <= Len(e) /\ Len(e) <= NumberLen
      /\ \A i \in 1..L : e[i] = s[i]
  <2>1. CASE Len(d) >= L
    <3>1. rest \in Seq(Octets) /\ Len(rest) = Len(d) - L
      BY <1>1, <2>1
    <3> HIDE DEF rest
    <3>2. /\ s \o rest \in Seq(Octets) /\ Len(s \o rest) = Len(s) + Len(rest)
          /\ \A i \in 1..(Len(s) + Len(rest)) : (s \o rest)[i] = IF i <= Len(s) THEN s[i] ELSE rest[i - Len(s)]
      BY <3>1, ConcatProperties
    <3>3. e = s \o rest
      BY <2>1
    <3> HIDE DEF e
    <3>4. Len(e) = Len(d) /\ e \in Seq(Octets)
      BY <1>1, <3>1, <3>2, <3>3
    <3>5. ASSUME NEW i \in 1..L PROVE e[i] = s[i]
      <4>1. i \in 1..(Len(s) + Len(rest)) /\ i <= Len(s)
        BY <1>1, <2>1, <3>1
      <4> QED
        BY <3>2, <3>3, <4>1
    <3> QED
      BY <1>1, <2>1, <3>4, <3>5
  <2>2. CASE ~(Len(d) >= L)
    BY <1>1, <2>2
  <2> QED
    BY <2>1, <2>2
<1> HIDE DEF e
<1>4. SubSeq(e, 1, L) = s
  <2> DEFINE u == SubSeq(e, 1, L)
  <2>1. u \in Seq(Octets) /\ Len(u) = L /\ \A i \in 1..L : u[i] = e[i]
    BY <1>1, <1>3
  <2> HIDE DEF u
  <2>2. u = s
    BY <1>3, <2>1, SeqEqual
  <2> QED
    BY <2>2 DEF u
<1>5. bn_to_bin(Stored(b, s)) = s
  BY <1>2, <1>4 DEF bn_to_bin
<1>6. L > 0 => e[1] # 0
  <2> SUFFICES ASSUME L > 0 PROVE e[1] # 0
    OBVIOUS
  <2>1. 1 \in 1..L /\ L # 0
    BY <1>1
  <2> QED
    BY <1>3, <2>1
<1>7. Number(Stored(b, s))
  <2> DEFINE r == [len |-> L, data |-> e]
  <2>1. r \in [len : Nat, data : Seq(Octets)] /\ r.len = L /\ r.data = e
    BY <1>1, <1>3
  <2> HIDE DEF r
  <2>2. Number(r)
    BY <1>3, <1>6, <2>1 DEF Number
  <2> QED
    BY <1>2, <2>2 DEF r
<1> QED
  BY <1>5, <1>7

(* No bytes are worth nothing. *)
LEMMA EmptyValue == Value(<<>>) = 0
<1>1. <<>> \in Seq(Octets) /\ Len(<<>>) = 0
  OBVIOUS
<1>2. PICK w : Values(w, <<>>) /\ Value(<<>>) = w[Len(<<>>)]
  BY <1>1, ValueIs
<1> QED
  BY <1>1, <1>2 DEF Values

(* The value is a number. *)
LEMMA ValueType == ASSUME NEW s \in Seq(Octets) PROVE Value(s) \in Nat
<1>1. PICK w : Values(w, s) /\ Value(s) = w[Len(s)]
  BY ValueIs
<1>2. Len(s) \in 0..Len(s)
  BY LenProperties
<1> QED
  BY <1>1, <1>2 DEF Values

(* Loading a number, whatever was in the buffer. *)
LEMMA LoadStep ==
    ASSUME NumberInv, bn # NULL, NEW s \in Seq(Octets), Len(s) <= NumberLen,
           bn' = Stored(bn, Strip(s)), worth' = Value(s)
    PROVE  NumberInv'
<1> DEFINE t == Strip(s)
<1>1. t \in Seq(Octets) /\ Len(t) <= Len(s) /\ (Len(t) # 0 => t[1] # 0) /\ Value(t) = Value(s)
  BY StripIs
<1> HIDE DEF t
<1>2. Len(t) <= NumberLen
  BY <1>1, LenProperties, NumberSizes
<1>3. Number(bn)
  BY DEF NumberInv
<1>4. Number(Stored(bn, t)) /\ bn_to_bin(Stored(bn, t)) = t
  BY <1>1, <1>2, <1>3, StoredIs
<1>5. bn' = Stored(bn, t)
  BY DEF t
<1>6. Number(bn') /\ bn_to_bin(bn') = t
  BY <1>4, <1>5
<1>7. Value(s) \in Nat
  BY ValueType
<1> QED
  BY <1>1, <1>6, <1>7 DEF NumberInv

(* The one byte of a word. *)
LEMMA WordType ==
    ASSUME NEW n \in Nat, NEW s \in [1..n -> NumberBytes]
    PROVE  s \in Seq(Octets) /\ Len(s) = n
<1>1. NumberBytes \subseteq Octets
  <2>1. \A b \in 0..255 : b \in Octets
    BY DEF Octets
  <2> QED
    BY <2>1, CryptoAssumption
<1>2. s \in [1..n -> Octets]
  BY <1>1
<1> QED
  BY <1>2

(* The calls that store a number, one by one. *)
LEMMA FromBinStep ==
    ASSUME NumberInv, bn # NULL, NEW s \in Seq(Octets), Len(s) <= NumberLen, bn_from_bin(s)
    PROVE  NumberInv'
<1>1. CASE bn' = Stored(bn, Strip(s)) /\ worth' = Value(s)
  BY <1>1, LoadStep
<1>2. CASE UNCHANGED <<bn, worth>>
  BY <1>2 DEF NumberInv
<1> QED
  BY <1>1, <1>2 DEF bn_from_bin, kexvars

LEMMA SetWordStep == ASSUME NumberInv, bn_set_word PROVE NumberInv'
<1>1. bn # NULL /\ Number(bn)
  BY DEF bn_set_word, NumberInv
<1>2. PICK w \in [1..NumberLen -> NumberBytes], ok \in BOOLEAN :
          /\ bn' = IF Ensured(bn, Strip(w), ok) THEN Stored(bn, Strip(w)) ELSE [bn EXCEPT !.len = 0]
          /\ worth' = IF Ensured(bn, Strip(w), ok) THEN Value(w) ELSE 0
  BY DEF bn_set_word
<1>3. w \in Seq(Octets) /\ Len(w) <= NumberLen
  BY NumberSizes, WordType
<1>4. CASE Ensured(bn, Strip(w), ok)
  <2>1. bn' = Stored(bn, Strip(w)) /\ worth' = Value(w)
    BY <1>2, <1>4
  <2> QED
    BY <1>1, <1>3, <2>1, LoadStep
<1>5. CASE ~Ensured(bn, Strip(w), ok)
  <2>1. bn' = [bn EXCEPT !.len = 0] /\ worth' = 0
    BY <1>2, <1>5
  <2>2. bn' \in [len : Nat, data : Seq(Octets)] /\ bn'.len = 0 /\ bn'.data = bn.data
    BY <1>1, <2>1 DEF Number
  <2>3. Len(bn.data) \in Nat /\ Len(bn.data) <= NumberLen
    BY <1>1, LenProperties DEF Number
  <2>4. Number(bn')
    BY <2>2, <2>3 DEF Number
  <2>5. bn_to_bin(bn') = <<>>
    <3>1. SubSeq(bn.data, 1, 0) = <<>>
      BY SubSeqEmpty
    <3> QED
      BY <2>2, <3>1 DEF bn_to_bin
  <2>6. Value(bn_to_bin(bn')) = 0
    BY <2>5, EmptyValue
  <2> QED
    BY <2>1, <2>4, <2>6 DEF NumberInv
<1> QED
  BY <1>4, <1>5

LEMMA BnInitStep == ASSUME NumberInv, bn_init \/ bn_free PROVE NumberInv'
<1>1. worth' = 0
  BY DEF bn_init, bn_free
<1>2. CASE bn' = NULL
  BY <1>1, <1>2 DEF NumberInv
<1>3. CASE bn' = [len |-> 0, data |-> <<>>]
  <2>1. <<>> \in Seq(Octets) /\ Len(<<>>) = 0
    OBVIOUS
  <2>2. bn' \in [len : Nat, data : Seq(Octets)] /\ bn'.len = 0 /\ bn'.data = <<>>
    BY <1>3, <2>1
  <2>3. Number(bn')
    BY <2>1, <2>2, NumberSizes DEF Number
  <2>4. SubSeq(<<>>, 1, 0) = <<>>
    BY SubSeqEmpty
  <2>5. Value(bn_to_bin(bn')) = 0
    BY <2>2, <2>4, EmptyValue DEF bn_to_bin
  <2> QED
    BY <1>1, <2>3, <2>5 DEF NumberInv
<1> QED
  BY <1>2, <1>3 DEF bn_init, bn_free

(* The steps of the key exchange. *)
LEMMA KexStep == ASSUME NumberInv, KexNext PROVE NumberInv'
<1>1. CASE bn_load
  <2>1. PICK s \in Numbers : bn_from_bin(s) /\ bn # NULL
    BY <1>1 DEF bn_load
  <2>2. PICK n \in 0..NumberLen : s \in [1..n -> NumberBytes]
    BY DEF Numbers
  <2>3. n \in Nat /\ n <= NumberLen
    BY NumberSizes
  <2>4. s \in Seq(Octets) /\ Len(s) = n
    BY <2>2, <2>3, WordType
  <2> QED
    BY <2>1, <2>3, <2>4, FromBinStep
<1>2. CASE curve25519_gen_k
  <2>1. PICK s \in [1..NumberLen -> NumberBytes] : bn_from_bin(s) /\ bn # NULL
    BY <1>2 DEF curve25519_gen_k
  <2>2. s \in Seq(Octets) /\ Len(s) = NumberLen /\ NumberLen <= NumberLen
    BY NumberSizes, WordType
  <2> QED
    BY <2>1, <2>2, FromBinStep
<1> QED
  BY <1>1, <1>2, BnInitStep, SetWordStep DEF KexNext

(* The length in bits is the exponent of the first power of two above the number,
   and what libssh2 makes of it is the shortest encoding. *)
LEMMA NumberExact ==
    ASSUME NumberInv, bn # NULL
    PROVE  SecretExact
<1> DEFINE t == bn_to_bin(bn)
           L == bn.len
           b == t[1]
           S == {n \in 0..8 : b < PowerOfTwo[n]}
           e == Min(S)
           a == 8 * (L - 1)
           m == Mpint(bn)
<1>1. /\ Number(bn) /\ Value(t) = worth /\ worth \in Nat
      /\ L \in Nat /\ bn.data \in Seq(Octets) /\ L <= Len(bn.data) /\ Len(bn.data) <= NumberLen
      /\ Len(bn.data) \in Nat /\ NumberLen \in Nat
  BY LenProperties, NumberSizes DEF NumberInv, Number
<1>2. t \in Seq(Octets) /\ Len(t) = L /\ \A i \in 1..L : t[i] = bn.data[i]
  <2> DEFINE d == bn.data
  <2>1. t = SubSeq(d, 1, L)
    BY DEF bn_to_bin
  <2> HIDE DEF d, t, L
  <2>2. d \in Seq(Octets) /\ L \in Nat /\ L <= Len(d) /\ Len(d) \in Nat
    BY <1>1 DEF d, L
  <2>3. t \in Seq(Octets) /\ Len(t) = L /\ \A i \in 1..L : t[i] = d[i]
    BY <2>1, <2>2
  <2> QED
    BY <2>3 DEF d
<1>3. CASE L = 0
  <2>1. m = <<>> /\ bn_bits(bn) = 0
    BY <1>3 DEF Mpint, bn_bits
  <2>2. t = <<>>
    BY <1>2, <1>3, EmptySeq
  <2>3. worth = 0
    BY <1>1, <2>2, EmptyValue
  <2>4. worth < PowerOfTwo[bn_bits(bn)]
    BY <2>1, <2>3, PowersIs
  <2> HIDE DEF t
  <2> QED
    BY <1>1, <2>1, <2>3, <2>4 DEF SecretExact, t
<1>4. CASE L # 0
  <2>1. 1 \in 1..L /\ L > 0 /\ L <= NumberLen /\ a \in Nat /\ a + 8 <= 8 * NumberLen /\ L - 1 \in Nat
    BY <1>1, <1>4
  <2>2. b = bn.data[1] /\ b # 0 /\ b \in Int /\ 0 <= b /\ b < 256
    <3>1. b = bn.data[1] /\ b \in Octets
      BY <1>2, <2>1, ElementOfSeq
    <3>2. bn.data[1] # 0
      BY <1>1, <2>1 DEF Number
    <3> QED
      BY <3>1, <3>2 DEF Octets
  <2>3. bn_bits(bn) = a + e
    BY <1>4, <2>2 DEF bn_bits
  <2> HIDE DEF b
  <2>4. /\ e \in 1..8 /\ b < PowerOfTwo[e] /\ PowerOfTwo[e - 1] <= b
        /\ b >= 128 <=> e = 8
    <3>1. 8 \in S /\ 0 \notin S
      BY <2>2, SmallPowers
    <3>2. S \in SUBSET Nat /\ S # {}
      BY <3>1
    <3>3. e \in S /\ \A n \in S : e <= n
      <4> HIDE DEF S
      <4>1. \E n \in S : \A k \in S : n <= k
        BY <3>2, LeastNumber
      <4> QED
        BY <4>1 DEF Min
    <3> HIDE DEF e
    <3>4. e \in 0..8 /\ e # 0 /\ b < PowerOfTwo[e]
      BY <3>1, <3>3
    <3>5. e \in {1, 2, 3, 4, 5, 6, 7, 8}
      BY <3>4
    <3>6. e - 1 \in 0..8 /\ e - 1 \notin S /\ e \in 1..8
      BY <3>3, <3>5
    <3>7. PowerOfTwo[e - 1] <= b
      <4>1. ~(b < PowerOfTwo[e - 1])
        BY <3>6
      <4>2. PowerOfTwo[e - 1] \in Nat
        <5>1. e - 1 \in 0..(8 * NumberLen)
          BY <3>6, NumberSizes
        <5> QED
          BY <5>1, PowersIs
      <4> QED
        BY <2>2, <4>1, <4>2
    <3>8. b >= 128 <=> e = 8
      <4>1. 7 \in S <=> b < 128
        BY SmallPowers
      <4>2. b < 128 => e <= 7
        BY <3>3, <4>1
      <4>3. e = 1 \/ e = 2 \/ e = 3 \/ e = 4 \/ e = 5 \/ e = 6 \/ e = 7 => b < 128
        BY <2>2, <3>4, SmallPowers
      <4> QED
        BY <2>2, <3>5, <4>2, <4>3
    <3> QED
      BY <3>4, <3>6, <3>7, <3>8
  <2> HIDE DEF e, S
  <2> DEFINE p == PowerOfTwo[a]
  <2>5. b * p <= worth /\ worth < (b + 1) * p
    <3>1. /\ t[1] * PowerOfTwo[8 * (Len(t) - 1)] <= Value(t)
          /\ Value(t) < (t[1] + 1) * PowerOfTwo[8 * (Len(t) - 1)]
      <4> HIDE DEF t
      <4>1. t \in Seq(Octets) /\ Len(t) # 0 /\ Len(t) <= NumberLen
        BY <1>2, <1>4, <2>1
      <4> QED
        BY <4>1, ValueBounds
    <3>2. 8 * (Len(t) - 1) = a
      BY <1>2
    <3> QED
      BY <1>1, <3>1, <3>2 DEF b
  <2>6. /\ PowerOfTwo[a + e] = p * PowerOfTwo[e] /\ PowerOfTwo[a + e - 1] = p * PowerOfTwo[e - 1]
        /\ p \in Nat \ {0} /\ PowerOfTwo[e] \in Nat /\ PowerOfTwo[e - 1] \in Nat
    <3> HIDE DEF a
    <3>1. e \in Nat /\ e - 1 \in Nat /\ a + e <= 8 * NumberLen /\ a + (e - 1) <= 8 * NumberLen /\ a + (e - 1) = a + e - 1
      BY <2>1, <2>4, NumberSizes
    <3>2. PowerOfTwo[a + e] = p * PowerOfTwo[e] /\ PowerOfTwo[a + (e - 1)] = p * PowerOfTwo[e - 1]
      BY <2>1, <3>1, PowersAdd
    <3>3. a \in 0..(8 * NumberLen) /\ e \in 0..(8 * NumberLen) /\ e - 1 \in 0..(8 * NumberLen)
      BY <2>1, <3>1, NumberSizes
    <3> QED
      BY <3>1, <3>2, <3>3, PowersIs
  <2>7. worth < PowerOfTwo[bn_bits(bn)] /\ worth >= PowerOfTwo[bn_bits(bn) - 1] /\ worth > 0
    <3> DEFINE x == PowerOfTwo[e]
               y == PowerOfTwo[e - 1]
    <3>1. x \in Nat /\ y \in Nat /\ b + 1 <= x /\ y <= b /\ b \in Nat /\ b >= 1
      BY <2>2, <2>4, <2>6
    <3> HIDE DEF x, y, p
    <3>2. \A u, v, w \in Nat : u <= v => u * w <= v * w
      OBVIOUS
    <3>3. (b + 1) * p <= x * p /\ y * p <= b * p /\ 1 * p <= b * p
      BY <2>6, <3>1, <3>2
    <3>4. x * p \in Nat /\ y * p \in Nat /\ b * p \in Nat /\ (b + 1) * p \in Nat /\ 1 * p = p /\ p * x = x * p /\ p * y = y * p
      BY <2>6, <3>1
    <3>5. worth < x * p /\ worth >= y * p /\ worth > 0
      <4> DEFINE X == x * p
                 Y == y * p
                 B == b * p
                 B1 == (b + 1) * p
      <4>1. /\ X \in Nat /\ Y \in Nat /\ B \in Nat /\ B1 \in Nat /\ p \in Nat \ {0}
            /\ B1 <= X /\ Y <= B /\ p <= B /\ B <= worth /\ worth < B1
        BY <2>5, <2>6, <3>3, <3>4
      <4> HIDE DEF X, Y, B, B1
      <4>2. worth \in Nat
        BY <1>1
      <4>3. worth < X /\ worth >= Y /\ worth > 0
        BY <4>1, <4>2
      <4> QED
        BY <4>3 DEF X, Y
    <3>6. PowerOfTwo[a + e] = x * p /\ PowerOfTwo[a + e - 1] = y * p
      <4>1. PowerOfTwo[a + e] = p * x /\ PowerOfTwo[a + e - 1] = p * y
        BY <2>6 DEF x, y
      <4> QED
        BY <3>4, <4>1
    <3> HIDE DEF a
    <3>7. worth < PowerOfTwo[a + e] /\ worth >= PowerOfTwo[a + e - 1]
      BY <3>5, <3>6
    <3>8. a \in Int /\ e \in Int
      BY <2>1, <2>4
    <3>9. bn_bits(bn) \in Int /\ bn_bits(bn) = a + e /\ bn_bits(bn) - 1 = a + e - 1
      BY <2>3, <3>8
    <3> QED
      BY <3>5, <3>7, <3>9
  <2>8. m # <<>> /\ Value(m) = worth /\ m[1] < 128 /\ (m[1] = 0 => m[2] >= 128)
    <3>1. bn_bits(bn) % 8 = 0 <=> e = 8
      <4>1. \A q \in Nat, r \in 1..8 : (8 * q + r) % 8 = 0 <=> r = 8
        OBVIOUS
      <4> QED
        BY <2>1, <2>3, <2>4, <4>1
    <3>2. CASE e # 8
      <4>1. m = t
        BY <1>4, <3>1, <3>2 DEF Mpint
      <4> QED
        BY <1>1, <1>2, <1>4, <2>2, <2>4, <3>2, <4>1 DEF b
    <3>3. CASE e = 8
      <4>1. m = <<0>> \o t
        BY <1>4, <3>1, <3>3 DEF Mpint
      <4> HIDE DEF m, t
      <4>2. 0 \in Octets /\ <<0>> \in Seq(Octets) /\ Len(<<0>>) = 1
        BY DEF Octets
      <4>3. /\ <<0>> \o t \in Seq(Octets) /\ Len(<<0>> \o t) = Len(<<0>>) + Len(t)
            /\ \A i \in 1..(Len(<<0>>) + Len(t)) :
                  (<<0>> \o t)[i] = IF i <= Len(<<0>>) THEN <<0>>[i] ELSE t[i - Len(<<0>>)]
        BY <1>2, <4>2, ConcatProperties
      <4>4. /\ m \in Seq(Octets) /\ Len(m) = 1 + Len(t)
            /\ \A i \in 1..(1 + Len(t)) : m[i] = IF i <= 1 THEN <<0>>[i] ELSE t[i - 1]
        BY <4>1, <4>2, <4>3
      <4>5. Len(t) \in Nat \ {0}
        BY <1>1, <1>2, <1>4
      <4>6. m[1] = 0
        <5>1. 1 \in 1..(1 + Len(t)) /\ <<0>>[1] = 0
          BY <4>5
        <5> QED
          BY <4>4, <5>1
      <4>7. \A i \in 1..Len(t) : m[1 + i] = t[i]
        <5> SUFFICES ASSUME NEW i \in 1..Len(t) PROVE m[1 + i] = t[i]
          OBVIOUS
        <5>1. 1 + i \in 1..(1 + Len(t)) /\ ~(1 + i <= 1) /\ 1 + i - 1 = i
          BY <4>5
        <5> QED
          BY <4>4, <5>1
      <4>8. m[2] >= 128
        <5>1. 1 \in 1..Len(t) /\ 1 + 1 = 2
          BY <4>5
        <5>2. m[2] = t[1]
          BY <4>7, <5>1
        <5> QED
          BY <2>4, <3>3, <5>2 DEF b
      <4>9. Value(m) = Value(t)
        <5>1. \A i \in 1..1 : m[i] = 0
          BY <4>6
        <5> QED
          BY <1>2, <4>4, <4>7, <5>1, LeadingZeros
      <4>10. m # <<>>
        BY <4>4, <4>5, EmptySeq
      <4> QED
        BY <1>1, <4>6, <4>8, <4>9, <4>10 DEF m, t
    <3> QED
      BY <3>2, <3>3
  <2> HIDE DEF t, m
  <2> QED
    BY <1>1, <2>7, <2>8 DEF SecretExact, t, m
<1> QED
  BY <1>3, <1>4

(* Every step keeps the invariant. *)
LEMMA NumberNextInv == NumberInv /\ [LNext]_lvars => NumberInv'
<1> SUFFICES ASSUME NumberInv, [LNext]_lvars PROVE NumberInv'
  OBVIOUS
<1>1. CASE KexNext
  BY <1>1, KexStep
<1>2. CASE UNCHANGED <<bn, worth>>
  BY <1>2 DEF NumberInv
<1>3. KexNext \/ UNCHANGED <<bn, worth>>
  BY DEF LNext, lvars, cvars, kexvars, CallFunction, UseFiles, UseCrypto, KeyCall,
         CipherNext, cipher_init, Encrypt, Decrypt
<1> QED
  BY <1>1, <1>2, <1>3

(* Whatever was stored before and whichever allocations failed, the number is the
   one of the last call that succeeded, bits is its length in bits, and what
   libssh2 sends of it is the shortest encoding that is not negative. *)
THEOREM SecretsExact == LSpec => []SecretExact
<1>1. LInit => NumberInv
  BY DEF LInit, CryptoInit, NumberInv
<1>2. NumberInv => SecretExact
  BY NumberExact DEF SecretExact
<1> QED
  BY <1>1, <1>2, NumberNextInv, PTL DEF LSpec
=============================================================================
