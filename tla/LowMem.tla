------------------------------- MODULE LowMem -------------------------------
(***************************************************************************)
(* Conventional memory shared with real mode: what main() allocates, how   *)
(* port/dosint21_uc386dos.c finds flat addresses for it, and the INT 21h   *)
(* gate that runs a three-byte thunk (CD 21 CB) in one of its paragraphs.  *)
(*                                                                         *)
(* Addresses are counted in paragraphs.  A pointer p of the program is the *)
(* linear address p + base of its flat segment; the paragraph real mode    *)
(* calls seg is at linear address seg + map.  The program may be wrong     *)
(* about both.  mem is linear memory; an address outside its domain holds  *)
(* no memory, and what is written there does not read back.                *)
(***************************************************************************)
EXTENDS Integers

CONSTANTS
    BounceSeg, PktSeg, I21Seg, StackSeg,  \* where DPMI 0100h finds blocks
    MemTop,       \* linear memory is 1..MemTop
    Bases, Maps,  \* possible bases of the client and shifts of real mode
    Frees,        \* free conventional memory when main() starts
    MaxClobbers   \* bound: paragraphs overwritten behind the program's back

Hole == MemTop + 1     \* a linear address without memory
Paras == <<256, 128, 64, 32>>

\* Blocks are apart, and wherever real mode is mapped they are memory.
ASSUME LowMemAssumption ==
    /\ MemTop \in Nat /\ MaxClobbers \in Nat
    /\ Bases \subseteq Nat /\ Maps \subseteq Nat /\ Frees \subseteq Nat
    /\ LET blocks == <<BounceSeg, PktSeg, I21Seg, StackSeg>>
       IN  \A i \in 1..4 : /\ blocks[i] \in 1..MemTop
                           /\ \A m \in Maps : blocks[i] + m <= MemTop
                           /\ \A j \in 1..4 : blocks[i] = blocks[j] => i = j

VARIABLES
    env,            \* [base, map, dpmi, ds]: the extender, fixed at the start
    free,           \* free paragraphs
    stage,          \* how far main() has come
    bounce_seg, bounce_linear,   \* pktdrv_preallocated_bounce_seg / _linear
    pkt_seg, i21_seg,            \* the two preallocated thunk segments, or 0
    resolved,       \* dos_bounce_resolve returned 0
    stack_paras,    \* dos_rm_stack_bytes / 16, 0 without a stack of our own
    thunk_linear,   \* dos_int21_thunk_linear, 0 until armed
    mem,
    asked,          \* name a call under way put in the bounce buffer, or "none"
    overwritten,    \* history: a received frame was put over that name
    rm,             \* the last real-mode call: what it ran, which name it read,
                    \* which it was meant to read, and its stack pointer
    clobbers

segs == <<bounce_seg, pkt_seg, i21_seg>>
naming == <<asked, overwritten>>
lowVars == <<env, free, stage, segs, bounce_linear, resolved, stack_paras,
             thunk_linear, mem, naming, rm, clobbers>>

NoCall == [code |-> "none", name |-> "none", asked |-> "none",
           overwritten |-> FALSE, sp |-> 0]

LowInit ==
    /\ env \in [base : Bases, map : Maps, dpmi : {"right", "fails", "hole"},
                ds : BOOLEAN]
    /\ free \in Frees
    /\ stage = "main"
    /\ bounce_seg = 0 /\ bounce_linear = 0 /\ pkt_seg = 0 /\ i21_seg = 0
    /\ resolved = FALSE /\ stack_paras = 0 /\ thunk_linear = 0
    /\ mem = [x \in 1..MemTop |-> "junk"]
    /\ asked = "none" /\ overwritten = FALSE
    /\ rm = NoCall /\ clobbers = 0

Real(seg) == seg + env.map              \* linear address of a real-mode paragraph
Flat(p) == p + env.base                 \* linear address behind a pointer
Put(m, x, c) == IF x \in DOMAIN m THEN [m EXCEPT ![x] = c] ELSE m
Get(m, x) == IF x \in DOMAIN m THEN m[x] ELSE "nothing"

\* DPMI 0002h then 0006h, as three places of the code call them: 0 when
\* either fails.  The answer is an absolute linear address.
DpmiLinear(seg) ==
    CASE env.dpmi = "right" -> Real(seg)
      [] env.dpmi = "fails" -> 0
      [] env.dpmi = "hole" -> Hole

\* 0006h on our own data selector; a failure is taken for a base of 0.
dos_client_base == IF env.ds THEN env.base ELSE 0

-----------------------------------------------------------------------------
(* main() and dos_int21_thunk_preinit, in the order they run *)

Preallocate ==
    /\ stage = "main"
    /\ LET b == free >= 128
           afterB == IF b THEN free - 128 ELSE free
           p == b /\ afterB >= 5
           afterP == IF p THEN afterB - 5 ELSE afterB
           t == b /\ afterP >= 1
           linear == DpmiLinear(BounceSeg)
       IN  /\ bounce_seg' = IF b THEN BounceSeg ELSE 0
           /\ bounce_linear' = IF ~b THEN 0
                               ELSE IF linear # 0 THEN linear ELSE BounceSeg
           /\ pkt_seg' = IF p THEN PktSeg ELSE 0
           /\ i21_seg' = IF t THEN I21Seg ELSE 0
           /\ free' = IF t THEN afterP - 1 ELSE afterP
    /\ stage' = "resolve"
    /\ UNCHANGED <<env, resolved, stack_paras, thunk_linear, mem, naming,
                   rm, clobbers>>

\* Fault form: the absolute address is used as a pointer.
RebasedAbsolute(chosen) == chosen

\* The absolute address as an offset in our own segment.
Rebased(chosen) == chosen - dos_client_base

\* When resolution fails, main's value stays and is used all the same.
dos_bounce_resolve ==
    /\ stage = "resolve"
    /\ LET linear == DpmiLinear(bounce_seg)
           chosen == IF linear # 0 THEN linear ELSE bounce_seg
           below == dos_client_base # 0 /\ chosen < dos_client_base
           p == Rebased(chosen)
           tried == Put(mem, Flat(p), "probe")
           ok == bounce_seg # 0 /\ ~below /\ Get(tried, Flat(p)) = "probe"
       IN  /\ mem' = IF bounce_seg # 0 /\ ~below THEN tried ELSE mem
           /\ resolved' = ok
           /\ bounce_linear' = IF ok THEN p ELSE bounce_linear
    /\ stage' = "stack"
    /\ UNCHANGED <<env, free, segs, stack_paras, thunk_linear, naming, rm, clobbers>>

\* The largest of four sizes that DPMI 0100h grants, or none.
StackAlloc ==
    /\ stage = "stack"
    /\ LET fit == {i \in DOMAIN Paras : Paras[i] <= free}
           got == IF fit = {} THEN 0
                  ELSE Paras[CHOOSE i \in fit : \A j \in fit : i <= j]
       IN  stack_paras' = got /\ free' = free - got
    /\ stage' = "probe"
    /\ UNCHANGED <<env, segs, bounce_linear, resolved, thunk_linear, mem, naming, rm,
                   clobbers>>

-----------------------------------------------------------------------------
(* The gate *)

\* dos_int21_thunk_init: write the thunk through the first address that
\* reads back.  Both candidates are absolute; neither is rebased.
dos_int21_thunk_init(m) ==
    LET c1 == DpmiLinear(i21_seg)
        m1 == IF c1 = 0 THEN m ELSE Put(m, Flat(c1), "CD21CB")
        ok1 == c1 # 0 /\ Get(m1, Flat(c1)) = "CD21CB"
        m2 == Put(m1, Flat(i21_seg), "CD21CB")
        ok2 == Get(m2, Flat(i21_seg)) = "CD21CB"
    IN  CASE thunk_linear # 0 -> [mem |-> m, linear |-> thunk_linear]
          [] thunk_linear = 0 /\ i21_seg = 0 -> [mem |-> m, linear |-> 0]
          [] OTHER -> [mem |-> IF ok1 \/ c1 = i21_seg THEN m1 ELSE m2,
                       linear |-> IF ok1 THEN c1
                                  ELSE IF c1 # i21_seg /\ ok2 THEN i21_seg ELSE 0]

\* Fault form: the thunk is written when it is armed and then trusted.
RepairNever(m, linear) == m

\* Checked before each call, and written again if it was walked over.
Repair(m, linear) == Put(m, Flat(linear), "CD21CB")

\* ss:sp = 0:0 asks the host for a stack.
StackTop == IF stack_paras # 0 THEN stack_paras * 16 - 2 ELSE 0

\* The call: real mode runs what stands at the thunk's segment, DOS reads the
\* name at bounce_seg and leaves its answer there.
Gate(armed, linear, name, over) ==
    LET m == Repair(armed, linear)
    IN  IF linear = 0
        THEN mem' = armed /\ rm' = NoCall
        ELSE /\ rm' = [code |-> Get(m, Real(i21_seg)), name |-> Get(m, Real(bounce_seg)),
                       asked |-> name, overwritten |-> over, sp |-> StackTop]
             /\ mem' = Put(m, Real(bounce_seg), "answer")

\* The end of preinit: arm the thunk, and if that worked ask DOS for the
\* current directory, over a poisoned buffer.  No receiver is attached yet,
\* so this is one step.
Probe ==
    /\ stage = "probe"
    /\ LET armed == dos_int21_thunk_init(mem)
       IN  /\ thunk_linear' = armed.linear
           /\ IF armed.linear # 0 /\ bounce_linear # 0
              THEN Gate(Put(armed.mem, Flat(bounce_linear), "poison"), armed.linear,
                        "poison", FALSE)
              ELSE mem' = armed.mem /\ rm' = rm
    /\ stage' = "run"
    /\ UNCHANGED <<env, free, segs, bounce_linear, resolved, stack_paras, naming,
                   clobbers>>

\* A file call while the program runs: -1 without a bounce buffer, and
\* otherwise the name is copied into it, with interrupts on ...
dos_int21_open ==
    /\ stage = "run" /\ asked = "none"
    /\ bounce_seg # 0 /\ bounce_linear # 0
    /\ mem' = Put(mem, Flat(bounce_linear), "path")
    /\ asked' = "path" /\ overwritten' = FALSE
    /\ UNCHANGED <<env, free, stage, segs, bounce_linear, resolved, stack_paras,
                   thunk_linear, rm, clobbers>>

\* ... and later the gate is called.
dos_int21_call ==
    /\ asked # "none"
    /\ LET armed == dos_int21_thunk_init(mem)
       IN  /\ thunk_linear' = armed.linear
           /\ Gate(armed.mem, armed.linear, asked, overwritten)
    /\ asked' = "none"
    /\ UNCHANGED <<env, free, stage, segs, bounce_linear, resolved, stack_paras,
                   overwritten, clobbers>>

\* Something walks over the thunk's paragraph between two calls.
Clobber ==
    /\ stage = "run" /\ clobbers < MaxClobbers /\ i21_seg # 0
    /\ mem' = Put(mem, Real(i21_seg), "junk")
    /\ clobbers' = clobbers + 1
    /\ UNCHANGED <<env, free, stage, segs, bounce_linear, resolved, stack_paras,
                   thunk_linear, naming, rm>>

Boot == Preallocate \/ dos_bounce_resolve \/ StackAlloc \/ Probe
LowNext == Boot \/ dos_int21_open \/ dos_int21_call \/ Clobber

-----------------------------------------------------------------------------
(* Properties *)

\* The flat address of the paragraph is the one the program computes from the
\* DPMI answer or, without one, from the segment number.
Found == env.dpmi = "right" \/ env.map = 0

\* With the client base of 0 that the port was measured with, every real-mode
\* call runs CD 21 CB, whichever DPMI calls failed, whichever allocations were
\* refused and whatever walked over the paragraph in between; and its stack
\* pointer lies at the top of the block it was granted (dos_int21_call).
DispatchIsSafe ==
    env.base = 0 /\ Found /\ rm # NoCall =>
        /\ rm.code = "CD21CB"
        /\ rm.sp = 0 \/ rm.sp + 2 = stack_paras * 16

\* Whatever the base of the client is, a bounce buffer that dos_bounce_resolve
\* vouched for is the memory real mode sees, provided the base query was
\* answered.  At a base of 0, where the thunk runs (DispatchIsSafe), DOS then
\* reads the very name the caller of this call wrote, unless a received frame
\* was put over it between the copy and the call, which the code does nothing
\* to prevent.
DosReadsTheName ==
    resolved /\ Found /\ (env.ds \/ env.base = 0) =>
        /\ Flat(bounce_linear) = Real(bounce_seg)
        /\ env.base = 0 => rm.overwritten \/ rm.name = rm.asked
=============================================================================
