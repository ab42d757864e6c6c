----------------------------- MODULE FrameQueue -----------------------------
(***************************************************************************)
(* What a polled receive path promises its caller: frames come out in the  *)
(* order they came in, as far as the caller has room for them, at most     *)
(* once; one that arrives while nothing is waiting is not lost.            *)
(***************************************************************************)
EXTENDS Sequences

CONSTANTS
    Frames,      \* frames that may arrive, each at most once
    Bad          \* frames the NIC marked as received with an error

VARIABLES
    wire,        \* frames still to arrive
    queue,       \* frames waiting
    got          \* frames handed to the caller, in order

QInit == wire = Frames /\ queue = <<>> /\ got = <<>>

Put(f) ==
    /\ f \in wire
    /\ wire' = wire \ {f}
    /\ queue' = Append(queue, f)
    /\ UNCHANGED got

(* No room: something must be waiting already. *)
Lose(f) ==
    /\ f \in wire
    /\ queue # <<>>
    /\ wire' = wire \ {f}
    /\ UNCHANGED <<queue, got>>

Take ==
    /\ queue # <<>> /\ Head(queue) \notin Bad
    /\ got' = Append(got, Head(queue))
    /\ queue' = Tail(queue)
    /\ UNCHANGED wire

Skip ==
    /\ queue # <<>> /\ Head(queue) \in Bad
    /\ queue' = Tail(queue)
    /\ UNCHANGED <<wire, got>>

QNext == (\E f \in Frames : Put(f) \/ Lose(f)) \/ Take \/ Skip

QSpec == QInit /\ [][QNext]_<<wire, queue, got>>
=============================================================================
