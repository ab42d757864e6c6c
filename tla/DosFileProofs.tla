--------------------------- MODULE DosFileProofs ----------------------------
(***************************************************************************)
(* DosFile, for any numbers of files, objects, handles and operations:     *)
(* handles are neither shared nor lost, transfers that report success are  *)
(* exact, and open() tells the truth.                                      *)
(***************************************************************************)
EXTENDS DosFile, SequenceTheorems, TLAPS

-----------------------------------------------------------------------------
(* The inductive invariant *)

AllNames == Names \cup {Garbage}
Open == [name : AllNames, pos : Nat, acc : 0..2]
Kinds == {"none", "open", "read", "write", "seek", "close", "stat", "load"}
Steps == {"none", "open", "creat", "seek", "cur", "end", "set", "read", "close"}
Errors == {"none", "EBADF", "ENOMEM", "EIO", "EMFILE", "EACCES", "ENOENT", "NO_EXIST"}
Functions == {"none", "open", "creat", "read", "write", "close",
              "seek_cur", "seek_end", "seek_set"}
Ops == [kind : Kinds, obj : Objs \cup {NoObj}, name : AllNames,
        mode : {"r", "rplus", "w", "a"}, step : Steps, size : Nat, total : Nat,
        base : Nat, buf : Seq(Cells), file : Seq(Cells) \cup {Absent},
        fd : Handles \cup {-1}, err : Errors, clean : BOOLEAN, steady : BOOLEAN]

TypeOK ==
    /\ disk \in [AllNames -> Seq(Cells) \cup {Absent}]
    /\ handle \in [Handles -> Open \cup {Free}]
    /\ room \in Nat
    /\ bounce \in [1..(PathCells + DataCells) -> Cells]
    /\ fd \in [Objs -> Handles \cup {-1}]
    /\ op \in Ops /\ last \in Ops
    /\ req \in [fn : Functions, fd : Handles \cup {-1}, n : Nat]
    /\ ax \in [ok : BOOLEAN, val : Nat]
    /\ pc \in {"idle", "call", "back"}
    /\ ops \in Nat /\ leak \in BOOLEAN

\* The operation is after a handle; it holds one of its own; it uses an object's.
Seeking == op.kind \in {"open", "stat", "load"} /\ op.step \in {"open", "creat"}
Holding == op.kind \in {"open", "stat", "load"} /\ op.step \notin {"open", "creat"}
Using == op.kind \in {"read", "write", "seek", "close"}
Given == Seeking /\ pc = "back" /\ ax.ok

\* The function an operation calls.
Calls ==
    /\ op.kind = "read" => req.fn = "read"
    /\ op.kind = "write" => req.fn = "write"
    /\ op.kind = "seek" => req.fn \in {"seek_cur", "seek_end", "seek_set"}
    /\ op.kind = "close" => req.fn = "close"
    /\ op.kind = "open" => op.step \in {"open", "creat", "seek"}
    /\ op.kind = "stat" => op.step \in {"open", "close"}
    /\ op.kind = "load" => op.step \in {"open", "cur", "end", "set", "read", "close"}
    /\ Seeking /\ pc = "call" => req.fn = op.step
    /\ Holding => /\ op.step = "seek" => req.fn = "seek_end"
                  /\ op.step = "cur" => req.fn = "seek_cur"
                  /\ op.step = "end" => req.fn = "seek_end"
                  /\ op.step = "set" => req.fn = "seek_set"
                  /\ op.step = "read" => req.fn = "read"
                  /\ op.step = "close" => req.fn = "close"

FlowInv ==
    /\ pc = "idle" <=> op.kind = "none"
    /\ op.kind = "none" => op = NoOp /\ req = NoReq
    /\ Using => /\ op.obj \in Objs /\ op.fd = fd[op.obj] /\ op.fd \in Handles
                /\ req.fd = op.fd
    /\ op.kind = "open" => op.obj \in Objs /\ fd[op.obj] = -1 /\ op.err = "none"
    /\ Seeking \/ Holding => op.name \in Names
    /\ Holding => op.fd \in Handles /\ req.fd = op.fd
    /\ Seeking /\ pc = "call" => req.n \in 0..2
    /\ Calls

Closed(h) == op.fd = h /\ req.fn = "close" /\ pc = "back" /\ (Using \/ Holding)

HandleInv ==
    /\ \A x \in Objs : fd[x] # -1 /\ ~Closed(fd[x]) => handle[fd[x]] # Free
    /\ \A x, y \in Objs : x # y /\ fd[x] # -1 => fd[x] # fd[y]
    /\ Given => /\ ax.val \in Handles /\ handle[ax.val] # Free
                /\ \A x \in Objs : fd[x] # ax.val
    /\ Holding => /\ ~Closed(op.fd) => handle[op.fd] # Free
                  /\ \A x \in Objs : fd[x] # op.fd
    /\ ~leak => /\ \A h \in Handles : handle[h] # Free =>
                      \/ \E x \in Objs : fd[x] = h
                      \/ Given /\ h = ax.val
                      \/ Holding /\ h = op.fd
                /\ \A h \in Handles : Closed(h) => handle[h] = Free

\* What an open handle refers to is there.
ExistInv == \A h \in Handles : handle[h] # Free => disk[handle[h].name] # Absent

ReqInv == req.fn \in {"read", "write"} => req.n \in 1..DataCells

Now == disk[handle[op.fd].name]

\* The read loop: a chunk of the file has been put together ...
Part(f, b, t, buf) ==
    /\ Len(buf) = t /\ \A c \in 1..t : buf[c] = f[b + c]
    /\ t > 0 => b + t <= Len(f)
\* ... and DOS has delivered the next one.
Chunk(f, p, n, k) ==
    /\ k = Hi(0, Lo(n, Len(f) - p))
    /\ \A c \in 1..k : bounce[PathCells + c] = f[p + c]

Reading ==
    LET p == op.base + op.total
    IN  /\ op.file \in Seq(Cells) /\ Now = op.file
        /\ Part(op.file, op.base, op.total, op.buf)
        /\ op.total < op.size
        /\ req.n = Lo(op.size - op.total, DataCells)
        /\ pc = "call" => handle[op.fd].pos = p
        /\ pc = "back" /\ ax.ok => /\ Chunk(op.file, p, req.n, ax.val)
                                   /\ handle[op.fd].pos = p + ax.val

ReadInv == op.kind = "read" /\ op.clean => Reading

\* t cells of the data are in the file at b; the rest is as it was.
Wrote(now, f, b, t) ==
    /\ Len(now) = IF t = 0 THEN Len(f) ELSE Hi(b + t, Len(f))
    /\ \A c \in 1..t : now[b + c] = <<ops, c>>
    /\ \A c \in 1..Len(f) : c - b \notin 1..t => now[c] = f[c]

Written == IF pc = "back" /\ ax.ok THEN op.total + ax.val ELSE op.total

WriteInv ==
    op.kind = "write" =>
        /\ op.total < op.size
        /\ req.n = Lo(op.size - op.total, DataCells)
        /\ op.clean =>
              /\ op.file \in Seq(Cells)
              /\ Wrote(Now, op.file, op.base, Written)
              /\ handle[op.fd].pos = op.base + Written
              /\ Written <= op.size
              /\ pc = "call" =>
                    \A c \in 1..req.n : bounce[PathCells + c] = <<ops, op.total + c>>
              /\ pc = "back" /\ ax.ok /\ ax.val = 0 =>
                    room <= Hi(0, op.base - Len(op.file))

\* Nothing of the file can be lost by creating it.
Harmless ==
    op.file = Absent \/ op.name \in ReadOnly \cup LongNames \/ FreeHandles = {}

Truncates == op.mode = "w"

SeekInv ==
    Seeking =>
        /\ pc = "back" /\ ~ax.ok => ax.val \in {0, 4, 5} \cup (IF op.step = "open" THEN {2} ELSE {})
        /\ op.buf = << >> /\ op.total = 0
        /\ pc = "call" => op.name \notin LongNames
        /\ op.kind # "open" => op.step = "open"
        /\ op.kind # "open" /\ pc = "call" => req.n = 0
        /\ op.step = "open" => ~Truncates
        /\ op.step = "creat" => Truncates \/ op.mode = "a"
        /\ op.clean =>
             /\ pc = "call" => bounce[1] = op.name
             /\ pc = "call" \/ ~ax.ok \/ op.step = "open" => disk[op.name] = op.file
             /\ op.step = "open" /\ pc = "back" /\ ~ax.ok =>
                   /\ ax.val = 2 => op.file = Absent
                   /\ op.steady => Harmless
             /\ Given => /\ handle[ax.val].name = op.name /\ handle[ax.val].pos = 0
                         /\ op.kind # "open" => handle[ax.val].acc = 0
                         /\ op.step = "open" => op.file # Absent
                         /\ op.step = "creat" => disk[op.name] = << >>
             /\ op.step = "creat" /\ op.mode = "a" /\ op.steady =>
                   /\ pc = "call" => Harmless
                   /\ Given => op.file = Absent

AppendInv ==
    op.kind = "open" /\ op.step = "seek" =>
        /\ op.mode = "a"
        /\ op.clean /\ op.steady =>
              /\ handle[op.fd].name = op.name
              /\ disk[op.name] = IF op.file = Absent THEN << >> ELSE op.file
              /\ pc = "back" => handle[op.fd].pos = Len(disk[op.name])

LoadInv ==
    op.kind = "load" /\ op.step # "open" =>
        /\ op.step \in {"cur", "end", "set"} => op.buf = << >> /\ op.total = 0
        /\ op.clean /\ op.steady =>
              /\ pc = "back" => ax.ok
              /\ op.step # "close" => /\ op.file \in Seq(Cells) /\ Now = op.file
                                      /\ handle[op.fd].acc = 0
              /\ op.step = "cur" => /\ handle[op.fd].pos = 0
                                    /\ pc = "back" => ax.val = 0
              /\ op.step # "cur" => op.base = 0
              /\ op.step = "end" /\ pc = "back" => ax.val = Len(op.file)
              /\ op.step \in {"set", "read"} => op.size = Len(op.file)
              /\ op.step = "set" => req.n = 0 /\ (pc = "back" => handle[op.fd].pos = 0)
              /\ op.step = "read" => Reading
              /\ op.step = "close" => op.buf = op.file

LastInv ==
    /\ last.kind = "read" /\ last.err = "none" /\ last.clean =>
          /\ last.buf = SubSeq(last.file, last.base + 1,
                               Lo(last.base + last.size, Len(last.file)))
          /\ pc = "idle" => handle[last.fd].pos = last.base + Len(last.buf)
    /\ pc = "idle" /\ last.kind = "write" /\ last.err = "none" /\ last.clean =>
          LET now == Content(last.fd)
          IN  /\ \A c \in 1..last.total : now[last.base + c] = last.buf[c]
              /\ \A c \in DOMAIN last.file :
                    c - last.base \notin 1..last.total => now[c] = last.file[c]
              /\ last.total < last.size => room <= Hi(0, last.base - Len(last.file))
    /\ last.kind = "load" /\ last.err = "none" /\ last.clean /\ last.steady =>
          last.buf = last.file

IInv ==
    /\ TypeOK /\ FlowInv /\ HandleInv /\ ExistInv /\ ReqInv
    /\ ReadInv /\ WriteInv /\ SeekInv /\ AppendInv /\ LoadInv
    /\ LastInv /\ OpenTellsTruth

-----------------------------------------------------------------------------
(* Constants and numbers *)

LEMMA Constants ==
    /\ PathCells \in Nat /\ DataCells \in Nat /\ 1 <= PathCells /\ 1 <= DataCells
    /\ Handles \subseteq Nat /\ -1 \notin Handles
    /\ Names \subseteq Cells /\ Junk \in Cells /\ Old \in Cells
    /\ \A i, j \in Nat : <<i, j>> \in Cells
<1>1. -1 \notin Handles
  BY FileAssumption
<1> QED
  BY <1>1, FileAssumption DEF Cells

LEMMA ModesAre ==
    /\ DOMAIN Modes = {"r", "rplus", "w", "a"}
    /\ \A m \in {"r", "rplus", "w", "a"} :
          /\ Modes[m].trunc <=> m = "w"
          /\ Modes[m].create <=> m \in {"w", "a"}
          /\ Modes[m].acc \in 0..2
  BY DEF Modes

LEMMA OpenIsNotFree == \A r \in Open : r # Free /\ r.name \in AllNames /\ r.pos \in Nat
  BY DEF Open, Free

\* What is between 0 and two numbers.
LEMMA Clamped ==
    ASSUME NEW n \in Nat, NEW r \in Int
    PROVE  LET k == Hi(0, Lo(n, r))
           IN  k \in Nat /\ k <= n /\ (k > 0 => k <= r) /\ (k = 0 => n = 0 \/ r <= 0)
  BY DEF Hi, Lo

-----------------------------------------------------------------------------
(* The call an operation is at *)

LEMMA CallOf ==
    ASSUME TypeOK, FlowInv, pc = "call"
    PROVE  /\ op.kind # "none"
           /\ req.fn = "open" => Seeking /\ op.step = "open"
           /\ req.fn = "creat" => Seeking /\ op.step = "creat"
           /\ req.fn \notin {"open", "creat"} => ~Seeking /\ (Using \/ Holding)
           /\ req.fn = "read" => op.kind = "read" \/ (op.kind = "load" /\ op.step = "read")
           /\ req.fn = "write" => op.kind = "write"
           /\ req.fn = "close" => op.kind = "close" \/ (Holding /\ op.step = "close")
           /\ req.fn = "seek_cur" => op.kind = "seek" \/ (op.kind = "load" /\ op.step = "cur")
           /\ req.fn = "seek_set" => op.kind = "seek" \/ (op.kind = "load" /\ op.step = "set")
           /\ req.fn = "seek_end" => \/ op.kind = "seek" \/ (op.kind = "load" /\ op.step = "end")
                                     \/ (op.kind = "open" /\ op.step = "seek")
<1>1. op.kind \in Kinds /\ op.step \in Steps /\ op.kind # "none"
  BY DEF TypeOK, FlowInv, Ops
<1>2. Calls
  BY DEF FlowInv
<1> QED
  BY <1>1, <1>2 DEF Calls, Seeking, Holding, Using, Kinds, Steps

\* The handle of a call on a handle is open.
LEMMA Held ==
    ASSUME TypeOK, FlowInv, HandleInv, ExistInv, pc = "call", Using \/ Holding
    PROVE  /\ op.fd \in Handles /\ req.fd = op.fd /\ handle[op.fd] \in Open
           /\ handle[op.fd].name \in AllNames /\ handle[op.fd].pos \in Nat
           /\ handle[op.fd] # Free
           /\ Now \in Seq(Cells) /\ Len(Now) \in Nat /\ Content(op.fd) = Now
<1>1. op.fd \in Handles /\ req.fd = op.fd /\ (Using => op.obj \in Objs /\ op.fd = fd[op.obj])
  BY DEF FlowInv
<1>2. ~Closed(op.fd)
  BY DEF Closed
<1>3. op.fd # -1
  BY <1>1, Constants
<1>4. handle[op.fd] # Free
  <2>1. CASE Using
    BY <1>1, <1>2, <1>3, <2>1 DEF HandleInv
  <2>2. CASE Holding
    BY <1>2, <2>2 DEF HandleInv
  <2> QED
    BY <2>1, <2>2
<1>5. handle[op.fd] \in Open
  BY <1>1, <1>4 DEF TypeOK
<1>6. handle[op.fd].name \in AllNames /\ handle[op.fd].pos \in Nat
  BY <1>5, OpenIsNotFree
<1>7. Now \in Seq(Cells) \cup {Absent} /\ Now # Absent
  BY <1>1, <1>4, <1>6 DEF TypeOK, ExistInv, Now
<1> QED
  BY <1>1, <1>4, <1>5, <1>6, <1>7 DEF Now, Content

\* While an operation goes on, what was said of the last one stays true.
LEMMA LastKept ==
    ASSUME LastInv, OpenTellsTruth, last' = last, pc' # "idle"
    PROVE  LastInv' /\ OpenTellsTruth'
<1>1. LastInv'
  BY DEF LastInv
<1>2. OpenTellsTruth'
  BY DEF OpenTellsTruth
<1> QED
  BY <1>1, <1>2

\* Coming back from DOS leaves the operation where it is.
LEMMA BackFlow ==
    ASSUME FlowInv, pc = "call", pc' = "back", UNCHANGED <<fd, op, req>>
    PROVE  FlowInv'
  BY DEF FlowInv, Calls, Using, Holding, Seeking

-----------------------------------------------------------------------------
(* What DOS does *)

\* The operation is where it was; at most, it is known to be disturbed.
SameOp ==
    /\ op' \in Ops /\ op'.kind = op.kind /\ op'.obj = op.obj /\ op'.name = op.name
    /\ op'.mode = op.mode /\ op'.step = op.step /\ op'.size = op.size
    /\ op'.total = op.total /\ op'.base = op.base /\ op'.buf = op.buf
    /\ op'.file = op.file /\ op'.fd = op.fd /\ op'.err = op.err
    /\ op'.clean => op.clean
    /\ op'.steady => op.steady

LEMMA NoFlag ==
    ASSUME op \in Ops
    PROVE  /\ op' = op => SameOp
           /\ op' = [op EXCEPT !.steady = FALSE] => SameOp /\ ~op'.steady
           /\ op' = [op EXCEPT !.clean = FALSE] => SameOp /\ ~op'.clean
<1>1. op' = op => SameOp
  BY DEF SameOp
<1>2. op' = [op EXCEPT !.steady = FALSE] => SameOp /\ ~op'.steady
  BY DEF SameOp, Ops
<1>3. op' = [op EXCEPT !.clean = FALSE] => SameOp /\ ~op'.clean
  BY DEF SameOp, Ops
<1> QED
  BY <1>1, <1>2, <1>3

LEMMA SameFlow ==
    ASSUME FlowInv, SameOp, UNCHANGED <<fd, req>>, pc # "idle",
           pc' = pc \/ (pc = "call" /\ pc' = "back")
    PROVE  FlowInv' /\ (Seeking' <=> Seeking) /\ (Holding' <=> Holding) /\ (Using' <=> Using)
<1>1. (Seeking' <=> Seeking) /\ (Holding' <=> Holding) /\ (Using' <=> Using)
  BY DEF SameOp, Seeking, Holding, Using
<1>2. Calls'
  BY <1>1 DEF FlowInv, Calls, SameOp
<1>3. op.kind # "none" /\ pc' # "idle"
  BY DEF FlowInv
<1> QED
  BY <1>1, <1>2, <1>3 DEF FlowInv, SameOp

\* A call that fails leaves DOS as it is.
LEMMA CallFails ==
    ASSUME IInv, pc = "call", pc' = "back", NEW c \in {0, 2, 4, 5},
           ax' = [ok |-> FALSE, val |-> c], SameOp,
           UNCHANGED <<disk, handle, room, bounce, fd, req, ops, last>>,
           leak' \in BOOLEAN, leak => leak', req.fn = "close" => leak',
           c = 2 => req.fn = "open",
           op'.clean /\ req.fn = "open" =>
               (c = 2 => op.file = Absent) /\ (op'.steady => Harmless),
           op'.clean /\ op'.steady =>
               /\ req.fn \in {"open", "creat", "read", "write"}
               /\ req.fn = "read" => op.kind = "read"
    PROVE  IInv'
<1> USE DEF IInv
<1>1. TypeOK'
  BY DEF TypeOK, SameOp
<1>2. FlowInv' /\ (Seeking' <=> Seeking) /\ (Holding' <=> Holding) /\ (Using' <=> Using)
  BY SameFlow
<1>3. ~ax'.ok /\ ax'.val = c /\ ~Given' /\ ~Given /\ (\A h : ~Closed(h))
  BY DEF Given, Closed
<1>4. HandleInv'
  <2>1. \A h : Closed(h)' => leak'
    BY DEF Closed
  <2>2. \A x \in Objs : fd'[x] # -1 => handle'[fd'[x]] # Free
    BY <1>3 DEF HandleInv
  <2>3. Holding' => handle'[op'.fd] # Free /\ \A x \in Objs : fd'[x] # op'.fd
    BY <1>2, <1>3 DEF HandleInv, SameOp
  <2>4. ~leak' => \A h \in Handles : handle'[h] # Free =>
                      (\E x \in Objs : fd'[x] = h) \/ (Holding' /\ h = op'.fd)
    BY <1>2, <1>3 DEF HandleInv, SameOp
  <2> QED
    BY <1>3, <2>1, <2>2, <2>3, <2>4 DEF HandleInv
<1>5. ExistInv' /\ ReqInv'
  BY DEF ExistInv, ReqInv
<1>6. ReadInv'
  BY <1>3 DEF ReadInv, Reading, SameOp, Now
<1>7. WriteInv'
  <2>1. Written' = op.total /\ Written = op.total
    BY <1>3 DEF Written, SameOp
  <2>2. Now' = Now
    BY DEF Now, SameOp
  <2>3. Wrote(Now, op.file, op.base, Written) => Wrote(Now, op.file, op.base, Written)'
    BY <2>1, <2>2 DEF Wrote, SameOp
  <2>4. op.kind = "write" =>
           /\ op'.total < op'.size /\ req'.n = Lo(op'.size - op'.total, DataCells)
           /\ op'.clean => /\ op'.file \in Seq(Cells) /\ Wrote(Now, op.file, op.base, Written)
                           /\ handle'[op'.fd].pos = op'.base + Written' /\ Written' <= op'.size
    BY <2>1 DEF WriteInv, SameOp
  <2> QED
    BY <1>3, <2>3, <2>4 DEF WriteInv, SameOp
<1>8. SeekInv'
  <2>1. Seeking => req.fn = op.step
    BY DEF FlowInv, Calls
  <2>2. Harmless' <=> Harmless
    BY DEF Harmless, SameOp, FreeHandles
  <2> QED
    BY <1>2, <1>3, <2>1, <2>2 DEF SeekInv, SameOp, Truncates
<1>9. AppendInv'
  <2>1. op.kind = "open" /\ op.step = "seek" => req.fn = "seek_end"
    BY DEF FlowInv, Calls, Holding
  <2> QED
    BY <2>1 DEF AppendInv, SameOp
<1>10. LoadInv'
  <2>1. op.kind = "load" /\ op.step # "open" =>
           /\ req.fn \in {"seek_cur", "seek_end", "seek_set", "read", "close"}
    BY DEF FlowInv, Calls, Holding
  <2> QED
    BY <2>1 DEF LoadInv, SameOp
<1>11. LastInv' /\ OpenTellsTruth'
  BY LastKept
<1> QED
  BY <1>1, <1>2, <1>4, <1>5, <1>6, <1>7, <1>8, <1>9, <1>10, <1>11

LEMMA Int21FailsStep == ASSUME IInv, Int21Fails PROVE IInv'
<1>1. SameOp /\ ~op'.steady
  BY NoFlag DEF IInv, TypeOK, Int21Fails
<1>2. /\ pc = "call" /\ pc' = "back" /\ ax' = [ok |-> FALSE, val |-> 0]
      /\ UNCHANGED <<disk, handle, room, bounce, fd, req, ops, last>>
      /\ leak' = (leak \/ req.fn = "close")
  BY DEF Int21Fails, Error, dos
<1>3. leak' \in BOOLEAN /\ (leak => leak') /\ (req.fn = "close" => leak')
  BY <1>2
<1> QED
  BY <1>1, <1>2, <1>3, CallFails

\* A frame may cover the name or the data, of an operation that knows.
LEMMA FrameArrivesStep == ASSUME IInv, FrameArrives PROVE IInv'
<1> USE DEF IInv
<1>1. SameOp /\ ~op'.clean /\ pc # "idle" /\ pc' = pc
      /\ UNCHANGED <<disk, handle, room, fd, req, ax, ops, leak, last>>
  BY NoFlag DEF TypeOK, FrameArrives, dos
<1>2. FlowInv' /\ (Seeking' <=> Seeking) /\ (Holding' <=> Holding) /\ (Using' <=> Using)
  BY <1>1, SameFlow
<1>3. TypeOK'
  <2>1. bounce' \in [1..(PathCells + DataCells) -> Cells]
    BY Constants DEF FrameArrives, TypeOK
  <2> QED
    BY <1>1, <2>1 DEF TypeOK, SameOp
<1>4. HandleInv'
  <2>1. Given' <=> Given
    BY <1>1, <1>2 DEF Given
  <2>2. \A h : Closed(h)' <=> Closed(h)
    BY <1>1, <1>2 DEF Closed, SameOp
  <2> QED
    BY <1>1, <1>2, <2>1, <2>2 DEF HandleInv, SameOp
<1>5. ExistInv' /\ ReqInv'
  BY <1>1 DEF ExistInv, ReqInv
<1>6. ReadInv' /\ WriteInv'
  BY <1>1 DEF ReadInv, WriteInv, SameOp
<1>7. SeekInv'
  BY <1>1, <1>2 DEF SeekInv, SameOp, Truncates
<1>8. AppendInv' /\ LoadInv'
  BY <1>1 DEF AppendInv, LoadInv, SameOp
<1>9. LastInv' /\ OpenTellsTruth'
  BY <1>1, LastKept
<1> QED
  BY <1>2, <1>3, <1>4, <1>5, <1>6, <1>7, <1>8, <1>9

LEMMA NewHandleIs ==
    ASSUME TypeOK, NEW n \in AllNames, NEW a \in 0..2, NewHandle(n, a)
    PROVE  /\ FreeHandles # {} /\ bounce' = bounce
           /\ handle' \in [Handles -> Open \cup {Free}]
           /\ \E h \in Handles :
                 /\ handle[h] = Free /\ ax' = [ok |-> TRUE, val |-> h]
                 /\ handle' = [handle EXCEPT ![h] = [name |-> n, pos |-> 0, acc |-> a]]
<1>1. PICK h \in FreeHandles :
          /\ handle' = [handle EXCEPT ![h] = [name |-> n, pos |-> 0, acc |-> a]]
          /\ Ok(h) /\ UNCHANGED bounce
  BY DEF NewHandle
<1>2. h \in Handles /\ handle[h] = Free
  BY DEF FreeHandles
<1>3. [name |-> n, pos |-> 0, acc |-> a] \in Open
  BY DEF Open
<1> QED
  BY <1>1, <1>2, <1>3 DEF TypeOK, Ok

\* The operation is given a handle nobody had.
LEMMA HandleGiven ==
    ASSUME IInv, Seeking, pc = "call", pc' = "back", UNCHANGED <<fd, op, req, ops, leak, last>>,
           NEW n \in AllNames, NEW a \in 0..2, NewHandle(n, a), room' \in Nat,
           disk' \in [AllNames -> Seq(Cells) \cup {Absent}], disk'[n] # Absent,
           \A m \in AllNames : disk[m] # Absent => disk'[m] # Absent,
           op.clean => /\ n = op.name
                       /\ op.step = "open" => disk'[n] = disk[n] /\ disk[n] # Absent
                       /\ op.step = "creat" => disk'[n] = << >>
                       /\ op.step = "creat" /\ op.mode = "a" /\ op.steady =>
                             op.file = Absent,
           op.kind # "open" => a = 0
    PROVE  IInv'
<1> USE DEF IInv
<1> DEFINE new == [name |-> n, pos |-> 0, acc |-> a]
<1>1. /\ bounce' = bounce /\ handle' \in [Handles -> Open \cup {Free}]
      /\ \E h \in Handles : /\ handle[h] = Free /\ ax' = [ok |-> TRUE, val |-> h]
                            /\ handle' = [handle EXCEPT ![h] = new]
  BY NewHandleIs
<1>2. PICK h \in Handles : /\ handle[h] = Free /\ ax' = [ok |-> TRUE, val |-> h]
                           /\ handle' = [handle EXCEPT ![h] = new]
  BY <1>1
<1>3. new \in Open /\ new.name = n /\ new.pos = 0 /\ new.acc = a
  BY DEF Open
<1>4. new # Free
  BY <1>3, OpenIsNotFree
<1> HIDE DEF new
<1>5. /\ handle'[h] = new /\ \A g \in Handles \ {h} : handle'[g] = handle[g]
      /\ ax'.ok /\ ax'.val = h /\ h \in Nat
  BY <1>2, Constants DEF TypeOK
<1>6. TypeOK'
  <2>1. ax' \in [ok : BOOLEAN, val : Nat]
    BY <1>2, <1>5
  <2> QED
    BY <1>1, <2>1 DEF TypeOK
<1>7. FlowInv'
  BY BackFlow
<1>8. Seeking' /\ ~Holding' /\ ~Using' /\ ~Using /\ ~Holding /\ ~Given /\ Given'
  BY <1>5 DEF Seeking, Holding, Using, Given
<1>9. \A g : ~Closed(g) /\ ~Closed(g)'
  BY <1>8 DEF Closed
<1>10. HandleInv'
  <2>1. \A x \in Objs : fd[x] # -1 => fd[x] \in Handles /\ handle[fd[x]] # Free
    BY <1>9 DEF HandleInv, TypeOK
  <2>2. \A x \in Objs : fd[x] # h
    BY <1>2, <2>1, Constants
  <2>3. \A x \in Objs : fd'[x] # -1 => handle'[fd'[x]] # Free
    BY <1>5, <2>1, <2>2
  <2>4. \A x, y \in Objs : x # y /\ fd'[x] # -1 => fd'[x] # fd'[y]
    BY DEF HandleInv
  <2>5. ~leak => \A g \in Handles : handle'[g] # Free => (\E x \in Objs : fd[x] = g) \/ g = h
    BY <1>5, <1>8 DEF HandleInv
  <2> QED
    BY <1>4, <1>5, <1>8, <1>9, <2>2, <2>3, <2>4, <2>5 DEF HandleInv
<1>11. ExistInv'
  <2> SUFFICES ASSUME NEW g \in Handles, handle'[g] # Free
               PROVE  disk'[handle'[g].name] # Absent
    BY DEF ExistInv
  <2>1. CASE g = h
    BY <1>3, <1>5, <2>1
  <2>2. CASE g # h
    <3>1. handle'[g] = handle[g] /\ handle[g] \in Open
      BY <1>5, <2>2 DEF TypeOK
    <3>2. handle[g].name \in AllNames /\ disk[handle[g].name] # Absent
      BY <3>1, OpenIsNotFree DEF ExistInv
    <3> QED
      BY <3>1, <3>2
  <2> QED
    BY <2>1, <2>2
<1>12. ReqInv'
  BY DEF ReqInv
<1>13. ReadInv' /\ WriteInv'
  BY DEF Seeking, ReadInv, WriteInv
<1>14. SeekInv'
  <2>1. pc' = "back" /\ ax'.ok /\ ax'.val = h
    BY <1>5
  <2>2. handle'[ax'.val].name = n /\ handle'[ax'.val].pos = 0 /\ handle'[ax'.val].acc = a
    BY <1>3, <1>5
  <2>3. op.clean => disk[op.name] = op.file
    BY DEF SeekInv
  <2> QED
    BY <2>1, <2>2, <2>3 DEF SeekInv, Truncates
<1>15. AppendInv'
  BY DEF Seeking, AppendInv
<1>16. LoadInv'
  <2>1. op.kind = "load" => op.step = "open"
    BY DEF Seeking, SeekInv
  <2> QED
    BY <2>1 DEF LoadInv
<1>17. LastInv' /\ OpenTellsTruth'
  BY LastKept
<1> QED
  BY <1>6, <1>7, <1>10, <1>11, <1>12, <1>13, <1>14, <1>15, <1>16, <1>17

\* The name DOS reads is the one asked for, unless a frame covered it.
LEMMA NameIs ==
    ASSUME IInv, Seeking, pc = "call"
    PROVE  /\ NameRead \in AllNames /\ op.name \in Names /\ op.name \notin LongNames
           /\ op.clean => NameRead = op.name /\ disk[op.name] = op.file
<1>1. op.clean => bounce[1] = op.name /\ disk[op.name] = op.file
  BY DEF IInv, SeekInv
<1>2. op.name \in Names /\ op.name \notin LongNames
  BY DEF IInv, FlowInv, SeekInv
<1> QED
  BY <1>1, <1>2 DEF NameRead, AllNames

LEMMA DosOpenStep == ASSUME IInv, Int21, req.fn = "open", DosOpen PROVE IInv'
<1> DEFINE n == NameRead
<1>1. pc = "call" /\ pc' = "back" /\ UNCHANGED <<fd, op, req, ops, leak, last>>
  BY DEF Int21
<1>2. Seeking /\ op.step = "open" /\ req.n \in 0..2 /\ (op.kind # "open" => req.n = 0)
  <2>1. Seeking /\ op.step = "open"
    BY <1>1, CallOf DEF IInv
  <2> QED
    BY <1>1, <2>1 DEF IInv, FlowInv, SeekInv
<1>3. /\ n \in AllNames /\ op.name \in Names /\ op.name \notin LongNames
      /\ op.clean => n = op.name /\ disk[op.name] = op.file
  BY <1>1, <1>2, NameIs
<1>4. SameOp /\ leak' \in BOOLEAN /\ (leak => leak')
  BY <1>1, NoFlag DEF IInv, TypeOK
<1>5. ASSUME NEW c \in {2, 4, 5}, Refuse(c), c = 2 => ~Exists(n),
             c = 4 => FreeHandles = {}, c = 5 => n \in ReadOnly
      PROVE  IInv'
  <2>1. ax' = [ok |-> FALSE, val |-> c] /\ UNCHANGED <<disk, handle, room, bounce>>
    BY <1>5 DEF Refuse, Error, dos
  <2>2. op'.clean => (c = 2 => op.file = Absent) /\ Harmless
    BY <1>1, <1>3, <1>5 DEF Exists, Harmless
  <2> QED
    BY <1>1, <1>4, <2>1, <2>2, CallFails
<1>6. ASSUME Exists(n), NewHandle(n, req.n), UNCHANGED <<disk, room>> PROVE IInv'
  <2>1. disk' \in [AllNames -> Seq(Cells) \cup {Absent}] /\ room' \in Nat
    BY <1>6 DEF IInv, TypeOK
  <2> QED
    BY <1>1, <1>2, <1>3, <1>6, <2>1, HandleGiven DEF Exists
<1> QED
  BY <1>5, <1>6 DEF DosOpen

LEMMA DosCreatStep == ASSUME IInv, Int21, req.fn = "creat", DosCreat PROVE IInv'
<1> DEFINE n == NameRead
<1>1. pc = "call" /\ pc' = "back" /\ UNCHANGED <<fd, op, req, ops, leak, last>>
  BY DEF Int21
<1>2. Seeking /\ op.step = "creat" /\ op.kind = "open"
  <2>1. Seeking /\ op.step = "creat"
    BY <1>1, CallOf DEF IInv
  <2> QED
    BY <2>1 DEF IInv, SeekInv
<1>3. /\ n \in AllNames /\ op.name \in Names /\ op.name \notin LongNames
      /\ op.clean => n = op.name /\ disk[op.name] = op.file
  BY <1>1, <1>2, NameIs
<1>4. SameOp /\ leak' \in BOOLEAN /\ (leak => leak')
  BY <1>1, NoFlag DEF IInv, TypeOK
<1>5. ASSUME NEW c \in {4, 5}, Refuse(c) PROVE IInv'
  <2>1. ax' = [ok |-> FALSE, val |-> c] /\ UNCHANGED <<disk, handle, room, bounce>>
    BY <1>5 DEF Refuse, Error, dos
  <2>2. c \in {0, 2, 4, 5} /\ c # 2 /\ req.fn = "creat"
    OBVIOUS
  <2> QED
    BY <1>1, <1>4, <2>1, <2>2, CallFails
<1>6. ASSUME ~(n \in ReadOnly /\ Exists(n)), FreeHandles # {}, NewHandle(n, 2),
             disk' = [disk EXCEPT ![n] = << >>],
             room' = room + IF Exists(n) THEN Len(disk[n]) ELSE 0
      PROVE  IInv'
  <2>1. disk' \in [AllNames -> Seq(Cells) \cup {Absent}] /\ disk'[n] = << >>
        /\ \A m \in AllNames \ {n} : disk'[m] = disk[m]
    BY <1>3, <1>6 DEF IInv, TypeOK
  <2>2. << >> # Absent
    <3>1. << >> \in Seq(Cells)
      OBVIOUS
    <3> QED
      BY <3>1, FileAssumption
  <2>3. room' \in Nat
    <3>1. disk[n] \in Seq(Cells) \cup {Absent} /\ room \in Nat
      BY <1>3 DEF IInv, TypeOK
    <3>2. Exists(n) => Len(disk[n]) \in Nat
      BY <3>1 DEF Exists
    <3> QED
      BY <1>6, <3>1, <3>2
  <2>4. op.clean /\ op.mode = "a" /\ op.steady => op.file = Absent
    <3>1. op.clean /\ op.mode = "a" /\ op.steady => Harmless
      BY <1>1, <1>2 DEF IInv, SeekInv
    <3> QED
      BY <1>3, <1>6, <3>1 DEF Harmless, Exists
  <2>5. \A m \in AllNames : disk[m] # Absent => disk'[m] # Absent
    BY <2>1, <2>2
  <2>6. 2 \in 0..2
    OBVIOUS
  <2> HIDE DEF n
  <2> QED
    BY <1>1, <1>2, <1>3, <1>6, <2>1, <2>2, <2>3, <2>4, <2>5, <2>6, HandleGiven
<1> QED
  BY <1>5, <1>6 DEF DosCreat

\* A call that moves the position in the file of its handle.
LEMMA Moves ==
    ASSUME IInv, pc = "call", pc' = "back", UNCHANGED <<fd, op, req, ops, leak, last>>,
           Using \/ Holding, req.fn # "close", NEW p \in Nat,
           handle' = [handle EXCEPT ![op.fd].pos = p], room' \in Nat,
           disk' \in [AllNames -> Seq(Cells) \cup {Absent}],
           \A m \in AllNames : disk[m] # Absent => disk'[m] # Absent,
           bounce' \in [1..(PathCells + DataCells) -> Cells],
           NEW v \in Nat, ax' = [ok |-> TRUE, val |-> v]
    PROVE  /\ TypeOK' /\ FlowInv' /\ HandleInv' /\ ExistInv' /\ ReqInv' /\ SeekInv'
           /\ LastInv' /\ OpenTellsTruth'
           /\ handle'[op.fd].pos = p /\ handle'[op.fd].name = handle[op.fd].name
           /\ handle'[op.fd].acc = handle[op.fd].acc
           /\ ax'.ok /\ ax'.val = v
<1> USE DEF IInv
<1>1. op.fd \in Handles /\ handle[op.fd] \in Open /\ handle[op.fd] # Free
  BY Held
<1> DEFINE new == [handle[op.fd] EXCEPT !.pos = p]
<1>2. new \in Open /\ new.pos = p /\ new.name = handle[op.fd].name /\ new.acc = handle[op.fd].acc
  BY <1>1 DEF Open
<1>3. handle' = [handle EXCEPT ![op.fd] = new]
  BY <1>1 DEF TypeOK
<1> HIDE DEF new
<1>4. handle' \in [Handles -> Open \cup {Free}] /\ handle'[op.fd] = new /\ new # Free
      /\ \A h \in Handles \ {op.fd} : handle'[h] = handle[h]
  BY <1>1, <1>2, <1>3, OpenIsNotFree DEF TypeOK
<1>5. \A h \in Handles : handle'[h] = Free <=> handle[h] = Free
  BY <1>1, <1>4
<1>6. TypeOK'
  BY <1>4 DEF TypeOK
<1>7. FlowInv'
  BY BackFlow
<1>8. ~Seeking /\ ~Seeking' /\ ~Given /\ ~Given' /\ (Holding' <=> Holding)
      /\ \A h : ~Closed(h) /\ ~Closed(h)'
  BY DEF Using, Holding, Seeking, Given, Closed
<1>9. HandleInv'
  <2>1. \A x \in Objs : fd[x] # -1 => fd[x] \in Handles
    BY DEF TypeOK
  <2> QED
    BY <1>1, <1>5, <1>8, <2>1 DEF HandleInv
<1>10. ExistInv'
  <2> SUFFICES ASSUME NEW h \in Handles, handle'[h] # Free
               PROVE  disk'[handle'[h].name] # Absent
    BY DEF ExistInv
  <2>1. handle'[h].name = handle[h].name /\ handle[h] # Free
    BY <1>2, <1>4, <1>5
  <2>2. handle[h].name \in AllNames
    BY <2>1, OpenIsNotFree DEF TypeOK
  <2> QED
    BY <2>1, <2>2 DEF ExistInv
<1>11. ReqInv' /\ SeekInv'
  BY <1>8 DEF ReqInv, SeekInv
<1>12. LastInv' /\ OpenTellsTruth'
  BY LastKept
<1> QED
  BY <1>2, <1>4, <1>6, <1>7, <1>9, <1>10, <1>11, <1>12

LEMMA DosReadStep == ASSUME IInv, Int21, req.fn = "read", DosRead PROVE IInv'
<1> DEFINE p == handle[op.fd].pos
           k == Hi(0, Lo(req.n, Len(Now) - p))
<1>1. pc = "call" /\ pc' = "back" /\ UNCHANGED <<fd, op, req, ops, leak, last>>
  BY DEF Int21
<1>2. /\ op.kind = "read" \/ (op.kind = "load" /\ op.step = "read")
      /\ Using \/ Holding
  BY <1>1, CallOf DEF IInv
<1>3. /\ op.fd \in Handles /\ req.fd = op.fd /\ p \in Nat
      /\ Now \in Seq(Cells) /\ Len(Now) \in Nat /\ Content(op.fd) = Now
  BY <1>1, <1>2, Held DEF IInv
<1>4. req.n \in Nat /\ req.n <= DataCells
  BY Constants DEF IInv, ReqInv
<1>5. k \in Nat /\ k <= req.n /\ (k > 0 => k <= Len(Now) - p)
  BY <1>3, <1>4, Clamped
<1>6. ASSUME handle[op.fd].acc = 1, Refuse(5) PROVE IInv'
  <2>1. ax' = [ok |-> FALSE, val |-> 5] /\ UNCHANGED <<disk, handle, room, bounce>>
    BY <1>6 DEF Refuse, Error, dos
  <2>2. SameOp /\ leak' \in BOOLEAN /\ (leak => leak')
    BY <1>1, NoFlag DEF IInv, TypeOK
  <2>3. op.clean /\ op.steady => op.kind = "read"
    BY <1>2, <1>6 DEF IInv, LoadInv
  <2>4. 5 \in {0, 2, 4, 5} /\ 5 # 2
    OBVIOUS
  <2> QED
    BY <1>1, <2>1, <2>2, <2>3, <2>4, CallFails
<1>7. ASSUME bounce' = [c \in DOMAIN bounce |->
                            IF c - PathCells \in 1..k THEN Now[p + c - PathCells]
                            ELSE bounce[c]],
             handle' = [handle EXCEPT ![op.fd].pos = @ + k], Ok(k), UNCHANGED <<disk, room>>
      PROVE  IInv'
  <2>1. handle' = [handle EXCEPT ![op.fd].pos = p + k] /\ p + k \in Nat
    BY <1>3, <1>5, <1>7
  <2>2. ax' = [ok |-> TRUE, val |-> k]
    BY <1>7 DEF Ok
  <2>3. /\ bounce' \in [1..(PathCells + DataCells) -> Cells]
        /\ \A c \in 1..k : bounce'[PathCells + c] = Now[p + c]
    <3> HIDE DEF p, k
    <3>1. bounce \in [1..(PathCells + DataCells) -> Cells]
      BY DEF IInv, TypeOK
    <3>2. ASSUME NEW c \in 1..k
          PROVE  /\ p + c \in 1..Len(Now) /\ PathCells + c \in 1..(PathCells + DataCells)
                 /\ (PathCells + c) - PathCells = c
                 /\ p + (PathCells + c) - PathCells = p + c
      BY <1>3, <1>4, <1>5, Constants
    <3>3. \A c \in 1..k : bounce'[PathCells + c] = Now[p + c]
      BY <1>7, <3>1, <3>2
    <3>4. ASSUME NEW c \in 1..(PathCells + DataCells), c - PathCells \in 1..k
          PROVE  p + c - PathCells \in 1..Len(Now)
      BY <1>3, <1>4, <1>5, <3>4, Constants
    <3>5. \A c \in 1..(PathCells + DataCells) : bounce'[c] \in Cells
      BY <1>3, <1>7, <3>1, <3>4
    <3> QED
      BY <1>7, <3>1, <3>3, <3>5
  <2>4. disk' \in [AllNames -> Seq(Cells) \cup {Absent}] /\ room' \in Nat
    BY <1>7 DEF IInv, TypeOK
  <2> HIDE DEF p, k
  <2>5. /\ TypeOK' /\ FlowInv' /\ HandleInv' /\ ExistInv' /\ ReqInv' /\ SeekInv'
        /\ LastInv' /\ OpenTellsTruth'
        /\ handle'[op.fd].pos = p + k /\ handle'[op.fd].name = handle[op.fd].name
        /\ handle'[op.fd].acc = handle[op.fd].acc
        /\ ax'.ok /\ ax'.val = k
    BY <1>1, <1>2, <1>5, <1>7, <2>1, <2>2, <2>3, <2>4, Moves
  <2>6. Now' = Now
    BY <1>1, <1>7, <2>5 DEF Now
  <2>7. Reading => Reading'
    <3> SUFFICES ASSUME Reading PROVE Reading'
      OBVIOUS
    <3>1. Now = op.file /\ p = op.base + op.total
      BY <1>1 DEF Reading, p
    <3>2. k = Hi(0, Lo(req.n, Len(op.file) - (op.base + op.total)))
      BY <3>1 DEF k
    <3>3. \A c \in 1..k : bounce'[PathCells + c] = op.file[(op.base + op.total) + c]
      BY <2>3, <3>1
    <3>4. Chunk(op.file, op.base + op.total, req.n, ax.val)'
      BY <1>1, <2>5, <3>2, <3>3 DEF Chunk
    <3> QED
      BY <1>1, <2>5, <2>6, <3>1, <3>4 DEF Reading, Part
  <2>8. ReadInv' /\ WriteInv' /\ AppendInv'
    BY <1>1, <1>2, <2>7 DEF IInv, ReadInv, WriteInv, AppendInv
  <2>9. LoadInv'
    BY <1>1, <1>2, <2>5, <2>6, <2>7 DEF IInv, LoadInv
  <2> QED
    BY <2>5, <2>8, <2>9 DEF IInv
<1> QED
  BY <1>3, <1>6, <1>7 DEF DosRead

\* What Wrote says of t cells, it says of t + k when k more are written.
LEMMA WroteMore ==
    ASSUME NEW old \in Seq(Cells), NEW f \in Seq(Cells), NEW b \in Nat, NEW t \in Nat,
           NEW k \in Nat, NEW now \in Seq(Cells), Wrote(old, f, b, t),
           Len(now) = IF k = 0 THEN Len(old) ELSE Hi(b + t + k, Len(old)),
           \A c \in 1..Len(now) :
               now[c] = IF c - (b + t) \in 1..k THEN <<ops, c - b>>
                        ELSE IF c <= Len(old) THEN old[c] ELSE Junk
    PROVE  Wrote(now, f, b, t + k)
<1>1. /\ Len(old) \in Nat /\ Len(f) \in Nat /\ Len(now) \in Nat
      /\ Len(old) = IF t = 0 THEN Len(f) ELSE Hi(b + t, Len(f))
      /\ \A c \in 1..t : old[b + c] = <<ops, c>>
      /\ \A c \in 1..Len(f) : c - b \notin 1..t => old[c] = f[c]
  BY DEF Wrote
<1>2. Len(f) <= Len(old) /\ (t > 0 => b + t <= Len(old))
  BY <1>1 DEF Hi
<1>3. Len(old) <= Len(now) /\ (k > 0 => b + t + k <= Len(now))
  BY <1>1 DEF Hi
<1>4. Len(now) = IF t + k = 0 THEN Len(f) ELSE Hi(b + (t + k), Len(f))
  <2>1. CASE k = 0
    BY <1>1, <2>1
  <2>2. CASE k > 0
    BY <1>1, <2>2 DEF Hi
  <2> QED
    BY <2>1, <2>2
<1>5. ASSUME NEW c \in 1..(t + k) PROVE now[b + c] = <<ops, c>>
  <2>1. CASE c <= t
    <3>1. /\ b + c \in 1..Len(now) /\ (b + c) - (b + t) \notin 1..k /\ b + c <= Len(old)
          /\ c \in 1..t
      BY <1>1, <1>2, <1>3, <2>1
    <3> QED
      BY <1>1, <3>1
  <2>2. CASE c > t
    <3>1. b + c \in 1..Len(now) /\ (b + c) - (b + t) \in 1..k /\ (b + c) - b = c
      BY <1>1, <1>3, <2>2
    <3> QED
      BY <3>1
  <2> QED
    BY <2>1, <2>2
<1>6. ASSUME NEW c \in 1..Len(f), c - b \notin 1..(t + k) PROVE now[c] = f[c]
  <2>1. c \in 1..Len(now) /\ c - (b + t) \notin 1..k /\ c <= Len(old) /\ c - b \notin 1..t
    BY <1>1, <1>2, <1>3, <1>6
  <2> QED
    BY <1>1, <2>1
<1> QED
  BY <1>4, <1>5, <1>6 DEF Wrote

LEMMA DosWriteStep == ASSUME IInv, Int21, req.fn = "write", DosWrite PROVE IInv'
<1> DEFINE p == handle[op.fd].pos
           old == Now
           k == Hi(0, Lo(req.n, (Len(old) - p) + room))
           len == IF k = 0 THEN Len(old) ELSE Hi(p + k, Len(old))
           new == [c \in 1..len |-> IF c - p \in 1..k THEN bounce[PathCells + c - p]
                                    ELSE IF c <= Len(old) THEN old[c] ELSE Junk]
           name == handle[op.fd].name
<1>1. pc = "call" /\ pc' = "back" /\ UNCHANGED <<fd, op, req, ops, leak, last>>
  BY DEF Int21
<1>2. op.kind = "write" /\ (Using \/ Holding)
  BY <1>1, CallOf DEF IInv
<1>3. /\ op.fd \in Handles /\ req.fd = op.fd /\ p \in Nat /\ name \in AllNames
      /\ old \in Seq(Cells) /\ Len(old) \in Nat /\ Content(op.fd) = old
  BY <1>1, <1>2, Held DEF IInv
<1>4. req.n \in Nat /\ 1 <= req.n /\ req.n <= DataCells /\ room \in Nat
  BY Constants DEF IInv, ReqInv, TypeOK
<1>5. /\ k \in Nat /\ k <= req.n /\ (k > 0 => k <= (Len(old) - p) + room)
      /\ k = 0 => (Len(old) - p) + room <= 0
  <2>1. (Len(old) - p) + room \in Int
    BY <1>3, <1>4
  <2> HIDE DEF old, p
  <2>2. LET x == Hi(0, Lo(req.n, (Len(old) - p) + room))
        IN  /\ x \in Nat /\ x <= req.n /\ (x > 0 => x <= (Len(old) - p) + room)
            /\ (x = 0 => req.n = 0 \/ (Len(old) - p) + room <= 0)
    BY <1>4, <2>1, Clamped
  <2> QED
    BY <1>4, <2>2
<1>6. ASSUME Refuse(5) PROVE IInv'
  <2>1. ax' = [ok |-> FALSE, val |-> 5] /\ UNCHANGED <<disk, handle, room, bounce>>
    BY <1>6 DEF Refuse, Error, dos
  <2>2. SameOp /\ leak' \in BOOLEAN /\ (leak => leak')
    BY <1>1, NoFlag DEF IInv, TypeOK
  <2>3. 5 \in {0, 2, 4, 5} /\ 5 # 2
    OBVIOUS
  <2> QED
    BY <1>1, <2>1, <2>2, <2>3, CallFails
<1>7. ASSUME disk' = [disk EXCEPT ![name] = new], room' = room - (len - Len(old)),
             handle' = [handle EXCEPT ![op.fd].pos = @ + k], Ok(k), UNCHANGED bounce
      PROVE  IInv'
  <2>1. handle' = [handle EXCEPT ![op.fd].pos = p + k] /\ p + k \in Nat
    BY <1>3, <1>5, <1>7
  <2>2. ax' = [ok |-> TRUE, val |-> k]
    BY <1>7 DEF Ok
  <2>3. len \in Nat /\ Len(old) <= len /\ len - Len(old) <= room /\ (k > 0 => p + k <= len)
    <3> HIDE DEF k, old, p
    <3> QED
      BY <1>3, <1>4, <1>5 DEF Hi
  <2>4. new \in Seq(Cells) /\ Len(new) = len
    <3>1. bounce \in [1..(PathCells + DataCells) -> Cells]
      BY DEF IInv, TypeOK
    <3> HIDE DEF k, old, p, len
    <3>2. ASSUME NEW c \in 1..len PROVE new[c] \in Cells
      <4>1. CASE c - p \in 1..k
        <5>1. PathCells + c - p \in 1..(PathCells + DataCells)
          BY <1>3, <1>4, <1>5, <2>3, <4>1, Constants
        <5> QED
          BY <3>1, <4>1, <5>1
      <4>2. CASE c - p \notin 1..k /\ c <= Len(old)
        <5>1. c \in 1..Len(old)
          BY <1>3, <2>3, <4>2
        <5> QED
          BY <1>3, <4>2, <5>1
      <4>3. CASE c - p \notin 1..k /\ ~(c <= Len(old))
        BY <4>3, Constants
      <4> QED
        BY <4>1, <4>2, <4>3
    <3>3. new = [c \in 1..len |-> new[c]]
      OBVIOUS
    <3> HIDE DEF new
    <3> QED
      BY <2>3, <3>2, <3>3
  <2>5. /\ disk' \in [AllNames -> Seq(Cells) \cup {Absent}]
        /\ disk'[name] = new /\ \A m \in AllNames \ {name} : disk'[m] = disk[m]
    <3> HIDE DEF new, name
    <3> QED
      BY <1>3, <1>7, <2>4 DEF IInv, TypeOK
  <2>6. room' \in Nat
    <3> HIDE DEF len, old
    <3> QED
      BY <1>3, <1>4, <1>7, <2>3
  <2>7. \A m \in AllNames : disk[m] # Absent => disk'[m] # Absent
    <3> HIDE DEF new, name
    <3> QED
      BY <2>4, <2>5, FileAssumption
  <2>8. bounce' \in [1..(PathCells + DataCells) -> Cells]
    BY <1>7 DEF IInv, TypeOK
  <2>k. k = Hi(0, Lo(req.n, (Len(old) - p) + room))
        /\ len = (IF k = 0 THEN Len(old) ELSE Hi(p + k, Len(old)))
        /\ name = handle[op.fd].name /\ old = Now /\ p = handle[op.fd].pos
    OBVIOUS
  <2>n. \A c \in 1..len : new[c] = IF c - p \in 1..k THEN bounce[PathCells + c - p]
                                   ELSE IF c <= Len(old) THEN old[c] ELSE Junk
    OBVIOUS
  <2> HIDE DEF p, k, new, len, old, name
  <2>9. /\ TypeOK' /\ FlowInv' /\ HandleInv' /\ ExistInv' /\ ReqInv' /\ SeekInv'
        /\ LastInv' /\ OpenTellsTruth'
        /\ handle'[op.fd].pos = p + k /\ handle'[op.fd].name = handle[op.fd].name
        /\ ax'.ok /\ ax'.val = k
    BY <1>1, <1>2, <1>5, <2>1, <2>2, <2>5, <2>6, <2>7, <2>8, Moves
  <2>10. Now' = new
    BY <1>1, <2>5, <2>9, <2>k DEF Now
  <2>11. Written = op.total /\ Written' = op.total + k
    BY <1>1, <2>9 DEF Written
  <2>12. WriteInv'
    <3>1. op.total < op.size /\ req.n = Lo(op.size - op.total, DataCells)
      BY <1>2 DEF IInv, WriteInv
    <3>2. op.total \in Nat /\ op.size \in Nat /\ op.base \in Nat
      BY DEF IInv, TypeOK, Ops
    <3>3. ASSUME op.clean
          PROVE  /\ op.file \in Seq(Cells)
                 /\ Wrote(new, op.file, op.base, op.total + k)
                 /\ p + k = op.base + (op.total + k)
                 /\ op.total + k <= op.size
                 /\ k = 0 => room' <= Hi(0, op.base - Len(op.file))
      <4>1. /\ op.file \in Seq(Cells) /\ Wrote(old, op.file, op.base, op.total)
            /\ p = op.base + op.total
            /\ \A c \in 1..req.n : bounce[PathCells + c] = <<ops, op.total + c>>
        BY <1>1, <1>2, <2>11, <2>k, <3>3 DEF IInv, WriteInv
      <4>2. Wrote(new, op.file, op.base, op.total + k)
        <5>1. ASSUME NEW c \in 1..Len(new)
              PROVE  new[c] = IF c - (op.base + op.total) \in 1..k THEN <<ops, c - op.base>>
                              ELSE IF c <= Len(old) THEN old[c] ELSE Junk
          <6>1. CASE c - p \in 1..k
            <7>1. /\ c - p \in 1..req.n /\ PathCells + (c - p) = PathCells + c - p
                  /\ op.total + (c - p) = c - op.base
              <8>1. c \in Nat /\ c - p \in Nat /\ 1 <= c - p /\ c - p <= req.n
                BY <1>3, <1>4, <1>5, <2>3, <2>4, <6>1
              <8>2. PathCells + (c - p) = PathCells + c - p
                BY <1>3, <8>1, Constants
              <8>3. op.total + (c - p) = c - op.base
                <9>1. \A i, j, b \in Nat : j + (i - (b + j)) = i - b
                  OBVIOUS
                <9>2. c \in Nat /\ op.total \in Nat /\ op.base \in Nat
                  BY <3>2, <8>1
                <9> QED
                  BY <4>1, <9>1, <9>2
              <8> QED
                BY <1>4, <8>1, <8>2, <8>3
            <7>2. bounce[PathCells + (c - p)] = <<ops, op.total + (c - p)>>
              BY <4>1, <7>1
            <7> QED
              BY <2>4, <2>n, <4>1, <6>1, <7>1, <7>2
          <6>2. CASE c - p \notin 1..k
            BY <2>4, <2>n, <4>1, <6>2
          <6> QED
            BY <6>1, <6>2
        <5>2. Len(new) = IF k = 0 THEN Len(old) ELSE Hi(op.base + op.total + k, Len(old))
          BY <2>4, <2>k, <4>1
        <5> QED
          BY <1>3, <1>5, <2>4, <3>2, <4>1, <5>1, <5>2, WroteMore
      <4>3. p + k = op.base + (op.total + k)
        BY <1>5, <3>2, <4>1
      <4>4. op.total + k <= op.size
        BY <1>4, <1>5, <3>1, <3>2, Constants DEF Lo
      <4>5. k = 0 => room' <= Hi(0, op.base - Len(op.file))
        <5> SUFFICES ASSUME k = 0 PROVE room' <= Hi(0, op.base - Len(op.file))
          OBVIOUS
        <5>1. room' = room /\ room <= p - Len(old)
          BY <1>3, <1>4, <1>5, <1>7, <2>k
        <5>2. Len(old) = IF op.total = 0 THEN Len(op.file)
                         ELSE Hi(op.base + op.total, Len(op.file))
          BY <4>1 DEF Wrote
        <5>3. Len(op.file) \in Nat
          BY <4>1
        <5>4. CASE op.total = 0
          BY <1>4, <3>2, <4>1, <5>1, <5>2, <5>3, <5>4 DEF Hi
        <5>5. CASE op.total # 0
          <6>1. op.base + op.total <= Len(old)
            BY <3>2, <5>2, <5>3, <5>5 DEF Hi
          <6>2. room' <= 0
            BY <1>3, <1>4, <3>2, <4>1, <5>1, <6>1
          <6> QED
            BY <3>2, <5>1, <1>4, <5>3, <6>2 DEF Hi
        <5> QED
          BY <5>4, <5>5
      <4> QED
        BY <4>1, <4>2, <4>3, <4>4, <4>5
    <3>4. op.clean => Wrote(Now, op.file, op.base, Written)'
      BY <1>1, <2>10, <2>11, <3>3 DEF Wrote
    <3> QED
      BY <1>1, <2>9, <2>11, <3>1, <3>3, <3>4 DEF WriteInv
  <2>13. ReadInv' /\ AppendInv' /\ LoadInv'
    BY <1>1, <1>2 DEF ReadInv, AppendInv, LoadInv
  <2> QED
    BY <2>9, <2>12, <2>13 DEF IInv
<1> QED
  BY <1>3, <1>6, <1>7 DEF DosWrite

LEMMA DosCloseStep == ASSUME IInv, Int21, req.fn = "close", DosClose PROVE IInv'
<1> USE DEF IInv
<1>1. pc = "call" /\ pc' = "back" /\ UNCHANGED <<fd, op, req, ops, leak, last>>
  BY DEF Int21
<1>2. (Using \/ Holding) /\ (op.kind = "close" \/ (Holding /\ op.step = "close"))
  BY <1>1, CallOf
<1>3. op.fd \in Handles /\ req.fd = op.fd
  BY <1>1, <1>2, Held
<1>4. /\ handle' = [handle EXCEPT ![op.fd] = Free] /\ ax' = [ok |-> TRUE, val |-> 0]
      /\ UNCHANGED <<disk, room, bounce>>
  BY <1>3 DEF DosClose, Ok
<1>5. /\ handle' \in [Handles -> Open \cup {Free}] /\ handle'[op.fd] = Free
      /\ \A h \in Handles \ {op.fd} : handle'[h] = handle[h]
  BY <1>3, <1>4 DEF TypeOK
<1>6. TypeOK'
  BY <1>1, <1>4, <1>5 DEF TypeOK
<1>7. FlowInv'
  BY <1>1, BackFlow
<1>8. ~Seeking /\ ~Seeking' /\ ~Given /\ ~Given' /\ (Holding' <=> Holding)
  BY <1>1, <1>2 DEF Using, Holding, Seeking, Given
<1>9. \A h : ~Closed(h) /\ (Closed(h)' <=> h = op.fd)
  BY <1>1, <1>2 DEF Closed, Using, Holding
<1>10. HandleInv'
  <2>1. \A x \in Objs : fd[x] # -1 => fd[x] \in Handles
    BY DEF TypeOK
  <2>2. \A x \in Objs : fd'[x] # -1 /\ ~Closed(fd[x])' => handle'[fd'[x]] # Free
    BY <1>1, <1>5, <1>9, <2>1 DEF HandleInv
  <2>3. \A x, y \in Objs : x # y /\ fd'[x] # -1 => fd'[x] # fd'[y]
    BY <1>1 DEF HandleInv
  <2>4. Holding' => Closed(op.fd)' /\ \A x \in Objs : fd'[x] # op'.fd
    BY <1>1, <1>8, <1>9 DEF HandleInv
  <2>5. ~leak' => \A h \in Handles : handle'[h] # Free =>
                     (\E x \in Objs : fd'[x] = h) \/ (Holding' /\ h = op'.fd)
    BY <1>1, <1>5, <1>8 DEF HandleInv
  <2>6. \A h \in Handles : Closed(h)' => handle'[h] = Free
    BY <1>5, <1>9
  <2> QED
    BY <1>8, <2>2, <2>3, <2>4, <2>5, <2>6 DEF HandleInv
<1>11. ExistInv' /\ ReqInv' /\ SeekInv'
  BY <1>1, <1>4, <1>5, <1>8 DEF ExistInv, ReqInv, SeekInv
<1>12. ReadInv' /\ WriteInv' /\ AppendInv'
  BY <1>1, <1>2 DEF ReadInv, WriteInv, AppendInv, Holding
<1>13. LoadInv'
  BY <1>1, <1>2, <1>4 DEF LoadInv
<1>14. LastInv' /\ OpenTellsTruth'
  BY <1>1, LastKept
<1> QED
  BY <1>6, <1>7, <1>10, <1>11, <1>12, <1>13, <1>14

LEMMA DosLseekStep ==
    ASSUME IInv, Int21, req.fn \in {"seek_end", "seek_cur", "seek_set"}, DosLseek
    PROVE  IInv'
<1> DEFINE p == CASE req.fn = "seek_end" -> Len(Now)
                  [] req.fn = "seek_cur" -> handle[op.fd].pos
                  [] req.fn = "seek_set" -> req.n
<1>1. pc = "call" /\ pc' = "back" /\ UNCHANGED <<fd, op, req, ops, leak, last>>
  BY DEF Int21
<1>2. /\ Using \/ Holding
      /\ req.fn = "seek_cur" => op.kind = "seek" \/ (op.kind = "load" /\ op.step = "cur")
      /\ req.fn = "seek_set" => op.kind = "seek" \/ (op.kind = "load" /\ op.step = "set")
      /\ req.fn = "seek_end" => \/ op.kind = "seek" \/ (op.kind = "load" /\ op.step = "end")
                                \/ (op.kind = "open" /\ op.step = "seek")
  BY <1>1, CallOf DEF IInv
<1>3. /\ op.fd \in Handles /\ req.fd = op.fd /\ handle[op.fd].pos \in Nat
      /\ Len(Now) \in Nat /\ Content(op.fd) = Now
  BY <1>1, <1>2, Held DEF IInv
<1>4. /\ handle' = [handle EXCEPT ![op.fd].pos = p] /\ ax' = [ok |-> TRUE, val |-> p]
      /\ UNCHANGED <<disk, room, bounce>>
  BY <1>3 DEF DosLseek, Ok
<1>5. /\ req.fn = "seek_end" => p = Len(Now)
      /\ req.fn = "seek_cur" => p = handle[op.fd].pos
      /\ req.fn = "seek_set" => p = req.n
  OBVIOUS
<1> HIDE DEF p
<1>6. p \in Nat
  <2>1. req.n \in Nat
    BY DEF IInv, TypeOK
  <2> QED
    BY <1>3, <1>5, <2>1
<1>7. /\ disk' \in [AllNames -> Seq(Cells) \cup {Absent}] /\ room' \in Nat
      /\ bounce' \in [1..(PathCells + DataCells) -> Cells]
  BY <1>4 DEF IInv, TypeOK
<1>8. /\ TypeOK' /\ FlowInv' /\ HandleInv' /\ ExistInv' /\ ReqInv' /\ SeekInv'
      /\ LastInv' /\ OpenTellsTruth'
      /\ handle'[op.fd].pos = p /\ handle'[op.fd].name = handle[op.fd].name
      /\ handle'[op.fd].acc = handle[op.fd].acc
      /\ ax'.ok /\ ax'.val = p
  BY <1>1, <1>2, <1>4, <1>6, <1>7, Moves
<1>9. Now' = Now
  BY <1>1, <1>4, <1>8 DEF Now
<1>10. ReadInv' /\ WriteInv'
  BY <1>1, <1>2 DEF ReadInv, WriteInv
<1>11. AppendInv'
  BY <1>1, <1>2, <1>4, <1>5, <1>8 DEF IInv, AppendInv, Now
<1>12. LoadInv'
  BY <1>1, <1>2, <1>5, <1>8, <1>9 DEF IInv, LoadInv
<1> QED
  BY <1>8, <1>10, <1>11, <1>12 DEF IInv

LEMMA Int21Step == ASSUME IInv, Int21 PROVE IInv'
  BY DosOpenStep, DosCreatStep, DosReadStep, DosWriteStep, DosCloseStep, DosLseekStep
     DEF Int21

-----------------------------------------------------------------------------
(* What the caller's code does between two calls *)

LEMMA IdleIs ==
    ASSUME FlowInv, pc = "idle"
    PROVE  /\ op = NoOp /\ req = NoReq /\ op.kind = "none"
           /\ ~Seeking /\ ~Holding /\ ~Using /\ ~Given /\ \A h : ~Closed(h)
<1>1. op = NoOp /\ req = NoReq /\ op.kind = "none"
  BY DEF FlowInv
<1> QED
  BY <1>1 DEF Seeking, Holding, Using, Given, Closed

\* The handle an operation had, it keeps or it lets go of for good.
LEMMA HandlesStay ==
    ASSUME TypeOK, FlowInv, HandleInv, UNCHANGED <<handle, fd>>, op.kind # "close",
           ~Given', \A h : ~Closed(h)',
           Holding' => \/ Given /\ op'.fd = ax.val
                       \/ Holding /\ ~Closed(op.fd) /\ op'.fd = op.fd,
           ~leak' => /\ ~leak
                     /\ Given => Holding' /\ op'.fd = ax.val
                     /\ Holding /\ ~Closed(op.fd) => Holding' /\ op'.fd = op.fd
    PROVE  HandleInv'
<1>1. \A x \in Objs : fd[x] # -1 => fd[x] \in Handles /\ ~Closed(fd[x])
  <2> SUFFICES ASSUME NEW x \in Objs, fd[x] # -1, Closed(fd[x]) PROVE FALSE
    BY DEF TypeOK
  <2>1. Using \/ Holding
    BY DEF Closed
  <2>2. Holding => fd[x] # op.fd
    BY DEF HandleInv
  <2>3. op.fd = fd[x] /\ req.fn = "close"
    BY DEF Closed
  <2>4. Using /\ ~Holding
    BY <2>1, <2>2, <2>3
  <2> QED
    BY <2>3, <2>4 DEF FlowInv, Calls, Using
<1>2. \A x \in Objs : fd'[x] # -1 => handle'[fd'[x]] # Free
  BY <1>1 DEF HandleInv
<1>3. \A x, y \in Objs : x # y /\ fd'[x] # -1 => fd'[x] # fd'[y]
  BY DEF HandleInv
<1>4. Holding' => handle'[op'.fd] # Free /\ \A x \in Objs : fd'[x] # op'.fd
  BY DEF HandleInv
<1>5. ASSUME ~leak', NEW h \in Handles, handle'[h] # Free
      PROVE  (\E x \in Objs : fd'[x] = h) \/ (Holding' /\ h = op'.fd)
  <2>1. ~Closed(h)
    BY <1>5 DEF HandleInv
  <2> QED
    BY <1>5, <2>1 DEF HandleInv
<1> QED
  BY <1>2, <1>3, <1>4, <1>5 DEF HandleInv

\* An operation on a handle, at its next call.
LEMMA NextCall ==
    ASSUME IInv, op.kind # "close", pc' = "call", op' \in Ops, Using' \/ Holding',
           NEW fn \in Functions, NEW n \in Nat,
           req' = [fn |-> fn, fd |-> op'.fd, n |-> n], fn \in {"read", "write"} => n \in 1..DataCells,
           UNCHANGED <<disk, handle, room, fd, ax, leak, last>>, ops' \in Nat,
           bounce' \in [1..(PathCells + DataCells) -> Cells],
           Using' => op'.obj \in Objs /\ op'.fd = fd[op'.obj] /\ op'.fd \in Handles,
           op'.kind = "open" =>
               op'.obj \in Objs /\ fd[op'.obj] = -1 /\ op'.err = "none",
           Holding' => /\ op'.name \in Names
                       /\ \/ Given /\ op'.fd = ax.val
                          \/ Holding /\ ~Closed(op.fd) /\ op'.fd = op.fd,
           Given => Holding' /\ op'.fd = ax.val,
           Holding /\ ~Closed(op.fd) => Holding' /\ op'.fd = op.fd,
           Calls'
    PROVE  /\ TypeOK' /\ FlowInv' /\ HandleInv' /\ ExistInv' /\ ReqInv' /\ SeekInv'
           /\ LastInv' /\ OpenTellsTruth' /\ req'.fn = fn /\ req'.n = n
<1> USE DEF IInv
<1>1. op'.fd \in Handles \cup {-1}
  BY DEF Ops
<1>2. req' \in [fn : Functions, fd : Handles \cup {-1}, n : Nat]
      /\ req'.fn = fn /\ req'.n = n /\ req'.fd = op'.fd
  BY <1>1
<1>3. TypeOK'
  BY <1>2 DEF TypeOK
<1>4. ~Seeking' /\ ~Given' /\ \A h : ~Closed(h)'
  BY DEF Seeking, Using, Holding, Given, Closed
<1>5. Given => ax.val \in Handles
  BY DEF HandleInv
<1>6. Holding => op.fd \in Handles
  BY DEF FlowInv
<1>7. FlowInv'
  <2>1. op'.kind # "none"
    BY DEF Using, Holding
  <2>2. Holding' => op'.fd \in Handles
    BY <1>5, <1>6
  <2> QED
    BY <1>2, <1>4, <2>1, <2>2 DEF FlowInv
<1>8. HandleInv'
  BY <1>4, HandlesStay
<1>9. ExistInv' /\ ReqInv' /\ SeekInv'
  BY <1>2, <1>4 DEF ExistInv, ReqInv, SeekInv
<1>10. LastInv' /\ OpenTellsTruth'
  BY LastKept
<1> QED
  BY <1>2, <1>3, <1>7, <1>8, <1>9, <1>10

\* open() or creat() of the name, by dos_int21_open and dos_int21_creat.
LEMMA NameCalled ==
    ASSUME IInv, op.kind = "none" \/ (Seeking /\ ~Given), op' \in Ops, Seeking',
           NEW fn \in {"open", "creat"}, NEW acc \in 0..2, NameCall(fn, op'.name, acc),
           op'.name \in Names, op'.step = fn, op'.buf = << >>, op'.total = 0,
           op'.kind # "open" => fn = "open" /\ acc = 0,
           op'.kind = "open" =>
               op'.obj \in Objs /\ fd[op'.obj] = -1 /\ op'.err = "none",
           fn = "open" => op'.mode # "w",
           fn = "creat" => op'.mode \in {"w", "a"},
           op'.clean => disk[op'.name] = op'.file,
           op'.clean /\ op'.steady /\ fn = "creat" /\ op'.mode = "a" => Harmless',
           UNCHANGED <<disk, handle, room, fd, leak, last>>, ops' \in Nat
    PROVE  IInv'
<1> USE DEF IInv
<1>1. ~Holding' /\ ~Using' /\ ~Holding /\ ~Using /\ ~Given
  BY DEF Seeking, Holding, Using, Given
<1>2. op.kind # "close" /\ op'.kind \in {"open", "stat", "load"}
  BY DEF Seeking
<1>3. \/ /\ op'.name \in LongNames /\ ax' = [ok |-> FALSE, val |-> 0] /\ pc' = "back"
         /\ UNCHANGED <<bounce, req>>
      \/ /\ op'.name \notin LongNames /\ bounce' = [bounce EXCEPT ![1] = op'.name]
         /\ req' = [fn |-> fn, fd |-> -1, n |-> acc] /\ pc' = "call" /\ UNCHANGED ax
  BY DEF NameCall, Error, Gate
<1>4. /\ bounce' \in [1..(PathCells + DataCells) -> Cells]
      /\ pc' = "call" => bounce'[1] = op'.name
  <2>1. 1 \in 1..(PathCells + DataCells) /\ op'.name \in Cells
    BY Constants
  <2>2. bounce \in [1..(PathCells + DataCells) -> Cells]
    BY DEF TypeOK
  <2>3. bounce' = bounce \/ bounce' = [bounce EXCEPT ![1] = op'.name]
    BY <1>3
  <2>4. bounce' \in [1..(PathCells + DataCells) -> Cells]
    BY <2>1, <2>2, <2>3
  <2>5. pc' = "call" => bounce' = [bounce EXCEPT ![1] = op'.name]
    BY <1>3
  <2> QED
    BY <2>1, <2>2, <2>4, <2>5
<1>5. req' \in [fn : Functions, fd : Handles \cup {-1}, n : Nat]
      /\ (pc' = "call" => req'.fn = fn /\ req'.n = acc)
  BY <1>3 DEF TypeOK, Functions
<1>6. TypeOK'
  <2>1. ax' \in [ok : BOOLEAN, val : Nat] /\ pc' \in {"idle", "call", "back"}
    <3>1. [ok |-> FALSE, val |-> 0] \in [ok : BOOLEAN, val : Nat]
      OBVIOUS
    <3> QED
      BY <1>3, <3>1 DEF TypeOK
  <2> QED
    BY <1>4, <1>5, <2>1 DEF TypeOK
<1>7. pc' # "idle" /\ ~Given' /\ \A h : ~Closed(h)'
  BY <1>1, <1>3 DEF Given, Closed
<1>8. FlowInv'
  BY <1>1, <1>2, <1>5, <1>7 DEF FlowInv, Calls, Seeking, Holding
<1>9. HandleInv'
  BY <1>1, <1>2, <1>7, HandlesStay
<1>10. ExistInv' /\ ReqInv'
  BY <1>3, <1>5 DEF ExistInv, ReqInv
<1>11. ReadInv' /\ WriteInv' /\ AppendInv' /\ LoadInv'
  BY <1>2 DEF ReadInv, WriteInv, AppendInv, LoadInv, Seeking
<1>12. SeekInv'
  <2>1. pc' = "back" => ~ax'.ok /\ ax'.val = 0 /\ op'.name \in LongNames
    BY <1>3
  <2>2. pc' = "back" => Harmless'
    BY <2>1 DEF Harmless
  <2>3. pc' = "call" => op'.name \notin LongNames
    BY <1>3
  <2> QED
    BY <1>4, <1>5, <1>7, <2>1, <2>2, <2>3 DEF SeekInv, Truncates
<1>13. LastInv' /\ OpenTellsTruth'
  BY <1>7, LastKept
<1> QED
  BY <1>6, <1>8, <1>9, <1>10, <1>11, <1>12, <1>13

LEMMA NoOpIs ==
    /\ NoOp \in Ops /\ NoOp.kind = "none" /\ NoOp.total = 0 /\ NoOp.buf = << >>
    /\ NoOp.clean = TRUE /\ NoOp.steady = TRUE /\ NoOp.err = "none" /\ NoOp.mode = "r"
    /\ NoOp.fd = -1
  BY DEF NoOp, Ops, Kinds, Steps, Errors, AllNames

\* The operation ends.
LEMMA OpEnds ==
    ASSUME IInv, pc' = "idle", op' = NoOp, req' = NoReq, last' \in Ops,
           UNCHANGED <<disk, handle, room, bounce, ax>>, ops' \in Nat, leak' \in BOOLEAN,
           fd' \in [Objs -> Handles \cup {-1}], HandleInv', LastInv', OpenTellsTruth'
    PROVE  IInv'
<1>1. NoOp \in Ops /\ NoOp.kind = "none"
  BY NoOpIs
<1>2. NoReq \in [fn : Functions, fd : Handles \cup {-1}, n : Nat] /\ NoReq.fn = "none"
  BY DEF NoReq, Functions
<1>3. TypeOK'
  BY <1>1, <1>2 DEF IInv, TypeOK
<1>4. ~Seeking' /\ ~Holding' /\ ~Using' /\ op'.kind = "none"
  BY <1>1 DEF Seeking, Holding, Using
<1>5. FlowInv'
  BY <1>4 DEF FlowInv, Calls
<1>6. ExistInv' /\ ReqInv'
  BY <1>2 DEF IInv, ExistInv, ReqInv
<1>7. ReadInv' /\ WriteInv' /\ SeekInv' /\ AppendInv' /\ LoadInv'
  BY <1>4 DEF ReadInv, WriteInv, SeekInv, AppendInv, LoadInv
<1> QED
  BY <1>3, <1>5, <1>6, <1>7 DEF IInv

\* Its handle was an object's, or is closed by now, or is lost and that is known.
LEMMA OpEndsSame ==
    ASSUME IInv, pc' = "idle", op' = NoOp, req' = NoReq, last' \in Ops,
           UNCHANGED <<disk, handle, room, bounce, ax, fd>>, ops' \in Nat, leak' \in BOOLEAN,
           op.kind # "close",
           ~leak' => ~leak /\ ~Given /\ (Holding => Closed(op.fd)),
           LastInv', OpenTellsTruth'
    PROVE  IInv'
<1>1. ~Seeking' /\ ~Holding' /\ ~Given' /\ \A h : ~Closed(h)'
  BY DEF Seeking, Holding, Given, Closed, NoOp
<1>2. HandleInv'
  BY <1>1, HandlesStay DEF IInv
<1>3. fd' \in [Objs -> Handles \cup {-1}]
  BY DEF IInv, TypeOK
<1> QED
  BY <1>2, <1>3, OpEnds

\* An operation of which nothing is promised.
LEMMA NothingSaid ==
    ASSUME \/ last'.kind \in {"seek", "close", "stat"}
           \/ last'.err \notin {"none", "ENOENT"}
           \/ last'.kind = "load" /\ last'.err # "none"
    PROVE  LastInv' /\ OpenTellsTruth'
<1>1. LastInv'
  BY DEF LastInv
<1>2. OpenTellsTruth'
  BY DEF OpenTellsTruth
<1> QED
  BY <1>1, <1>2

-----------------------------------------------------------------------------
(* The operations *)

\* An object that is open has a handle that is.
LEMMA ObjectOp ==
    ASSUME IInv, pc = "idle", NEW x \in Objs, NEW kind \in {"read", "write", "seek", "close"}
    PROVE  LET q == OnObject(x, kind)
           IN  /\ q \in Ops /\ q.kind = kind /\ q.obj = x /\ q.fd = fd[x] /\ q.total = 0
               /\ q.buf = << >> /\ q.clean /\ q.steady /\ q.err = "none"
               /\ fd[x] >= 0 =>
                     /\ fd[x] \in Handles /\ q.base = handle[fd[x]].pos
                     /\ q.file = Content(fd[x]) /\ q.file \in Seq(Cells) /\ q.base \in Nat
<1> DEFINE b == IF fd[x] >= 0 THEN handle[fd[x]].pos ELSE 0
           f == IF fd[x] >= 0 THEN Content(fd[x]) ELSE << >>
           q == OnObject(x, kind)
<1>1. fd[x] \in Handles \cup {-1} /\ fd[x] \in Int
  <2>1. fd[x] \in Handles \cup {-1}
    BY DEF IInv, TypeOK
  <2>2. -1 \in Int /\ Handles \subseteq Int
    BY FileAssumption
  <2> QED
    BY <2>1, <2>2, Zenon
<1>2. ASSUME fd[x] >= 0
      PROVE  /\ fd[x] \in Handles /\ handle[fd[x]].pos \in Nat
             /\ Content(fd[x]) \in Seq(Cells)
  <2>1. fd[x] \in Handles /\ fd[x] # -1
    BY <1>1, <1>2
  <2>2. handle[fd[x]] # Free
    BY <2>1, IdleIs DEF IInv, HandleInv
  <2>3. handle[fd[x]] \in Open
    BY <2>1, <2>2 DEF IInv, TypeOK
  <2>4. handle[fd[x]].pos \in Nat /\ handle[fd[x]].name \in AllNames
    BY <2>3, OpenIsNotFree
  <2> QED
    BY <2>1, <2>2, <2>4 DEF IInv, TypeOK, ExistInv, Content
<1>3. b \in Nat /\ f \in Seq(Cells)
  BY <1>2
<1>4. q = [NoOp EXCEPT !.kind = kind, !.obj = x, !.fd = fd[x], !.base = b, !.file = f]
  BY DEF OnObject
<1>5. fd[x] >= 0 => b = handle[fd[x]].pos /\ f = Content(fd[x])
  OBVIOUS
<1> HIDE DEF b, f, q
<1>6. /\ q \in Ops /\ q.kind = kind /\ q.obj = x /\ q.fd = fd[x] /\ q.total = 0
      /\ q.buf = << >> /\ q.clean /\ q.steady /\ q.err = "none" /\ q.base = b /\ q.file = f
  <2>1. kind \in Kinds
    BY DEF Kinds
  <2>2. q \in Ops
    BY <1>1, <1>3, <1>4, <2>1, NoOpIs DEF Ops
  <2> QED
    BY <1>4, <2>2, NoOpIs DEF Ops
<1> QED
  BY <1>2, <1>3, <1>5, <1>6 DEF q

LEMMA BadFdStep ==
    ASSUME IInv, NEW x \in Objs, NEW k \in {"read", "write", "seek"}, BadFd(x, k)
    PROVE  IInv'
<1> DEFINE q == OnObject(x, k)
<1>1. /\ pc = "idle" /\ ops' = ops + 1 /\ UNCHANGED <<disk, handle, room, fd, leak, bounce, ax>>
      /\ last' = [q EXCEPT !.err = "EBADF"] /\ op' = NoOp /\ req' = NoReq /\ pc' = "idle"
  BY DEF BadFd, Enter, Return, dos
<1>2. q \in Ops
  BY <1>1, ObjectOp
<1> HIDE DEF q
<1>3. last' \in Ops /\ last'.err = "EBADF"
  BY <1>1, <1>2 DEF Ops, Errors
<1>4. LastInv' /\ OpenTellsTruth'
  BY <1>3, NothingSaid
<1>5. op.kind = "none" /\ ~Given /\ ~Holding /\ ops' \in Nat /\ leak' \in BOOLEAN
  BY <1>1, IdleIs DEF IInv, TypeOK
<1> QED
  BY <1>1, <1>3, <1>4, <1>5, OpEndsSame

LEMMA CloseAgainStep == ASSUME IInv, NEW x \in Objs, CloseAgain(x) PROVE IInv'
<1> DEFINE q == OnObject(x, "close")
<1>1. /\ pc = "idle" /\ ops' = ops + 1 /\ UNCHANGED <<disk, handle, room, fd, leak, bounce, ax>>
      /\ last' = q /\ op' = NoOp /\ req' = NoReq /\ pc' = "idle"
  BY DEF CloseAgain, Enter, Return, dos
<1>2. q \in Ops /\ q.kind = "close"
  BY <1>1, ObjectOp
<1> HIDE DEF q
<1>3. last' \in Ops /\ last'.kind = "close"
  BY <1>1, <1>2
<1>4. LastInv' /\ OpenTellsTruth'
  BY <1>3, NothingSaid
<1>5. op.kind = "none" /\ ~Given /\ ~Holding /\ ops' \in Nat /\ leak' \in BOOLEAN
  BY <1>1, IdleIs DEF IInv, TypeOK
<1> QED
  BY <1>1, <1>3, <1>4, <1>5, OpEndsSame

\* The first call of an operation on an open object.
LEMMA ObjectCalls ==
    ASSUME IInv, pc = "idle", pc' = "call", NEW x \in Objs, fd[x] >= 0,
           op' \in Ops, op'.kind \in {"read", "write", "seek", "close"}, op'.obj = x,
           op'.fd = fd[x], fd[x] \in Handles, NEW fn \in Functions, NEW n \in Nat,
           req' = [fn |-> fn, fd |-> fd[x], n |-> n],
           fn \in {"read", "write"} => n \in 1..DataCells,
           op'.kind \in {"read", "write", "close"} => fn = op'.kind,
           op'.kind = "seek" => fn \in {"seek_cur", "seek_end", "seek_set"},
           UNCHANGED <<disk, handle, room, fd, ax, leak, last>>, ops' \in Nat,
           bounce' \in [1..(PathCells + DataCells) -> Cells],
           ReadInv', WriteInv'
    PROVE  IInv'
<1>1. op.kind = "none" /\ ~Given /\ ~Holding /\ ~Seeking
  BY IdleIs DEF IInv
<1>2. Using' /\ ~Holding' /\ ~Seeking'
  BY DEF Using, Holding, Seeking
<1>3. Calls'
  BY <1>2 DEF Calls
<1>4. /\ TypeOK' /\ FlowInv' /\ HandleInv' /\ ExistInv' /\ ReqInv' /\ SeekInv'
      /\ LastInv' /\ OpenTellsTruth'
  BY <1>1, <1>2, <1>3, NextCall DEF Using
<1>5. AppendInv' /\ LoadInv'
  BY DEF AppendInv, LoadInv
<1> QED
  BY <1>4, <1>5 DEF IInv

LEMMA ReadBeginStep == ASSUME IInv, NEW x \in Objs, NEW size \in Sizes, ReadBegin(x, size) PROVE IInv'
<1> DEFINE q == OnObject(x, "read")
           n == Lo(size, DataCells)
<1>1. /\ fd[x] >= 0 /\ pc = "idle" /\ ops' = ops + 1
      /\ UNCHANGED <<disk, handle, room, fd, leak, last, bounce, ax>>
      /\ req' = [fn |-> "read", fd |-> fd[x], n |-> n] /\ pc' = "call"
      /\ op' = [q EXCEPT !.size = size]
  BY DEF ReadBegin, Begin, Enter, ReadCall, FdCall, Gate, dos
<1>2. /\ q \in Ops /\ q.kind = "read" /\ q.obj = x /\ q.fd = fd[x] /\ q.total = 0
      /\ q.buf = << >> /\ fd[x] \in Handles /\ q.base = handle[fd[x]].pos
      /\ q.file = Content(fd[x]) /\ q.file \in Seq(Cells) /\ q.base \in Nat
  BY <1>1, ObjectOp
<1>3. size \in Nat /\ 1 <= size /\ n \in 1..DataCells
  BY FileAssumption DEF Lo
<1> HIDE DEF q
<1>4. /\ op' \in Ops /\ op'.kind = "read" /\ op'.obj = x /\ op'.fd = fd[x] /\ op'.total = 0
      /\ op'.buf = << >> /\ op'.base = q.base /\ op'.file = q.file /\ op'.size = size
  BY <1>1, <1>2, <1>3 DEF Ops
<1>5. Reading'
  <2>1. Now' = q.file
    BY <1>1, <1>2, <1>4 DEF Now, Content
  <2>2. Part(q.file, q.base, 0, << >>)
    BY DEF Part
  <2>3. Part(op.file, op.base, op.total, op.buf)'
    BY <1>4, <2>2 DEF Part
  <2>4. size - 0 = size /\ q.base + 0 = q.base
    BY <1>2, <1>3
  <2>5. req'.n = Lo(op'.size - op'.total, DataCells) /\ handle'[op'.fd].pos = op'.base + op'.total
    BY <1>1, <1>2, <1>4, <2>4
  <2>6. op'.total < op'.size
    BY <1>3, <1>4
  <2> QED
    BY <1>1, <1>2, <1>4, <2>1, <2>3, <2>5, <2>6 DEF Reading
<1>6. ReadInv' /\ WriteInv'
  BY <1>4, <1>5 DEF ReadInv, WriteInv
<1>7. bounce' \in [1..(PathCells + DataCells) -> Cells] /\ ops' \in Nat /\ n \in Nat
  BY <1>1, <1>3 DEF IInv, TypeOK
<1>8. "read" \in Functions
  BY DEF Functions
<1> HIDE DEF n
<1> QED
  BY <1>1, <1>2, <1>3, <1>4, <1>6, <1>7, <1>8, ObjectCalls

\* dos_int21_write copies what fits to the second half of the buffer.
LEMMA WriteCalled ==
    ASSUME TypeOK, NEW h, NEW data \in Seq(Cells), WriteCall(h, data)
    PROVE  LET k == Lo(Len(data), DataCells)
           IN  /\ k \in Nat /\ k <= Len(data) /\ k <= DataCells
               /\ req' = [fn |-> "write", fd |-> h, n |-> k] /\ pc' = "call" /\ ax' = ax
               /\ bounce' \in [1..(PathCells + DataCells) -> Cells]
               /\ \A c \in 1..k : bounce'[PathCells + c] = data[c]
<1> DEFINE k == Lo(Len(data), DataCells)
<1>1. Len(data) \in Nat
  OBVIOUS
<1>2. k \in Nat /\ k <= Len(data) /\ k <= DataCells
  BY <1>1, Constants DEF Lo
<1>3. /\ bounce' = [c \in DOMAIN bounce |-> IF c - PathCells \in 1..k THEN data[c - PathCells]
                                            ELSE bounce[c]]
      /\ req' = [fn |-> "write", fd |-> h, n |-> k] /\ pc' = "call" /\ ax' = ax
  BY DEF WriteCall, Gate
<1> HIDE DEF k
<1>4. bounce \in [1..(PathCells + DataCells) -> Cells]
  BY DEF TypeOK
<1>5. ASSUME NEW c \in 1..(PathCells + DataCells) PROVE bounce'[c] \in Cells
  <2>1. CASE c - PathCells \in 1..k
    <3>1. c - PathCells \in 1..Len(data)
      BY <1>1, <1>2, <2>1, Constants
    <3> QED
      BY <1>3, <1>4, <2>1, <3>1
  <2>2. CASE c - PathCells \notin 1..k
    BY <1>3, <1>4, <2>2
  <2> QED
    BY <2>1, <2>2
<1>6. ASSUME NEW c \in 1..k PROVE bounce'[PathCells + c] = data[c]
  <2>1. PathCells + c \in 1..(PathCells + DataCells) /\ (PathCells + c) - PathCells = c
    BY <1>2, Constants
  <2> QED
    BY <1>3, <1>4, <2>1
<1>7. bounce' \in [1..(PathCells + DataCells) -> Cells]
  BY <1>3, <1>4, <1>5
<1> QED
  BY <1>2, <1>3, <1>6, <1>7 DEF k

\* The data of a write: numbered by the operation and the place.
LEMMA DataIs ==
    ASSUME NEW s \in Nat, NEW v \in Nat
    PROVE  LET d == [c \in 1..s |-> <<v, c>>] IN d \in Seq(Cells) /\ Len(d) = s
<1> DEFINE d == [c \in 1..s |-> <<v, c>>]
<1>1. d \in [1..s -> Cells]
  BY Constants
<1> QED
  BY <1>1

LEMMA WriteBeginStep ==
    ASSUME IInv, NEW x \in Objs, NEW size \in Sizes, WriteBegin(x, size) PROVE IInv'
<1> DEFINE q == OnObject(x, "write")
           d == [c \in 1..size |-> <<ops', c>>]
           n == Lo(Len(d), DataCells)
<1>1. /\ fd[x] >= 0 /\ pc = "idle" /\ ops' = ops + 1
      /\ UNCHANGED <<disk, handle, room, fd, leak, last>>
      /\ WriteCall(fd[x], d) /\ op' = [q EXCEPT !.size = size]
  BY DEF WriteBegin, Begin, Enter, dos
<1>2. /\ q \in Ops /\ q.kind = "write" /\ q.obj = x /\ q.fd = fd[x] /\ q.total = 0
      /\ fd[x] \in Handles /\ q.base = handle[fd[x]].pos
      /\ q.file = Content(fd[x]) /\ q.file \in Seq(Cells) /\ q.base \in Nat
  BY <1>1, ObjectOp
<1>3. size \in Nat /\ 1 <= size /\ ops' \in Nat
  BY <1>1, FileAssumption DEF IInv, TypeOK
<1>4. d \in Seq(Cells) /\ Len(d) = size
  BY <1>3, DataIs
<1>5. \A c \in 1..size : d[c] = <<ops', c>>
  OBVIOUS
<1> HIDE DEF q, d
<1>6. /\ n \in Nat /\ n <= size /\ n <= DataCells
      /\ req' = [fn |-> "write", fd |-> fd[x], n |-> n] /\ pc' = "call" /\ ax' = ax
      /\ bounce' \in [1..(PathCells + DataCells) -> Cells]
      /\ \A c \in 1..n : bounce'[PathCells + c] = d[c]
  BY <1>1, <1>4, WriteCalled DEF IInv
<1>7. n = Lo(size, DataCells) /\ n \in 1..DataCells
  BY <1>3, <1>4, Constants DEF Lo
<1> HIDE DEF n
<1>8. /\ op' \in Ops /\ op'.kind = "write" /\ op'.obj = x /\ op'.fd = fd[x] /\ op'.total = 0
      /\ op'.base = q.base /\ op'.file = q.file /\ op'.size = size
  BY <1>1, <1>2, <1>3 DEF Ops
<1>9. WriteInv'
  <2>1. Now' = q.file
    BY <1>1, <1>2, <1>8 DEF Now, Content
  <2>2. Written' = 0
    BY <1>6, <1>8 DEF Written
  <2>3. Wrote(Now, op.file, op.base, Written)'
    BY <1>8, <2>1, <2>2 DEF Wrote
  <2>4. size - 0 = size /\ q.base + 0 = q.base
    BY <1>2, <1>3
  <2>5. req'.n = Lo(op'.size - op'.total, DataCells) /\ req'.n = n
    BY <1>6, <1>7, <1>8, <2>4
  <2>6. handle'[op'.fd].pos = op'.base + Written'
    BY <1>1, <1>2, <1>8, <2>2, <2>4
  <2>7. op'.total < op'.size /\ Written' <= op'.size
    BY <1>3, <1>8, <2>2
  <2>8. ASSUME NEW c \in 1..n PROVE bounce'[PathCells + c] = <<ops', op'.total + c>>
    <3>1. c \in 1..size /\ 0 + c = c
      BY <1>3, <1>6
    <3> QED
      BY <1>5, <1>6, <1>8, <3>1
  <2> QED
    BY <1>2, <1>6, <1>8, <2>3, <2>5, <2>6, <2>7, <2>8 DEF WriteInv
<1>10. ReadInv'
  BY <1>8 DEF ReadInv
<1>11. "write" \in Functions
  BY DEF Functions
<1> QED
  BY <1>1, <1>2, <1>3, <1>6, <1>7, <1>8, <1>9, <1>10, <1>11, ObjectCalls

LEMMA SeekBeginStep ==
    ASSUME IInv, NEW x \in Objs, NEW w \in {"seek_set", "seek_end", "seek_cur"},
           NEW n \in Nat, SeekBegin(x, w, n)
    PROVE  IInv'
<1> DEFINE q == OnObject(x, "seek")
<1>1. /\ fd[x] >= 0 /\ pc = "idle" /\ ops' = ops + 1
      /\ UNCHANGED <<disk, handle, room, fd, leak, last, bounce, ax>>
      /\ req' = [fn |-> w, fd |-> fd[x], n |-> n] /\ pc' = "call"
      /\ op' = [q EXCEPT !.size = n]
  BY DEF SeekBegin, Begin, Enter, SeekCall, FdCall, Gate, dos
<1>2. q \in Ops /\ q.kind = "seek" /\ q.obj = x /\ q.fd = fd[x] /\ fd[x] \in Handles
  BY <1>1, ObjectOp
<1> HIDE DEF q
<1>3. op' \in Ops /\ op'.kind = "seek" /\ op'.obj = x /\ op'.fd = fd[x]
  BY <1>1, <1>2 DEF Ops
<1>4. ReadInv' /\ WriteInv'
  BY <1>3 DEF ReadInv, WriteInv
<1>5. bounce' \in [1..(PathCells + DataCells) -> Cells] /\ ops' \in Nat /\ w \in Functions
  BY <1>1 DEF IInv, TypeOK, Functions
<1> QED
  BY <1>1, <1>2, <1>3, <1>4, <1>5, ObjectCalls

LEMMA CloseBeginStep == ASSUME IInv, NEW x \in Objs, CloseBegin(x) PROVE IInv'
<1> DEFINE q == OnObject(x, "close")
<1>1. /\ fd[x] >= 0 /\ pc = "idle" /\ ops' = ops + 1
      /\ UNCHANGED <<disk, handle, room, fd, leak, last, bounce, ax>>
      /\ req' = [fn |-> "close", fd |-> fd[x], n |-> 0] /\ pc' = "call" /\ op' = q
  BY DEF CloseBegin, Begin, Enter, CloseCall, FdCall, Gate, dos
<1>2. q \in Ops /\ q.kind = "close" /\ q.obj = x /\ q.fd = fd[x] /\ fd[x] \in Handles
  BY <1>1, ObjectOp
<1> HIDE DEF q
<1>3. op' \in Ops /\ op'.kind = "close" /\ op'.obj = x /\ op'.fd = fd[x]
  BY <1>1, <1>2
<1>4. ReadInv' /\ WriteInv'
  BY <1>3 DEF ReadInv, WriteInv
<1>5. /\ bounce' \in [1..(PathCells + DataCells) -> Cells] /\ ops' \in Nat
      /\ "close" \in Functions /\ 0 \in Nat
  BY <1>1 DEF IInv, TypeOK, Functions
<1> QED
  BY <1>1, <1>2, <1>3, <1>4, <1>5, ObjectCalls

-----------------------------------------------------------------------------
(* The read loops *)

\* What is put together when it is all there.
LEMMA PartEnds ==
    ASSUME NEW f \in Seq(Cells), NEW b \in Nat, NEW t \in Nat, NEW s \in Nat,
           NEW buf \in Seq(Cells), Part(f, b, t, buf), t <= s, t = s \/ Len(f) <= b + t
    PROVE  buf = SubSeq(f, b + 1, Lo(b + s, Len(f))) /\ Len(buf) = t
<1> DEFINE e == Lo(b + s, Len(f))
<1>1. Len(f) \in Nat /\ Len(buf) = t /\ (t > 0 => b + t <= Len(f))
      /\ \A c \in 1..t : buf[c] = f[b + c]
  BY DEF Part
<1>2. e \in Nat /\ (t > 0 => e = b + t) /\ (t = 0 => e < b + 1) /\ e <= Len(f)
  BY <1>1 DEF Lo
<1> HIDE DEF e
<1>3. CASE t = 0
  <2>1. SubSeq(f, b + 1, e) = << >>
    BY <1>2, <1>3, SubSeqEmpty
  <2>2. buf = << >>
    BY <1>1, <1>3
  <2> QED
    BY <1>1, <2>1, <2>2 DEF e
<1>4. CASE t > 0
  <2> DEFINE m == b + 1
             z == SubSeq(f, m, e)
  <2>1. m \in Int /\ e \in Int /\ m <= e /\ e - m + 1 = t
    BY <1>2, <1>4
  <2>2. \A i \in m..e : f[i] \in Cells
    <3>1. \A i \in m..e : i \in 1..Len(f)
      BY <1>1, <1>2
    <3> QED
      BY <3>1
  <2>3. \A i \in 1..t : m + i - 1 = b + i
    OBVIOUS
  <2> HIDE DEF m
  <2>4. z \in Seq(Cells) /\ Len(z) = t /\ \A i \in 1..t : z[i] = f[m + i - 1]
    BY <2>1, <2>2, SubSeqProperties
  <2> HIDE DEF z
  <2>5. \A i \in 1..Len(buf) : buf[i] = z[i]
    BY <1>1, <2>3, <2>4
  <2>6. buf = z
    BY <1>1, <2>4, <2>5, SeqEqual
  <2> QED
    BY <1>1, <2>6 DEF z, m, e
<1> QED
  BY <1>3, <1>4

\* A chunk DOS delivered, appended to what there is.
LEMMA GotChunk ==
    ASSUME IInv, pc = "back", ax.ok, req.fn = "read"
    PROVE  LET g == ReadGot
           IN  /\ g \in Ops /\ g.kind = op.kind /\ g.obj = op.obj /\ g.name = op.name
               /\ g.mode = op.mode /\ g.step = op.step /\ g.size = op.size /\ g.base = op.base
               /\ g.file = op.file /\ g.fd = op.fd /\ g.err = op.err /\ g.clean = op.clean
               /\ g.steady = op.steady /\ op.total <= g.total
               /\ Reading => /\ Part(op.file, op.base, g.total, g.buf) /\ g.total <= op.size
                             /\ handle[op.fd].pos = op.base + g.total
                             /\ g.total = op.total => Len(op.file) <= op.base + op.total
<1> DEFINE n == Lo(ax.val, req.n)
           d == ReadData
           g == ReadGot
<1>1. /\ req.n \in Nat /\ 1 <= req.n /\ req.n <= DataCells /\ ax.val \in Nat
      /\ op \in Ops /\ op.buf \in Seq(Cells) /\ op.total \in Nat
      /\ bounce \in [1..(PathCells + DataCells) -> Cells]
  BY Constants DEF IInv, ReqInv, TypeOK, Ops
<1>2. n \in Nat /\ n <= ax.val /\ n <= req.n /\ (ax.val <= req.n => n = ax.val)
  BY <1>1 DEF Lo
<1> HIDE DEF n
<1>3. d = [c \in 1..n |-> bounce[PathCells + c]]
  BY DEF ReadData, n
<1>4. d \in Seq(Cells) /\ Len(d) = n /\ \A c \in 1..n : d[c] = bounce[PathCells + c]
  <2>1. \A c \in 1..n : PathCells + c \in 1..(PathCells + DataCells)
    BY <1>1, <1>2, Constants
  <2>2. d \in [1..n -> Cells]
    BY <1>1, <1>3, <2>1
  <2> QED
    BY <1>2, <1>3, <2>2
<1>5. g = [op EXCEPT !.buf = op.buf \o d, !.total = op.total + n]
  BY <1>1, <1>4 DEF ReadGot, Ops
<1> HIDE DEF d, g
<1>6. /\ op.buf \o d \in Seq(Cells) /\ Len(op.buf \o d) = Len(op.buf) + n
      /\ \A i \in 1..(Len(op.buf) + n) :
            (op.buf \o d)[i] = IF i <= Len(op.buf) THEN op.buf[i] ELSE d[i - Len(op.buf)]
  <2>1. /\ op.buf \o d \in Seq(Cells) /\ Len(op.buf \o d) = Len(op.buf) + Len(d)
        /\ \A i \in 1..(Len(op.buf) + Len(d)) :
              (op.buf \o d)[i] = IF i <= Len(op.buf) THEN op.buf[i] ELSE d[i - Len(op.buf)]
    <3>1. op.buf \in Seq(Cells) /\ d \in Seq(Cells)
      BY <1>1, <1>4
    <3> DEFINE b == op.buf
    <3> HIDE DEF b
    <3>2. /\ b \o d \in Seq(Cells) /\ Len(b \o d) = Len(b) + Len(d)
          /\ \A i \in 1..(Len(b) + Len(d)) :
                (b \o d)[i] = IF i <= Len(b) THEN b[i] ELSE d[i - Len(b)]
      BY <3>1, ConcatProperties DEF b
    <3> QED
      BY <3>2 DEF b
  <2> QED
    BY <1>4, <2>1
<1> DEFINE z == op.buf \o d
           t == op.total + n
<1>7. z \in Seq(Cells) /\ t \in Nat /\ op.total <= t /\ g = [op EXCEPT !.buf = z, !.total = t]
  BY <1>1, <1>2, <1>5, <1>6
<1>z. z = op.buf \o d /\ t = op.total + n
  OBVIOUS
<1> HIDE DEF z, t
<1>8. /\ g \in Ops /\ g.kind = op.kind /\ g.obj = op.obj /\ g.name = op.name
      /\ g.mode = op.mode /\ g.step = op.step /\ g.size = op.size /\ g.base = op.base
      /\ g.file = op.file /\ g.fd = op.fd /\ g.err = op.err /\ g.clean = op.clean
      /\ g.steady = op.steady /\ g.total = t /\ g.buf = z
  BY <1>1, <1>7 DEF Ops
<1>9. ASSUME Reading
      PROVE  /\ Part(op.file, op.base, t, z) /\ t <= op.size
             /\ handle[op.fd].pos = op.base + t
             /\ t = op.total => Len(op.file) <= op.base + op.total
  <2> DEFINE p == op.base + op.total
             f == op.file
  <2>1. /\ f \in Seq(Cells) /\ Len(f) \in Nat /\ op.base \in Nat /\ op.size \in Nat /\ p \in Nat
        /\ Len(op.buf) = op.total /\ \A c \in 1..op.total : op.buf[c] = f[op.base + c]
        /\ op.total < op.size /\ req.n = Lo(op.size - op.total, DataCells)
        /\ handle[op.fd].pos = p + ax.val
        /\ ax.val = Hi(0, Lo(req.n, Len(f) - p))
        /\ \A c \in 1..ax.val : bounce[PathCells + c] = f[p + c]
        /\ op.total > 0 => p <= Len(f)
    BY <1>1, <1>9 DEF Reading, Part, Chunk, Ops
  <2> HIDE DEF p, f
  <2>2. /\ ax.val <= req.n /\ (ax.val > 0 => ax.val <= Len(f) - p)
        /\ ax.val = 0 => Len(f) - p <= 0
    <3>1. Len(f) - p \in Int
      BY <2>1
    <3>2. LET k == Hi(0, Lo(req.n, Len(f) - p))
          IN  /\ k \in Nat /\ k <= req.n /\ (k > 0 => k <= Len(f) - p)
              /\ (k = 0 => req.n = 0 \/ Len(f) - p <= 0)
      BY <1>1, <3>1, Clamped
    <3> QED
      BY <1>1, <2>1, <3>2
  <2>3. n = ax.val
    BY <1>2, <2>2
  <2>4. t <= op.size
    <3>1. req.n <= op.size - op.total
      BY <1>1, <2>1, Constants DEF Lo
    <3> QED
      BY <1>1, <1>2, <1>z, <2>1, <3>1
  <2>5. handle[op.fd].pos = op.base + t
    BY <1>1, <1>z, <2>1, <2>3 DEF p
  <2>6. t = op.total => Len(f) <= p
    <3>1. t = op.total => ax.val = 0
      BY <1>1, <1>2, <1>z, <2>3
    <3>2. \A i, j \in Nat : i - j <= 0 => i <= j
      OBVIOUS
    <3>3. Len(f) \in Nat /\ p \in Nat
      BY <2>1
    <3> QED
      BY <2>2, <3>1, <3>2, <3>3
  <2>7. t > 0 => op.base + t <= Len(f)
    <3>1. op.base \in Nat /\ op.total \in Nat /\ n \in Nat /\ Len(f) \in Nat
      BY <1>1, <1>2, <2>1
    <3>2. /\ op.total > 0 => op.base + op.total <= Len(f)
          /\ n > 0 => n <= Len(f) - (op.base + op.total)
      BY <2>1, <2>2, <2>3 DEF p
    <3>3. \A i, j, b, l \in Nat :
             (i > 0 => b + i <= l) /\ (j > 0 => j <= l - (b + i)) =>
                 (i + j > 0 => b + (i + j) <= l)
      OBVIOUS
    <3> QED
      BY <1>z, <3>1, <3>2, <3>3
  <2>8. ASSUME NEW c \in 1..t PROVE z[c] = f[op.base + c]
    <3>1. c \in 1..(Len(op.buf) + n)
      BY <1>1, <1>2, <1>z, <2>1
    <3>2. CASE c <= op.total
      <4>1. c \in 1..op.total
        BY <1>1, <1>7, <3>2
      <4> QED
        BY <1>6, <1>z, <2>1, <3>1, <3>2, <4>1
    <3>3. CASE ~(c <= op.total)
      <4>1. c - op.total \in 1..n /\ p + (c - op.total) = op.base + c
        <5>1. \A i, j, k, m \in Nat : i \in 1..(j + k) /\ ~(i <= j) =>
                 i - j \in 1..k /\ (m + j) + (i - j) = m + i
          OBVIOUS
        <5>2. c \in Nat /\ c \in 1..(op.total + n)
          BY <1>7, <1>z
        <5>3. op.base \in Nat /\ op.total \in Nat /\ n \in Nat
          BY <1>1, <1>2, <2>1
        <5> QED
          BY <3>3, <5>1, <5>2, <5>3 DEF p
      <4>2. z[c] = d[c - op.total]
        BY <1>6, <1>z, <2>1, <3>1, <3>3
      <4>3. d[c - op.total] = f[p + (c - op.total)]
        BY <1>4, <2>1, <2>3, <4>1
      <4> QED
        BY <4>1, <4>2, <4>3
    <3> QED
      BY <3>2, <3>3
  <2>9. Len(z) = t
    BY <1>6, <1>z, <2>1
  <2>10. Part(f, op.base, t, z)
    BY <2>7, <2>8, <2>9 DEF Part
  <2> QED
    BY <2>4, <2>5, <2>6, <2>10 DEF f, p
<1> QED
  BY <1>7, <1>8, <1>9 DEF g

\* An operation on an object has no handle of its own.
LEMMA UsingIs ==
    ASSUME IInv, pc = "back", Using
    PROVE  /\ ~Seeking /\ ~Holding /\ ~Given /\ op.obj \in Objs /\ op.fd = fd[op.obj]
           /\ op.fd \in Handles /\ req.fd = op.fd /\ op \in Ops
           /\ ops \in Nat /\ leak \in BOOLEAN
           /\ bounce \in [1..(PathCells + DataCells) -> Cells]
  BY DEF IInv, FlowInv, TypeOK, Using, Seeking, Holding, Given

LEMMA ReadNextStep == ASSUME IInv, ReadNext PROVE IInv'
<1> DEFINE g == ReadGot
           n == Lo(op.size - g.total, DataCells)
<1>1. /\ pc = "back" /\ op.kind = "read" /\ ax.ok /\ op.total < g.total /\ g.total < op.size
      /\ op' = g /\ req' = [fn |-> "read", fd |-> op.fd, n |-> n] /\ pc' = "call"
      /\ UNCHANGED <<disk, handle, room, fd, ax, leak, last, ops, bounce>>
  BY DEF ReadNext, Back, Go, ReadCall, FdCall, Gate, dos
<1>2. Using /\ req.fn = "read"
  BY <1>1 DEF Using, IInv, FlowInv, Calls
<1>3. /\ g \in Ops /\ g.kind = "read" /\ g.obj = op.obj /\ g.size = op.size
      /\ g.base = op.base /\ g.file = op.file /\ g.fd = op.fd /\ g.clean = op.clean
      /\ Reading => /\ Part(op.file, op.base, g.total, g.buf)
                    /\ handle[op.fd].pos = op.base + g.total
  BY <1>1, <1>2, GotChunk
<1>4. g.total \in Nat /\ op.size \in Nat
  BY <1>3 DEF Ops
<1>5. n \in Nat /\ n \in 1..DataCells
  BY <1>1, <1>4, Constants DEF Lo
<1>6. n = Lo(op.size - g.total, DataCells)
  OBVIOUS
<1> HIDE DEF g, n
<1>7. Using' /\ ~Holding' /\ ~Seeking' /\ Calls'
  BY <1>1, <1>3 DEF Using, Holding, Seeking, Calls
<1>8. "read" \in Functions
  BY DEF Functions
<1>9. /\ TypeOK' /\ FlowInv' /\ HandleInv' /\ ExistInv' /\ ReqInv' /\ SeekInv'
      /\ LastInv' /\ OpenTellsTruth' /\ req'.n = n
  BY <1>1, <1>2, <1>3, <1>5, <1>7, <1>8, UsingIs, NextCall
<1>10. Reading => Reading'
  <2> SUFFICES ASSUME Reading PROVE Reading'
    OBVIOUS
  <2>1. Part(op.file, op.base, op.total, op.buf)'
    BY <1>1, <1>3 DEF Part
  <2>2. Now' = op'.file /\ op'.file \in Seq(Cells)
    BY <1>1, <1>3 DEF Reading, Now
  <2> QED
    BY <1>1, <1>3, <1>6, <1>9, <2>1, <2>2 DEF Reading
<1>11. ReadInv' /\ WriteInv' /\ AppendInv' /\ LoadInv'
  BY <1>1, <1>3, <1>10 DEF IInv, ReadInv, WriteInv, AppendInv, LoadInv
<1> QED
  BY <1>9, <1>11 DEF IInv

LEMMA ReadDoneStep == ASSUME IInv, ReadDone PROVE IInv'
<1> DEFINE g == ReadGot
<1>1. /\ pc = "back" /\ op.kind = "read" /\ ax.ok /\ (g.total = op.total \/ g.total >= op.size)
      /\ last' = g /\ op' = NoOp /\ req' = NoReq /\ pc' = "idle"
      /\ UNCHANGED <<disk, handle, room, fd, ax, leak, ops, bounce>>
  BY DEF ReadDone, Back, End, Return, dos
<1>2. Using /\ req.fn = "read"
  BY <1>1 DEF Using, IInv, FlowInv, Calls
<1>3. /\ g \in Ops /\ g.kind = "read" /\ g.size = op.size
      /\ g.base = op.base /\ g.file = op.file /\ g.fd = op.fd /\ g.clean = op.clean
      /\ Reading => /\ Part(op.file, op.base, g.total, g.buf) /\ g.total <= op.size
                    /\ handle[op.fd].pos = op.base + g.total
                    /\ g.total = op.total => Len(op.file) <= op.base + op.total
  BY <1>1, <1>2, GotChunk
<1>4. g.total \in Nat /\ op.size \in Nat /\ op.base \in Nat /\ g.buf \in Seq(Cells)
  BY <1>3 DEF Ops
<1> HIDE DEF g
<1>5. ASSUME op.clean
      PROVE  /\ g.buf = SubSeq(g.file, g.base + 1, Lo(g.base + g.size, Len(g.file)))
             /\ handle[g.fd].pos = g.base + Len(g.buf)
  <2>1. Reading
    BY <1>1, <1>5 DEF IInv, ReadInv
  <2>2. g.total = op.size \/ Len(op.file) <= op.base + g.total
    BY <1>1, <1>3, <1>4, <2>1
  <2>3. op.file \in Seq(Cells)
    BY <2>1 DEF Reading
  <2>4. g.buf = SubSeq(op.file, op.base + 1, Lo(op.base + op.size, Len(op.file)))
        /\ Len(g.buf) = g.total
    <3>1. Part(op.file, op.base, g.total, g.buf) /\ g.total <= op.size
      BY <1>3, <2>1
    <3> DEFINE t == g.total
               s == op.size
               b == op.base
               f == op.file
               z == g.buf
    <3>2. /\ t \in Nat /\ s \in Nat /\ b \in Nat /\ f \in Seq(Cells) /\ z \in Seq(Cells)
          /\ Part(f, b, t, z) /\ t <= s /\ (t = s \/ Len(f) <= b + t)
      BY <1>4, <2>2, <2>3, <3>1
    <3> HIDE DEF t, s, b, f, z
    <3>3. z = SubSeq(f, b + 1, Lo(b + s, Len(f))) /\ Len(z) = t
      BY <3>2, PartEnds
    <3> QED
      BY <3>3 DEF t, s, b, f, z
  <2> QED
    BY <1>3, <2>1, <2>4
<1>6. LastInv' /\ OpenTellsTruth'
  BY <1>1, <1>3, <1>5 DEF LastInv, OpenTellsTruth
<1> QED
  BY <1>1, <1>2, <1>3, <1>6, UsingIs, OpEndsSame

\* An operation on an object that ends with an error.
LEMMA ErrorEnds ==
    ASSUME IInv, pc = "back", Using, op.kind # "close", End([op EXCEPT !.err = "EIO"]),
           UNCHANGED <<disk, handle, room, ops>>
    PROVE  IInv'
<1>1. /\ last' = [op EXCEPT !.err = "EIO"] /\ op' = NoOp /\ req' = NoReq /\ pc' = "idle"
      /\ UNCHANGED <<fd, ax, leak, bounce>>
  BY DEF End, Return
<1>2. last' \in Ops /\ last'.err = "EIO"
  BY <1>1, UsingIs DEF Ops, Errors
<1>3. LastInv' /\ OpenTellsTruth'
  BY <1>2, NothingSaid
<1> QED
  BY <1>1, <1>2, <1>3, UsingIs, OpEndsSame

LEMMA ReadFailedStep == ASSUME IInv, ReadFailed PROVE IInv'
  BY ErrorEnds DEF ReadFailed, Back, Using, dos

LEMMA WriteFailedStep == ASSUME IInv, WriteFailed PROVE IInv'
  BY ErrorEnds DEF WriteFailed, Back, Using, dos

\* What a chunk that was written adds.
LEMMA WroteChunk ==
    ASSUME IInv, pc = "back", op.kind = "write", ax.ok
    PROVE  /\ Using /\ WriteGot \in Ops
           /\ WriteGot = [op EXCEPT !.total = Written] /\ Written = op.total + ax.val
           /\ Written \in Nat /\ op.size \in Nat /\ op.base \in Nat /\ ops \in Nat
           /\ ax.val \in Nat
           /\ op.clean => /\ op.file \in Seq(Cells)
                          /\ Wrote(Now, op.file, op.base, Written)
                          /\ handle[op.fd].pos = op.base + Written
                          /\ Written <= op.size
                          /\ ax.val = 0 => room <= Hi(0, op.base - Len(op.file))
<1>1. op \in Ops /\ op.total \in Nat /\ ax.val \in Nat /\ Written = op.total + ax.val
      /\ op.size \in Nat /\ op.base \in Nat /\ ops \in Nat
  BY DEF IInv, TypeOK, Ops, Written
<1>2. Written \in Nat
  BY <1>1
<1>3. WriteGot = [op EXCEPT !.total = Written]
  BY <1>1 DEF WriteGot, Ops
<1>4. WriteGot \in Ops
  BY <1>1, <1>2, <1>3 DEF Ops
<1> QED
  BY <1>1, <1>2, <1>3, <1>4 DEF IInv, WriteInv, Using

LEMMA WriteNextStep == ASSUME IInv, WriteNext PROVE IInv'
<1> DEFINE t == Written
           d == SubSeq(Data(op), t + 1, op.size)
           n == Lo(Len(d), DataCells)
<1>1. pc = "back" /\ op.kind = "write" /\ ax.ok
  BY DEF WriteNext, Back
<1>2. /\ Using /\ WriteGot \in Ops /\ WriteGot = [op EXCEPT !.total = t] /\ t \in Nat
      /\ op.size \in Nat /\ op.base \in Nat /\ ops \in Nat
      /\ op.clean => /\ op.file \in Seq(Cells) /\ Wrote(Now, op.file, op.base, t)
                     /\ handle[op.fd].pos = op.base + t
  BY <1>1, WroteChunk
<1>3. op \in Ops
  BY DEF IInv, TypeOK
<1>4. /\ WriteGot.total = t /\ WriteGot.kind = "write" /\ WriteGot.obj = op.obj
      /\ WriteGot.size = op.size /\ WriteGot.base = op.base /\ WriteGot.file = op.file
      /\ WriteGot.fd = op.fd /\ WriteGot.clean = op.clean
  BY <1>1, <1>2, <1>3 DEF Ops
<1>5. /\ t < op.size /\ WriteCall(op.fd, d) /\ op' = WriteGot
      /\ UNCHANGED <<disk, handle, room, fd, leak, last, ops>>
  BY <1>4 DEF WriteNext, Back, Go, dos
<1>6. /\ Data(op) \in Seq(Cells) /\ Len(Data(op)) = op.size
      /\ \A c \in 1..op.size : Data(op)[c] = <<ops, c>>
  BY <1>2, DataIs DEF Data
<1> HIDE DEF t
<1>7. d \in Seq(Cells) /\ Len(d) = op.size - t
      /\ \A c \in 1..(op.size - t) : d[c] = <<ops, t + c>>
  <2> DEFINE s == Data(op)
             m == t + 1
  <2>1. /\ m \in Int /\ op.size \in Int /\ m <= op.size /\ op.size - m + 1 = op.size - t
    BY <1>2, <1>5
  <2>2. \A i \in m..op.size : i \in 1..op.size
    BY <1>2
  <2>3. \A i \in m..op.size : s[i] \in Cells
    <3> HIDE DEF s, m
    <3> QED
      BY <1>6, <2>2 DEF s
  <2>4. \A i \in 1..(op.size - t) : m + i - 1 = t + i /\ t + i \in 1..op.size
    BY <1>2
  <2>5. s = Data(op) /\ d = SubSeq(s, m, op.size)
    OBVIOUS
  <2> HIDE DEF s, m, d
  <2>6. /\ d \in Seq(Cells) /\ Len(d) = op.size - t
        /\ \A i \in 1..(op.size - t) : d[i] = s[m + i - 1]
    BY <2>1, <2>3, <2>5, SubSeqProperties
  <2> QED
    BY <1>6, <2>4, <2>5, <2>6
<1> HIDE DEF d
<1>8. /\ n \in Nat /\ n <= Len(d) /\ n <= DataCells
      /\ req' = [fn |-> "write", fd |-> op.fd, n |-> n] /\ pc' = "call" /\ ax' = ax
      /\ bounce' \in [1..(PathCells + DataCells) -> Cells]
      /\ \A c \in 1..n : bounce'[PathCells + c] = d[c]
  BY <1>5, <1>7, WriteCalled DEF IInv
<1>9. n = Lo(op.size - t, DataCells) /\ n \in 1..DataCells
  BY <1>2, <1>5, <1>7, Constants DEF Lo
<1> HIDE DEF n
<1>10. Using' /\ ~Holding' /\ ~Seeking'
  BY <1>4, <1>5 DEF Using, Holding, Seeking
<1>11. Calls'
  BY <1>4, <1>5, <1>8, <1>10 DEF Calls
<1>12. "write" \in Functions
  BY DEF Functions
<1>13. /\ TypeOK' /\ FlowInv' /\ HandleInv' /\ ExistInv' /\ ReqInv' /\ SeekInv'
       /\ LastInv' /\ OpenTellsTruth' /\ req'.n = n
  BY <1>1, <1>2, <1>4, <1>5, <1>8, <1>9, <1>10, <1>11, <1>12, UsingIs, NextCall
<1>14. WriteInv'
  <2>1. Written' = t /\ Now' = Now
    BY <1>4, <1>5, <1>8 DEF Written, Now
  <2>2. op.clean => Wrote(Now, op.file, op.base, Written)'
    BY <1>2, <1>4, <1>5, <2>1 DEF Wrote
  <2>3. \A c \in 1..n : bounce'[PathCells + c] = <<ops', t + c>>
    <3>1. \A c \in 1..n : c \in 1..(op.size - t)
      BY <1>2, <1>5, <1>7, <1>8
    <3> QED
      BY <1>5, <1>7, <1>8, <3>1
  <2>4. t <= op.size
    BY <1>2, <1>5
  <2> QED
    BY <1>2, <1>4, <1>5, <1>8, <1>9, <1>13, <2>1, <2>2, <2>3, <2>4 DEF WriteInv
<1>15. ReadInv' /\ AppendInv' /\ LoadInv'
  BY <1>4, <1>5 DEF ReadInv, AppendInv, LoadInv
<1> QED
  BY <1>13, <1>14, <1>15 DEF IInv

LEMMA WriteDoneStep == ASSUME IInv, WriteDone PROVE IInv'
<1> DEFINE t == Written
           g == [WriteGot EXCEPT !.buf = Data(op)]
<1>1. pc = "back" /\ op.kind = "write" /\ ax.ok
  BY DEF WriteDone, Back
<1>2. /\ Using /\ WriteGot \in Ops /\ WriteGot = [op EXCEPT !.total = t] /\ t \in Nat
      /\ op.size \in Nat /\ op.base \in Nat /\ ops \in Nat
      /\ op.clean => /\ op.file \in Seq(Cells) /\ Wrote(Now, op.file, op.base, t)
                     /\ t <= op.size
                     /\ ax.val = 0 => room <= Hi(0, op.base - Len(op.file))
  BY <1>1, WroteChunk
<1>3. op \in Ops
  BY DEF IInv, TypeOK
<1>4. WriteGot.total = t /\ WriteGot.kind = "write" /\ WriteGot.base = op.base
      /\ WriteGot.size = op.size /\ WriteGot.file = op.file /\ WriteGot.fd = op.fd
      /\ WriteGot.clean = op.clean
  BY <1>1, <1>2, <1>3 DEF Ops
<1>5. /\ ax.val = 0 \/ t >= op.size
      /\ last' = g /\ op' = NoOp /\ req' = NoReq /\ pc' = "idle"
      /\ UNCHANGED <<disk, handle, room, fd, ax, leak, ops, bounce>>
  BY <1>4 DEF WriteDone, Back, End, Return, dos
<1>6. /\ Data(op) \in Seq(Cells) /\ \A c \in 1..op.size : Data(op)[c] = <<ops, c>>
  BY <1>2, DataIs DEF Data
<1>7. /\ g \in Ops /\ g.total = t /\ g.kind = "write" /\ g.base = op.base /\ g.size = op.size
      /\ g.file = op.file /\ g.fd = op.fd /\ g.clean = op.clean /\ g.buf = Data(op)
  BY <1>2, <1>4, <1>6 DEF Ops
<1> HIDE DEF t, g
<1>8. ASSUME op.clean
      PROVE  /\ \A c \in 1..t : Now[op.base + c] = Data(op)[c]
             /\ \A c \in DOMAIN op.file : c - op.base \notin 1..t => Now[c] = op.file[c]
             /\ t < op.size => room <= Hi(0, op.base - Len(op.file))
  <2>1. \A c \in 1..t : c \in 1..op.size
    BY <1>2, <1>8
  <2>2. t < op.size => ax.val = 0
    BY <1>2, <1>5
  <2>3. DOMAIN op.file = 1..Len(op.file)
    BY <1>2, <1>8
  <2> QED
    BY <1>2, <1>6, <1>8, <2>1, <2>2, <2>3 DEF Wrote
<1>9. LastInv' /\ OpenTellsTruth'
  <2>1. Content(last.fd)' = Now
    BY <1>5, <1>7 DEF Content, Now
  <2> QED
    BY <1>5, <1>7, <1>8, <2>1 DEF LastInv, OpenTellsTruth
<1> QED
  BY <1>1, <1>2, <1>5, <1>7, <1>9, UsingIs, OpEndsSame

-----------------------------------------------------------------------------
(* seek() and close() *)

LEMMA SeekDoneStep == ASSUME IInv, SeekDone PROVE IInv'
<1>1. /\ pc = "back" /\ op.kind = "seek" /\ UNCHANGED <<disk, handle, room, ops>>
      /\ \/ End([op EXCEPT !.total = ax.val]) \/ End([op EXCEPT !.err = "EIO"])
  BY DEF SeekDone, Back, dos
<1>2. Using
  BY <1>1 DEF Using
<1>3. ASSUME End([op EXCEPT !.total = ax.val]) PROVE IInv'
  <2>1. /\ last' = [op EXCEPT !.total = ax.val] /\ op' = NoOp /\ req' = NoReq /\ pc' = "idle"
        /\ UNCHANGED <<fd, ax, leak, bounce>>
    BY <1>3 DEF End, Return
  <2>2. op \in Ops /\ ax.val \in Nat
    BY DEF IInv, TypeOK
  <2>3. last' \in Ops /\ last'.kind = "seek"
    BY <1>1, <2>1, <2>2 DEF Ops
  <2>4. LastInv' /\ OpenTellsTruth'
    BY <2>3, NothingSaid
  <2> QED
    BY <1>1, <1>2, <2>1, <2>3, <2>4, UsingIs, OpEndsSame
<1> QED
  BY <1>1, <1>2, <1>3, ErrorEnds

LEMMA CloseDoneStep == ASSUME IInv, CloseDone PROVE IInv'
<1>1. /\ pc = "back" /\ op.kind = "close" /\ fd' = [fd EXCEPT ![op.obj] = -1]
      /\ last' = op /\ op' = NoOp /\ req' = NoReq /\ pc' = "idle"
      /\ UNCHANGED <<disk, handle, room, ax, leak, ops, bounce>>
  BY DEF CloseDone, Back, Return, dos
<1>2. Using /\ req.fn = "close"
  BY <1>1 DEF Using, IInv, FlowInv, Calls
<1>3. /\ ~Seeking /\ ~Holding /\ ~Given /\ op.obj \in Objs /\ op.fd = fd[op.obj]
      /\ op.fd \in Handles /\ op \in Ops
  BY <1>1, <1>2, UsingIs
<1>4. ~Seeking' /\ ~Holding' /\ ~Given' /\ ~Using' /\ \A h : ~Closed(h)'
  BY <1>1, NoOpIs DEF Seeking, Holding, Given, Using, Closed
<1>5. \A h : Closed(h) <=> h = op.fd
  BY <1>1, <1>2 DEF Closed
<1>6. /\ fd \in [Objs -> Handles \cup {-1}] /\ fd'[op.obj] = -1
      /\ \A x \in Objs \ {op.obj} : fd'[x] = fd[x]
      /\ fd' \in [Objs -> Handles \cup {-1}]
  BY <1>1, <1>3 DEF IInv, TypeOK
<1>7. HandleInv'
  <2>1. op.fd # -1
    BY <1>3, Constants
  <2>2. \A x, y \in Objs : x # y /\ fd[x] # -1 => fd[x] # fd[y]
    BY DEF IInv, HandleInv
  <2>3. \A x \in Objs \ {op.obj} : fd[x] # op.fd
    BY <1>3, <2>1, <2>2
  <2>4. \A x \in Objs : fd'[x] # -1 => handle'[fd'[x]] # Free
    BY <1>1, <1>3, <1>5, <1>6, <2>3 DEF IInv, HandleInv
  <2>5. \A x, y \in Objs : x # y /\ fd'[x] # -1 => fd'[x] # fd'[y]
    BY <1>6, <2>2
  <2>6. ASSUME ~leak', NEW h \in Handles, handle'[h] # Free PROVE \E x \in Objs : fd'[x] = h
    <3>1. h # op.fd /\ \E x \in Objs : fd[x] = h
      BY <1>1, <1>3, <1>5, <2>6 DEF IInv, HandleInv
    <3> QED
      BY <1>3, <1>6, <3>1
  <2> QED
    BY <1>4, <2>4, <2>5, <2>6 DEF HandleInv
<1>8. last'.kind = "close" /\ last' \in Ops
  BY <1>1, <1>3
<1>9. LastInv' /\ OpenTellsTruth'
  BY <1>8, NothingSaid
<1>10. ops' \in Nat /\ leak' \in BOOLEAN
  BY <1>1 DEF IInv, TypeOK
<1> QED
  BY <1>1, <1>6, <1>7, <1>8, <1>9, <1>10, OpEnds

-----------------------------------------------------------------------------
(* open() *)

LEMMA OpenBeginStep ==
    ASSUME IInv, NEW x \in Objs, NEW n \in Names, NEW m \in DOMAIN Modes, OpenBegin(x, n, m)
    PROVE  IInv'
<1> DEFINE fn == IF m = "w" THEN "creat" ELSE "open"
           acc == IF m = "w" THEN 0 ELSE Modes[m].acc
<1>1. /\ m \in {"r", "rplus", "w", "a"} /\ (Modes[m].trunc <=> m = "w") /\ acc \in 0..2
  BY ModesAre
<1>2. /\ fd[x] = -1 /\ pc = "idle" /\ ops' = ops + 1
      /\ UNCHANGED <<disk, handle, room, fd, leak, last>>
      /\ NameCall(fn, n, acc)
      /\ op' = [NoOp EXCEPT !.kind = "open", !.obj = x, !.name = n, !.mode = m,
                            !.step = fn, !.file = disk[n]]
  BY <1>1 DEF OpenBegin, Begin, Enter, CreatCall, OpenCall, dos
<1>3. /\ fn \in {"open", "creat"} /\ (fn = "open" => m # "w") /\ (fn = "creat" => m = "w")
  OBVIOUS
<1> HIDE DEF fn, acc
<1>4. disk[n] \in Seq(Cells) \cup {Absent} /\ n \in AllNames
  BY DEF IInv, TypeOK, AllNames
<1>5. /\ op' \in Ops /\ op'.kind = "open" /\ op'.obj = x /\ op'.name = n /\ op'.mode = m
      /\ op'.step = fn /\ op'.file = disk[n] /\ op'.buf = << >> /\ op'.total = 0
      /\ op'.err = "none"
  <2>1. "open" \in Kinds /\ fn \in Steps
    BY <1>3 DEF Kinds, Steps
  <2>2. op' \in Ops
    BY <1>1, <1>2, <1>4, <2>1, NoOpIs DEF Ops
  <2> QED
    BY <1>2, <2>2, NoOpIs DEF Ops
<1>6. Seeking' /\ op.kind = "none" /\ ops' \in Nat
  BY <1>2, <1>3, <1>5, IdleIs DEF Seeking, IInv, TypeOK
<1> QED
  BY <1>1, <1>2, <1>3, <1>5, <1>6, NameCalled

LEMMA OpenCreateStep == ASSUME IInv, OpenCreate PROVE IInv'
<1>1. /\ pc = "back" /\ op.kind = "open" /\ op.step = "open" /\ ~ax.ok
      /\ Modes[op.mode].create /\ NameCall("creat", op.name, 0)
      /\ op' = [op EXCEPT !.step = "creat"]
      /\ UNCHANGED <<disk, handle, room, fd, leak, last, ops>>
  BY DEF OpenCreate, Back, CreatCall, Go, dos
<1>2. op \in Ops /\ op.mode \in {"r", "rplus", "w", "a"} /\ ops' \in Nat
  BY <1>1 DEF IInv, TypeOK, Ops
<1>3. Seeking /\ ~Given
  BY <1>1 DEF Seeking, Given
<1>4. /\ op.mode = "a" /\ op.buf = << >> /\ op.total = 0
      /\ op.clean => disk[op.name] = op.file /\ (op.steady => Harmless)
  BY <1>1, <1>2, <1>3, ModesAre DEF IInv, SeekInv, Truncates
<1>5. op.name \in Names /\ op.obj \in Objs /\ fd[op.obj] = -1 /\ op.err = "none"
  BY <1>1, <1>3 DEF IInv, FlowInv
<1>6. /\ op' \in Ops /\ op'.kind = "open" /\ op'.obj = op.obj /\ op'.name = op.name
      /\ op'.mode = "a" /\ op'.step = "creat" /\ op'.file = op.file /\ op'.buf = << >>
      /\ op'.total = 0 /\ op'.err = "none" /\ op'.clean = op.clean /\ op'.steady = op.steady
  <2>1. "creat" \in Steps
    BY DEF Steps
  <2>2. op' \in Ops
    BY <1>1, <1>2, <2>1 DEF Ops
  <2> QED
    BY <1>1, <1>2, <1>4, <1>5, <2>2 DEF Ops
<1>7. Harmless => Harmless'
  BY <1>1, <1>6 DEF Harmless, FreeHandles
<1>8. Seeking' /\ 0 \in 0..2 /\ "creat" \in {"open", "creat"}
  BY <1>6 DEF Seeking
<1> QED
  BY <1>1, <1>2, <1>3, <1>4, <1>5, <1>6, <1>7, <1>8, NameCalled

LEMMA AppendingIs == ASSUME op \in Ops PROVE Appending <=> op.mode = "a"
<1>1. op.mode \in {"r", "rplus", "w", "a"}
  BY DEF Ops
<1> QED
  BY <1>1, ModesAre DEF Appending

LEMMA OpenSeekStep == ASSUME IInv, OpenSeek PROVE IInv'
<1>1. /\ pc = "back" /\ op.kind = "open" /\ op.step \in {"open", "creat"} /\ ax.ok /\ Appending
      /\ req' = [fn |-> "seek_end", fd |-> ax.val, n |-> 0] /\ pc' = "call"
      /\ op' = [op EXCEPT !.step = "seek", !.fd = ax.val]
      /\ UNCHANGED <<disk, handle, room, fd, leak, last, ops, bounce, ax>>
  BY DEF OpenSeek, Back, SeekCall, FdCall, Gate, Go, dos
<1>2. op \in Ops /\ op.mode = "a" /\ ops' \in Nat
      /\ bounce' \in [1..(PathCells + DataCells) -> Cells]
  BY <1>1, AppendingIs DEF IInv, TypeOK
<1>3. Seeking /\ Given /\ ~Holding
  BY <1>1 DEF Seeking, Given, Holding
<1>4. ax.val \in Handles /\ op.name \in Names /\ op.obj \in Objs /\ fd[op.obj] = -1
      /\ op.err = "none"
  BY <1>1, <1>3 DEF IInv, HandleInv, FlowInv
<1>5. /\ op' \in Ops /\ op'.kind = "open" /\ op'.obj = op.obj /\ op'.name = op.name
      /\ op'.mode = "a" /\ op'.step = "seek" /\ op'.file = op.file /\ op'.fd = ax.val
      /\ op'.err = "none" /\ op'.clean = op.clean /\ op'.steady = op.steady
  <2>1. "seek" \in Steps
    BY DEF Steps
  <2>2. op' \in Ops
    BY <1>1, <1>2, <1>4, <2>1 DEF Ops
  <2> QED
    BY <1>1, <1>2, <1>4, <2>2 DEF Ops
<1>6. Holding' /\ ~Seeking' /\ ~Using'
  BY <1>5 DEF Holding, Seeking, Using
<1>7. Calls'
  BY <1>1, <1>5, <1>6 DEF Calls
<1>8. "seek_end" \in Functions /\ 0 \in Nat
  BY DEF Functions
<1>9. /\ TypeOK' /\ FlowInv' /\ HandleInv' /\ ExistInv' /\ ReqInv' /\ SeekInv'
      /\ LastInv' /\ OpenTellsTruth'
  BY <1>1, <1>2, <1>3, <1>4, <1>5, <1>6, <1>7, <1>8, NextCall
<1>10. AppendInv'
  <2>1. op.clean /\ op.steady =>
           /\ handle[ax.val].name = op.name
           /\ disk[op.name] = IF op.file = Absent THEN << >> ELSE op.file
    BY <1>1, <1>2, <1>3 DEF IInv, SeekInv
  <2> QED
    BY <1>1, <1>5, <2>1 DEF AppendInv
<1>11. ReadInv' /\ WriteInv' /\ LoadInv'
  BY <1>5 DEF ReadInv, WriteInv, LoadInv
<1> QED
  BY <1>9, <1>10, <1>11 DEF IInv

\* The handle open() ends with is open and nobody else's.
LEMMA Ready ==
    ASSUME IInv, pc = "back", op.kind = "open", OpenReady
    PROVE  /\ OpenFd \in Handles /\ handle[OpenFd] # Free
           /\ \A x \in Objs : fd[x] # OpenFd
           /\ op.obj \in Objs /\ fd[op.obj] = -1 /\ op.name \in Names /\ op.err = "none"
           /\ \A h : ~Closed(h)
           /\ op \in Ops /\ ops \in Nat
           /\ Given => OpenFd = ax.val
           /\ Holding => OpenFd = op.fd
           /\ op.clean /\ op.steady =>
                 /\ disk[op.name] = IF op.mode = "w" \/ op.file = Absent THEN << >> ELSE op.file
                 /\ op.mode = "a" => handle[OpenFd].pos = Len(disk[op.name])
<1>1. op \in Ops /\ ops \in Nat /\ op.step \in {"open", "creat", "seek"}
  BY DEF IInv, TypeOK, FlowInv, Calls
<1>2. op.obj \in Objs /\ fd[op.obj] = -1 /\ op.err = "none"
  BY DEF IInv, FlowInv
<1>3. CASE op.step = "seek"
  <2>1. Holding /\ ~Seeking /\ ~Using /\ ~Given /\ OpenFd = op.fd
    BY <1>3 DEF Holding, Seeking, Using, Given, OpenFd
  <2>2. req.fn = "seek_end" /\ op.fd \in Handles /\ op.name \in Names
    BY <1>3, <2>1 DEF IInv, FlowInv, Calls
  <2>3. \A h : ~Closed(h)
    BY <2>2 DEF Closed
  <2>4. handle[op.fd] # Free /\ \A x \in Objs : fd[x] # op.fd
    BY <2>1, <2>3 DEF IInv, HandleInv
  <2>5. op.mode = "a" /\
        (op.clean /\ op.steady =>
           /\ disk[op.name] = IF op.file = Absent THEN << >> ELSE op.file
           /\ handle[op.fd].pos = Len(disk[op.name]))
    BY <1>3 DEF IInv, AppendInv
  <2> QED
    BY <1>1, <1>2, <2>1, <2>2, <2>3, <2>4, <2>5
<1>4. CASE op.step # "seek"
  <2>1. ax.ok /\ op.mode # "a" /\ op.step \in {"open", "creat"}
    BY <1>1, <1>4, AppendingIs DEF OpenReady
  <2>2. Seeking /\ Given /\ ~Holding /\ ~Using /\ OpenFd = ax.val
    BY <1>4, <2>1 DEF Holding, Seeking, Using, Given, OpenFd
  <2>3. \A h : ~Closed(h)
    BY <2>2 DEF Closed
  <2>4. /\ ax.val \in Handles /\ handle[ax.val] # Free /\ op.name \in Names
        /\ \A x \in Objs : fd[x] # ax.val
    BY <2>2 DEF IInv, HandleInv, FlowInv
  <2>5. op.clean => disk[op.name] = IF op.mode = "w" \/ op.file = Absent THEN << >> ELSE op.file
    BY <2>1, <2>2 DEF IInv, SeekInv, Truncates
  <2> QED
    BY <1>1, <1>2, <2>1, <2>2, <2>3, <2>4, <2>5
<1> QED
  BY <1>3, <1>4

LEMMA OpenDoneStep == ASSUME IInv, OpenDone PROVE IInv'
<1> DEFINE h == OpenFd
<1>1. /\ pc = "back" /\ op.kind = "open" /\ OpenReady /\ fd' = [fd EXCEPT ![op.obj] = h]
      /\ last' = [op EXCEPT !.fd = h] /\ op' = NoOp /\ req' = NoReq /\ pc' = "idle"
      /\ UNCHANGED <<disk, handle, room, bounce, ax, leak, ops>>
  BY DEF OpenDone, Back, Return, dos
<1>2. /\ h \in Handles /\ handle[h] # Free
      /\ \A x \in Objs : fd[x] # h
      /\ op.obj \in Objs /\ fd[op.obj] = -1 /\ op.name \in Names /\ op.err = "none"
      /\ \A g : ~Closed(g)
      /\ op \in Ops /\ ops \in Nat /\ (Given => h = ax.val) /\ (Holding => h = op.fd)
      /\ op.clean /\ op.steady =>
            /\ disk[op.name] = IF op.mode = "w" \/ op.file = Absent THEN << >> ELSE op.file
            /\ op.mode = "a" => handle[h].pos = Len(disk[op.name])
  BY <1>1, Ready
<1> HIDE DEF h
<1>3. /\ fd'[op.obj] = h /\ \A x \in Objs \ {op.obj} : fd'[x] = fd[x]
      /\ fd' \in [Objs -> Handles \cup {-1}]
  BY <1>1, <1>2 DEF IInv, TypeOK
<1>4. ~Seeking' /\ ~Holding' /\ ~Given' /\ ~Using' /\ \A g : ~Closed(g)'
  BY <1>1, NoOpIs DEF Seeking, Holding, Given, Using, Closed
<1>5. HandleInv'
  <2>1. \A x \in Objs : fd'[x] # -1 => handle'[fd'[x]] # Free
    BY <1>1, <1>2, <1>3 DEF IInv, HandleInv
  <2>2. \A x, y \in Objs : x # y /\ fd'[x] # -1 => fd'[x] # fd'[y]
    <3>1. \A x, y \in Objs : x # y /\ fd[x] # -1 => fd[x] # fd[y]
      BY DEF IInv, HandleInv
    <3> QED
      BY <1>2, <1>3, <3>1
  <2>3. ASSUME ~leak', NEW g \in Handles, handle'[g] # Free PROVE \E x \in Objs : fd'[x] = g
    <3>1. (\E x \in Objs : fd[x] = g) \/ g = h
      BY <1>1, <1>2, <2>3 DEF IInv, HandleInv
    <3>2. g # -1
      BY Constants
    <3> QED
      BY <1>2, <1>3, <3>1, <3>2
  <2> QED
    BY <1>4, <2>1, <2>2, <2>3 DEF HandleInv
<1>6. /\ last' \in Ops /\ last'.kind = "open" /\ last'.fd = h /\ last'.err = "none"
      /\ last'.name = op.name /\ last'.mode = op.mode /\ last'.file = op.file
      /\ last'.clean = op.clean /\ last'.steady = op.steady
  BY <1>1, <1>2 DEF Ops
<1>7. LastInv'
  BY <1>6 DEF LastInv
<1>8. OpenTellsTruth'
  <2>1. op.mode \in {"r", "rplus", "w", "a"}
    BY <1>2 DEF Ops
  <2>2. Modes[op.mode].trunc <=> op.mode = "w"
    BY <2>1, ModesAre
  <2> QED
    BY <1>1, <1>2, <1>6, <2>2 DEF OpenTellsTruth
<1>9. leak' \in BOOLEAN /\ ops' \in Nat
  BY <1>1, <1>2 DEF IInv, TypeOK
<1> QED
  BY <1>1, <1>3, <1>5, <1>6, <1>7, <1>8, <1>9, OpEnds

LEMMA OpenNoMemoryStep == ASSUME IInv, OpenNoMemory PROVE IInv'
<1>1. /\ pc = "back" /\ op.kind = "open" /\ leak' = TRUE
      /\ last' = [op EXCEPT !.err = "ENOMEM"] /\ op' = NoOp /\ req' = NoReq /\ pc' = "idle"
      /\ UNCHANGED <<disk, handle, room, bounce, ax, fd, ops>>
  BY DEF OpenNoMemory, Back, Return, dos
<1>2. op \in Ops /\ ops' \in Nat
  BY <1>1 DEF IInv, TypeOK
<1>3. last' \in Ops /\ last'.err = "ENOMEM"
  BY <1>1, <1>2 DEF Ops, Errors
<1>4. LastInv' /\ OpenTellsTruth'
  BY <1>3, NothingSaid
<1> QED
  BY <1>1, <1>2, <1>3, <1>4, OpEndsSame

LEMMA OpenFailedStep == ASSUME IInv, OpenFailed PROVE IInv'
<1> DEFINE e == Errno(ax.val)
<1>1. /\ pc = "back" /\ op.kind = "open" /\ ~ax.ok /\ op.step \in {"open", "creat"}
      /\ last' = [op EXCEPT !.err = e] /\ op' = NoOp /\ req' = NoReq /\ pc' = "idle"
      /\ UNCHANGED <<disk, handle, room, bounce, ax, fd, leak, ops>>
  BY DEF OpenFailed, Back, End, Return, dos
<1>2. op \in Ops /\ ops' \in Nat /\ leak' \in BOOLEAN
  BY <1>1 DEF IInv, TypeOK
<1>3. Seeking /\ ~Given /\ ~Holding
  BY <1>1 DEF Seeking, Given, Holding
<1>4. e \in {"EIO", "EMFILE", "EACCES", "ENOENT"} /\ (e = "ENOENT" => ax.val \notin {0, 4, 5})
  BY DEF Errno
<1>5. e = "ENOENT" /\ op.clean => op.file = Absent
  BY <1>1, <1>3, <1>4 DEF IInv, SeekInv
<1> HIDE DEF e
<1>6. /\ last' \in Ops /\ last'.kind = "open" /\ last'.err = e /\ last'.file = op.file
      /\ last'.clean = op.clean
  BY <1>1, <1>2, <1>4 DEF Ops, Errors
<1>7. LastInv' /\ OpenTellsTruth'
  BY <1>4, <1>5, <1>6 DEF LastInv, OpenTellsTruth
<1> QED
  BY <1>1, <1>2, <1>3, <1>6, <1>7, OpEndsSame

-----------------------------------------------------------------------------
(* mp_import_stat and mp_lexer_new_from_file *)

\* Both begin with an open for reading.
LEMMA ImportBegins ==
    ASSUME IInv, NEW n \in Names, NEW kind \in {"stat", "load"}, Begin, OpenCall(n, 0),
           op' = [NoOp EXCEPT !.kind = kind, !.name = n, !.step = "open", !.file = disk[n]]
    PROVE  IInv'
<1>1. /\ pc = "idle" /\ ops' = ops + 1 /\ UNCHANGED <<disk, handle, room, fd, leak, last>>
      /\ NameCall("open", n, 0)
  BY DEF Begin, Enter, OpenCall, dos
<1>2. disk[n] \in Seq(Cells) \cup {Absent} /\ n \in AllNames
  BY DEF IInv, TypeOK, AllNames
<1>3. /\ op' \in Ops /\ op'.kind = kind /\ op'.name = n /\ op'.mode = "r"
      /\ op'.step = "open" /\ op'.file = disk[n] /\ op'.buf = << >> /\ op'.total = 0
  <2>1. kind \in Kinds /\ "open" \in Steps
    BY DEF Kinds, Steps
  <2>2. op' \in Ops
    BY <1>2, <2>1, NoOpIs DEF Ops
  <2> QED
    BY <2>2, NoOpIs DEF Ops
<1>4. Seeking' /\ op.kind = "none" /\ ops' \in Nat
  BY <1>1, <1>3, IdleIs DEF Seeking, IInv, TypeOK
<1>5. 0 \in 0..2 /\ "open" \in {"open", "creat"}
  OBVIOUS
<1> QED
  BY <1>1, <1>3, <1>4, <1>5, NameCalled

LEMMA StatBeginStep == ASSUME IInv, NEW n \in Names, StatBegin(n) PROVE IInv'
  BY ImportBegins DEF StatBegin

LEMMA LoadBeginStep == ASSUME IInv, NEW n \in Names, LoadBegin(n) PROVE IInv'
  BY ImportBegins DEF LoadBegin

\* The handle they have of their own, after the open and before the close.
LEMMA ImportHolds ==
    ASSUME IInv, pc = "back", op.kind \in {"stat", "load"}
    PROVE  /\ ~Using /\ op \in Ops /\ op.name \in Names /\ ops \in Nat /\ leak \in BOOLEAN
           /\ bounce \in [1..(PathCells + DataCells) -> Cells] /\ ax.val \in Nat
           /\ op.step = "open" => ~Holding /\ \A h : ~Closed(h)
           /\ op.step = "open" /\ ax.ok => Given /\ ax.val \in Handles
           /\ op.step = "open" /\ ~ax.ok => ~Given
           /\ op.step # "open" => Holding /\ ~Seeking /\ ~Given /\ op.fd \in Handles
           /\ op.step \in {"cur", "end", "set", "read"} => \A h : ~Closed(h)
           /\ op.step = "read" => req.fn = "read"
           /\ op.step = "close" => Closed(op.fd)
<1>1. op \in Ops /\ ops \in Nat /\ leak \in BOOLEAN /\ ax.val \in Nat
      /\ bounce \in [1..(PathCells + DataCells) -> Cells]
  BY DEF IInv, TypeOK
<1>2. ~Using /\ (Seeking \/ Holding) /\ op.name \in Names
  BY DEF Using, Seeking, Holding, IInv, FlowInv
<1>3. op.step # "creat"
  BY DEF IInv, FlowInv, Calls
<1>4. op.step = "open" => Seeking /\ ~Holding
  BY DEF Seeking, Holding
<1>5. op.step # "open" => Holding /\ ~Seeking /\ ~Given
  BY <1>3 DEF Seeking, Holding, Given
<1>6. Given => ax.val \in Handles
  BY DEF IInv, HandleInv
<1>7. Holding => op.fd \in Handles
  BY DEF IInv, FlowInv
<1>8. op.step \in {"cur", "end", "set", "read"} => req.fn # "close"
  BY <1>5 DEF IInv, FlowInv, Calls
<1>9. /\ op.step = "close" => req.fn = "close"
      /\ op.step = "read" => req.fn = "read"
  BY <1>5 DEF IInv, FlowInv, Calls
<1>10. op.step \in {"cur", "end", "set", "read"} => \A h : ~Closed(h)
  BY <1>8 DEF Closed
<1>11. op.step = "open" => \A h : ~Closed(h)
  BY <1>2, <1>4 DEF Closed
<1>12. op.step = "close" => Closed(op.fd)
  BY <1>5, <1>9 DEF Closed
<1>13. /\ op.step = "open" /\ ax.ok => Given
       /\ op.step = "open" /\ ~ax.ok => ~Given
  BY <1>4 DEF Given
<1> QED
  BY <1>1, <1>2, <1>4, <1>5, <1>6, <1>7, <1>9, <1>10, <1>11, <1>12, <1>13

\* The next call on it.
LEMMA ImportCalls ==
    ASSUME IInv, pc = "back", op.kind \in {"stat", "load"}, op.step # "close",
           pc' = "call", op' \in Ops, op'.kind = op.kind, op'.name = op.name,
           op.kind = "stat" => op'.step = "close" /\ op.step = "open",
           op.kind = "load" => op'.step \in {"cur", "end", "set", "read", "close"},
           op.step = "open" => ax.ok /\ op'.fd = ax.val,
           op.step # "open" => op'.fd = op.fd,
           NEW fn \in Functions, NEW n \in Nat, req' = [fn |-> fn, fd |-> op'.fd, n |-> n],
           fn \in {"read", "write"} => n \in 1..DataCells,
           op'.step = "cur" => fn = "seek_cur",
           op'.step = "end" => fn = "seek_end",
           op'.step = "set" => fn = "seek_set",
           op'.step = "read" => fn = "read",
           op'.step = "close" => fn = "close",
           UNCHANGED <<disk, handle, room, fd, ax, leak, last, ops, bounce>>,
           LoadInv'
    PROVE  IInv'
<1>1. /\ op.name \in Names /\ ops' \in Nat
      /\ bounce' \in [1..(PathCells + DataCells) -> Cells]
      /\ op.step = "open" => Given /\ ~Holding
      /\ op.step # "open" => Holding /\ ~Given
  BY ImportHolds
<1>2. op.step \in {"open", "cur", "end", "set", "read"}
  BY DEF IInv, FlowInv, Calls
<1>3. op.step # "open" => ~Closed(op.fd)
  BY <1>2, ImportHolds
<1>4. Holding' /\ ~Seeking' /\ ~Using'
  BY DEF Holding, Seeking, Using
<1>5. req'.fn = fn
  OBVIOUS
<1>6. Calls'
  BY <1>4, <1>5 DEF Calls
<1>7. /\ TypeOK' /\ FlowInv' /\ HandleInv' /\ ExistInv' /\ ReqInv' /\ SeekInv'
      /\ LastInv' /\ OpenTellsTruth'
  BY <1>1, <1>3, <1>4, <1>6, NextCall
<1>8. ReadInv' /\ WriteInv' /\ AppendInv'
  BY DEF ReadInv, WriteInv, AppendInv
<1> QED
  BY <1>7, <1>8 DEF IInv

LEMMA StatCloseStep == ASSUME IInv, StatClose PROVE IInv'
<1>1. /\ pc = "back" /\ op.kind = "stat" /\ op.step = "open" /\ ax.ok
      /\ req' = [fn |-> "close", fd |-> ax.val, n |-> 0] /\ pc' = "call"
      /\ op' = [op EXCEPT !.step = "close", !.fd = ax.val]
      /\ UNCHANGED <<disk, handle, room, fd, ax, leak, last, ops, bounce>>
  BY DEF StatClose, Back, CloseCall, FdCall, Gate, Go, dos
<1>2. op \in Ops /\ ax.val \in Handles
  BY <1>1, ImportHolds
<1>3. /\ op' \in Ops /\ op'.kind = "stat" /\ op'.name = op.name /\ op'.step = "close"
      /\ op'.fd = ax.val
  <2>1. "close" \in Steps
    BY DEF Steps
  <2> QED
    BY <1>1, <1>2, <2>1 DEF Ops
<1>4. LoadInv'
  BY <1>3 DEF LoadInv
<1>5. "close" \in Functions /\ 0 \in Nat
  BY DEF Functions
<1> QED
  BY <1>1, <1>3, <1>4, <1>5, ImportCalls

\* An import that ends, its handle closed if it had one.
LEMMA ImportEnds ==
    ASSUME IInv, pc = "back", op.kind \in {"stat", "load"},
           op.step = "close" \/ (op.step = "open" /\ ~ax.ok),
           NEW o \in Ops, End(o), UNCHANGED <<disk, handle, room, ops>>,
           LastInv', OpenTellsTruth'
    PROVE  IInv'
<1>1. /\ last' = o /\ op' = NoOp /\ req' = NoReq /\ pc' = "idle"
      /\ UNCHANGED <<fd, ax, leak, bounce>>
  BY DEF End, Return
<1>2. ~Given /\ (Holding => Closed(op.fd)) /\ ops' \in Nat /\ leak' \in BOOLEAN
  BY <1>1, ImportHolds
<1> QED
  BY <1>1, <1>2, OpEndsSame

LEMMA StatDoneStep == ASSUME IInv, StatDone PROVE IInv'
<1>1. /\ pc = "back" /\ op.kind = "stat" /\ UNCHANGED <<disk, handle, room, ops>>
  BY DEF StatDone, Back, dos
<1>2. op \in Ops
  BY <1>1, ImportHolds
<1>3. PICK o \in Ops : /\ End(o) /\ o.kind = "stat"
                       /\ op.step = "close" \/ (op.step = "open" /\ ~ax.ok)
  <2>1. [op EXCEPT !.err = "NO_EXIST"] \in Ops /\ [op EXCEPT !.err = "NO_EXIST"].kind = "stat"
    BY <1>1, <1>2 DEF Ops, Errors
  <2> QED
    BY <1>1, <1>2, <2>1 DEF StatDone
<1>4. last'.kind = "stat"
  BY <1>3 DEF End, Return
<1>5. LastInv' /\ OpenTellsTruth'
  BY <1>4, NothingSaid
<1> QED
  BY <1>1, <1>3, <1>5, ImportEnds

LEMMA LoadNoFileStep == ASSUME IInv, LoadNoFile PROVE IInv'
<1> DEFINE o == [op EXCEPT !.err = "ENOENT"]
<1>1. /\ pc = "back" /\ op.kind = "load" /\ op.step = "open" /\ ~ax.ok /\ End(o)
      /\ UNCHANGED <<disk, handle, room, ops>>
  BY DEF LoadNoFile, Back, dos
<1>2. op \in Ops
  BY <1>1, ImportHolds
<1>3. o \in Ops /\ o.kind = "load" /\ o.err = "ENOENT"
  BY <1>1, <1>2 DEF Ops, Errors
<1> HIDE DEF o
<1>4. last' = o
  BY <1>1 DEF End, Return
<1>5. LastInv' /\ OpenTellsTruth'
  BY <1>3, <1>4, NothingSaid
<1> QED
  BY <1>1, <1>3, <1>5, ImportEnds

LEMMA LoadDoneStep == ASSUME IInv, LoadDone PROVE IInv'
<1>1. /\ pc = "back" /\ op.kind = "load" /\ op.step = "close" /\ End(op)
      /\ UNCHANGED <<disk, handle, room, ops>>
  BY DEF LoadDone, Back, dos
<1>2. op \in Ops
  BY <1>1, ImportHolds
<1>3. last' = op
  BY <1>1 DEF End, Return
<1>4. op.clean /\ op.steady => op.buf = op.file
  BY <1>1 DEF IInv, LoadInv
<1>5. LastInv' /\ OpenTellsTruth'
  BY <1>1, <1>3, <1>4 DEF LastInv, OpenTellsTruth
<1> QED
  BY <1>1, <1>2, <1>5, ImportEnds

LEMMA LoadSizeStep == ASSUME IInv, LoadSize PROVE IInv'
<1>1. /\ pc = "back" /\ op.kind = "load" /\ ax.ok
      /\ UNCHANGED <<disk, handle, room, ops>>
  BY DEF LoadSize, Back, dos
<1>2. op \in Ops /\ ax.val \in Nat /\ op.base \in Nat
  BY <1>1, ImportHolds DEF Ops
<1>3. /\ "seek_cur" \in Functions /\ "seek_end" \in Functions /\ "seek_set" \in Functions
      /\ "cur" \in Steps /\ "end" \in Steps /\ "set" \in Steps /\ 0 \in Nat
  BY DEF Functions, Steps
<1>4. CASE op.step = "open"
  <2>1. /\ req' = [fn |-> "seek_cur", fd |-> ax.val, n |-> 0] /\ pc' = "call"
        /\ op' = [op EXCEPT !.step = "cur", !.fd = ax.val]
        /\ UNCHANGED <<fd, ax, leak, last, bounce>>
    BY <1>4 DEF LoadSize, SeekCall, FdCall, Gate, Go
  <2>2. Given /\ Seeking /\ ax.val \in Handles
    BY <1>1, <1>4, ImportHolds DEF Given
  <2>3. /\ op' \in Ops /\ op'.kind = "load" /\ op'.name = op.name /\ op'.step = "cur"
        /\ op'.fd = ax.val /\ op'.buf = op.buf /\ op'.total = op.total /\ op'.file = op.file
        /\ op'.clean = op.clean /\ op'.steady = op.steady
    BY <1>1, <1>2, <1>3, <2>1, <2>2 DEF Ops
  <2>4. op.buf = << >> /\ op.total = 0
    BY <2>2 DEF IInv, SeekInv
  <2>5. op.clean => /\ handle[ax.val].name = op.name /\ handle[ax.val].pos = 0
                    /\ handle[ax.val].acc = 0 /\ op.file # Absent /\ disk[op.name] = op.file
    BY <1>1, <1>4, <2>2 DEF IInv, SeekInv
  <2>6. op.file \in Seq(Cells) \cup {Absent}
    BY <1>2 DEF Ops
  <2>7. LoadInv'
    BY <1>1, <2>1, <2>3, <2>4, <2>5, <2>6 DEF LoadInv, Now
  <2> QED
    BY <1>1, <1>3, <1>4, <2>1, <2>3, <2>7, ImportCalls
<1>5. CASE op.step = "cur"
  <2>1. /\ req' = [fn |-> "seek_end", fd |-> op.fd, n |-> 0] /\ pc' = "call"
        /\ op' = [op EXCEPT !.step = "end", !.base = ax.val]
        /\ UNCHANGED <<fd, ax, leak, last, bounce>>
    BY <1>5 DEF LoadSize, SeekCall, FdCall, Gate, Go
  <2>2. /\ op' \in Ops /\ op'.kind = "load" /\ op'.name = op.name /\ op'.step = "end"
        /\ op'.fd = op.fd /\ op'.buf = op.buf /\ op'.total = op.total /\ op'.file = op.file
        /\ op'.base = ax.val /\ op'.clean = op.clean /\ op'.steady = op.steady
    BY <1>1, <1>2, <1>3, <2>1 DEF Ops
  <2>3. Now' = Now
    BY <1>1, <2>2 DEF Now
  <2>4. LoadInv'
    BY <1>1, <1>5, <2>1, <2>2, <2>3 DEF IInv, LoadInv
  <2> QED
    BY <1>1, <1>3, <1>5, <2>1, <2>2, <2>4, ImportCalls
<1>6. CASE op.step = "end"
  <2>1. /\ req' = [fn |-> "seek_set", fd |-> op.fd, n |-> op.base] /\ pc' = "call"
        /\ op' = [op EXCEPT !.step = "set", !.size = ax.val]
        /\ UNCHANGED <<fd, ax, leak, last, bounce>>
    BY <1>6 DEF LoadSize, SeekCall, FdCall, Gate, Go
  <2>2. /\ op' \in Ops /\ op'.kind = "load" /\ op'.name = op.name /\ op'.step = "set"
        /\ op'.fd = op.fd /\ op'.buf = op.buf /\ op'.total = op.total /\ op'.file = op.file
        /\ op'.base = op.base /\ op'.size = ax.val
        /\ op'.clean = op.clean /\ op'.steady = op.steady
    BY <1>1, <1>2, <1>3, <2>1 DEF Ops
  <2>3. Now' = Now /\ req'.n = op.base
    BY <1>1, <2>1, <2>2 DEF Now
  <2>4. LoadInv'
    BY <1>1, <1>6, <2>1, <2>2, <2>3 DEF IInv, LoadInv
  <2> QED
    BY <1>1, <1>2, <1>3, <1>6, <2>1, <2>2, <2>4, ImportCalls
<1> QED
  BY <1>4, <1>5, <1>6 DEF LoadSize

LEMMA LoadNoSizeStep == ASSUME IInv, LoadNoSize PROVE IInv'
<1>1. /\ pc = "back" /\ op.kind = "load" /\ ~ax.ok /\ op.step \in {"cur", "end"}
      /\ req' = [fn |-> "close", fd |-> op.fd, n |-> 0] /\ pc' = "call"
      /\ op' = [op EXCEPT !.step = "close", !.err = "EIO"]
      /\ UNCHANGED <<disk, handle, room, ops, fd, ax, leak, last, bounce>>
  BY DEF LoadNoSize, Back, CloseCall, FdCall, Gate, Go, dos
<1>2. op \in Ops
  BY <1>1, ImportHolds
<1>3. "close" \in Steps /\ "close" \in Functions /\ 0 \in Nat /\ "EIO" \in Errors
  BY DEF Steps, Functions, Errors
<1>4. /\ op' \in Ops /\ op'.kind = "load" /\ op'.name = op.name /\ op'.step = "close"
      /\ op'.fd = op.fd /\ op'.clean = op.clean /\ op'.steady = op.steady
  BY <1>1, <1>2, <1>3 DEF Ops
<1>5. ~(op.clean /\ op.steady)
  BY <1>1 DEF IInv, LoadInv
<1>6. LoadInv'
  BY <1>4, <1>5 DEF LoadInv
<1> QED
  BY <1>1, <1>3, <1>4, <1>6, ImportCalls

LEMMA LoadNoMemoryStep == ASSUME IInv, LoadNoMemory PROVE IInv'
<1>1. /\ pc = "back" /\ op.kind = "load" /\ leak' = TRUE
      /\ last' = [op EXCEPT !.err = "ENOMEM"] /\ op' = NoOp /\ req' = NoReq /\ pc' = "idle"
      /\ UNCHANGED <<disk, handle, room, bounce, ax, fd, ops>>
  BY DEF LoadNoMemory, Back, Return, dos
<1>2. op \in Ops /\ ops' \in Nat
  BY <1>1 DEF IInv, TypeOK
<1>3. last' \in Ops /\ last'.err = "ENOMEM"
  BY <1>1, <1>2 DEF Ops, Errors
<1>4. LastInv' /\ OpenTellsTruth'
  BY <1>3, NothingSaid
<1> QED
  BY <1>1, <1>2, <1>3, <1>4, OpEndsSame

\* What the loader has when a read returned, or none was made yet.
LEMMA LoadHas ==
    ASSUME IInv, pc = "back", op.kind = "load", op.step \in {"set", "read"}
    PROVE  LET g == LoadGot
           IN  /\ g \in Ops /\ g.kind = op.kind /\ g.name = op.name /\ g.size = op.size
               /\ g.base = op.base /\ g.file = op.file /\ g.fd = op.fd
               /\ g.clean = op.clean /\ g.steady = op.steady
               /\ op.clean /\ op.steady =>
                    /\ ax.ok /\ op.base = 0 /\ op.size = Len(op.file)
                    /\ op.file \in Seq(Cells) /\ Now = op.file /\ handle[op.fd].acc = 0
                    /\ Part(op.file, 0, g.total, g.buf) /\ g.total <= op.size
                    /\ handle[op.fd].pos = g.total
                    /\ LoadStops => g.total = op.size
<1>1. op \in Ops /\ op.total \in Nat /\ op.size \in Nat
  BY ImportHolds DEF Ops
<1>2. op.clean /\ op.steady =>
         /\ ax.ok /\ op.base = 0 /\ op.size = Len(op.file)
         /\ op.file \in Seq(Cells) /\ Now = op.file /\ handle[op.fd].acc = 0
         /\ op.step = "set" => handle[op.fd].pos = 0
         /\ op.step = "read" => Reading
  BY DEF IInv, LoadInv
<1>3. CASE op.step = "set"
  <2>1. LoadGot = op /\ ~LoadStops
    BY <1>3 DEF LoadGot, LoadStops
  <2>2. op.buf = << >> /\ op.total = 0
    BY <1>3 DEF IInv, LoadInv
  <2>3. Part(op.file, 0, op.total, op.buf)
    BY <2>2 DEF Part
  <2> QED
    BY <1>1, <1>2, <1>3, <2>1, <2>2, <2>3
<1>4. CASE op.step = "read" /\ ~ax.ok
  <2>1. LoadGot = op
    BY <1>4 DEF LoadGot
  <2> QED
    BY <1>1, <1>2, <1>4, <2>1
<1>5. CASE op.step = "read" /\ ax.ok
  <2> DEFINE g == ReadGot
  <2>1. req.fn = "read"
    BY <1>5, ImportHolds
  <2>2. /\ g \in Ops /\ g.kind = op.kind /\ g.name = op.name /\ g.size = op.size
        /\ g.base = op.base /\ g.file = op.file /\ g.fd = op.fd /\ g.clean = op.clean
        /\ g.steady = op.steady
        /\ Reading => /\ Part(op.file, op.base, g.total, g.buf) /\ g.total <= op.size
                      /\ handle[op.fd].pos = op.base + g.total
                      /\ g.total = op.total => Len(op.file) <= op.base + op.total
    BY <1>5, <2>1, GotChunk
  <2>3. LoadGot = g /\ (LoadStops <=> g.total = op.total)
    BY <1>5 DEF LoadGot, LoadStops
  <2> HIDE DEF g
  <2>4. g.total \in Nat /\ 0 + g.total = g.total /\ 0 + op.total = op.total
    BY <1>1, <2>2 DEF Ops
  <2>5. op.clean /\ op.steady =>
           /\ Part(op.file, 0, g.total, g.buf) /\ g.total <= op.size
           /\ handle[op.fd].pos = g.total
           /\ g.total = op.total => g.total = op.size
    <3> SUFFICES ASSUME op.clean, op.steady
                 PROVE  /\ Part(op.file, 0, g.total, g.buf) /\ g.total <= op.size
                        /\ handle[op.fd].pos = g.total
                        /\ g.total = op.total => g.total = op.size
      OBVIOUS
    <3>1. /\ Part(op.file, 0, g.total, g.buf) /\ g.total <= op.size
          /\ handle[op.fd].pos = g.total
          /\ g.total = op.total => op.size <= op.total
      BY <1>2, <1>5, <2>2, <2>4
    <3>2. g.total = op.total => g.total = op.size
      BY <1>1, <2>4, <3>1
    <3> QED
      BY <3>1, <3>2
  <2> QED
    BY <1>2, <2>2, <2>3, <2>5
<1> QED
  BY <1>3, <1>4, <1>5

LEMMA LoadReadStep == ASSUME IInv, LoadRead PROVE IInv'
<1> DEFINE g == LoadGot
           n == Lo(op.size - g.total, DataCells)
<1>1. /\ pc = "back" /\ op.kind = "load" /\ op.step \in {"set", "read"} /\ g.total < op.size
      /\ req' = [fn |-> "read", fd |-> op.fd, n |-> n] /\ pc' = "call"
      /\ op' = [g EXCEPT !.step = "read"]
      /\ UNCHANGED <<disk, handle, room, ops, fd, ax, leak, last, bounce>>
  BY DEF LoadRead, Back, ReadCall, FdCall, Gate, Go, dos
<1>2. /\ g \in Ops /\ g.kind = op.kind /\ g.name = op.name /\ g.size = op.size
      /\ g.base = op.base /\ g.file = op.file /\ g.fd = op.fd
      /\ g.clean = op.clean /\ g.steady = op.steady
      /\ op.clean /\ op.steady =>
           /\ ax.ok /\ op.base = 0 /\ op.size = Len(op.file)
           /\ op.file \in Seq(Cells) /\ Now = op.file /\ handle[op.fd].acc = 0
           /\ Part(op.file, 0, g.total, g.buf) /\ g.total <= op.size
           /\ handle[op.fd].pos = g.total
  BY <1>1, LoadHas
<1>3. g.total \in Nat /\ g.size \in Nat
  BY <1>2 DEF Ops
<1>4. n \in Nat /\ n \in 1..DataCells
  BY <1>1, <1>2, <1>3, Constants DEF Lo
<1>5. n = Lo(g.size - g.total, DataCells)
  BY <1>2
<1> HIDE DEF g, n
<1>6. /\ op' \in Ops /\ op'.kind = "load" /\ op'.name = op.name /\ op'.step = "read"
      /\ op'.size = g.size /\ op'.total = g.total /\ op'.base = op.base /\ op'.buf = g.buf
      /\ op'.file = op.file /\ op'.fd = op.fd
      /\ op'.clean = op.clean /\ op'.steady = op.steady
  <2>1. "read" \in Steps
    BY DEF Steps
  <2> QED
    BY <1>1, <1>2, <2>1 DEF Ops
<1>7. op.clean /\ op.steady => Reading'
  <2> SUFFICES ASSUME op.clean, op.steady PROVE Reading'
    OBVIOUS
  <2>1. Now' = op'.file /\ op'.file \in Seq(Cells)
    BY <1>1, <1>2, <1>6 DEF Now
  <2>2. Part(op.file, op.base, op.total, op.buf)'
    BY <1>2, <1>6 DEF Part
  <2>3. op'.base + op'.total = g.total
    BY <1>2, <1>3, <1>6
  <2>4. handle'[op'.fd].pos = op'.base + op'.total
    BY <1>1, <1>2, <1>6, <2>3
  <2>5. req'.n = Lo(op'.size - op'.total, DataCells) /\ op'.total < op'.size
    BY <1>1, <1>2, <1>5, <1>6
  <2> QED
    BY <1>1, <2>1, <2>2, <2>4, <2>5 DEF Reading
<1>8. Now' = Now
  BY <1>1, <1>6 DEF Now
<1>9. LoadInv'
  BY <1>1, <1>2, <1>6, <1>7, <1>8 DEF LoadInv
<1>10. "read" \in Functions
  BY DEF Functions
<1> QED
  BY <1>1, <1>4, <1>6, <1>9, <1>10, ImportCalls

\* All of a file is the file.
LEMMA WholeFile ==
    ASSUME NEW f \in Seq(Cells), NEW z \in Seq(Cells), Part(f, 0, Len(f), z) PROVE z = f
<1>1. Len(f) \in Nat /\ Len(z) = Len(f) /\ \A c \in 1..Len(f) : z[c] = f[0 + c]
  BY DEF Part
<1>2. \A c \in 1..Len(z) : z[c] = f[c]
  BY <1>1
<1> QED
  BY <1>1, <1>2, SeqEqual

LEMMA LoadEndStep == ASSUME IInv, LoadEnd PROVE IInv'
<1> DEFINE g == LoadGot
<1>1. /\ pc = "back" /\ op.kind = "load" /\ op.step \in {"set", "read"}
      /\ LoadStops \/ g.total >= op.size
      /\ req' = [fn |-> "close", fd |-> op.fd, n |-> 0] /\ pc' = "call"
      /\ op' = [g EXCEPT !.step = "close"]
      /\ UNCHANGED <<disk, handle, room, ops, fd, ax, leak, last, bounce>>
  BY DEF LoadEnd, Back, CloseCall, FdCall, Gate, Go, dos
<1>2. /\ g \in Ops /\ g.kind = op.kind /\ g.name = op.name /\ g.size = op.size
      /\ g.base = op.base /\ g.file = op.file /\ g.fd = op.fd
      /\ g.clean = op.clean /\ g.steady = op.steady
      /\ op.clean /\ op.steady =>
           /\ op.base = 0 /\ op.size = Len(op.file) /\ op.file \in Seq(Cells)
           /\ Part(op.file, 0, g.total, g.buf) /\ g.total <= op.size
           /\ LoadStops => g.total = op.size
  BY <1>1, LoadHas
<1>3. g.total \in Nat /\ op.size \in Nat /\ g.buf \in Seq(Cells)
  BY <1>2 DEF Ops
<1> HIDE DEF g
<1>4. /\ op' \in Ops /\ op'.kind = "load" /\ op'.name = op.name /\ op'.step = "close"
      /\ op'.base = op.base /\ op'.buf = g.buf /\ op'.file = op.file /\ op'.fd = op.fd
      /\ op'.clean = op.clean /\ op'.steady = op.steady
  <2>1. "close" \in Steps
    BY DEF Steps
  <2> QED
    BY <1>1, <1>2, <2>1 DEF Ops
<1>5. op.clean /\ op.steady => g.buf = op.file
  <2> SUFFICES ASSUME op.clean, op.steady PROVE g.buf = op.file
    OBVIOUS
  <2>1. g.total = op.size
    BY <1>1, <1>2, <1>3
  <2>2. Part(op.file, 0, Len(op.file), g.buf)
    BY <1>2, <2>1
  <2> DEFINE f == op.file
             z == g.buf
  <2>3. f \in Seq(Cells) /\ z \in Seq(Cells) /\ Part(f, 0, Len(f), z)
    BY <1>2, <1>3, <2>2
  <2> HIDE DEF f, z
  <2>4. z = f
    BY <2>3, WholeFile
  <2> QED
    BY <2>4 DEF f, z
<1>6. LoadInv'
  BY <1>1, <1>2, <1>4, <1>5 DEF LoadInv
<1>7. "close" \in Functions /\ 0 \in Nat
  BY DEF Functions
<1> QED
  BY <1>1, <1>4, <1>6, <1>7, ImportCalls

-----------------------------------------------------------------------------
(* The program *)

LEMMA InitIInv == ASSUME Init PROVE IInv
<1>1. /\ op = NoOp /\ last = NoOp /\ req = NoReq /\ pc = "idle" /\ leak = FALSE /\ ops = 0
      /\ handle = [h \in Handles |-> Free] /\ fd = [o \in Objs |-> -1]
      /\ ax = [ok |-> TRUE, val |-> 0]
  BY DEF Init
<1>2. NoOp \in Ops /\ NoOp.kind = "none"
  BY NoOpIs
<1>3. TypeOK
  <2>1. disk \in [AllNames -> Seq(Cells) \cup {Absent}]
    <3>1. <<Old, Old, Old, Old>> \in Seq(Cells)
      BY Constants
    <3> QED
      BY <3>1 DEF Init, AllNames
  <2>2. handle \in [Handles -> Open \cup {Free}] /\ fd \in [Objs -> Handles \cup {-1}]
    BY <1>1
  <2>3. room \in Nat
    BY FileAssumption DEF Init
  <2>4. bounce \in [1..(PathCells + DataCells) -> Cells]
    BY Constants DEF Init
  <2>5. req \in [fn : Functions, fd : Handles \cup {-1}, n : Nat]
    BY <1>1 DEF NoReq, Functions
  <2>6. ax \in [ok : BOOLEAN, val : Nat]
    BY <1>1
  <2> QED
    BY <1>1, <1>2, <2>1, <2>2, <2>3, <2>4, <2>5, <2>6 DEF TypeOK
<1>4. ~Seeking /\ ~Holding /\ ~Using /\ ~Given /\ \A h : ~Closed(h)
  BY <1>1, <1>2 DEF Seeking, Holding, Using, Given, Closed
<1>5. FlowInv
  BY <1>1, <1>2, <1>4 DEF FlowInv, Calls
<1>6. \A h \in Handles : handle[h] = Free
  BY <1>1
<1>7. \A x \in Objs : fd[x] = -1
  BY <1>1
<1>8. HandleInv /\ ExistInv
  BY <1>4, <1>6, <1>7 DEF HandleInv, ExistInv
<1>9. ReqInv
  BY <1>1 DEF ReqInv, NoReq
<1>10. ReadInv /\ WriteInv /\ SeekInv /\ AppendInv /\ LoadInv
  BY <1>1, <1>2, <1>4 DEF ReadInv, WriteInv, SeekInv, AppendInv, LoadInv
<1>11. LastInv /\ OpenTellsTruth
  BY <1>1, <1>2 DEF LastInv, OpenTellsTruth
<1> QED
  BY <1>3, <1>5, <1>8, <1>9, <1>10, <1>11 DEF IInv

LEMMA StutterStep == ASSUME IInv, UNCHANGED vars PROVE IInv'
<1>1. UNCHANGED <<disk, handle, room, bounce, fd, op, req, ax, pc, ops, leak, last>>
  BY DEF vars, dos
<1>2. TypeOK' /\ ExistInv' /\ ReqInv'
  BY <1>1 DEF IInv, TypeOK, ExistInv, ReqInv
<1>3. /\ Seeking' <=> Seeking
      /\ Holding' <=> Holding
      /\ Using' <=> Using
      /\ Given' <=> Given
      /\ \A h : Closed(h)' <=> Closed(h)
  BY <1>1 DEF Seeking, Holding, Using, Given, Closed
<1>4. Calls'
  BY <1>1, <1>3 DEF IInv, FlowInv, Calls
<1>5. FlowInv'
  BY <1>1, <1>3, <1>4 DEF IInv, FlowInv
<1>6. HandleInv'
  BY <1>1, <1>3 DEF IInv, HandleInv
<1>7. Now' = Now /\ Written' = Written /\ (Reading' <=> Reading) /\ (Harmless' <=> Harmless)
  BY <1>1 DEF Now, Written, Reading, Part, Chunk, Harmless, FreeHandles
<1>8. ReadInv'
  BY <1>1, <1>7 DEF IInv, ReadInv
<1>9. WriteInv'
  BY <1>1, <1>7 DEF IInv, WriteInv, Wrote
<1>10. SeekInv'
  BY <1>1, <1>3, <1>7 DEF IInv, SeekInv, Truncates
<1>11. AppendInv' /\ LoadInv'
  BY <1>1, <1>7 DEF IInv, AppendInv, LoadInv
<1>12. LastInv' /\ OpenTellsTruth'
  <2>1. \A h : Content(h)' = Content(h)
    BY <1>1 DEF Content
  <2> QED
    BY <1>1, <2>1 DEF IInv, LastInv, OpenTellsTruth
<1> QED
  BY <1>2, <1>5, <1>6, <1>8, <1>9, <1>10, <1>11, <1>12 DEF IInv

LEMMA ObjectStep ==
    ASSUME IInv, NEW x \in Objs,
           \/ \E n \in Names, m \in DOMAIN Modes : OpenBegin(x, n, m)
           \/ \E s \in Sizes : ReadBegin(x, s) \/ WriteBegin(x, s)
           \/ \E n \in Seeks : SeekBegin(x, "seek_set", n)
           \/ SeekBegin(x, "seek_end", 0) \/ SeekBegin(x, "seek_cur", 0)
           \/ CloseBegin(x) \/ CloseAgain(x)
           \/ \E k \in {"read", "write", "seek"} : BadFd(x, k)
    PROVE  IInv'
<1>1. CASE \E n \in Names, m \in DOMAIN Modes : OpenBegin(x, n, m)
  BY <1>1, OpenBeginStep
<1>2. CASE \E s \in Sizes : ReadBegin(x, s) \/ WriteBegin(x, s)
  BY <1>2, ReadBeginStep, WriteBeginStep
<1>3. CASE \E n \in Seeks : SeekBegin(x, "seek_set", n)
  <2>1. Seeks \subseteq Nat
    BY FileAssumption
  <2> QED
    BY <1>3, <2>1, SeekBeginStep
<1>4. CASE SeekBegin(x, "seek_end", 0) \/ SeekBegin(x, "seek_cur", 0)
  <2>1. 0 \in Nat
    OBVIOUS
  <2> QED
    BY <1>4, <2>1, SeekBeginStep
<1>5. CASE CloseBegin(x) \/ CloseAgain(x)
  BY <1>5, CloseBeginStep, CloseAgainStep
<1>6. CASE \E k \in {"read", "write", "seek"} : BadFd(x, k)
  BY <1>6, BadFdStep
<1> QED
  BY <1>1, <1>2, <1>3, <1>4, <1>5, <1>6

LEMMA NextInv == ASSUME IInv, Next PROVE IInv'
<1>1. CASE Int21 \/ Int21Fails \/ FrameArrives
  BY <1>1, Int21Step, Int21FailsStep, FrameArrivesStep
<1>2. CASE \E n \in Names : StatBegin(n) \/ LoadBegin(n)
  BY <1>2, StatBeginStep, LoadBeginStep
<1>3. CASE OpenCreate \/ OpenSeek \/ OpenDone \/ OpenNoMemory \/ OpenFailed
  BY <1>3, OpenCreateStep, OpenSeekStep, OpenDoneStep, OpenNoMemoryStep, OpenFailedStep
<1>4. CASE ReadNext \/ ReadDone \/ ReadFailed \/ WriteNext \/ WriteDone \/ WriteFailed
  BY <1>4, ReadNextStep, ReadDoneStep, ReadFailedStep, WriteNextStep, WriteDoneStep,
     WriteFailedStep
<1>5. CASE SeekDone \/ CloseDone \/ StatClose \/ StatDone
  BY <1>5, SeekDoneStep, CloseDoneStep, StatCloseStep, StatDoneStep
<1>6. CASE LoadNoFile \/ LoadSize \/ LoadNoSize \/ LoadNoMemory
  BY <1>6, LoadNoFileStep, LoadSizeStep, LoadNoSizeStep, LoadNoMemoryStep
<1>7. CASE LoadRead \/ LoadEnd \/ LoadDone
  BY <1>7, LoadReadStep, LoadEndStep, LoadDoneStep
<1> QED
  BY <1>1, <1>2, <1>3, <1>4, <1>5, <1>6, <1>7, ObjectStep DEF Next

LEMMA InvariantHolds == Spec => []IInv
<1>1. Init => IInv
  BY InitIInv
<1>2. IInv /\ [Next]_vars => IInv'
  BY NextInv, StutterStep
<1> QED
  BY <1>1, <1>2, PTL DEF Spec

(* No two open file objects hold the same DOS handle, the handle of an open
   object is open, and between operations every open DOS handle belongs to an
   object, unless a close or an allocation failed: whatever fails in open(),
   import and import_stat, they close what they opened, and
   uc386dos_file_ioctl forgets the handle it closes. *)
THEOREM HandlesNeverShared == Spec => []HandlesExact
<1>1. IInv => HandlesExact
  <2> SUFFICES ASSUME IInv PROVE HandlesExact
    OBVIOUS
  <2>1. ASSUME NEW x \in Objs, fd[x] # -1, op.kind # "close"
        PROVE  handle[fd[x]] # Free /\ \A y \in Objs \ {x} : fd[y] # fd[x]
    <3>1. ~Closed(fd[x])
      <4>1. Holding => fd[x] # op.fd
        BY DEF IInv, HandleInv
      <4>2. Using => req.fn # "close"
        BY <2>1 DEF IInv, FlowInv, Calls, Using
      <4> QED
        BY <4>1, <4>2 DEF Closed
    <3> QED
      BY <2>1, <3>1 DEF IInv, HandleInv
  <2>2. ASSUME pc = "idle", ~leak, NEW h \in Handles, handle[h] # Free
        PROVE  \E x \in Objs : fd[x] = h
    <3>1. ~Given /\ ~Holding
      BY <2>2, IdleIs DEF IInv
    <3> QED
      BY <2>2, <3>1 DEF IInv, HandleInv
  <2> QED
    BY <2>1, <2>2 DEF HandlesExact
<1> QED
  BY <1>1, InvariantHolds, PTL

(* The chunked loops of uc386dos_file_read, uc386dos_file_write and
   mp_lexer_new_from_file transfer exactly what was asked, for any sizes of the
   bounce buffer, the file and the request: when no frame came between and no
   error is reported, the cells read are those of the file from the position
   on, the cells written are in it and nothing else of it changed, a short
   write means a full disk, and what is compiled is the file. *)
THEOREM TransfersAreExact == Spec => []TransferIsExact
<1>1. IInv => TransferIsExact
  BY DEF IInv, ReqInv, LastInv, TransferIsExact
<1> QED
  BY <1>1, InvariantHolds, PTL

(* uc386dos_builtin_open answers ENOENT only for a file that is not there, and
   an open that returns has emptied the file only in a mode that truncates; in
   "a" the position is the end. *)
THEOREM OpenIsTruthful == Spec => []OpenTellsTruth
<1>1. IInv => OpenTellsTruth
  BY DEF IInv
<1> QED
  BY <1>1, InvariantHolds, PTL
=============================================================================
