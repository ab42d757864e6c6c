------------------------------- MODULE DosFile ------------------------------
(***************************************************************************)
(* File objects of port/file_uc386dos.c on the INT 21h calls of            *)
(* port/dosint21_uc386dos.c: open in its three modes, the chunked read and *)
(* write loops, seek, close and the loader of imported modules.            *)
(*                                                                         *)
(* Every call goes through the bounce buffer: the name at its start, data  *)
(* in its second half.  The packet driver's receiver writes to the same    *)
(* buffer from its start, so a frame may arrive between the steps of a     *)
(* call (RxStub has the details; here it is one step).  A DPMI dispatch    *)
(* may fail before it reaches DOS.                                         *)
(*                                                                         *)
(* A cell is 512 bytes.  Programs run one operation at a time.             *)
(***************************************************************************)
EXTENDS Integers, Sequences

CONSTANTS
    Objs,         \* file objects
    Names,        \* file names
    LongNames,    \* those of 1024 characters or more
    ReadOnly,     \* those DOS refuses to open for writing
    Garbage,      \* the name DOS reads when a frame covered the name
    Handles,      \* DOS handles of the process
    PathCells,    \* DOS_BOUNCE_DATA_OFFSET
    DataCells,    \* DOS_BOUNCE_DATA_MAX
    Rooms,        \* room left on the disk at the start, in cells
    Absent,       \* what the disk has under a name without a file
    Old,          \* content of the files there at the start
    Junk,         \* content of a cell a received frame was copied over
    NoObj,
    Sizes,        \* sizes of the reads and writes asked for (0 makes no call)
    Seeks,        \* offsets of the seeks asked for
    FrameCells,   \* lengths of received frames
    MaxOps, MaxFaults, MaxFrames    \* bounds

(* What a cell of a file or of the buffer holds: written data is numbered by
   the operation and the place in it. *)
Cells == Names \cup {Old, Junk} \cup (Nat \X Nat)

ASSUME FileAssumption ==
    /\ LongNames \subseteq Names /\ ReadOnly \subseteq Names
    /\ Garbage \notin Names /\ NoObj \notin Objs
    /\ Handles \subseteq Nat
    /\ PathCells \in Nat \ {0} /\ DataCells \in Nat \ {0}
    /\ Rooms \subseteq Nat
    /\ Absent \notin Seq(Cells)
    /\ Sizes \subseteq Nat \ {0} /\ Seeks \subseteq Nat
    /\ FrameCells \subseteq 1..(PathCells + DataCells)
    /\ MaxOps \in Nat /\ MaxFaults \in Nat /\ MaxFrames \in Nat

VARIABLES
    disk,         \* DOS: content of each file, Absent if there is none
    handle,       \* DOS: what each open handle refers to
    room,         \* DOS: cells left on the disk
    bounce,       \* bounce buffer
    fd,           \* fd[o]: handle in file object o, -1 when closed
    op,           \* the operation under way
    req,          \* registers of the INT 21h call under way
    ax,           \* its result
    pc,           \* "idle", "call" (at the gate) or "back"
    ops, faults, frames,
    leak,         \* history: a close or an allocation has failed
    last          \* history: the operation that ended last

dos == <<disk, handle, room>>
vars == <<dos, bounce, fd, op, req, ax, pc, ops, faults, frames, leak, last>>

Free == [name |-> Garbage, pos |-> -1, acc |-> 0]
NoReq == [fn |-> "none", fd |-> -1, n |-> 0]

(* An operation: what was asked, how far it is (step, total, buf, fd), what
   it found at its start (base: position, file: content), and whether a frame
   arrived (clean) or a call failed (steady) meanwhile. *)
NoOp == [kind |-> "none", obj |-> NoObj, name |-> Garbage, mode |-> "r",
         step |-> "none", size |-> 0, total |-> 0, base |-> 0, buf |-> <<>>,
         file |-> <<>>, fd |-> -1, err |-> "none",
         clean |-> TRUE, steady |-> TRUE]

(* The modes open() tells apart: access of AH=3D, create, truncate. *)
Modes == [r      |-> [acc |-> 0, create |-> FALSE, trunc |-> FALSE],
          rplus  |-> [acc |-> 2, create |-> FALSE, trunc |-> FALSE],
          w      |-> [acc |-> 1, create |-> TRUE,  trunc |-> TRUE],
          a      |-> [acc |-> 1, create |-> TRUE,  trunc |-> FALSE]]

Lo(x, y) == IF x < y THEN x ELSE y
Hi(x, y) == IF x < y THEN y ELSE x

Init ==
    /\ disk \in [Names \cup {Garbage} -> {Absent, <<Old, Old, Old, Old>>}]
    /\ \A n \in {Garbage} \cup LongNames : disk[n] = Absent
    /\ \A n \in ReadOnly : disk[n] # Absent
    /\ handle = [h \in Handles |-> Free]
    /\ room \in Rooms
    /\ bounce = [c \in 1..(PathCells + DataCells) |-> Junk]
    /\ fd = [o \in Objs |-> -1]
    /\ op = NoOp /\ req = NoReq /\ ax = [ok |-> TRUE, val |-> 0]
    /\ pc = "idle"
    /\ ops = 0 /\ faults = 0 /\ frames = 0
    /\ leak = FALSE /\ last = NoOp

-----------------------------------------------------------------------------
(* DOS (external): the functions of INT 21h that are used *)

Exists(n) == disk[n] # Absent
FreeHandles == {h \in Handles : handle[h] = Free}
Content(h) == disk[handle[h].name]
NameRead == IF bounce[1] \in Names THEN bounce[1] ELSE Garbage

Ok(v) == ax' = [ok |-> TRUE, val |-> v]
Error(code) == ax' = [ok |-> FALSE, val |-> code]
Refuse(code) == Error(code) /\ UNCHANGED <<dos, bounce>>

(* DOS hands out the lowest free handle. *)
NewHandle(n, acc) ==
    \E h \in FreeHandles :
        /\ \A g \in FreeHandles : h <= g
        /\ handle' = [handle EXCEPT ![h] = [name |-> n, pos |-> 0, acc |-> acc]]
        /\ Ok(h)
        /\ UNCHANGED bounce

DosOpen ==
    LET n == NameRead
        denied == n \in ReadOnly /\ req.n # 0
    IN  \/ ~Exists(n) /\ Refuse(2)
        \/ Exists(n) /\ denied /\ Refuse(5)
        \/ Exists(n) /\ ~denied /\ FreeHandles = {} /\ Refuse(4)
        \/ /\ Exists(n) /\ ~denied /\ FreeHandles # {}
           /\ NewHandle(n, req.n)
           /\ UNCHANGED <<disk, room>>

DosCreat ==
    LET n == NameRead
        denied == n \in ReadOnly /\ Exists(n)
    IN  \/ denied /\ Refuse(5)
        \/ ~denied /\ FreeHandles = {} /\ Refuse(4)
        \/ /\ ~denied /\ FreeHandles # {}
           /\ NewHandle(n, 2)
           /\ disk' = [disk EXCEPT ![n] = <<>>]
           /\ room' = room + IF Exists(n) THEN Len(disk[n]) ELSE 0

DosRead ==
    LET h == req.fd
        k == Hi(0, Lo(req.n, Len(Content(h)) - handle[h].pos))
    IN  \/ handle[h].acc = 1 /\ Refuse(5)
        \/ /\ handle[h].acc # 1
           /\ bounce' = [c \in DOMAIN bounce |->
                            IF c - PathCells \in 1..k
                            THEN Content(h)[handle[h].pos + c - PathCells]
                            ELSE bounce[c]]
           /\ handle' = [handle EXCEPT ![h].pos = @ + k]
           /\ Ok(k)
           /\ UNCHANGED <<disk, room>>

(* A write stops at the end of the disk; a gap it leaves holds anything. *)
DosWrite ==
    LET h == req.fd
        p == handle[h].pos
        old == Content(h)
        k == Hi(0, Lo(req.n, (Len(old) - p) + room))
        len == IF k = 0 THEN Len(old) ELSE Hi(p + k, Len(old))
        cell(c) == IF c - p \in 1..k THEN bounce[PathCells + c - p]
                   ELSE IF c <= Len(old) THEN old[c] ELSE Junk
    IN  \/ handle[h].acc = 0 /\ Refuse(5)
        \/ /\ handle[h].acc # 0
           /\ disk' = [disk EXCEPT ![handle[h].name] = [c \in 1..len |-> cell(c)]]
           /\ room' = room - (len - Len(old))
           /\ handle' = [handle EXCEPT ![h].pos = @ + k]
           /\ Ok(k)
           /\ UNCHANGED bounce

DosClose ==
    /\ handle' = [handle EXCEPT ![req.fd] = Free]
    /\ Ok(0)
    /\ UNCHANGED <<disk, room, bounce>>

(* req.n is the position sought; SEEK_END asks for the length. *)
DosLseek ==
    LET p == CASE req.fn = "seek_end" -> Len(Content(req.fd))
               [] req.fn = "seek_cur" -> handle[req.fd].pos
               [] req.fn = "seek_set" -> req.n
    IN  /\ handle' = [handle EXCEPT ![req.fd].pos = p]
        /\ Ok(p)
        /\ UNCHANGED <<disk, room, bounce>>

(* dos_int21_call reaches DOS through the real-mode thunk ... *)
Int21 ==
    /\ pc = "call"
    /\ \/ req.fn = "open" /\ DosOpen
       \/ req.fn = "creat" /\ DosCreat
       \/ req.fn = "read" /\ DosRead
       \/ req.fn = "write" /\ DosWrite
       \/ req.fn = "close" /\ DosClose
       \/ req.fn \in {"seek_end", "seek_cur", "seek_set"} /\ DosLseek
    /\ pc' = "back"
    /\ UNCHANGED <<fd, op, req, ops, faults, frames, leak, last>>

(* ... or fails before it does, with the error code left at 0. *)
Int21Fails ==
    /\ pc = "call" /\ faults < MaxFaults
    /\ faults' = faults + 1
    /\ op' = [op EXCEPT !.steady = FALSE]
    /\ leak' = (leak \/ req.fn = "close")
    /\ Error(0)
    /\ pc' = "back"
    /\ UNCHANGED <<dos, bounce, fd, req, ops, frames, last>>

(* External: the receiver has a frame copied to the buffer's start. *)
FrameArrives ==
    /\ pc # "idle" /\ frames < MaxFrames
    /\ frames' = frames + 1
    /\ \E n \in FrameCells :
          bounce' = [c \in DOMAIN bounce |-> IF c <= n THEN Junk ELSE bounce[c]]
    /\ op' = [op EXCEPT !.clean = FALSE]
    /\ UNCHANGED <<dos, fd, req, ax, pc, ops, faults, leak, last>>

-----------------------------------------------------------------------------
(* The INT 21h wrappers, up to the gate *)

Gate(fn, h, n) == req' = [fn |-> fn, fd |-> h, n |-> n] /\ pc' = "call"

(* dos_int21_open and dos_int21_creat put the name at the buffer's start. A
   name that does not fit (or, before the buffer is found, any name) fails
   with the error code left at 0. *)
NameCall(fn, name, acc) ==
    \/ /\ name \in LongNames
       /\ Error(0) /\ pc' = "back"
       /\ UNCHANGED <<bounce, req>>
    \/ /\ name \notin LongNames
       /\ bounce' = [bounce EXCEPT ![1] = name]
       /\ Gate(fn, -1, acc)
       /\ UNCHANGED ax

OpenCall(name, acc) == NameCall("open", name, acc)
CreatCall(name) == NameCall("creat", name, 0)

FdCall(fn, h, n) == Gate(fn, h, n) /\ UNCHANGED <<bounce, ax>>
CloseCall(h) == FdCall("close", h, 0)
SeekCall(whence, h, n) == FdCall(whence, h, n)

(* dos_int21_read clamps the count ... *)
ReadCall(h, n) == FdCall("read", h, Lo(n, DataCells))

(* ... and on return copies what DOS put in the second half of the buffer. *)
ReadData == [c \in 1..Lo(ax.val, req.n) |-> bounce[PathCells + c]]

(* dos_int21_write copies the data there first. *)
WriteCall(h, data) ==
    LET k == Lo(Len(data), DataCells)
    IN  /\ bounce' = [c \in DOMAIN bounce |->
                        IF c - PathCells \in 1..k THEN data[c - PathCells]
                        ELSE bounce[c]]
        /\ Gate("write", h, k)
        /\ UNCHANGED ax

-----------------------------------------------------------------------------
(* Starting, continuing and ending an operation.  The caller's code changes
   nothing of DOS and, except where it says so, no file object. *)

Enter == pc = "idle" /\ ops < MaxOps /\ ops' = ops + 1
         /\ UNCHANGED <<dos, fd, faults, frames, leak>>
Begin == Enter /\ UNCHANGED last
Back(kind) == pc = "back" /\ op.kind = kind
              /\ UNCHANGED <<dos, ops, frames>>
Go(o) == op' = o /\ UNCHANGED <<fd, faults, leak, last>>
Return(o) ==
    /\ last' = o /\ op' = NoOp /\ req' = NoReq /\ pc' = "idle"
    /\ UNCHANGED <<bounce, ax>>
End(o) == Return(o) /\ UNCHANGED <<fd, faults, leak>>

(* An operation on a file object: EBADF when it is closed. *)
OnObject(o, kind) ==
    [NoOp EXCEPT !.kind = kind, !.obj = o, !.fd = fd[o],
                 !.base = IF fd[o] >= 0 THEN handle[fd[o]].pos ELSE 0,
                 !.file = IF fd[o] >= 0 THEN Content(fd[o]) ELSE <<>>]
BadFd(o, kind) ==
    /\ Enter
    /\ fd[o] < 0
    /\ Return([OnObject(o, kind) EXCEPT !.err = "EBADF"])

-----------------------------------------------------------------------------
(* open() *)

OpenBegin(o, n, m) ==
    /\ fd[o] = -1
    /\ Begin
    /\ \/ Modes[m].trunc /\ CreatCall(n)
       \/ ~Modes[m].trunc /\ OpenCall(n, Modes[m].acc)
    /\ op' = [NoOp EXCEPT !.kind = "open", !.obj = o, !.name = n, !.mode = m,
                          !.step = IF Modes[m].trunc THEN "creat" ELSE "open",
                          !.file = disk[n]]

(* "a" creates the file when it could not be opened ... *)
OpenCreate ==
    /\ Back("open")
    /\ op.step = "open" /\ ~ax.ok /\ Modes[op.mode].create
    /\ CreatCall(op.name)
    /\ Go([op EXCEPT !.step = "creat"])

(* ... and goes to its end. *)
Appending == Modes[op.mode].create /\ ~Modes[op.mode].trunc

OpenSeek ==
    /\ Back("open")
    /\ op.step \in {"open", "creat"} /\ ax.ok /\ Appending
    /\ SeekCall("seek_end", ax.val, 0)
    /\ Go([op EXCEPT !.step = "seek", !.fd = ax.val])

OpenFd == IF op.step = "seek" THEN op.fd ELSE ax.val
OpenReady == op.step = "seek" \/ (ax.ok /\ ~Appending)

OpenDone ==
    /\ Back("open") /\ OpenReady
    /\ fd' = [fd EXCEPT ![op.obj] = OpenFd]
    /\ Return([op EXCEPT !.fd = OpenFd])
    /\ UNCHANGED <<faults, leak>>

(* mp_obj_malloc raises: nobody closes the handle. *)
OpenNoMemory ==
    /\ Back("open") /\ OpenReady
    /\ faults < MaxFaults /\ faults' = faults + 1
    /\ leak' = TRUE
    /\ Return([op EXCEPT !.err = "ENOMEM"])
    /\ UNCHANGED fd

(* Fault form: "This used to raise ENOENT unconditionally". *)
ErrnoAlwaysEnoent(code) == "ENOENT"

Errno(code) == CASE code = 0 -> "EIO"
                 [] code = 4 -> "EMFILE"
                 [] code = 5 -> "EACCES"
                 [] OTHER -> "ENOENT"

OpenFailed ==
    /\ Back("open")
    /\ ~ax.ok /\ (op.step = "creat" \/ (op.step = "open" /\ ~Modes[op.mode].create))
    /\ End([op EXCEPT !.err = Errno(ax.val)])

-----------------------------------------------------------------------------
(* read() and write(): loops over chunks the bounce buffer can hold *)

ReadBegin(o, size) ==
    /\ fd[o] >= 0
    /\ Begin
    /\ ReadCall(fd[o], size)
    /\ op' = [OnObject(o, "read") EXCEPT !.size = size]

ReadGot == [op EXCEPT !.buf = @ \o ReadData, !.total = @ + Len(ReadData)]

ReadNext ==
    /\ Back("read") /\ ax.ok
    /\ ReadGot.total > op.total /\ ReadGot.total < op.size
    /\ ReadCall(op.fd, op.size - ReadGot.total)
    /\ Go(ReadGot)

ReadDone ==
    /\ Back("read") /\ ax.ok
    /\ ReadGot.total = op.total \/ ReadGot.total >= op.size
    /\ End(ReadGot)

(* What earlier chunks delivered is not reported. *)
ReadFailed == Back("read") /\ ~ax.ok /\ End([op EXCEPT !.err = "EIO"])

Data(o) == [c \in 1..o.size |-> <<ops, c>>]

WriteBegin(o, size) ==
    /\ fd[o] >= 0
    /\ Begin
    /\ WriteCall(fd[o], [c \in 1..size |-> <<ops', c>>])
    /\ op' = [OnObject(o, "write") EXCEPT !.size = size]

WriteGot == [op EXCEPT !.total = @ + ax.val]

(* Fault form: the next chunk is copied from the start of the caller's buffer. *)
WriteNextFromStart ==
    /\ Back("write") /\ ax.ok
    /\ ax.val > 0 /\ WriteGot.total < op.size
    /\ WriteCall(op.fd, SubSeq(Data(op), 1, op.size - WriteGot.total))
    /\ Go(WriteGot)

WriteNext ==
    /\ Back("write") /\ ax.ok
    /\ ax.val > 0 /\ WriteGot.total < op.size
    /\ WriteCall(op.fd, SubSeq(Data(op), WriteGot.total + 1, op.size))
    /\ Go(WriteGot)

WriteDone ==
    /\ Back("write") /\ ax.ok
    /\ ax.val = 0 \/ WriteGot.total >= op.size
    /\ End([WriteGot EXCEPT !.buf = Data(op)])

WriteFailed == Back("write") /\ ~ax.ok /\ End([op EXCEPT !.err = "EIO"])

-----------------------------------------------------------------------------
(* seek() and close() *)

SeekBegin(o, whence, n) ==
    /\ fd[o] >= 0
    /\ Begin
    /\ SeekCall(whence, fd[o], n)
    /\ op' = [OnObject(o, "seek") EXCEPT !.size = n]

SeekDone ==
    /\ Back("seek")
    /\ \/ ax.ok /\ End([op EXCEPT !.total = ax.val])
       \/ ~ax.ok /\ End([op EXCEPT !.err = "EIO"])

CloseBegin(o) ==
    /\ fd[o] >= 0
    /\ Begin
    /\ CloseCall(fd[o])
    /\ op' = OnObject(o, "close")

CloseAgain(o) ==
    /\ fd[o] < 0
    /\ Enter
    /\ Return(OnObject(o, "close"))

(* Fault form: the object keeps the handle it has closed. *)
CloseDoneKeepsFd == Back("close") /\ End(op)

(* Closed whatever DOS answered. *)
CloseDone ==
    /\ Back("close")
    /\ fd' = [fd EXCEPT ![op.obj] = -1]
    /\ Return(op)
    /\ UNCHANGED <<faults, leak>>

-----------------------------------------------------------------------------
(* mp_import_stat: FILE or NO_EXIST *)

StatBegin(n) ==
    /\ Begin
    /\ OpenCall(n, 0)
    /\ op' = [NoOp EXCEPT !.kind = "stat", !.name = n, !.step = "open",
                          !.file = disk[n]]

StatClose ==
    /\ Back("stat")
    /\ op.step = "open" /\ ax.ok
    /\ CloseCall(ax.val)
    /\ Go([op EXCEPT !.step = "close", !.fd = ax.val])

StatDone ==
    /\ Back("stat")
    /\ \/ op.step = "open" /\ ~ax.ok /\ End([op EXCEPT !.err = "NO_EXIST"])
       \/ op.step = "close" /\ End(op)

-----------------------------------------------------------------------------
(* mp_lexer_new_from_file: the size (three seeks), then a read loop *)

LoadBegin(n) ==
    /\ Begin
    /\ OpenCall(n, 0)
    /\ op' = [NoOp EXCEPT !.kind = "load", !.name = n, !.step = "open",
                          !.file = disk[n]]

LoadNoFile ==
    /\ Back("load")
    /\ op.step = "open" /\ ~ax.ok
    /\ End([op EXCEPT !.err = "ENOENT"])

(* dos_int21_fsize *)
LoadSize ==
    /\ Back("load") /\ ax.ok
    /\ \/ /\ op.step = "open"
          /\ SeekCall("seek_cur", ax.val, 0)
          /\ Go([op EXCEPT !.step = "cur", !.fd = ax.val])
       \/ /\ op.step = "cur"
          /\ SeekCall("seek_end", op.fd, 0)
          /\ Go([op EXCEPT !.step = "end", !.base = ax.val])
       \/ /\ op.step = "end"
          /\ SeekCall("seek_set", op.fd, op.base)
          /\ Go([op EXCEPT !.step = "set", !.size = ax.val])

LoadNoSize ==
    /\ Back("load") /\ ~ax.ok
    /\ op.step \in {"cur", "end"}
    /\ CloseCall(op.fd)
    /\ Go([op EXCEPT !.step = "close", !.err = "EIO"])

(* m_new raises: nobody closes the handle. *)
LoadNoMemory ==
    /\ Back("load") /\ op.step = "set"
    /\ faults < MaxFaults /\ faults' = faults + 1
    /\ leak' = TRUE
    /\ Return([op EXCEPT !.err = "ENOMEM"])
    /\ UNCHANGED fd

LoadGot == IF op.step = "read" /\ ax.ok THEN ReadGot ELSE op

(* read() returned 0 or an error. *)
LoadStops == op.step = "read" /\ (~ax.ok \/ ReadGot.total = op.total)

LoadRead ==
    /\ Back("load") /\ op.step \in {"set", "read"}
    /\ ~LoadStops /\ LoadGot.total < op.size
    /\ ReadCall(op.fd, op.size - LoadGot.total)
    /\ Go([LoadGot EXCEPT !.step = "read"])

(* The end, or an error: either way what was read is what is compiled. *)
LoadEnd ==
    /\ Back("load") /\ op.step \in {"set", "read"}
    /\ LoadStops \/ LoadGot.total >= op.size
    /\ CloseCall(op.fd)
    /\ Go([LoadGot EXCEPT !.step = "close"])

LoadDone == Back("load") /\ op.step = "close" /\ End(op)

-----------------------------------------------------------------------------
Next ==
    \/ Int21 \/ Int21Fails \/ FrameArrives
    \/ \E o \in Objs :
          \/ \E n \in Names, m \in DOMAIN Modes : OpenBegin(o, n, m)
          \/ \E s \in Sizes : ReadBegin(o, s) \/ WriteBegin(o, s)
          \/ \E n \in Seeks : SeekBegin(o, "seek_set", n)
          \/ SeekBegin(o, "seek_end", 0) \/ SeekBegin(o, "seek_cur", 0)
          \/ CloseBegin(o) \/ CloseAgain(o)
          \/ \E k \in {"read", "write", "seek"} : BadFd(o, k)
    \/ \E n \in Names : StatBegin(n) \/ LoadBegin(n)
    \/ OpenCreate \/ OpenSeek \/ OpenDone \/ OpenNoMemory \/ OpenFailed
    \/ ReadNext \/ ReadDone \/ ReadFailed
    \/ WriteNext \/ WriteDone \/ WriteFailed
    \/ SeekDone \/ CloseDone
    \/ StatClose \/ StatDone
    \/ LoadNoFile \/ LoadSize \/ LoadNoSize \/ LoadNoMemory
    \/ LoadRead \/ LoadEnd \/ LoadDone

Spec == Init /\ [][Next]_vars

-----------------------------------------------------------------------------
(* Properties *)

(* Transfers that no frame disturbed and that report no error.
   uc386dos_file_read: the caller has exactly the file's cells from the position
   on, up to the size asked or the end, and the position is just after them.
   uc386dos_file_write: the first `total` cells asked for are in the file at the
   position, the rest of it is as it was, and fewer are written only when the
   disk is full.  mp_lexer_new_from_file compiles the file as it is on the disk,
   if no call failed.  No call asks DOS for more than the data half of the
   bounce buffer. *)
TransferIsExact ==
    /\ req.fn \in {"read", "write"} => req.n \in 1..DataCells
    /\ last.kind = "read" /\ last.err = "none" /\ last.clean =>
          /\ last.buf = SubSeq(last.file, last.base + 1,
                               Lo(last.base + last.size, Len(last.file)))
          /\ pc = "idle" => handle[last.fd].pos = last.base + Len(last.buf)
    /\ pc = "idle" /\ last.kind = "write" /\ last.err = "none" /\ last.clean =>
          LET now == Content(last.fd)
          IN  /\ \A c \in 1..last.total : now[last.base + c] = last.buf[c]
              /\ \A c \in DOMAIN last.file :
                    c - last.base \notin 1..last.total => now[c] = last.file[c]
              /\ last.total < last.size =>
                    room <= Hi(0, last.base - Len(last.file))
    /\ last.kind = "load" /\ last.err = "none" /\ last.clean /\ last.steady =>
          last.buf = last.file

(* Two open file objects never hold the same DOS handle, and the handle of an
   open object is open (uc386dos_file_ioctl forgets the handle it closes; DOS
   gives its number out again).  Between operations every open DOS handle
   belongs to a file object: all error paths of open(), import and import_stat
   close what they opened, except where a close or an allocation itself
   failed. *)
HandlesExact ==
    /\ \A o \in Objs :
          fd[o] # -1 /\ op.kind # "close" =>
              /\ handle[fd[o]] # Free
              /\ \A p \in Objs \ {o} : fd[p] # fd[o]
    /\ pc = "idle" /\ ~leak =>
          \A h \in Handles : handle[h] # Free => \E o \in Objs : fd[o] = h

(* What open() tells is so, unless a frame covered the name
   (uc386dos_builtin_open).  ENOENT is answered only for a file that is not there
   ("Report what actually went wrong").  An open that returns, no call having
   failed on the way, emptied the file only in a mode that truncates; in "a" a
   missing file was created and the position is the end ("only create when the
   file is genuinely absent"). *)
OpenTellsTruth ==
    last.kind = "open" /\ last.clean =>
        /\ last.err = "ENOENT" => last.file = Absent
        /\ last.err = "none" /\ last.steady /\ pc = "idle" =>
              /\ disk[last.name] = IF Modes[last.mode].trunc \/ last.file = Absent
                                   THEN <<>> ELSE last.file
              /\ last.mode = "a" => handle[last.fd].pos = Len(disk[last.name])
=============================================================================
