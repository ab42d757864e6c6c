-------------------------------- MODULE Ssh ---------------------------------
(***************************************************************************)
(* port/modssh_uc386dos.c: the Session, SFTP, SFTPFile and SFTPDir objects *)
(* and the loops of exec, scp_recv, scp_send and of reading and writing a  *)
(* remote file.                                                            *)
(*                                                                         *)
(* Every object holds a pointer into libssh2 and a reference to the object *)
(* it was made from; the session's socket is known to libssh2 only by a    *)
(* pointer the garbage collector does not see.  Objects have no finaliser. *)
(*                                                                         *)
(* libssh2 (external) is in blocking mode.  _ssh_recv_cb turns a closed    *)
(* peer into "no data yet", and the wait of the port's build returns at    *)
(* once, so a call then waits inside libssh2 for what can not come any     *)
(* more: it has no step here, and LIBSSH2_ERROR_EAGAIN never reaches the   *)
(* loops.  One session; a script runs one call at a time.                  *)
(***************************************************************************)
EXTENDS Integers, SequencesExt

CONSTANTS
    Sock, Session,     \* the socket and Session objects
    Sftps, Handles,    \* SFTP objects; SFTPFile and SFTPDir objects
    NoObj,
    Cells,             \* bytes, each standing for a run of them
    Nul,               \* the cell that ends an SCP transfer
    Output,            \* what the command run by exec writes
    RemoteFile,        \* content of the file read
    Payloads,          \* data written or uploaded
    Limits,            \* arguments of SFTPFile.read, -1 for none
    ExecBuf, SftpBuf,  \* cells of the local buffers
    MaxWritten         \* bound on what is written through one handle

ASSUME SshAssumption ==
    /\ Sock # Session /\ {Sock, Session, NoObj} \cap (Sftps \cup Handles) = {}
    /\ Sftps \cap Handles = {} /\ NoObj \notin {Sock, Session}
    /\ Nul \in Cells /\ Output \in Seq(Cells) /\ RemoteFile \in Seq(Cells)
    /\ Payloads \subseteq Seq(Cells)
    /\ Limits \subseteq Nat \cup {-1}
    /\ ExecBuf \in Nat \ {0} /\ SftpBuf \in Nat \ {0} /\ MaxWritten \in Nat

VARIABLES
    live,       \* Python objects allocated and not collected
    roots,      \* objects the script has a reference to
    ref,        \* ref[o]: the object o keeps a reference to
    ptr,        \* ptr[o]: the libssh2 pointer of o is not NULL
    lib,        \* lib[o]: what that pointer points to
    channel,    \* the channel of exec or SCP is open
    conn,       \* the TCP connection
    peer,       \* other end of the channel: cells to send, cells queued in
                \* libssh2, end of channel arrived, cells received
    rf,         \* remote files: mode, position and what was written
    op,         \* the call under way
    last,       \* history: the call that ended last
    orderly,    \* history: no parent was closed before its children
    noMem,      \* history: an allocation failed
    misused     \* a libssh2 function got a pointer to freed memory

objVars == <<live, roots, ref, ptr, lib>>
hist == <<orderly, noMem, misused>>
vars == <<objVars, channel, conn, peer, rf, op, last, hist>>

Objs == {Sock, Session} \cup Sftps \cup Handles
Wrapped == Objs \ {Sock}

NoOp == [kind |-> "none", obj |-> NoObj, new |-> NoObj, step |-> "none",
         mode |-> "none", buf |-> <<>>, data |-> <<>>, p |-> 0, left |-> 0,
         base |-> 0, asked |-> 0, err |-> "none", clean |-> TRUE]
NoPeer == [out |-> <<>>, queue |-> <<>>, eof |-> FALSE, got |-> <<>>]

Init ==
    /\ live = {Sock} /\ roots = {Sock}
    /\ ref = [o \in Objs |-> NoObj]
    /\ ptr = [o \in Wrapped |-> FALSE]
    /\ lib = [o \in Wrapped |-> "none"]
    /\ channel = FALSE /\ conn = "up" /\ peer = NoPeer
    /\ rf = [h \in Handles |-> [mode |-> "none", pos |-> 0, data |-> <<>>]]
    /\ op = NoOp /\ last = NoOp
    /\ orderly = TRUE /\ noMem = FALSE /\ misused = FALSE

Lo(x, y) == IF x < y THEN x ELSE y

(* External: what libssh2 frees with o.  A session takes everything made from
   it along, an SFTP object its handles. *)
Under(o) ==
    CASE o = Session -> Wrapped
      [] o \in Sftps -> {o} \cup {h \in Handles : ref[h] = o}
      [] OTHER -> {o}

-----------------------------------------------------------------------------
(* Environment *)

Refs(S) == S \cup ({ref[o] : o \in S} \ {NoObj})
Reachable == Refs(Refs(Refs(roots \cup ({op.obj} \ {NoObj}))))

(* External: the collector; any allocation may start it. *)
Collect ==
    /\ live \ Reachable # {}
    /\ live' = live \cap Reachable
    /\ UNCHANGED <<roots, ref, ptr, lib, channel, conn, peer, rf, op, last, hist>>

(* The script forgets an object, and with it the result of the last call. *)
Drop(o) ==
    /\ op.kind = "none" /\ o \in roots
    /\ roots' = roots \ {o}
    /\ last' = NoOp /\ peer' = NoPeer
    /\ UNCHANGED <<live, ref, ptr, lib, channel, conn, rf, op, hist>>

(* External: the server sends the output of the channel, then ends it. *)
PeerSend ==
    /\ conn = "up" /\ op.step \in {"loop", "finish"} /\ peer.out # <<>>
    /\ peer' = [peer EXCEPT !.out = Tail(@), !.queue = Append(@, Head(peer.out))]
    /\ UNCHANGED <<objVars, channel, conn, rf, op, last, hist>>

PeerEnd ==
    /\ conn = "up" /\ op.step \in {"loop", "finish"} /\ peer.out = <<>> /\ ~peer.eof
    /\ op.kind = "scp_send" => op.step = "finish"
    /\ peer' = [peer EXCEPT !.eof = TRUE]
    /\ UNCHANGED <<objVars, channel, conn, rf, op, last, hist>>

(* External: the peer closes its side ("fin"), the connection is lost, or
   libssh2 gives up on it for another reason ("bad"). *)
ConnEnds ==
    /\ conn = "up"
    /\ conn' \in {"fin", "lost", "bad"}
    /\ UNCHANGED <<objVars, channel, peer, rf, op, last, hist>>

Dead == conn \in {"lost", "bad"}
Answers == conn # "fin"      \* a request gets an answer or an error

-----------------------------------------------------------------------------
(* Beginning and ending a call *)

Return(o) ==
    /\ last' = [o EXCEPT !.clean = ~Dead]
    /\ op' = NoOp

Raise(err) == Return([op EXCEPT !.err = err])

(* Methods begin with the test of the pointer of their own object. *)
Ebadf(o) ==
    /\ op.kind = "none" /\ o \in roots /\ ~ptr[o]
    /\ last' = [NoOp EXCEPT !.obj = o, !.err = "EBADF"]
    /\ UNCHANGED <<objVars, channel, conn, peer, rf, op, hist>>

(* A pointer that passes the test although libssh2 has freed the object:
   undefined from here on. *)
DeadCall(o) ==
    /\ op.kind = "none" /\ o \in roots /\ ptr[o] /\ lib[o] # "open"
    /\ misused' = TRUE
    /\ UNCHANGED <<objVars, channel, conn, peer, rf, op, last, orderly, noMem>>

Begin(o, k, rest) ==
    /\ op.kind = "none" /\ o \in roots /\ ptr[o] /\ lib[o] = "open"
    /\ op' = [rest EXCEPT !.kind = k, !.obj = o, !.step = "call"]
    /\ last' = NoOp /\ peer' = NoPeer
    /\ UNCHANGED <<objVars, channel, conn, rf, hist>>

At(k, step) == op.kind = k /\ op.step = step

(* Any allocation of a call may fail; nothing it holds is given back. *)
NoMemory ==
    /\ \/ op.kind \in {"exec", "scp_recv"} /\ op.step = "loop"
       \/ op.kind = "read"
    /\ noMem' = TRUE
    /\ Raise("MemoryError")
    /\ UNCHANGED <<objVars, channel, conn, peer, rf, orderly, misused>>

-----------------------------------------------------------------------------
(* Making objects *)

Made(o, parent) ==
    /\ live' = live \cup {o} /\ roots' = roots \cup {o}
    /\ ref' = [ref EXCEPT ![o] = parent]
    /\ ptr' = [ptr EXCEPT ![o] = TRUE]
    /\ lib' = [lib EXCEPT ![o] = "open"]

(* ssh_session_make_new: the libssh2 session of a failed preference or
   handshake is given up, not freed. *)
SessionNew ==
    /\ op.kind = "none" /\ Sock \in roots /\ lib[Session] = "none"
    /\ Answers
    /\ \/ conn = "up" /\ Made(Session, Sock)
       \/ lib' = [lib EXCEPT ![Session] = "given_up"]
          /\ UNCHANGED <<live, roots, ref, ptr>>
    /\ UNCHANGED <<channel, conn, peer, rf, op, last, hist>>

(* userauth_password and userauth_publickey change nothing else. *)
Auth ==
    /\ At("auth", "call") /\ Answers
    /\ \/ conn = "up" /\ Return(op)
       \/ Raise("OSError")
    /\ UNCHANGED <<objVars, channel, conn, peer, rf, hist>>

(* session.sftp(), sftp.open() in its two modes and sftp.opendir(). *)
MakeBegin(parent, o, mode) ==
    /\ lib[o] = "none"
    /\ Begin(parent, "make", [NoOp EXCEPT !.new = o, !.mode = mode])

OpenRemote == rf' = IF op.new \in Handles THEN [rf EXCEPT ![op.new].mode = op.mode]
                    ELSE rf

(* Fault form: the new object does not keep its parent. *)
MakeDoneNoParent ==
    /\ At("make", "call") /\ conn = "up"
    /\ Made(op.new, NoObj) /\ OpenRemote
    /\ Return(op)
    /\ UNCHANGED <<channel, conn, peer, hist>>

MakeDone ==
    /\ At("make", "call") /\ conn = "up"
    /\ Made(op.new, op.obj) /\ OpenRemote
    /\ Return(op)
    /\ UNCHANGED <<channel, conn, peer, hist>>

MakeFailed ==
    /\ At("make", "call") /\ Answers
    /\ Raise("OSError")
    /\ UNCHANGED <<objVars, channel, conn, peer, rf, hist>>

(* mp_obj_malloc fails after libssh2 opened the handle. *)
MakeNoMemory ==
    /\ At("make", "call") /\ conn = "up"
    /\ lib' = [lib EXCEPT ![op.new] = "given_up"]
    /\ noMem' = TRUE
    /\ Raise("MemoryError")
    /\ UNCHANGED <<live, roots, ref, ptr, channel, conn, peer, rf, orderly, misused>>

(* mkdir, rmdir, unlink, rename, stat, realpath and SFTPDir.read: one request. *)
Request ==
    /\ At("request", "call") /\ Answers
    /\ \/ conn = "up" /\ Return(op)
       \/ Raise("OSError")
    /\ UNCHANGED <<objVars, channel, conn, peer, rf, hist>>

-----------------------------------------------------------------------------
(* Channels: exec, scp_recv, scp_send *)

Eof == peer.eof /\ peer.queue = <<>>     \* libssh2_channel_eof

Goto(step) == op' = [op EXCEPT !.step = step] /\ UNCHANGED last

OpenChannel(k, out, next) ==
    /\ At(k, "call") /\ conn = "up"
    /\ channel' = TRUE
    /\ peer' = [NoPeer EXCEPT !.out = out]
    /\ Goto(next)
    /\ UNCHANGED <<objVars, conn, rf, hist>>

OpenFailed ==
    /\ op.kind \in {"exec", "scp_recv", "scp_send"} /\ op.step = "call" /\ Answers
    /\ Raise("OSError")
    /\ UNCHANGED <<objVars, channel, conn, peer, rf, hist>>

FreeAndRaise ==
    /\ channel' = FALSE
    /\ Raise("OSError")
    /\ UNCHANGED <<objVars, conn, peer, rf, hist>>

(* libssh2_channel_exec after the channel is open. *)
ExecStart ==
    /\ At("exec", "exec") /\ conn = "up"
    /\ Goto("loop")
    /\ UNCHANGED <<objVars, channel, conn, peer, rf, hist>>

(* Fault form: the channel of a failed exec is not freed. *)
ExecRefusedKept ==
    /\ At("exec", "exec") /\ Answers
    /\ Raise("OSError")
    /\ UNCHANGED <<objVars, channel, conn, peer, rf, hist>>

ExecRefused ==
    /\ At("exec", "exec") /\ Answers
    /\ FreeAndRaise

(* One libssh2_channel_read that returns k > 0 cells. *)
Take(k) ==
    /\ ~Dead /\ k <= Len(peer.queue)
    /\ peer' = [peer EXCEPT !.queue = SubSeq(@, k + 1, Len(@))]
    /\ UNCHANGED <<objVars, channel, conn, rf, last, hist>>

ExecData(k) ==
    /\ At("exec", "loop")
    /\ Take(k)
    /\ op' = [op EXCEPT !.buf = @ \o SubSeq(peer.queue, 1, k)]


ExecEnd ==
    /\ At("exec", "loop") /\ Eof /\ ~Dead
    /\ Goto("finish")
    /\ UNCHANGED <<objVars, channel, conn, peer, rf, hist>>

(* A failed read ends the output without an error if there is any, if the end
   of the channel was seen, or if the connection was lost. *)
ExecError ==
    /\ At("exec", "loop") /\ Dead
    /\ IF op.buf # <<>> \/ Eof \/ conn = "lost"
       THEN Goto("finish") /\ UNCHANGED <<objVars, channel, conn, peer, rf, hist>>
       ELSE FreeAndRaise

ScpData(k) ==
    /\ At("scp_recv", "loop")
    /\ Take(k)
    /\ op' = [op EXCEPT !.buf = @ \o SubSeq(peer.queue, 1, k),
                        !.step = IF peer.eof /\ k = Len(peer.queue) THEN "finish"
                                 ELSE "loop"]

ScpEnd ==
    /\ At("scp_recv", "loop") /\ Eof /\ ~Dead
    /\ Goto("finish")
    /\ UNCHANGED <<objVars, channel, conn, peer, rf, hist>>

ScpError ==
    /\ At("scp_recv", "loop") /\ Dead
    /\ IF conn = "lost"
       THEN Goto("finish") /\ UNCHANGED <<objVars, channel, conn, peer, rf, hist>>
       ELSE FreeAndRaise

Strip(s) == IF s # <<>> /\ s[Len(s)] = Nul THEN SubSeq(s, 1, Len(s) - 1) ELSE s

Advance(k) == op' = [op EXCEPT !.p = @ + k, !.left = @ - k] /\ UNCHANGED last

(* libssh2_channel_write takes k of the cells left. *)
ScpWrite(k) ==
    /\ At("scp_send", "loop") /\ ~Dead /\ k <= op.left
    /\ peer' = [peer EXCEPT !.got = @ \o SubSeq(op.data, op.p + 1, op.p + k)]
    /\ Advance(k)
    /\ UNCHANGED <<objVars, channel, conn, rf, hist>>

ScpWriteError ==
    /\ At("scp_send", "loop") /\ op.left > 0 /\ Dead
    /\ FreeAndRaise

(* The terminator; an error of this write is ignored. *)
ScpTerminate ==
    /\ At("scp_send", "loop") /\ op.left = 0
    /\ peer' = IF Dead THEN peer ELSE [peer EXCEPT !.got = Append(@, Nul)]
    /\ Goto("finish")
    /\ UNCHANGED <<objVars, channel, conn, rf, hist>>

(* send_eof, close and free; close waits until the other end has closed. *)
Finish ==
    /\ op.step = "finish" /\ (Dead \/ peer.eof)
    /\ channel' = FALSE
    /\ Return(IF op.kind = "scp_recv" THEN [op EXCEPT !.buf = Strip(@)] ELSE op)
    /\ UNCHANGED <<objVars, conn, peer, rf, hist>>

-----------------------------------------------------------------------------
(* SFTPFile.read and SFTPFile.write; base is the place the call began at *)

Want == IF op.left < 0 \/ SftpBuf <= op.left THEN SftpBuf ELSE op.left
Rest(h) == SubSeq(RemoteFile, rf[h].pos + 1, Len(RemoteFile))

(* Fault form: what was read is not counted off the limit. *)
CountOffNever(left, k) == left

CountOff(left, k) == IF left > 0 THEN left - k ELSE left

ReadData(k) ==
    /\ At("read", "call") /\ conn = "up" /\ rf[op.obj].mode = "r"
    /\ k <= Lo(Want, Len(Rest(op.obj)))
    /\ rf' = [rf EXCEPT ![op.obj].pos = @ + k]
    /\ LET more == [op EXCEPT !.buf = @ \o SubSeq(Rest(op.obj), 1, k),
                              !.left = CountOff(@, k)]
       IN  IF op.left > 0 /\ more.left = 0 THEN Return(more)
           ELSE op' = more /\ UNCHANGED last
    /\ UNCHANGED <<objVars, channel, conn, peer, hist>>

ReadEnd ==
    /\ At("read", "call") /\ conn = "up" /\ rf[op.obj].mode = "r"
    /\ Rest(op.obj) = <<>> \/ Want = 0
    /\ Return(op)
    /\ UNCHANGED <<objVars, channel, conn, peer, rf, hist>>

WriteData(k) ==
    /\ At("write", "call") /\ conn = "up" /\ rf[op.obj].mode = "w" /\ k <= op.left
    /\ rf' = [rf EXCEPT ![op.obj].data = @ \o SubSeq(op.data, op.p + 1, op.p + k)]
    /\ Advance(k)
    /\ UNCHANGED <<objVars, channel, conn, peer, hist>>

(* Nothing left, or libssh2_sftp_write took nothing. *)
WriteEnd ==
    /\ At("write", "call")
    /\ op.left = 0 \/ conn = "up"
    /\ Return(op)
    /\ UNCHANGED <<objVars, channel, conn, peer, rf, hist>>

(* libssh2_sftp_read or libssh2_sftp_write fails. *)
TransferError ==
    /\ op.kind \in {"read", "write"} /\ Answers
    /\ op.kind = "write" => op.left > 0
    /\ Raise("OSError")
    /\ UNCHANGED <<objVars, channel, conn, peer, rf, hist>>

-----------------------------------------------------------------------------
(* Closing: SFTPFile, SFTPDir, SFTP and Session *)

Closed(o) == ptr' = [ptr EXCEPT ![o] = FALSE]

Close ==
    /\ At("close", "call") /\ Answers
    /\ lib' = [o \in Wrapped |-> IF o \in Under(op.obj) /\ lib[o] = "open"
                                 THEN "freed" ELSE lib[o]]
    /\ Closed(op.obj)
    /\ channel' = (channel /\ op.obj # Session)
    /\ orderly' = (orderly /\ \A o \in Under(op.obj) \ {op.obj} : ~ptr[o])
    /\ Return(op)
    /\ UNCHANGED <<live, roots, ref, conn, peer, rf, noMem, misused>>

-----------------------------------------------------------------------------
Transfer(d) == [NoOp EXCEPT !.data = d, !.left = Len(d)]

(* What a script may call on the objects it has. *)
SessionCall ==
    \/ \E k \in {"auth", "exec", "scp_recv", "close"} : Begin(Session, k, NoOp)
    \/ \E d \in Payloads : Begin(Session, "scp_send", Transfer(d))
    \/ \E s \in Sftps : MakeBegin(Session, s, "sftp")

SftpCall(s) ==
    \/ \E k \in {"request", "close"} : Begin(s, k, NoOp)
    \/ \E h \in Handles, mode \in {"r", "w", "dir"} : MakeBegin(s, h, mode)

HandleCall(h) ==
    \/ Begin(h, "close", NoOp)
    \/ rf[h].mode = "dir" /\ Begin(h, "request", NoOp)
    \/ \E max \in Limits :
          /\ rf[h].mode \in {"r", "w"}
          /\ Begin(h, "read", [NoOp EXCEPT !.left = max, !.asked = max,
                                            !.base = rf[h].pos])
    \/ \E d \in Payloads :
          /\ rf[h].mode \in {"r", "w"} /\ Len(rf[h].data) + Len(d) <= MaxWritten
          /\ Begin(h, "write", [Transfer(d) EXCEPT !.base = Len(rf[h].data)])

Call ==
    \/ SessionNew
    \/ SessionCall
    \/ \E s \in Sftps : SftpCall(s)
    \/ \E h \in Handles : HandleCall(h)
    \/ \E o \in Wrapped : Ebadf(o) \/ DeadCall(o)

(* The steps of the call under way. *)
Step ==
    \/ Auth \/ Request \/ MakeDone \/ MakeFailed \/ MakeNoMemory
    \/ OpenChannel("exec", Output, "exec")
    \/ OpenChannel("scp_recv", Append(RemoteFile, Nul), "loop")
    \/ OpenChannel("scp_send", <<>>, "loop")
    \/ OpenFailed \/ ExecStart \/ ExecRefused \/ ExecEnd \/ ExecError
    \/ \E k \in 1..ExecBuf : ExecData(k) \/ ScpData(k)
    \/ ScpEnd \/ ScpError \/ ScpWriteError \/ ScpTerminate \/ Finish
    \/ \E k \in 1..op.left : ScpWrite(k) \/ WriteData(k)
    \/ \E k \in 1..SftpBuf : ReadData(k)
    \/ ReadEnd \/ WriteEnd \/ TransferError \/ Close

Environment ==
    Collect \/ (\E o \in Objs : Drop(o)) \/ PeerSend \/ PeerEnd \/ ConnEnds

Next == ~misused /\ (Call \/ Step \/ NoMemory \/ Environment)

Spec == Init /\ [][Next]_vars

(* A call of a script runs until it ends; nothing is assumed of the server. *)
FairSpec == Spec /\ WF_vars(Step)

-----------------------------------------------------------------------------
(* libssh2 is never handed what is gone: the socket that _ssh_recv_cb and
   _ssh_send_cb reach through a pointer the collector does not see exists during
   every call, whatever objects the script has dropped, and a script that closes
   children before their parents never makes the module pass a freed pointer. *)
LifetimesSafe ==
    /\ op.kind # "none" => Sock \in live
    /\ orderly => ~misused

(* No call leaves its channel open, on any path but a failed allocation. *)
ChannelsFreed == op.kind = "none" /\ ~noMem => ~channel

Ended(k) == op.kind = "none" /\ last.kind = k /\ last.err = "none"

(* What the reads of a channel have taken off the whole the server sends. *)
TakenOff(whole) == SubSeq(whole, 1, Len(whole) - Len(peer.out) - Len(peer.queue))

(* What a call that reports success transferred.  exec returns exactly the cells
   it read, all of the output unless the connection broke.  scp_recv returns the
   file, a zero byte at its end included, unless the connection broke; then it
   returns what it read, except that a zero byte read last is taken off although
   it may be a byte of the file and not the terminator (line 795), but never more.
   After scp_send the server has every byte and the terminator, unless the
   connection broke.  SFTPFile.read(n) returns the next n bytes, or what is left,
   and moves the position by as much; write appends exactly the bytes it reports
   as written. *)
TransfersExact ==
    LET h == last.obj
        n == Len(RemoteFile) - last.base
        scp == TakenOff(Append(RemoteFile, Nul))
    IN  /\ Ended("exec") =>
              /\ last.buf = TakenOff(Output)
              /\ last.clean => last.buf = Output
        /\ Ended("scp_recv") =>
              /\ IsPrefix(last.buf, RemoteFile)
              /\ scp = last.buf \/ scp = Append(last.buf, Nul)
              /\ last.clean => last.buf = RemoteFile
        /\ Ended("scp_send") /\ last.clean => peer.got = Append(last.data, Nul)
        /\ Ended("read") =>
              /\ last.buf = SubSeq(RemoteFile, last.base + 1, rf[h].pos)
              /\ Len(last.buf) = IF last.asked < 0 THEN n ELSE Lo(n, last.asked)
        /\ Ended("write") =>
              SubSeq(rf[h].data, last.base + 1, Len(rf[h].data)) =
                  SubSeq(last.data, 1, Len(last.data) - last.left)

=============================================================================
