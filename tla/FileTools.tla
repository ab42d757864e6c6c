------------------------------ MODULE FileTools ------------------------------
(***************************************************************************)
(* shutil (port/shutil_uc386dos.c): copyfile and move, one action per DOS  *)
(* call, every one of which may fail, and reads and writes may be short.   *)
(* tempfile (port/tempfile_uc386dos.c): mktemp, with files appearing and   *)
(* disappearing between the calls.  Other drives' files and the DOS calls  *)
(* are external.                                                           *)
(***************************************************************************)
EXTENDS Integers, Sequences, FiniteSetsExt

CONSTANTS
    Files,          \* file names
    Source,         \* the contents a file has at first
    CopyBuf,        \* bytes of copy_stream's buffer (4096)
    MaxHandles,     \* file handles DOS gives a program
    TempNames,      \* different counters a name can hold (10^5)
    Attempts,       \* names mktemp tries (1024)
    MaxCounter      \* bound on the counter

VARIABLES
    disk,           \* contents of the files that exist
    pc,             \* next call of copyfile or move, or how it ended
    call,           \* its name and arguments, and the disk it began with
    pos,            \* bytes read from the source so far
    buf,            \* bytes read and not yet written
    handles,        \* handles open
    tmp_counter,
    taken,          \* counters whose temporary file exists
    given           \* the names mktemp returned, with their counters (history)

toolvars == <<disk, pc, call, pos, buf, handles, tmp_counter, taken, given>>
tempvars == <<tmp_counter, taken, given>>

ASSUME ToolsAssumption ==
    /\ {CopyBuf, MaxHandles, TempNames, Attempts, MaxCounter} \subseteq Nat \ {0}
    /\ Source \in Seq(0..255)
    /\ Len(Source) > CopyBuf        \* a file does not fit the buffer

NoFile == <<-1>>
Partial(s) == {SubSeq(s, 1, n) : n \in 1..Len(s)}

ToolsInit ==
    /\ disk \in [Files -> {Source, NoFile}]
    /\ pc = "idle" /\ call = [op |-> "none"]
    /\ pos = 0 /\ buf = <<>> /\ handles = 0
    /\ tmp_counter = 0 /\ taken = {} /\ given = <<>>

-----------------------------------------------------------------------------
Idle == pc \in {"idle", "ok", "raised"}

(* The user calls copyfile (or copy, its alias) or move. *)
Begin ==
    /\ Idle
    /\ \E op \in {"copy", "move"}, src, dst \in Files :
          /\ call' = [op |-> op, src |-> src, dst |-> dst, before |-> disk]
          /\ pc' = IF op = "move" THEN "rename" ELSE "open_src"
    /\ pos' = 0 /\ buf' = <<>>
    /\ UNCHANGED <<disk, handles, tempvars>>

(* DOS renames within a volume, onto no existing file. *)
Rename ==
    /\ pc = "rename"
    /\ \/ /\ disk[call.src] # NoFile /\ disk[call.dst] = NoFile
          /\ disk' = [disk EXCEPT ![call.dst] = disk[call.src], ![call.src] = NoFile]
          /\ pc' = "ok"
       \/ pc' = "open_src" /\ UNCHANGED disk
    /\ UNCHANGED <<call, pos, buf, handles, tempvars>>

OpenSrc ==
    /\ pc = "open_src"
    /\ \/ /\ disk[call.src] # NoFile /\ handles < MaxHandles
          /\ handles' = handles + 1 /\ pc' = "open_dst"
       \/ pc' = "raised" /\ UNCHANGED handles
    /\ UNCHANGED <<disk, call, pos, buf, tempvars>>

(* The destination is created or truncated; when that fails the source is
   closed again. *)
OpenDst ==
    /\ pc = "open_dst"
    /\ \/ /\ handles < MaxHandles
          /\ handles' = handles + 1 /\ pc' = "read"
          /\ disk' = [disk EXCEPT ![call.dst] = <<>>]
       \/ handles' = handles - 1 /\ pc' = "raised" /\ UNCHANGED disk
    /\ UNCHANGED <<call, pos, buf, tempvars>>

(* Fault form: a read that fails ends the loop as the end of the file does. *)
ReadFailedEnds == pc' = "close" /\ UNCHANGED <<pos, buf>>

(* copy_stream raises and leaves both handles open. *)
ReadFailed == pc' = "raised" /\ UNCHANGED <<pos, buf>>

Read ==
    /\ pc = "read"
    /\ LET rest == SubSeq(disk[call.src], pos + 1, Len(disk[call.src]))
           chunks == {s \in Partial(rest) : Len(s) <= CopyBuf}
       IN  \/ ReadFailed
           \/ rest = <<>> /\ pc' = "close" /\ UNCHANGED <<pos, buf>>
           \/ \E s \in chunks : buf' = s /\ pos' = pos + Len(s) /\ pc' = "write"
    /\ UNCHANGED <<disk, call, handles, tempvars>>

(* write may take part of the buffer; the rest is written by the next call. *)
Write ==
    /\ pc = "write"
    /\ \/ pc' = "raised" /\ UNCHANGED <<disk, buf>>
       \/ \E s \in Partial(buf) :
             /\ disk' = [disk EXCEPT ![call.dst] = @ \o s]
             /\ buf' = SubSeq(buf, Len(s) + 1, Len(buf))
             /\ pc' = IF buf' = <<>> THEN "read" ELSE "write"
    /\ UNCHANGED <<call, pos, handles, tempvars>>

(* What close returns is not looked at. *)
Close ==
    /\ pc = "close"
    /\ handles' = handles - 2
    /\ pc' = IF call.op = "move" THEN "unlink" ELSE "ok"
    /\ UNCHANGED <<disk, call, pos, buf, tempvars>>

Unlink ==
    /\ pc = "unlink"
    /\ \/ pc' = "ok" /\ disk' = [disk EXCEPT ![call.src] = NoFile]
       \/ pc' = "raised" /\ UNCHANGED disk
    /\ UNCHANGED <<call, pos, buf, handles, tempvars>>

(* At every moment of a copy or a move between two files, and however it ends,
   the contents of the source exist whole: in the source, or after the last step
   of a move in the destination.  A call that returns has the whole of them in
   the destination, a copy leaves the source alone, and no other file changes.
   (Copying or moving a file onto itself truncates it; see the README.) *)
CopyKeepsData ==
    call.op # "none" /\ call.src # call.dst =>
        LET was == call.before[call.src]
        IN  /\ disk[call.src] = was \/ (call.op = "move" /\ pc = "ok")
            /\ pc = "ok" => disk[call.dst] = was /\ was # NoFile
            /\ pc = "ok" /\ call.op = "move" => disk[call.src] = NoFile
            /\ \A f \in Files \ {call.src, call.dst} : disk[f] = call.before[f]

-----------------------------------------------------------------------------
(* The counter in the name is the last five digits of n. *)
TempName(n) == n % TempNames

(* Fault form: the counter starts again with every call. *)
CounterAfterRestart(k) == tmp_counter

(* Every name tried moves the counter on, the one returned too. *)
CounterAfter(k) == tmp_counter + k

(* Tries names until stat finds no file of that name; gives up after Attempts
   of them. *)
mktemp ==
    /\ Idle /\ tmp_counter < MaxCounter
    /\ LET tried(k) == TempName(tmp_counter + k)
           free == {k \in 1..Attempts : tried(k) \notin taken}
           k == CHOOSE i \in free : \A j \in free : i <= j
       IN  IF free = {}
           THEN tmp_counter' = CounterAfter(Attempts) /\ UNCHANGED given
           ELSE /\ tmp_counter' = CounterAfter(k)
                /\ given' = Append(given, [n |-> tmp_counter + k, name |-> tried(k)])
    /\ UNCHANGED <<disk, pc, call, pos, buf, handles, taken>>

(* Programs create and delete files, under names mktemp gave out or others. *)
OthersFile ==
    /\ Idle
    /\ \E n \in 0..TempNames - 1 : taken' = SymDiff(taken, {n})
    /\ UNCHANGED <<disk, pc, call, pos, buf, handles, tmp_counter, given>>

CopyNext == Begin \/ Rename \/ OpenSrc \/ OpenDst \/ Read \/ Write \/ Close \/ Unlink
TempNext == mktemp \/ OthersFile

(* A name mktemp returns belongs to no file, and was not returned by any of the
   calls before until the counter has gone through all its digits, whether the
   files were created meanwhile or not. *)
TempNamesFresh ==
    [][given' # given =>
          LET g == given'[Len(given')]
          IN  /\ g.name \notin taken
              /\ \A i \in DOMAIN given : g.n - given[i].n < TempNames => given[i].name # g.name]_toolvars
=============================================================================
