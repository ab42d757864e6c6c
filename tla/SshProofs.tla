----------------------------- MODULE SshProofs ------------------------------
(***************************************************************************)
(* Proofs about Ssh for any number of SFTP objects and handles, any        *)
(* output, file, payload and buffer size.                                  *)
(*                                                                         *)
(* ObjInv is what the object graph needs: live objects keep their parents  *)
(* alive, and while a script is orderly a non-NULL pointer points to an    *)
(* open libssh2 object.  ChanInv says when a channel may be open.  FlowInv *)
(* gives, for the call under way, where each cell of the transfer is, as   *)
(* slices of the whole.                                                    *)
(***************************************************************************)
EXTENDS Ssh, SequenceTheorems, TLAPS

-----------------------------------------------------------------------------
(* The inductive invariant *)

(* The elements of s after the first a, up to the b-th. *)
Slice(s, a, b) == SubSeq(s, a + 1, b)

Channels == {"exec", "scp_recv", "scp_send"}
Simple == {"auth", "request", "make", "read", "write", "close"}
Maybe == Objs \cup {NoObj}

Ops == [kind : {"none"} \cup Channels \cup Simple, obj : Maybe, new : Maybe,
        step : {"none", "call", "exec", "loop", "finish"},
        mode : {"none", "sftp", "r", "w", "dir"},
        buf : Seq(Cells), data : Seq(Cells), p : Int, left : Int, base : Int,
        asked : Int, err : {"none", "OSError", "MemoryError", "EBADF"}, clean : BOOLEAN]
Peers == [out : Seq(Cells), queue : Seq(Cells), eof : BOOLEAN, got : Seq(Cells)]
Files == [mode : {"none", "sftp", "r", "w", "dir"}, pos : 0..Len(RemoteFile),
          data : Seq(Cells)]

(* The parent an object is made from. *)
Parent(o, q) == \/ o \in Handles /\ q \in Sftps
                \/ o \in Sftps /\ q = Session
                \/ o = Session /\ q = Sock

ObjType ==
    /\ live \subseteq Objs /\ roots \subseteq live
    /\ ref \in [Objs -> Maybe] /\ ref[Sock] = NoObj
    /\ ptr \in [Wrapped -> BOOLEAN]
    /\ lib \in [Wrapped -> {"none", "open", "freed", "given_up"}]
    /\ orderly \in BOOLEAN /\ misused \in BOOLEAN

(* Live objects keep their parents alive, *)
Chain == \A o \in live \ {Sock} : Parent(o, ref[o]) /\ ref[o] \in live

(* and their pointers are good as long as parents are closed last. *)
Pointers ==
    /\ orderly = TRUE => misused = FALSE
    /\ orderly = TRUE => \A o \in Wrapped : ptr[o] = TRUE => lib[o] = "open"

(* The objects of the call under way. *)
Callee ==
    /\ op.kind = "none" => op.obj = NoObj
    /\ op.kind # "none" => op.obj \in roots
    /\ op.kind = "make" => /\ op.new \in Sftps \cup Handles /\ Parent(op.new, op.obj)
                           /\ lib[op.new] = "none"
    /\ op.kind \in {"read", "write"} => op.obj \in Handles

ObjInv == ObjType /\ Chain /\ Pointers /\ Callee

(* A channel is open only inside the call that opened it. *)
ChanInv ==
    /\ channel \in BOOLEAN /\ noMem \in BOOLEAN
    /\ channel = TRUE /\ noMem = FALSE =>
           op.kind \in Channels /\ op.step \in {"exec", "loop", "finish"}
    /\ op.kind = "none" => op = NoOp
    /\ op.kind \in Simple => op.step = "call"
    /\ op.kind \in Channels => op.step \in {"call", "exec", "loop", "finish"}

DataType ==
    /\ op \in Ops /\ peer \in Peers /\ rf \in [Handles -> Files]
    /\ conn \in {"up", "fin", "lost", "bad"}

(* What the other end of the channel sends. *)
Sent(k) == IF k = "exec" THEN Output ELSE Append(RemoteFile, Nul)

(* Downloads: the result, libssh2's queue and what is not sent yet are what
   the server sends, cut in three. *)
Cut(s, x, q) ==
    LET a == Len(x)
        b == a + Len(q.queue)
    IN  /\ b <= Len(s)
        /\ x = Slice(s, 0, a) /\ q.queue = Slice(s, a, b) /\ q.out = Slice(s, b, Len(s))
        /\ q.eof = TRUE => b = Len(s)

DownInv ==
    op.kind \in {"exec", "scp_recv"} =>
        /\ op.step = "call" => op.buf = << >>
        /\ op.step # "call" => Cut(Sent(op.kind), op.buf, peer)
        /\ op.step = "finish" => Dead \/ (peer.eof = TRUE /\ peer.queue = << >>)
        /\ op.step = "exec" => op.kind = "exec"

UpInv ==
    op.kind = "scp_send" =>
        /\ op.p \in Nat /\ op.left \in Nat /\ op.p + op.left = Len(op.data)
        /\ op.step = "call" => op.p = 0
        /\ op.step = "loop" => peer.got = Slice(op.data, 0, op.p)
        /\ op.step = "finish" => Dead \/ peer.got = Append(op.data, Nul)
        /\ op.step # "exec"

(* SFTPFile.read has the file from base to the position. *)
ReadInv ==
    op.kind = "read" =>
        LET pos == rf[op.obj].pos
        IN  /\ op.base \in Nat /\ op.base <= pos
            /\ op.buf = Slice(RemoteFile, op.base, pos)
            /\ op.asked <= 0 => op.left = op.asked
            /\ op.asked = 0 => pos = op.base
            /\ op.asked > 0 => op.left > 0 /\ op.left = op.asked - (pos - op.base)

(* SFTPFile.write has written the first p cells, after base. *)
WriteInv ==
    op.kind = "write" =>
        LET d == rf[op.obj].data
        IN  /\ op.p \in Nat /\ op.left \in Nat /\ op.p + op.left = Len(op.data)
            /\ op.base \in Nat /\ op.base <= Len(d)
            /\ Slice(d, op.base, Len(d)) = Slice(op.data, 0, op.p)

(* The last result, until the next call. *)
LastInv ==
    /\ op.kind # "none" => last = NoOp
    /\ TransfersExact

FlowInv == DataType /\ DownInv /\ UpInv /\ ReadInv /\ WriteInv /\ LastInv

IInv == ObjInv /\ ChanInv /\ FlowInv

-----------------------------------------------------------------------------
(* Slices of a sequence *)

(* t is that part of s. *)
Part(t, s, a, b) ==
    /\ t \in Seq(Cells) /\ Len(t) = b - a
    /\ \A i \in 1..(b - a) : t[i] = s[a + i]

(* Where a part may begin and end. *)
Within(s, a, b) == s \in Seq(Cells) /\ a \in Nat /\ b \in Nat /\ a <= b /\ b <= Len(s)

LEMMA SliceOf ==
    ASSUME NEW s, NEW a, NEW b, Within(s, a, b)
    PROVE  Part(Slice(s, a, b), s, a, b)
<1>0. /\ s \in Seq(Cells) /\ a \in Nat /\ b \in Nat /\ a <= b /\ b <= Len(s)
      /\ Len(s) \in Nat
  BY DEF Within
<1>1. \A i \in (a + 1)..b : s[i] \in Cells
  BY <1>0
<1>2. /\ SubSeq(s, a + 1, b) \in Seq(Cells)
      /\ Len(SubSeq(s, a + 1, b)) = IF a + 1 <= b THEN b - (a + 1) + 1 ELSE 0
      /\ \A i \in 1..(b - (a + 1) + 1) : SubSeq(s, a + 1, b)[i] = s[a + 1 + i - 1]
  BY <1>0, <1>1, SubSeqProperties
<1>3. b - (a + 1) + 1 = b - a /\ \A i \in 1..(b - a) : a + 1 + i - 1 = a + i
  BY <1>0
<1>4. (IF a + 1 <= b THEN b - (a + 1) + 1 ELSE 0) = b - a
  BY <1>0
<1> QED BY <1>2, <1>3, <1>4 DEF Slice, Part

LEMMA SliceIs ==
    ASSUME NEW s, NEW a, NEW b, NEW t, Within(s, a, b), Part(t, s, a, b)
    PROVE  t = Slice(s, a, b)
<1>1. Part(Slice(s, a, b), s, a, b)
  BY SliceOf
<1> HIDE DEF Slice
<1>2. /\ t \in Seq(Cells) /\ Slice(s, a, b) \in Seq(Cells)
      /\ Len(t) = Len(Slice(s, a, b)) /\ Len(t) = b - a
      /\ \A i \in 1..(b - a) : t[i] = Slice(s, a, b)[i]
  BY <1>1 DEF Part
<1> QED BY <1>2, SeqEqual

\* The whole, and nothing.
LEMMA SliceEnds ==
    ASSUME NEW s \in Seq(Cells), NEW a \in Nat
    PROVE  /\ Slice(s, 0, Len(s)) = s /\ Slice(s, a, a) = << >>
           /\ Len(s) \in Nat
<1>1. Len(s) \in Nat
  OBVIOUS
<1>2. Within(s, 0, Len(s)) /\ Part(s, s, 0, Len(s))
  BY <1>1 DEF Within, Part
<1>3. SubSeq(s, a + 1, a) = << >>
  BY SubSeqEmpty
<1> QED BY <1>1, <1>2, <1>3, SliceIs DEF Slice

LEMMA SliceJoin ==
    ASSUME NEW s, NEW a, NEW b, NEW c, Within(s, a, b), Within(s, b, c)
    PROVE  Slice(s, a, b) \o Slice(s, b, c) = Slice(s, a, c) /\ Within(s, a, c)
<1> DEFINE x == Slice(s, a, b)
           y == Slice(s, b, c)
<1>1. Part(x, s, a, b) /\ Part(y, s, b, c)
  BY SliceOf
<1> HIDE DEF x, y
<1>2. Within(s, a, c) /\ a \in Nat /\ b \in Nat /\ c \in Nat /\ a <= b /\ b <= c
  BY DEF Within
<1>3. /\ x \in Seq(Cells) /\ Len(x) = b - a /\ \A i \in 1..(b - a) : x[i] = s[a + i]
      /\ y \in Seq(Cells) /\ Len(y) = c - b /\ \A i \in 1..(c - b) : y[i] = s[b + i]
  BY <1>1 DEF Part
<1>4. /\ x \o y \in Seq(Cells) /\ Len(x \o y) = Len(x) + Len(y)
      /\ \A i \in 1..(Len(x) + Len(y)) : (x \o y)[i] = IF i <= Len(x) THEN x[i] ELSE y[i - Len(x)]
  BY <1>3, ConcatProperties
<1>5. Len(x) + Len(y) = c - a
  BY <1>2, <1>3
<1>6. ASSUME NEW i \in 1..(c - a) PROVE (x \o y)[i] = s[a + i]
  <2>1. CASE i <= b - a
    BY <1>2, <1>3, <1>4, <1>5, <2>1
  <2>2. CASE ~(i <= b - a)
    <3>1. i - (b - a) \in 1..(c - b) /\ b + (i - (b - a)) = a + i
      BY <1>2, <2>2
    <3>2. y[i - (b - a)] = s[a + i]
      BY <1>3, <3>1
    <3> QED BY <1>3, <1>4, <1>5, <2>2, <3>2
  <2> QED BY <2>1, <2>2
<1>7. Part(x \o y, s, a, c)
  BY <1>4, <1>5, <1>6 DEF Part
<1> QED BY <1>2, <1>7, SliceIs DEF x, y

LEMMA SlicePush ==
    ASSUME NEW s, NEW a, NEW b, Within(s, a, b), b < Len(s)
    PROVE  Append(Slice(s, a, b), s[b + 1]) = Slice(s, a, b + 1) /\ Within(s, a, b + 1)
<1> DEFINE x == Slice(s, a, b)
           z == Append(x, s[b + 1])
<1>1. Part(x, s, a, b)
  BY SliceOf
<1> HIDE DEF x
<1>2. /\ Within(s, a, b + 1) /\ a \in Nat /\ b \in Nat /\ a <= b
      /\ s[b + 1] \in Cells
  BY DEF Within
<1>3. /\ x \in Seq(Cells) /\ Len(x) = b - a /\ \A i \in 1..(b - a) : x[i] = s[a + i]
  BY <1>1 DEF Part
<1>4. /\ z \in Seq(Cells) /\ Len(z) = Len(x) + 1
      /\ \A i \in 1..Len(x) : z[i] = x[i]
      /\ z[Len(x) + 1] = s[b + 1]
  BY <1>2, <1>3, AppendProperties
<1> HIDE DEF z
<1>5. Len(x) + 1 = (b + 1) - a
  BY <1>2, <1>3
<1>6. ASSUME NEW i \in 1..((b + 1) - a) PROVE z[i] = s[a + i]
  <2>1. CASE i = Len(x) + 1
    <3>1. a + i = b + 1
      BY <1>2, <1>3, <2>1
    <3> QED BY <1>4, <2>1, <3>1
  <2>2. CASE i # Len(x) + 1
    <3>1. i \in 1..(b - a) /\ i \in 1..Len(x)
      BY <1>2, <1>3, <2>2
    <3> QED BY <1>3, <1>4, <3>1
  <2> QED BY <2>1, <2>2
<1>7. Part(z, s, a, b + 1)
  BY <1>4, <1>5, <1>6 DEF Part
<1> QED BY <1>2, <1>7, SliceIs DEF x, z

LEMMA SliceSub ==
    ASSUME NEW s, NEW a, NEW b, Within(s, a, b),
           NEW i \in Nat, NEW j \in Nat, i <= j, j <= b - a
    PROVE  /\ Slice(Slice(s, a, b), i, j) = Slice(s, a + i, a + j)
           /\ Within(s, a + i, a + j)
<1> DEFINE x == Slice(s, a, b)
           y == Slice(x, i, j)
<1>1. Part(x, s, a, b)
  BY SliceOf
<1> HIDE DEF x
<1>2. /\ x \in Seq(Cells) /\ Len(x) = b - a /\ \A n \in 1..(b - a) : x[n] = s[a + n]
  BY <1>1 DEF Part
<1>3. a \in Nat /\ b \in Nat /\ Within(s, a + i, a + j) /\ Within(x, i, j)
  BY <1>2 DEF Within
<1>4. Part(y, x, i, j)
  BY <1>3, SliceOf
<1> HIDE DEF y
<1>5. /\ y \in Seq(Cells) /\ Len(y) = j - i /\ \A n \in 1..(j - i) : y[n] = x[i + n]
  BY <1>4 DEF Part
<1>6. (a + j) - (a + i) = j - i
  BY <1>3
<1>7. ASSUME NEW n \in 1..(j - i) PROVE y[n] = s[a + i + n]
  <2>1. i + n \in 1..(b - a) /\ a + (i + n) = a + i + n
    BY <1>3
  <2> QED BY <1>2, <1>5, <2>1
<1>8. Part(y, s, a + i, a + j)
  BY <1>5, <1>6, <1>7 DEF Part
<1>9. y = Slice(s, a + i, a + j)
  BY <1>3, <1>8, SliceIs
<1> QED BY <1>3, <1>9 DEF x, y

LEMMA SliceHeadTail ==
    ASSUME NEW s, NEW a, NEW b, Within(s, a, b), a < b
    PROVE  /\ Head(Slice(s, a, b)) = s[a + 1] /\ Tail(Slice(s, a, b)) = Slice(s, a + 1, b)
           /\ Within(s, a + 1, b)
<1> DEFINE x == Slice(s, a, b)
<1>1. Part(x, s, a, b)
  BY SliceOf
<1>2. a \in Nat /\ b \in Nat /\ 1 \in Nat /\ b - a \in Nat /\ 1 <= b - a /\ b - a <= b - a
  BY DEF Within
<1>3. Slice(x, 1, b - a) = Slice(s, a + 1, a + (b - a)) /\ Within(s, a + 1, a + (b - a))
  BY <1>2, SliceSub
<1> HIDE DEF x
<1>4. x \in Seq(Cells) /\ Len(x) = b - a /\ x[1] = s[a + 1]
  BY <1>1, <1>2 DEF Part
<1>5. Len(x) >= 1
  BY <1>2, <1>4
<1>6. Head(x) = x[1] /\ Tail(x) = SubSeq(x, 2, Len(x))
  BY <1>4, <1>5
<1>7. a + (b - a) = b /\ 1 + 1 = 2
  BY <1>2
<1>8. Slice(x, 1, b - a) = SubSeq(x, 2, b - a)
  BY <1>7 DEF Slice
<1> QED BY <1>3, <1>4, <1>6, <1>7, <1>8 DEF x

\* What is appended to d is appended to the end part of d.
LEMMA SliceOfConcat ==
    ASSUME NEW d \in Seq(Cells), NEW e \in Seq(Cells), NEW a \in Nat, a <= Len(d)
    PROVE  /\ Slice(d \o e, a, Len(d \o e)) = Slice(d, a, Len(d)) \o e
           /\ d \o e \in Seq(Cells) /\ Len(d \o e) = Len(d) + Len(e)
<1> DEFINE f == d \o e
           y == Slice(d, a, Len(d))
<1>0. Len(d) \in Nat /\ Len(e) \in Nat
  OBVIOUS
<1>1. /\ f \in Seq(Cells) /\ Len(f) = Len(d) + Len(e)
      /\ \A i \in 1..(Len(d) + Len(e)) : f[i] = IF i <= Len(d) THEN d[i] ELSE e[i - Len(d)]
  BY ConcatProperties
<1> HIDE DEF f
<1>2. Within(f, a, Len(f)) /\ Within(d, a, Len(d))
  BY <1>0, <1>1 DEF Within
<1>3. Part(y, d, a, Len(d))
  BY <1>2, SliceOf
<1> HIDE DEF y
<1>4. y \in Seq(Cells) /\ Len(y) = Len(d) - a /\ \A i \in 1..(Len(d) - a) : y[i] = d[a + i]
  BY <1>3 DEF Part
<1>5. /\ y \o e \in Seq(Cells) /\ Len(y \o e) = Len(y) + Len(e)
      /\ \A i \in 1..(Len(y) + Len(e)) : (y \o e)[i] = IF i <= Len(y) THEN y[i] ELSE e[i - Len(y)]
  BY <1>4, ConcatProperties
<1>6. Len(y) + Len(e) = Len(f) - a
  BY <1>0, <1>1, <1>4
<1>7. ASSUME NEW i \in 1..(Len(f) - a) PROVE (y \o e)[i] = f[a + i]
  <2>1. a + i \in 1..(Len(d) + Len(e)) /\ i \in Nat
    BY <1>0, <1>1
  <2>2. CASE i <= Len(d) - a
    <3>1. i \in 1..(Len(d) - a) /\ a + i <= Len(d)
      BY <1>0, <2>1, <2>2
    <3> QED BY <1>1, <1>4, <1>5, <1>6, <2>1, <2>2, <3>1
  <2>3. CASE ~(i <= Len(d) - a)
    <3>1. ~(a + i <= Len(d)) /\ a + i - Len(d) = i - (Len(d) - a)
      BY <1>0, <2>1, <2>3
    <3>2. f[a + i] = e[i - (Len(d) - a)]
      BY <1>1, <2>1, <3>1
    <3> QED BY <1>4, <1>5, <1>6, <2>3, <3>2
  <2> QED BY <2>2, <2>3
<1>8. Part(y \o e, f, a, Len(f))
  BY <1>5, <1>6, <1>7 DEF Part
<1> QED BY <1>1, <1>2, <1>8, SliceIs DEF f, y

-----------------------------------------------------------------------------
(* The object graph *)

LEMMA Kinds ==
    /\ Sock # Session /\ Sock # NoObj /\ Session # NoObj
    /\ \A o \in Sftps \cup Handles : o # Sock /\ o # Session /\ o # NoObj
    /\ \A o \in Sftps : o \notin Handles
    /\ \A o \in Sftps \cup Handles : o \in Wrapped
    /\ Session \in Wrapped /\ Sock \in Objs /\ NoObj \notin Objs
BY SshAssumption DEF Wrapped, Objs

ObjSame == UNCHANGED <<live, roots, ref, ptr, lib, orderly, misused>>

\* A step that leaves the objects alone, and ends the call or goes on with it
\* or begins one that suits its object.
LEMMA ObjStay ==
    ASSUME ObjInv, ObjSame, Callee'
    PROVE  ObjInv'
BY DEF ObjInv, ObjSame, ObjType, Chain, Pointers, Parent

LEMMA CalleeSame ==
    ASSUME ObjInv, UNCHANGED <<roots, lib>>,
           \/ op' = NoOp
           \/ op'.kind = op.kind /\ op'.obj = op.obj /\ op'.new = op.new
    PROVE  Callee'
BY DEF ObjInv, Callee, NoOp, Parent

\* Following references leads to parents only, and three steps are enough.
LEMMA ReachableClosed ==
    ASSUME ObjInv
    PROVE  /\ roots \subseteq Reachable
           /\ \A o \in (live \cap Reachable) \ {Sock} : ref[o] \in Reachable
<1> DEFINE S0 == roots \cup ({op.obj} \ {NoObj})
           S1 == Refs(S0)
           S2 == Refs(S1)
           S3 == Refs(S2)
<1>a. /\ live \subseteq Objs /\ roots \subseteq live /\ ref[Sock] = NoObj
      /\ \A o \in live \ {Sock} : Parent(o, ref[o]) /\ ref[o] \in live
  BY DEF ObjInv, ObjType, Chain
<1>b. S0 \subseteq live
  BY <1>a DEF ObjInv, Callee
<1> HIDE DEF S0
<1>c. \A X : X \subseteq Refs(X) /\ \A y \in Refs(X) \ X : \E x \in X : y = ref[x] /\ y # NoObj
  BY DEF Refs
<1>d. \A X : \A x \in X : ref[x] # NoObj => ref[x] \in Refs(X)
  BY DEF Refs
<1>e. /\ S0 \subseteq S1 /\ S1 \subseteq S2 /\ S2 \subseteq S3
      /\ \A y \in S1 \ S0 : \E x \in S0 : y = ref[x] /\ y # NoObj
      /\ \A y \in S2 \ S1 : \E x \in S1 : y = ref[x] /\ y # NoObj
      /\ \A y \in S3 \ S2 : \E x \in S2 : y = ref[x] /\ y # NoObj
      /\ \A x \in S0 : ref[x] # NoObj => ref[x] \in S1
      /\ \A x \in S1 : ref[x] # NoObj => ref[x] \in S2
      /\ \A x \in S2 : ref[x] # NoObj => ref[x] \in S3
  BY <1>c, <1>d
<1> HIDE DEF S1, S2, S3
<1>f. S1 \subseteq live /\ S2 \subseteq live /\ S3 \subseteq live
  <2>1. S1 \subseteq live
    BY <1>a, <1>b, <1>e
  <2>2. S2 \subseteq live
    BY <1>a, <1>e, <2>1
  <2> QED BY <1>a, <1>e, <2>1, <2>2
<1>g. \A o \in Objs : \A q : Parent(o, q) => q # NoObj /\ q \notin Handles
                           /\ (q \in Sftps => o \in Handles) /\ (q = Session => o \in Sftps)
  BY Kinds, SshAssumption DEF Parent, Objs
<1>1. \A y \in S3 : y \in Handles => y \in S0
  BY <1>a, <1>b, <1>e, <1>f, <1>g
<1>2. \A y \in S3 : y \in Sftps => y \in S1
  BY <1>a, <1>b, <1>e, <1>f, <1>g, <1>1
<1>3. \A y \in S3 : y = Session => y \in S2
  BY <1>a, <1>b, <1>e, <1>f, <1>g, <1>2
<1>4. \A o \in S3 \ {Sock} : o \in S2
  BY <1>a, <1>e, <1>f, <1>1, <1>2, <1>3 DEF Objs
<1>5. \A o \in S3 \ {Sock} : ref[o] \in S3
  BY <1>a, <1>e, <1>f, <1>g, <1>4
<1>6. Reachable = S3
  BY DEF Reachable, S0, S1, S2, S3
<1>7. roots \subseteq S3
  BY <1>e DEF S0
<1> QED BY <1>5, <1>6, <1>7

LEMMA CollectObj == ObjInv /\ Collect => ObjInv'
<1> SUFFICES ASSUME ObjInv, Collect PROVE ObjInv'
  OBVIOUS
<1>1. /\ live' = live \cap Reachable
      /\ UNCHANGED <<roots, ref, ptr, lib, op, orderly, misused>>
  BY DEF Collect, hist
<1>2. roots \subseteq Reachable
      /\ \A o \in (live \cap Reachable) \ {Sock} : ref[o] \in Reachable
  BY ReachableClosed
<1> HIDE DEF Reachable
<1>3. ObjType'
  BY <1>1, <1>2 DEF ObjInv, ObjType
<1>4. Chain'
  BY <1>1, <1>2 DEF ObjInv, Chain, Parent
<1>5. Pointers' /\ Callee'
  BY <1>1 DEF ObjInv, Pointers, Callee, Parent
<1> QED BY <1>3, <1>4, <1>5 DEF ObjInv

\* A new object enters with its parent alive.
LEMMA MadeObj ==
    ASSUME ObjInv, NEW o \in Wrapped, NEW q \in live, Parent(o, q), Made(o, q),
           UNCHANGED <<orderly, misused>>,
           op' = NoOp \/ (op' = op /\ op.kind = "none")
    PROVE  ObjInv'
<1>1. /\ live' = live \cup {o} /\ roots' = roots \cup {o}
      /\ ref' = [ref EXCEPT ![o] = q]
      /\ ptr' = [ptr EXCEPT ![o] = TRUE]
      /\ lib' = [lib EXCEPT ![o] = "open"]
  BY DEF Made
<1>2. o \in Objs /\ o # Sock /\ q \in Objs /\ Sock \in Objs
  BY DEF Wrapped, ObjInv, ObjType, Objs
<1>3. ObjType'
  BY <1>1, <1>2 DEF ObjInv, ObjType, Maybe
<1>4. Chain'
  <2> SUFFICES ASSUME NEW x \in live' \ {Sock} PROVE Parent(x, ref'[x]) /\ ref'[x] \in live'
    BY DEF Chain, Parent
  <2>1. CASE x = o
    BY <1>1, <1>2, <2>1 DEF ObjInv, ObjType
  <2>2. CASE x # o
    BY <1>1, <2>2 DEF ObjInv, ObjType, Chain
  <2> QED BY <2>1, <2>2
<1>5. Pointers'
  BY <1>1 DEF ObjInv, ObjType, Pointers
<1>6. Callee'
  BY DEF ObjInv, Callee, NoOp
<1> QED BY <1>3, <1>4, <1>5, <1>6 DEF ObjInv

\* What libssh2 opened and no object points to.
LEMMA GivenUpObj ==
    ASSUME ObjInv, NEW o \in Wrapped, lib[o] = "none",
           lib' = [lib EXCEPT ![o] = "given_up"],
           UNCHANGED <<live, roots, ref, ptr, orderly, misused>>,
           op' = NoOp \/ (op' = op /\ op.kind = "none")
    PROVE  ObjInv'
<1>1. ObjType' /\ Chain'
  BY DEF ObjInv, ObjType, Chain, Parent
<1>2. Pointers'
  BY DEF ObjInv, ObjType, Pointers
<1>3. Callee'
  BY DEF ObjInv, Callee, NoOp
<1> QED BY <1>1, <1>2, <1>3 DEF ObjInv

\* close() frees what libssh2 frees with the object; an orderly script has no
\* pointer left to any of it.
LEMMA CloseObj == ObjInv /\ Close => ObjInv'
<1> SUFFICES ASSUME ObjInv, Close PROVE ObjInv'
  OBVIOUS
<1> DEFINE U == Under(op.obj)
<1>1. /\ lib' = [o \in Wrapped |-> IF o \in U /\ lib[o] = "open" THEN "freed" ELSE lib[o]]
      /\ ptr' = [ptr EXCEPT ![op.obj] = FALSE]
      /\ orderly' = (orderly /\ \A o \in U \ {op.obj} : ~ptr[o])
      /\ op' = NoOp /\ UNCHANGED <<live, roots, ref, misused>>
  BY DEF Close, Closed, Return
<1> HIDE DEF U
<1>2. ObjType'
  <2>1. lib' \in [Wrapped -> {"none", "open", "freed", "given_up"}]
    BY <1>1 DEF ObjInv, ObjType
  <2>2. orderly' \in BOOLEAN
    BY <1>1 DEF ObjInv, ObjType
  <2>3. ptr' \in [Wrapped -> BOOLEAN]
    BY <1>1 DEF ObjInv, ObjType
  <2> QED BY <1>1, <2>1, <2>2, <2>3 DEF ObjInv, ObjType
<1>3. Chain'
  BY <1>1 DEF ObjInv, Chain, Parent
<1>4. Pointers'
  <2> SUFFICES ASSUME orderly' = TRUE
               PROVE  misused' = FALSE /\ \A o \in Wrapped : ptr'[o] = TRUE => lib'[o] = "open"
    BY DEF Pointers
  <2>1. orderly = TRUE /\ \A o \in U \ {op.obj} : ~ptr[o]
    BY <1>1 DEF ObjInv, ObjType
  <2>2. misused = FALSE /\ \A o \in Wrapped : ptr[o] = TRUE => lib[o] = "open"
    BY <2>1 DEF ObjInv, Pointers
  <2>3. ASSUME NEW o \in Wrapped, ptr'[o] = TRUE PROVE lib'[o] = "open"
    <3>1. ptr[o] = TRUE /\ o # op.obj
      BY <1>1, <2>3 DEF ObjInv, ObjType
    <3>2. o \notin U
      BY <2>1, <3>1
    <3> QED BY <1>1, <2>2, <3>1, <3>2
  <2> QED BY <1>1, <2>2, <2>3
<1>5. Callee'
  BY <1>1 DEF Callee, NoOp
<1> QED BY <1>2, <1>3, <1>4, <1>5 DEF ObjInv

-----------------------------------------------------------------------------
(* Downloads: the three parts of what the server sends *)

LEMMA CutParts ==
    ASSUME NEW s \in Seq(Cells), NEW x \in Seq(Cells), NEW q \in Peers, Cut(s, x, q)
    PROVE  LET a == Len(x)
               b == a + Len(q.queue)
           IN  /\ a \in Nat /\ b \in Nat /\ Len(s) \in Nat /\ a <= b /\ b <= Len(s)
               /\ Within(s, 0, a) /\ Within(s, a, b) /\ Within(s, b, Len(s))
               /\ Len(q.out) = Len(s) - b
<1> DEFINE a == Len(x)
           b == a + Len(q.queue)
<1>1. a \in Nat /\ b \in Nat /\ Len(s) \in Nat /\ a <= b /\ b <= Len(s)
  BY DEF Cut, Peers
<1>2. q.out = Slice(s, b, Len(s))
  BY DEF Cut
<1> HIDE DEF a, b
<1>3. Within(s, 0, a) /\ Within(s, a, b) /\ Within(s, b, Len(s))
  BY <1>1 DEF Within
<1>4. Part(q.out, s, b, Len(s))
  BY <1>2, <1>3, SliceOf
<1>5. Len(q.out) = Len(s) - b
  BY <1>4 DEF Part
<1> QED BY <1>1, <1>3, <1>5 DEF a, b

LEMMA CutSend ==
    ASSUME NEW s \in Seq(Cells), NEW x \in Seq(Cells), NEW q \in Peers, Cut(s, x, q),
           q.out # << >>
    PROVE  LET r == [q EXCEPT !.out = Tail(@), !.queue = Append(@, Head(q.out))]
           IN  r \in Peers /\ Cut(s, x, r)
<1> DEFINE a == Len(x)
           b == a + Len(q.queue)
           r == [q EXCEPT !.out = Tail(@), !.queue = Append(@, Head(q.out))]
<1>1. /\ a \in Nat /\ b \in Nat /\ Len(s) \in Nat /\ a <= b /\ b <= Len(s)
      /\ Within(s, 0, a) /\ Within(s, a, b) /\ Within(s, b, Len(s))
      /\ Len(q.out) = Len(s) - b
  BY CutParts
<1>2. /\ x = Slice(s, 0, a) /\ q.queue = Slice(s, a, b) /\ q.out = Slice(s, b, Len(s))
      /\ q.eof = TRUE => b = Len(s)
  BY DEF Cut
<1>3. q.out \in Seq(Cells) /\ q.queue \in Seq(Cells) /\ q.eof \in BOOLEAN
      /\ Len(q.queue) \in Nat
  BY DEF Peers
<1>b. b = a + Len(q.queue)
  OBVIOUS
<1> HIDE DEF a, b
<1>4. b < Len(s)
  <2>1. Len(q.out) # 0 /\ Len(q.out) \in Nat
    BY <1>3
  <2> QED BY <1>1, <2>1
<1>5. Head(q.out) \in Cells /\ Tail(q.out) \in Seq(Cells)
      /\ Append(q.queue, Head(q.out)) \in Seq(Cells)
      /\ Len(Append(q.queue, Head(q.out))) = Len(q.queue) + 1
  <2>1. Head(q.out) \in Cells /\ Tail(q.out) \in Seq(Cells)
    BY <1>3
  <2> QED BY <1>3, <2>1, AppendProperties
<1>6. r \in Peers /\ r.out = Tail(q.out) /\ r.queue = Append(q.queue, Head(q.out))
      /\ r.eof = q.eof /\ Len(r.queue) = Len(q.queue) + 1
  <2>1. r.out = Tail(q.out) /\ r.queue = Append(q.queue, Head(q.out)) /\ r.eof = q.eof
    BY DEF Peers
  <2>2. r \in Peers
    BY <1>5 DEF Peers
  <2> QED BY <1>5, <2>1, <2>2
<1> HIDE DEF r
<1>7. r.out = Slice(s, b + 1, Len(s)) /\ Head(q.out) = s[b + 1]
  BY <1>1, <1>2, <1>4, <1>6, SliceHeadTail
<1>8. r.queue = Slice(s, a, b + 1)
  BY <1>1, <1>2, <1>4, <1>6, <1>7, SlicePush
<1>9. a + Len(r.queue) = b + 1 /\ b + 1 <= Len(s) /\ ~(q.eof = TRUE)
  <2>1. b # Len(s) /\ b + 1 <= Len(s)
    BY <1>1, <1>4
  <2>2. \A u, v \in Nat : u + (v + 1) = (u + v) + 1
    OBVIOUS
  <2>3. a + Len(r.queue) = b + 1
    BY <1>1, <1>3, <1>6, <1>b, <2>2
  <2> QED BY <1>2, <2>1, <2>3
<1>10. Cut(s, x, r)
  BY <1>2, <1>6, <1>7, <1>8, <1>9 DEF Cut, a
<1> QED BY <1>6, <1>10 DEF r

LEMMA CutEnd ==
    ASSUME NEW s \in Seq(Cells), NEW x \in Seq(Cells), NEW q \in Peers, Cut(s, x, q),
           q.out = << >>
    PROVE  [q EXCEPT !.eof = TRUE] \in Peers /\ Cut(s, x, [q EXCEPT !.eof = TRUE])
<1> DEFINE r == [q EXCEPT !.eof = TRUE]
<1>1. r \in Peers /\ r.out = q.out /\ r.queue = q.queue
  BY DEF Peers
<1>2. Len(x) + Len(q.queue) = Len(s)
  <2>1. Len(q.out) = 0
    OBVIOUS
  <2>2. Len(q.out) = Len(s) - (Len(x) + Len(q.queue)) /\ Len(x) + Len(q.queue) \in Nat
        /\ Len(s) \in Nat
    BY CutParts
  <2> QED BY <2>1, <2>2
<1> HIDE DEF r
<1>3. Cut(s, x, r)
  BY <1>1, <1>2 DEF Cut
<1> QED BY <1>1, <1>3 DEF r

(* A read moves k cells from the queue of q to the end of x. *)
Taken(q, r, x, y, k) == /\ r = [q EXCEPT !.queue = SubSeq(@, k + 1, Len(@))]
                        /\ y = x \o SubSeq(q.queue, 1, k)

LEMMA CutTake ==
    ASSUME NEW s \in Seq(Cells), NEW x \in Seq(Cells), NEW q \in Peers, Cut(s, x, q),
           NEW k \in Nat, k <= Len(q.queue),
           NEW r, NEW y, Taken(q, r, x, y, k)
    PROVE  /\ r \in Peers /\ y \in Seq(Cells) /\ Cut(s, y, r)
           /\ r.eof = q.eof /\ (k = Len(q.queue) => r.queue = << >>)
<1> DEFINE a == Len(x)
           n == Len(q.queue)
           b == a + n
<1>1. /\ a \in Nat /\ b \in Nat /\ Len(s) \in Nat /\ a <= b /\ b <= Len(s)
      /\ Within(s, 0, a) /\ Within(s, a, b) /\ Within(s, b, Len(s))
  BY CutParts
<1>2. /\ x = Slice(s, 0, a) /\ q.queue = Slice(s, a, b) /\ q.out = Slice(s, b, Len(s))
      /\ q.eof = TRUE => b = Len(s)
  BY DEF Cut
<1>3. q.out \in Seq(Cells) /\ q.queue \in Seq(Cells) /\ n \in Nat /\ b = a + n
  BY DEF Peers
<1> HIDE DEF a, b, n
<1>4. /\ k \in Nat /\ n \in Nat /\ 0 \in Nat /\ 0 <= k /\ k <= b - a /\ n <= b - a /\ k <= n
      /\ a + n = b /\ a + 0 = a
  <2>1. k <= n
    BY DEF n
  <2> QED BY <1>1, <1>3, <2>1
<1>w. Within(s, a, b)
  BY <1>1
<1>5. Slice(Slice(s, a, b), 0, k) = Slice(s, a + 0, a + k) /\ Within(s, a + 0, a + k)
  <2>1. k \in Nat /\ 0 \in Nat /\ 0 <= k /\ k <= b - a
    BY <1>4
  <2> HIDE DEF Slice, Within
  <2> QED BY <1>w, <2>1, SliceSub
<1>6. Slice(Slice(s, a, b), k, n) = Slice(s, a + k, a + n) /\ Within(s, a + k, a + n)
  <2>1. k \in Nat /\ n \in Nat /\ k <= n /\ n <= b - a
    BY <1>4
  <2> QED BY <1>w, <2>1, SliceSub
<1>7. SubSeq(q.queue, 1, k) = Slice(s, a, a + k) /\ Within(s, a, a + k)
      /\ SubSeq(q.queue, k + 1, n) = Slice(s, a + k, b) /\ Within(s, a + k, b)
  <2>1. Slice(q.queue, 0, k) = SubSeq(q.queue, 1, k) /\ Slice(q.queue, k, n) = SubSeq(q.queue, k + 1, n)
    BY DEF Slice
  <2> QED BY <1>2, <1>4, <1>5, <1>6, <2>1
<1>8. y = Slice(s, 0, a + k) /\ Within(s, 0, a + k)
  <2>1. Slice(s, 0, a) \o Slice(s, a, a + k) = Slice(s, 0, a + k) /\ Within(s, 0, a + k)
    BY <1>1, <1>7, SliceJoin
  <2> QED BY <1>2, <1>7, <2>1 DEF Taken
<1>9. Part(y, s, 0, a + k) /\ Part(SubSeq(q.queue, k + 1, n), s, a + k, b)
  BY <1>7, <1>8, SliceOf
<1>10. /\ y \in Seq(Cells) /\ Len(y) = (a + k) - 0
       /\ SubSeq(q.queue, k + 1, n) \in Seq(Cells)
       /\ Len(SubSeq(q.queue, k + 1, n)) = b - (a + k)
  BY <1>9 DEF Part
<1>11. /\ r \in Peers /\ r.queue = SubSeq(q.queue, k + 1, n) /\ r.out = q.out
       /\ r.eof = q.eof
  BY <1>10 DEF Peers, Taken, n
<1>12. Len(y) = a + k /\ Len(y) + Len(r.queue) = b
  <2>1. \A u, v, w \in Nat : u + v <= w => (u + v) - 0 = u + v /\ (u + v) + (w - (u + v)) = w
    OBVIOUS
  <2>2. a + k <= b
    BY <1>1, <1>4
  <2> QED BY <1>1, <1>4, <1>10, <1>11, <2>1, <2>2
<1>13. k = n => r.queue = << >>
  BY <1>11, SubSeqEmpty
<1>14. Cut(s, y, r)
  BY <1>1, <1>2, <1>7, <1>8, <1>11, <1>12 DEF Cut
<1> QED BY <1>10, <1>11, <1>13, <1>14 DEF n

LEMMA CutOpen ==
    ASSUME NEW s \in Seq(Cells)
    PROVE  /\ [NoPeer EXCEPT !.out = s] \in Peers
           /\ Cut(s, << >>, [NoPeer EXCEPT !.out = s])
<1> DEFINE r == [NoPeer EXCEPT !.out = s]
<1>1. r \in Peers /\ r.out = s /\ r.queue = << >> /\ r.eof = FALSE
  <2>1. NoPeer \in Peers /\ NoPeer.queue = << >> /\ NoPeer.eof = FALSE
    BY DEF NoPeer, Peers
  <2> HIDE DEF NoPeer
  <2> QED BY <2>1 DEF Peers
<1>2. Slice(s, 0, Len(s)) = s /\ Slice(s, 0, 0) = << >> /\ Len(s) \in Nat
  BY SliceEnds
<1> HIDE DEF r
<1>3. Len(<< >>) = 0 /\ 0 + 0 = 0
  OBVIOUS
<1>4. Cut(s, << >>, r)
  BY <1>1, <1>2, <1>3 DEF Cut
<1> QED BY <1>1, <1>4 DEF r

\* When all has been taken, the result is all.
LEMMA CutAll ==
    ASSUME NEW s \in Seq(Cells), NEW x \in Seq(Cells), NEW q \in Peers, Cut(s, x, q)
    PROVE  /\ Len(x) <= Len(s) /\ x = Slice(s, 0, Len(x))
           /\ q.eof = TRUE /\ q.queue = << >> => x = s
<1>1. Len(x) \in Nat /\ Len(s) \in Nat /\ Len(x) <= Len(s) /\ x = Slice(s, 0, Len(x))
  BY CutParts DEF Cut
<1>2. ASSUME q.eof = TRUE, q.queue = << >> PROVE x = s
  <2>1. Len(x) = Len(s)
    <3>1. Len(q.queue) = 0
      BY <1>2
    <3> QED BY <1>1, <1>2, <3>1 DEF Cut
  <2> QED BY <1>1, <2>1, SliceEnds
<1> QED BY <1>1, <1>2

LEMMA PrefixOf ==
    ASSUME NEW y, NEW f \in Seq(Cells), NEW n, Within(f, 0, n), Part(y, f, 0, n)
    PROVE  IsPrefix(y, f)
<1>1. n \in Nat /\ n <= Len(f) /\ y \in Seq(Cells) /\ Len(y) = n - 0
  BY DEF Within, Part
<1>2. Len(y) = n
  BY <1>1
<1>3. y = Slice(f, 0, n) /\ Slice(y, 0, Len(y)) = y
  BY <1>1, SliceIs, SliceEnds
<1>4. SubSeq(y, 1, Len(y)) = Slice(y, 0, Len(y)) /\ SubSeq(f, 1, Len(y)) = Slice(f, 0, n)
  BY <1>2 DEF Slice
<1> QED BY <1>1, <1>2, <1>3, <1>4 DEF IsPrefix

\* scp_recv takes off one zero byte at most, whether it is the terminator or not.
LEMMA StripsOne ==
    ASSUME NEW x \in Seq(Cells)
    PROVE  x = Strip(x) \/ x = Append(Strip(x), Nul)
<1> DEFINE n == Len(x)
           y == Slice(x, 0, n - 1)
<1>1. CASE x = << >> \/ x[n] # Nul
  BY <1>1 DEF Strip
<1>2. CASE x # << >> /\ x[n] = Nul
  <2>1. n \in Nat /\ n >= 1 /\ n - 1 \in Nat
    BY <1>2
  <2>2. Strip(x) = y
    BY <1>2 DEF Strip, Slice
  <2>3. n = Len(x) /\ x[n] = Nul /\ Within(x, 0, n - 1)
    BY <1>2, <2>1 DEF Within
  <2>4. Part(y, x, 0, n - 1)
    BY <2>3, SliceOf
  <2> HIDE DEF n, y
  <2>5. y \in Seq(Cells) /\ Len(y) = n - 1 /\ \A i \in 1..(n - 1) : y[i] = x[i]
    BY <2>1, <2>4 DEF Part
  <2>6. /\ Append(y, Nul) \in Seq(Cells) /\ Len(Append(y, Nul)) = Len(y) + 1
        /\ \A i \in 1..Len(y) : Append(y, Nul)[i] = y[i]
        /\ Append(y, Nul)[Len(y) + 1] = Nul
    BY <2>5, SshAssumption, AppendProperties
  <2>7. Len(Append(y, Nul)) = n /\ Len(y) + 1 = n
    BY <2>1, <2>5, <2>6
  <2>8. ASSUME NEW i \in 1..n PROVE Append(y, Nul)[i] = x[i]
    <3>1. CASE i = n
      BY <2>3, <2>6, <2>7, <3>1
    <3>2. CASE i # n
      <4>1. i \in 1..(n - 1) /\ i \in 1..Len(y)
        BY <2>1, <2>5, <3>2
      <4> QED BY <2>5, <2>6, <4>1
    <3> QED BY <3>1, <3>2
  <2> QED BY <2>2, <2>3, <2>6, <2>7, <2>8, SeqEqual
<1> QED BY <1>1, <1>2

\* The file is whole when everything was read, also when it ends in a zero byte,
\* and what is returned is a prefix of it in any case.
LEMMA Stripped ==
    ASSUME NEW f \in Seq(Cells), NEW x \in Seq(Cells),
           Len(x) <= Len(Append(f, Nul)), x = Slice(Append(f, Nul), 0, Len(x))
    PROVE  /\ IsPrefix(Strip(x), f)
           /\ x = Append(f, Nul) => Strip(x) = f
<1> DEFINE s == Append(f, Nul)
           n == Len(x)
<1>1. /\ s \in Seq(Cells) /\ Len(s) = Len(f) + 1 /\ Len(f) \in Nat /\ n \in Nat
      /\ \A i \in 1..Len(f) : s[i] = f[i]
      /\ s[Len(f) + 1] = Nul
  BY SshAssumption, AppendProperties
<1>a. n <= Len(s) /\ x = Slice(s, 0, n)
  OBVIOUS
<1> HIDE DEF s, n
<1>2. Within(s, 0, n)
  BY <1>1, <1>a DEF Within
<1>3. Part(x, s, 0, n)
  BY <1>2, <1>a, SliceOf
<1>4. \A i \in 1..n : x[i] = s[i]
  BY <1>1, <1>3 DEF Part
<1>5. CASE n <= Len(f)
  <2>1. \A i \in 1..n : x[i] = f[i]
    BY <1>1, <1>4, <1>5
  <2>2. x \in Seq(Cells) /\ Len(x) = n
    BY DEF n
  <2>3. Within(f, 0, n) /\ Part(x, f, 0, n)
    BY <1>1, <1>5, <2>1, <2>2 DEF Within, Part
  <2>4. x # s
    <3>1. Len(x) # Len(s)
      BY <1>1, <1>5, <2>2
    <3> QED BY <3>1
  <2>5. CASE Strip(x) = x
    BY <2>3, <2>4, <2>5, PrefixOf DEF s
  <2>6. CASE x # << >> /\ Strip(x) = SubSeq(x, 1, n - 1)
    <3>1. n >= 1
      BY <1>1, <2>2, <2>6
    <3>2. n - 1 \in Nat /\ Within(x, 0, n - 1) /\ Within(f, 0, n - 1)
      BY <1>1, <1>5, <2>2, <3>1 DEF Within
    <3>3. Part(Slice(x, 0, n - 1), x, 0, n - 1)
      BY <3>2, SliceOf
    <3>4. Strip(x) = Slice(x, 0, n - 1)
      BY <2>6 DEF Slice
    <3>5. /\ Strip(x) \in Seq(Cells) /\ Len(Strip(x)) = (n - 1) - 0
          /\ \A i \in 1..((n - 1) - 0) : Strip(x)[i] = x[0 + i]
      BY <3>3, <3>4 DEF Part
    <3>6. \A i \in 1..((n - 1) - 0) : i \in 1..n /\ 0 + i = i
      BY <1>1
    <3>7. Part(Strip(x), f, 0, n - 1)
      BY <2>1, <3>5, <3>6 DEF Part
    <3> QED BY <2>4, <3>2, <3>7, PrefixOf DEF s
  <2> QED BY <2>5, <2>6 DEF Strip, n
<1>6. CASE ~(n <= Len(f))
  <2>1. n = Len(f) + 1 /\ n - 1 = Len(f) /\ n \in 1..n
    BY <1>1, <1>a, <1>6
  <2>2. x \in Seq(Cells) /\ Len(x) = n /\ x[n] = Nul
    BY <1>1, <1>4, <2>1 DEF n
  <2>3. x # << >>
    BY <1>1, <2>1, <2>2
  <2>4. Strip(x) = Slice(x, 0, Len(f))
    BY <2>1, <2>2, <2>3 DEF Strip, Slice
  <2>5. Within(x, 0, Len(f)) /\ Within(f, 0, Len(f))
    BY <1>1, <2>1, <2>2 DEF Within
  <2>6. Part(Strip(x), x, 0, Len(f))
    BY <2>4, <2>5, SliceOf
  <2>7. \A i \in 1..(Len(f) - 0) : i \in 1..n /\ i \in 1..Len(f) /\ 0 + i = i
    BY <1>1, <2>1
  <2>8. Part(Strip(x), f, 0, Len(f))
    BY <1>1, <1>4, <2>6, <2>7 DEF Part
  <2>9. Strip(x) = f
    BY <2>5, <2>8, SliceIs, SliceEnds
  <2> QED BY <2>5, <2>8, <2>9, PrefixOf
<1> QED BY <1>5, <1>6
-----------------------------------------------------------------------------
(* Steps that end a call without a transfer to account for *)

LEMMA Constants ==
    /\ NoOp \in Ops /\ NoPeer \in Peers
    /\ NoOp.kind = "none" /\ NoOp.obj = NoObj
<1>1. << >> \in Seq(Cells)
  OBVIOUS
<1>2. NoPeer \in Peers
  BY <1>1 DEF NoPeer, Peers
<1>3. NoOp \in Ops
  BY <1>1 DEF NoOp, Ops, Maybe
<1> QED BY <1>2, <1>3 DEF NoOp

\* Between calls only the last result matters.
LEMMA IdleFlow ==
    ASSUME DataType', op' = NoOp, TransfersExact'
    PROVE  FlowInv'
<1>1. op'.kind = "none"
  BY DEF NoOp
<1>2. DownInv' /\ UpInv' /\ ReadInv' /\ WriteInv'
  BY <1>1 DEF DownInv, UpInv, ReadInv, WriteInv
<1> QED BY <1>1, <1>2 DEF FlowInv, LastInv

LEMMA NothingReported ==
    ASSUME \/ last'.err # "none"
           \/ last'.kind \notin Channels \cup {"read", "write"}
           \/ op'.kind # "none"
    PROVE  TransfersExact'
<1>1. \A k \in Channels \cup {"read", "write"} : ~Ended(k)'
  BY DEF Ended
<1>2. ~Ended("exec")' /\ ~Ended("scp_recv")' /\ ~Ended("scp_send")' /\ ~Ended("read")'
      /\ ~Ended("write")'
  BY <1>1 DEF Channels
<1> HIDE DEF Ended
<1> QED BY <1>2 DEF TransfersExact

\* What the two flags of ChanInv need when a call ends.
LEMMA IdleChan ==
    ASSUME op' = NoOp, channel' \in BOOLEAN, noMem' \in BOOLEAN,
           channel' = FALSE \/ noMem' = TRUE
    PROVE  ChanInv'
BY DEF ChanInv, NoOp, Channels, Simple

LEMMA ReturnedObj ==
    ASSUME ObjInv, ObjSame, op' = NoOp
    PROVE  ObjInv'
<1>1. Callee'
  BY DEF Callee, NoOp
<1> QED BY <1>1, ObjStay

\* A call that raises: nothing else changes, and its channel is freed unless
\* the memory ran out.
LEMMA Raised ==
    ASSUME IInv, NEW err \in {"OSError", "MemoryError"}, Raise(err), ObjSame,
           UNCHANGED <<conn, peer, rf>>,
           channel' \in BOOLEAN, noMem' \in BOOLEAN, channel' = FALSE \/ noMem' = TRUE
    PROVE  IInv'
<1>1. op' = NoOp /\ last' = [[op EXCEPT !.err = err] EXCEPT !.clean = ~Dead]
  BY DEF Raise, Return
<1>2. op \in Ops
  BY DEF IInv, FlowInv, DataType
<1>3. last'.err = err
  <2>1. [op EXCEPT !.err = err] \in Ops /\ [op EXCEPT !.err = err].err = err
    BY <1>2 DEF Ops
  <2> QED BY <1>1, <2>1 DEF Ops
<1>4. TransfersExact'
  BY <1>3, NothingReported
<1>5. DataType'
  BY <1>1, Constants DEF IInv, FlowInv, DataType
<1> QED BY <1>1, <1>4, <1>5, IdleFlow, IdleChan, ReturnedObj DEF IInv

\* Inside a call that has no channel open, none is open.
LEMMA NoChannel ==
    ASSUME ChanInv, op.kind \notin Channels \/ op.step = "call" \/ op.kind = "none"
    PROVE  /\ channel \in BOOLEAN /\ noMem \in BOOLEAN
           /\ channel = FALSE \/ noMem = TRUE
BY DEF ChanInv, Channels
\* auth, request, make and close return without a transfer.
LEMMA Returned ==
    ASSUME IInv, Return(op), op.kind \in {"auth", "request", "make", "close"}, ObjInv',
           conn' = conn, peer' = peer, rf' \in [Handles -> Files],
           channel' \in BOOLEAN, noMem' \in BOOLEAN, channel' = FALSE \/ noMem' = TRUE
    PROVE  IInv'
<1>1. op' = NoOp /\ last' = [op EXCEPT !.clean = ~Dead]
  BY DEF Return
<1>2. op \in Ops
  BY DEF IInv, FlowInv, DataType
<1>3. last'.kind = op.kind
  BY <1>1, <1>2 DEF Ops
<1>4. TransfersExact'
  BY <1>3, NothingReported DEF Channels
<1>5. DataType'
  BY <1>1, Constants DEF IInv, FlowInv, DataType
<1> QED BY <1>1, <1>4, <1>5, IdleFlow, IdleChan DEF IInv

LEMMA Raising ==
    ASSUME IInv,
           \/ MakeFailed \/ OpenFailed \/ ExecRefused \/ ScpWriteError \/ TransferError
           \/ NoMemory
    PROVE  IInv'
<1>c. ChanInv /\ channel \in BOOLEAN /\ noMem \in BOOLEAN
  BY DEF IInv, ChanInv
<1>1. CASE MakeFailed
  <2>1. Raise("OSError") /\ ObjSame /\ UNCHANGED <<conn, peer, rf, channel, noMem>>
        /\ op.kind = "make"
    BY <1>1 DEF MakeFailed, At, objVars, hist, ObjSame
  <2>2. channel = FALSE \/ noMem = TRUE
    BY <1>c, <2>1, NoChannel DEF Channels
  <2> QED BY <1>c, <2>1, <2>2, Raised
<1>2. CASE OpenFailed
  <2>1. Raise("OSError") /\ ObjSame /\ UNCHANGED <<conn, peer, rf, channel, noMem>>
        /\ op.step = "call"
    BY <1>2 DEF OpenFailed, objVars, hist, ObjSame
  <2>2. channel = FALSE \/ noMem = TRUE
    BY <1>c, <2>1, NoChannel
  <2> QED BY <1>c, <2>1, <2>2, Raised
<1>3. CASE ExecRefused \/ ScpWriteError
  <2>1. Raise("OSError") /\ ObjSame /\ UNCHANGED <<conn, peer, rf, noMem>>
        /\ channel' = FALSE
    BY <1>3 DEF ExecRefused, ScpWriteError, FreeAndRaise, objVars, hist, ObjSame
  <2> QED BY <1>c, <2>1, Raised
<1>4. CASE TransferError
  <2>1. Raise("OSError") /\ ObjSame /\ UNCHANGED <<conn, peer, rf, channel, noMem>>
        /\ op.kind \in {"read", "write"}
    BY <1>4 DEF TransferError, objVars, hist, ObjSame
  <2>2. channel = FALSE \/ noMem = TRUE
    BY <1>c, <2>1, NoChannel DEF Channels
  <2> QED BY <1>c, <2>1, <2>2, Raised
<1>5. CASE NoMemory
  <2>1. Raise("MemoryError") /\ ObjSame /\ UNCHANGED <<conn, peer, rf, channel>>
        /\ noMem' = TRUE
    BY <1>5 DEF NoMemory, objVars, ObjSame
  <2> QED BY <1>c, <2>1, Raised
<1> QED BY <1>1, <1>2, <1>3, <1>4, <1>5

\* Authentication and the requests of SFTP.
LEMMA Asking ==
    ASSUME IInv, Auth \/ Request
    PROVE  IInv'
<1>c. ChanInv /\ channel \in BOOLEAN /\ noMem \in BOOLEAN
  BY DEF IInv, ChanInv
<1>1. /\ Return(op) \/ Raise("OSError")
      /\ ObjSame /\ UNCHANGED <<conn, peer, rf, channel, noMem>>
      /\ op.kind \in {"auth", "request"}
  BY DEF Auth, Request, At, objVars, hist, ObjSame
<1>2. channel = FALSE \/ noMem = TRUE
  BY <1>c, <1>1, NoChannel DEF Channels
<1>3. CASE Raise("OSError")
  BY <1>c, <1>1, <1>2, <1>3, Raised
<1>4. CASE Return(op)
  <2>1. ObjInv' /\ rf' \in [Handles -> Files]
    BY <1>1, <1>4, ReturnedObj DEF IInv, FlowInv, DataType, Return
  <2> QED BY <1>c, <1>1, <1>2, <1>4, <2>1, Returned
<1> QED BY <1>1, <1>3, <1>4

\* sftp(), open() and opendir().
LEMMA Making ==
    ASSUME IInv, MakeDone \/ MakeNoMemory
    PROVE  IInv'
<1>c. ChanInv /\ channel \in BOOLEAN /\ noMem \in BOOLEAN
  BY DEF IInv, ChanInv
<1>1. op.kind = "make" /\ channel' = channel /\ conn' = conn /\ peer' = peer
      /\ UNCHANGED <<orderly, misused>>
  BY DEF MakeDone, MakeNoMemory, At, hist
<1>2. channel = FALSE \/ noMem = TRUE
  BY <1>c, <1>1, NoChannel DEF Channels
<1>3. /\ op.new \in Sftps \cup Handles /\ Parent(op.new, op.obj) /\ lib[op.new] = "none"
      /\ op.obj \in live /\ op.new \in Wrapped
  BY <1>1, Kinds DEF IInv, ObjInv, Callee, ObjType
<1>4. rf \in [Handles -> Files] /\ op \in Ops
  BY DEF IInv, FlowInv, DataType
<1>5. CASE MakeDone
  <2>1. Made(op.new, op.obj) /\ OpenRemote /\ Return(op) /\ noMem' = noMem /\ op' = NoOp
    BY <1>5 DEF MakeDone, Return, hist
  <2>2. ObjInv'
    BY <1>1, <1>3, <2>1, MadeObj DEF IInv
  <2>3. rf' \in [Handles -> Files]
    <3>1. op.mode \in {"none", "sftp", "r", "w", "dir"}
      BY <1>4 DEF Ops
    <3>2. CASE op.new \in Handles
      <4>1. rf' = [rf EXCEPT ![op.new].mode = op.mode] /\ rf[op.new] \in Files
        BY <1>4, <2>1, <3>2 DEF OpenRemote
      <4>2. [rf[op.new] EXCEPT !.mode = op.mode] \in Files
        BY <3>1, <4>1 DEF Files
      <4> QED BY <1>4, <3>2, <4>1, <4>2
    <3>3. CASE op.new \notin Handles
      BY <1>4, <2>1, <3>3 DEF OpenRemote
    <3> QED BY <3>2, <3>3
  <2> QED BY <1>c, <1>1, <1>2, <2>1, <2>2, <2>3, Returned
<1>6. CASE MakeNoMemory
  <2>1. /\ lib' = [lib EXCEPT ![op.new] = "given_up"] /\ noMem' = TRUE
        /\ Raise("MemoryError") /\ UNCHANGED <<live, roots, ref, ptr, rf>>
        /\ op' = NoOp
    BY <1>6 DEF MakeNoMemory, Raise, Return
  <2>2. ObjInv'
    BY <1>1, <1>3, <2>1, GivenUpObj DEF IInv
  <2>3. last' = [[op EXCEPT !.err = "MemoryError"] EXCEPT !.clean = ~Dead]
    BY <2>1 DEF Raise, Return
  <2>4. last'.kind = "make"
    BY <1>1, <1>4, <2>3 DEF Ops
  <2>5. TransfersExact'
    BY <2>4, NothingReported DEF Channels
  <2>6. DataType'
    BY <1>1, <2>1, Constants DEF IInv, FlowInv, DataType
  <2> QED BY <1>c, <1>1, <2>1, <2>2, <2>5, <2>6, IdleFlow, IdleChan DEF IInv
<1> QED BY <1>5, <1>6

LEMMA Closing ==
    ASSUME IInv, Close
    PROVE  IInv'
<1>c. ChanInv /\ channel \in BOOLEAN /\ noMem \in BOOLEAN /\ ObjInv
  BY DEF IInv, ChanInv
<1>1. /\ op.kind = "close" /\ channel' = (channel /\ op.obj # Session) /\ Return(op)
      /\ conn' = conn /\ peer' = peer /\ rf' = rf /\ noMem' = noMem
  BY DEF Close, At
<1>2. channel = FALSE \/ noMem = TRUE
  BY <1>c, <1>1, NoChannel DEF Channels
<1>3. channel' \in BOOLEAN /\ (channel' = FALSE \/ noMem' = TRUE)
  BY <1>c, <1>1, <1>2
<1>4. ObjInv' /\ rf' \in [Handles -> Files]
  BY <1>c, <1>1, CloseObj DEF IInv, FlowInv, DataType
<1> QED BY <1>c, <1>1, <1>3, <1>4, Returned
-----------------------------------------------------------------------------
(* The environment, and the beginning of a call *)

LEMMA SameFlow ==
    ASSUME FlowInv, UNCHANGED <<op, peer, rf, last>>, conn' \in {"up", "fin", "lost", "bad"},
           Dead => Dead'
    PROVE  FlowInv'
<1>1. DataType' /\ DownInv' /\ UpInv'
  BY DEF FlowInv, DataType, DownInv, UpInv, Cut
<1>2. ReadInv' /\ WriteInv'
  BY DEF FlowInv, ReadInv, WriteInv
<1>3. LastInv'
  BY DEF FlowInv, LastInv, TransfersExact, Ended, TakenOff
<1> QED BY <1>1, <1>2, <1>3 DEF FlowInv

LEMMA Conditions == FlowInv => conn \in {"up", "fin", "lost", "bad"}
BY DEF FlowInv, DataType

LEMMA ChanSame ==
    ASSUME ChanInv, UNCHANGED <<op, channel, noMem>>
    PROVE  ChanInv'
BY DEF ChanInv

LEMMA Surroundings ==
    ASSUME IInv, Collect \/ ConnEnds \/ \E o \in Objs : Drop(o)
    PROVE  IInv'
<1>1. CASE Collect
  <2>1. UNCHANGED <<op, peer, rf, last, conn, channel, noMem>>
    BY <1>1 DEF Collect, hist
  <2>2. FlowInv'
    BY <2>1, Conditions, SameFlow DEF IInv, Dead
  <2> QED BY <1>1, <2>1, <2>2, CollectObj, ChanSame DEF IInv
<1>2. CASE ConnEnds
  <2>1. UNCHANGED <<op, peer, rf, last, channel, noMem>> /\ ObjSame /\ ~Dead
        /\ conn' \in {"fin", "lost", "bad"}
    BY <1>2 DEF ConnEnds, objVars, hist, ObjSame, Dead
  <2>2. FlowInv'
    BY <2>1, SameFlow DEF IInv
  <2>3. ObjInv'
    BY <2>1, CalleeSame, ObjStay DEF IInv, ObjSame
  <2> QED BY <2>1, <2>2, <2>3, ChanSame DEF IInv
<1>3. ASSUME NEW o \in Objs, Drop(o) PROVE IInv'
  <2>1. /\ op.kind = "none" /\ roots' = roots \ {o} /\ last' = NoOp /\ peer' = NoPeer
        /\ UNCHANGED <<live, ref, ptr, lib, channel, conn, rf, op, orderly, noMem, misused>>
    BY <1>3 DEF Drop, hist
  <2>2. op' = NoOp
    BY <2>1 DEF IInv, ChanInv
  <2>3. ObjInv'
    <3>1. ObjType' /\ Chain' /\ Pointers'
      BY <2>1 DEF IInv, ObjInv, ObjType, Chain, Pointers, Parent
    <3>2. Callee'
      BY <2>2 DEF Callee, NoOp
    <3> QED BY <3>1, <3>2 DEF ObjInv
  <2>4. DataType' /\ TransfersExact'
    <3>1. DataType'
      BY <2>1, Constants DEF IInv, FlowInv, DataType
    <3>2. TransfersExact'
      BY <2>1, Constants, NothingReported DEF Channels
    <3> QED BY <3>1, <3>2
  <2> QED BY <2>1, <2>2, <2>3, <2>4, IdleFlow, ChanSame DEF IInv
<1> QED BY <1>1, <1>2, <1>3

\* Session(sock), and calls on objects that are closed or gone.
LEMMA Refused ==
    ASSUME IInv, SessionNew \/ \E o \in Wrapped : Ebadf(o) \/ DeadCall(o)
    PROVE  IInv'
<1>1. CASE SessionNew
  <2>1. /\ op.kind = "none" /\ Sock \in roots /\ lib[Session] = "none"
        /\ UNCHANGED <<channel, conn, peer, rf, op, last, orderly, noMem, misused>>
        /\ \/ Made(Session, Sock)
           \/ /\ lib' = [lib EXCEPT ![Session] = "given_up"]
              /\ UNCHANGED <<live, roots, ref, ptr>>
    BY <1>1 DEF SessionNew, hist
  <2>2. Session \in Wrapped /\ Sock \in live /\ Parent(Session, Sock) /\ ObjInv
    BY <2>1, Kinds DEF IInv, ObjInv, ObjType, Parent
  <2>3. ObjInv'
    <3>1. CASE Made(Session, Sock)
      BY <2>1, <2>2, <3>1, MadeObj
    <3>2. CASE /\ lib' = [lib EXCEPT ![Session] = "given_up"]
               /\ UNCHANGED <<live, roots, ref, ptr>>
      BY <2>1, <2>2, <3>2, GivenUpObj
    <3> QED BY <2>1, <3>1, <3>2
  <2>4. FlowInv'
    BY <2>1, Conditions, SameFlow DEF IInv, Dead
  <2> QED BY <2>1, <2>3, <2>4, ChanSame DEF IInv
<1>2. ASSUME NEW o \in Wrapped, Ebadf(o) PROVE IInv'
  <2>1. /\ op.kind = "none" /\ last' = [NoOp EXCEPT !.obj = o, !.err = "EBADF"]
        /\ ObjSame /\ UNCHANGED <<channel, conn, peer, rf, op, noMem>>
    BY <1>2 DEF Ebadf, objVars, hist, ObjSame
  <2>2. op' = NoOp
    BY <2>1 DEF IInv, ChanInv
  <2>3. TransfersExact'
    <3>1. last'.err = "EBADF"
      BY <2>1 DEF NoOp
    <3> QED BY <3>1, NothingReported
  <2>4. DataType'
    BY <2>1 DEF IInv, FlowInv, DataType
  <2> QED BY <2>1, <2>2, <2>3, <2>4, IdleFlow, ReturnedObj, ChanSame DEF IInv
<1>3. ASSUME NEW o \in Wrapped, DeadCall(o) PROVE IInv'
  <2>1. /\ ptr[o] /\ lib[o] # "open" /\ misused' = TRUE
        /\ UNCHANGED <<live, roots, ref, ptr, lib>>
        /\ UNCHANGED <<channel, conn, peer, rf, op, last, orderly, noMem>>
    BY <1>3 DEF DeadCall, objVars
  <2>2. ~(orderly = TRUE)
    BY <2>1 DEF IInv, ObjInv, ObjType, Pointers
  <2>3. ObjType' /\ Chain' /\ Callee'
    BY <2>1 DEF IInv, ObjInv, ObjType, Chain, Callee, Parent
  <2>4. Pointers'
    BY <2>1, <2>2 DEF Pointers
  <2>5. FlowInv'
    BY <2>1, Conditions, SameFlow DEF IInv, Dead
  <2> QED BY <2>1, <2>3, <2>4, <2>5, ChanSame DEF IInv, ObjInv
<1> QED BY <1>1, <1>2, <1>3

\* A call begins with what its loop expects.
LEMMA Began ==
    ASSUME IInv, NEW o \in Wrapped, NEW k \in Channels \cup Simple, NEW rest \in Ops,
           Begin(o, k, rest),
           k = "make" => /\ rest.new \in Sftps \cup Handles /\ Parent(rest.new, o)
                         /\ lib[rest.new] = "none",
           k \in {"read", "write"} => o \in Handles,
           rest.buf = << >> /\ rest.p = 0,
           k \in {"scp_send", "write"} => rest.left = Len(rest.data),
           k = "read" => rest.base = rf[o].pos /\ rest.left = rest.asked,
           k = "write" => rest.base = Len(rf[o].data)
    PROVE  IInv'
<1>1. /\ op.kind = "none" /\ o \in roots
      /\ op' = [rest EXCEPT !.kind = k, !.obj = o, !.step = "call"]
      /\ last' = NoOp /\ peer' = NoPeer
      /\ ObjSame /\ UNCHANGED <<channel, conn, rf, noMem>>
  BY DEF Begin, objVars, hist, ObjSame
<1>2. /\ op'.kind = k /\ op'.obj = o /\ op'.step = "call" /\ op'.new = rest.new
      /\ op'.buf = << >> /\ op'.p = 0 /\ op'.left = rest.left /\ op'.data = rest.data
      /\ op'.base = rest.base /\ op'.asked = rest.asked
  BY <1>1 DEF Ops
<1>3. op' \in Ops
  <2>1. k \in {"none"} \cup Channels \cup Simple /\ o \in Maybe
    BY DEF Wrapped, Maybe
  <2> QED BY <1>1, <2>1 DEF Ops
<1>4. rest.data \in Seq(Cells) /\ Len(rest.data) \in Nat /\ rest.asked \in Int
  BY DEF Ops
<1>5. rf' = rf /\ rf \in [Handles -> Files] /\ conn \in {"up", "fin", "lost", "bad"} /\ conn' = conn
  BY <1>1 DEF IInv, FlowInv, DataType
<1>6. k # "none"
  BY DEF Channels, Simple
<1>7. ObjInv'
  <2>1. Callee'
    BY <1>1, <1>2, <1>6 DEF Callee, ObjSame, Parent
  <2> QED BY <1>1, <2>1, ObjStay DEF IInv
<1>8. ChanInv'
  <2>1. channel \in BOOLEAN /\ noMem \in BOOLEAN /\ (channel = FALSE \/ noMem = TRUE)
    BY <1>1, NoChannel DEF IInv
  <2> QED BY <1>1, <1>2, <1>6, <2>1 DEF ChanInv
<1>9. DataType'
  BY <1>1, <1>3, <1>5, Constants DEF DataType
<1>10. DownInv'
  BY <1>2 DEF DownInv
<1>11. UpInv'
  BY <1>2, <1>4 DEF UpInv
<1>12. ReadInv'
  <2> SUFFICES ASSUME k = "read" PROVE ReadInv'
    BY <1>2 DEF ReadInv
  <2>1. o \in Handles /\ rf[o].pos \in 0..Len(RemoteFile) /\ rf[o].pos \in Nat
    BY <1>5, SshAssumption DEF Files
  <2>2. Slice(RemoteFile, rf[o].pos, rf[o].pos) = << >>
    BY <2>1, SliceEnds, SshAssumption
  <2>3. /\ op'.base = rf'[op'.obj].pos /\ op'.base \in Nat /\ op'.left = op'.asked
        /\ op'.buf = Slice(RemoteFile, op'.base, rf'[op'.obj].pos)
        /\ op'.asked \in Int /\ rf'[op'.obj].pos \in Nat
    BY <1>2, <1>4, <1>5, <2>1, <2>2
  <2>4. \A u \in Int, v \in Nat : u - (v - v) = u /\ (u > 0 => u > 0 /\ u = u - (v - v)) /\ v <= v
    OBVIOUS
  <2> QED BY <2>3, <2>4 DEF ReadInv
<1>13. WriteInv'
  <2> SUFFICES ASSUME k = "write" PROVE WriteInv'
    BY <1>2 DEF WriteInv
  <2> DEFINE d == rf[o].data
  <2>1. o \in Handles /\ d \in Seq(Cells)
    BY <1>5 DEF Files
  <2>2. Len(d) \in Nat /\ Slice(d, Len(d), Len(d)) = << >> /\ Slice(rest.data, 0, 0) = << >>
    BY <1>4, <2>1, SliceEnds
  <2>3. rf'[op'.obj].data = d /\ op'.base = Len(d)
    BY <1>2, <1>5
  <2> HIDE DEF d
  <2> QED BY <1>2, <1>4, <2>2, <2>3 DEF WriteInv
<1>14. LastInv'
  BY <1>1, <1>2, <1>6, NothingReported DEF LastInv
<1> QED BY <1>7, <1>8, <1>9, <1>10, <1>11, <1>12, <1>13, <1>14 DEF IInv, FlowInv
\* Every call a script can begin.
LEMMA Calling ==
    ASSUME IInv,
           \/ SessionCall \/ (\E s \in Sftps : SftpCall(s)) \/ (\E h \in Handles : HandleCall(h))
    PROVE  IInv'
<1>0. /\ NoOp \in Ops /\ NoOp.buf = << >> /\ NoOp.p = 0 /\ NoOp.data = << >> /\ NoOp.left = 0
  BY Constants DEF NoOp
<1>w. /\ Session \in Wrapped /\ \A s \in Sftps : s \in Wrapped
      /\ \A h \in Handles : h \in Wrapped
  BY Kinds
<1>1. ASSUME NEW o \in Wrapped, NEW k \in {"auth", "request", "exec", "scp_recv", "close"},
             Begin(o, k, NoOp)
      PROVE  IInv'
  <2>1. k \in Channels \cup Simple /\ k \notin {"make", "read", "write", "scp_send"}
    BY DEF Channels, Simple
  <2> QED BY <1>0, <1>1, <2>1, Began
<1>2. ASSUME NEW o \in Wrapped, NEW n \in Sftps \cup Handles, NEW mode \in {"sftp", "r", "w", "dir"},
             MakeBegin(o, n, mode), Parent(n, o)
      PROVE  IInv'
  <2> DEFINE r == [NoOp EXCEPT !.new = n, !.mode = mode]
  <2>1. lib[n] = "none" /\ Begin(o, "make", r)
    BY <1>2 DEF MakeBegin
  <2>2. n \in Maybe
    BY DEF Maybe, Objs
  <2> HIDE DEF NoOp
  <2>3. r \in Ops /\ r.new = n /\ r.buf = << >> /\ r.p = 0
    BY <1>0, <2>2 DEF Ops
  <2>4. "make" \in Channels \cup Simple
    BY DEF Simple
  <2> HIDE DEF r
  <2> QED BY <1>2, <2>1, <2>3, <2>4, Began
<1>3. ASSUME NEW d \in Payloads, Begin(Session, "scp_send", Transfer(d)) PROVE IInv'
  <2>1. d \in Seq(Cells) /\ Len(d) \in Int
    BY SshAssumption
  <2>2. /\ Transfer(d) \in Ops /\ Transfer(d).buf = << >> /\ Transfer(d).p = 0
        /\ Transfer(d).data = d /\ Transfer(d).left = Len(d)
    BY <1>0, <2>1 DEF Ops, Transfer
  <2>3. "scp_send" \in Channels \cup Simple
    BY DEF Channels
  <2> HIDE DEF Transfer
  <2> QED BY <1>3, <1>w, <2>2, <2>3, Began
<1>4. ASSUME NEW h \in Handles, NEW max \in Limits,
             Begin(h, "read", [NoOp EXCEPT !.left = max, !.asked = max, !.base = rf[h].pos])
      PROVE  IInv'
  <2> DEFINE r == [NoOp EXCEPT !.left = max, !.asked = max, !.base = rf[h].pos]
  <2>1. max \in Int /\ rf[h].pos \in Int
    BY SshAssumption DEF IInv, FlowInv, DataType, Files
  <2>2. r \in Ops /\ r.buf = << >> /\ r.p = 0 /\ r.left = r.asked /\ r.base = rf[h].pos
    BY <1>0, <2>1 DEF Ops
  <2>3. "read" \in Channels \cup Simple
    BY DEF Simple
  <2>4. Begin(h, "read", r)
    BY <1>4
  <2> HIDE DEF r
  <2> QED BY <1>w, <2>2, <2>3, <2>4, Began
<1>5. ASSUME NEW h \in Handles, NEW d \in Payloads,
             Begin(h, "write", [Transfer(d) EXCEPT !.base = Len(rf[h].data)])
      PROVE  IInv'
  <2> DEFINE r == [Transfer(d) EXCEPT !.base = Len(rf[h].data)]
  <2>1. d \in Seq(Cells) /\ Len(d) \in Int
    BY SshAssumption
  <2>2. rf[h].data \in Seq(Cells) /\ Len(rf[h].data) \in Int
    BY DEF IInv, FlowInv, DataType, Files
  <2>3. /\ Transfer(d) \in Ops /\ Transfer(d).buf = << >> /\ Transfer(d).p = 0
        /\ Transfer(d).data = d /\ Transfer(d).left = Len(d)
    BY <1>0, <2>1 DEF Ops, Transfer
  <2> HIDE DEF Transfer
  <2>4. /\ r \in Ops /\ r.buf = << >> /\ r.p = 0 /\ r.left = Len(r.data)
        /\ r.base = Len(rf[h].data)
    BY <2>2, <2>3 DEF Ops
  <2>5. "write" \in Channels \cup Simple
    BY DEF Simple
  <2>6. Begin(h, "write", r)
    BY <1>5
  <2> HIDE DEF r
  <2> QED BY <1>w, <2>4, <2>5, <2>6, Began
<1>6. CASE SessionCall
  <2>1. ASSUME NEW s \in Sftps, MakeBegin(Session, s, "sftp") PROVE IInv'
    <3>1. Parent(s, Session)
      BY DEF Parent
    <3> QED BY <1>2, <1>w, <2>1, <3>1
  <2> QED BY <1>1, <1>3, <1>6, <1>w, <2>1 DEF SessionCall
<1>7. ASSUME NEW s \in Sftps, SftpCall(s) PROVE IInv'
  <2>1. ASSUME NEW h \in Handles, NEW mode \in {"r", "w", "dir"}, MakeBegin(s, h, mode)
        PROVE  IInv'
    <3>1. Parent(h, s)
      BY DEF Parent
    <3> QED BY <1>2, <1>w, <2>1, <3>1
  <2> QED BY <1>1, <1>7, <1>w, <2>1 DEF SftpCall
<1>8. ASSUME NEW h \in Handles, HandleCall(h) PROVE IInv'
  BY <1>1, <1>4, <1>5, <1>8, <1>w DEF HandleCall
<1> QED BY <1>6, <1>7, <1>8

-----------------------------------------------------------------------------
(* Channels *)

\* The call goes on; what its loop needs is shown by each step.
LEMMA GoesOn ==
    ASSUME IInv, op.kind \in Channels, ObjSame, UNCHANGED <<conn, rf, noMem, last>>,
           channel' \in BOOLEAN, op' \in Ops, peer' \in Peers,
           op'.kind = op.kind /\ op'.obj = op.obj /\ op'.new = op.new,
           op'.step \in {"exec", "loop", "finish"},
           DownInv', UpInv'
    PROVE  IInv'
<1>1. op.kind # "none" /\ op.kind \notin Simple /\ op.kind \notin {"read", "write"}
  BY DEF Channels, Simple
<1>2. ObjInv'
  BY CalleeSame, ObjStay DEF IInv, ObjSame
<1>3. ChanInv'
  BY <1>1 DEF IInv, ChanInv
<1>4. DataType'
  BY DEF IInv, FlowInv, DataType
<1>5. LastInv'
  BY <1>1, NothingReported DEF IInv, FlowInv, LastInv
<1>6. ReadInv' /\ WriteInv'
  BY <1>1 DEF ReadInv, WriteInv
<1> QED BY <1>2, <1>3, <1>4, <1>5, <1>6 DEF IInv, FlowInv

LEMMA SentType ==
    ASSUME NEW k
    PROVE  Sent(k) \in Seq(Cells)
BY SshAssumption, AppendProperties DEF Sent

\* A download loop with everything it needs.
LEMMA DownStep ==
    ASSUME op' \in Ops, op'.kind \in {"exec", "scp_recv"}, op'.step # "call",
           Cut(Sent(op'.kind), op'.buf, peer'),
           op'.step = "finish" => Dead' \/ (peer'.eof = TRUE /\ peer'.queue = << >>),
           op'.step = "exec" => op'.kind = "exec"
    PROVE  DownInv' /\ UpInv'
<1>1. op'.kind # "scp_send"
  OBVIOUS
<1>2. UpInv'
  BY <1>1 DEF UpInv
<1>3. DownInv'
  BY DEF DownInv, Cut, Sent
<1> QED BY <1>2, <1>3

\* When the end has arrived, nothing is left to send.
LEMMA CutEof ==
    ASSUME NEW s \in Seq(Cells), NEW x \in Seq(Cells), NEW q \in Peers, Cut(s, x, q),
           q.eof = TRUE
    PROVE  q.out = << >>
<1>1. Len(s) \in Nat /\ Len(x) + Len(q.queue) = Len(s)
      /\ q.out = Slice(s, Len(x) + Len(q.queue), Len(s))
  BY CutParts DEF Cut
<1> QED BY <1>1, SliceEnds

\* The server sends the next cell, or ends the channel.
LEMMA PeerSteps ==
    ASSUME IInv, PeerSend \/ PeerEnd
    PROVE  IInv'
<1>1. /\ conn = "up" /\ op.step \in {"loop", "finish"} /\ op' = op /\ ObjSame
      /\ UNCHANGED <<conn, rf, noMem, last, channel>>
      /\ \/ peer.out # << >> /\ peer' = [peer EXCEPT !.out = Tail(@), !.queue = Append(@, Head(peer.out))]
         \/ peer.out = << >> /\ peer' = [peer EXCEPT !.eof = TRUE]
  BY DEF PeerSend, PeerEnd, objVars, hist, ObjSame
<1>2. /\ op \in Ops /\ peer \in Peers /\ channel \in BOOLEAN /\ op.buf \in Seq(Cells)
  BY DEF IInv, FlowInv, DataType, ChanInv, Ops
<1>3. op.kind \in Channels
  <2>1. op.kind \in {"none"} \cup Channels \cup Simple
    BY <1>2 DEF Ops
  <2>2. op.kind # "none"
    BY <1>1 DEF IInv, ChanInv, NoOp
  <2>3. op.kind \notin Simple
    BY <1>1 DEF IInv, ChanInv
  <2> QED BY <2>1, <2>2, <2>3
<1>4. CASE op.kind \in {"exec", "scp_recv"}
  <2>1. Cut(Sent(op.kind), op.buf, peer) /\ Sent(op.kind) \in Seq(Cells)
    BY <1>1, <1>4, SentType DEF IInv, FlowInv, DownInv
  <2>2. op.step = "finish" => peer.eof = TRUE /\ peer.queue = << >>
    BY <1>1, <1>4 DEF IInv, FlowInv, DownInv, Dead
  <2>3. peer' \in Peers /\ Cut(Sent(op.kind), op.buf, peer')
    <3> HIDE DEF Cut, Peers
    <3>1. CASE peer.out # << >> /\ peer' = [peer EXCEPT !.out = Tail(@), !.queue = Append(@, Head(peer.out))]
      BY <1>2, <2>1, <3>1, CutSend
    <3>2. CASE peer.out = << >> /\ peer' = [peer EXCEPT !.eof = TRUE]
      BY <1>2, <2>1, <3>2, CutEnd
    <3> QED BY <1>1, <3>1, <3>2
  <2>4. op.step = "finish" => peer'.eof = TRUE /\ peer'.queue = << >>
    <3> SUFFICES ASSUME op.step = "finish" PROVE peer'.eof = TRUE /\ peer'.queue = << >>
      OBVIOUS
    <3>1. peer.out = << >>
      BY <1>2, <2>1, <2>2, CutEof
    <3>2. peer' = [peer EXCEPT !.eof = TRUE]
      BY <1>1, <3>1
    <3> QED BY <1>2, <2>2, <3>2 DEF Peers
  <2>5. DownInv' /\ UpInv'
    BY <1>1, <1>2, <1>4, <2>3, <2>4, DownStep
  <2> QED BY <1>1, <1>2, <1>3, <2>3, <2>5, GoesOn
<1>5. CASE op.kind = "scp_send"
  <2>1. peer' \in Peers /\ peer'.got = peer.got
    <3>1. CASE peer.out # << >> /\ peer' = [peer EXCEPT !.out = Tail(@), !.queue = Append(@, Head(peer.out))]
      <4>1. peer.out \in Seq(Cells) /\ peer.queue \in Seq(Cells)
        BY <1>2 DEF Peers
      <4>2. Tail(peer.out) \in Seq(Cells) /\ Head(peer.out) \in Cells
        BY <3>1, <4>1
      <4>3. Append(peer.queue, Head(peer.out)) \in Seq(Cells)
        BY <4>1, <4>2, AppendProperties
      <4> QED BY <1>2, <3>1, <4>2, <4>3 DEF Peers
    <3>2. CASE peer.out = << >> /\ peer' = [peer EXCEPT !.eof = TRUE]
      BY <1>2, <3>2 DEF Peers
    <3> QED BY <1>1, <3>1, <3>2
  <2>2. UpInv'
    BY <1>1, <2>1 DEF IInv, FlowInv, UpInv, Dead
  <2>3. DownInv'
    BY <1>1, <1>5 DEF DownInv
  <2> QED BY <1>1, <1>2, <1>3, <2>1, <2>2, <2>3, GoesOn
<1> QED BY <1>3, <1>4, <1>5 DEF Channels
\* The type and the loop of a download under way.
LEMMA Download ==
    ASSUME IInv, op.kind \in {"exec", "scp_recv"}
    PROVE  /\ op \in Ops /\ peer \in Peers /\ channel \in BOOLEAN /\ noMem \in BOOLEAN
           /\ op.buf \in Seq(Cells) /\ op.kind \in Channels /\ Sent(op.kind) \in Seq(Cells)
           /\ op.step # "call" => Cut(Sent(op.kind), op.buf, peer)
           /\ op.step = "call" => op.buf = << >>
BY SentType DEF IInv, FlowInv, DataType, ChanInv, Ops, Channels, DownInv

\* Another step of the loop, which changes nothing but where it is.
LEMMA DownGoto ==
    ASSUME IInv, op.kind \in {"exec", "scp_recv"}, op.step # "call",
           NEW st \in {"loop", "finish"}, Goto(st), ObjSame,
           UNCHANGED <<conn, rf, noMem, channel, peer>>,
           st = "finish" => Dead \/ (peer.eof = TRUE /\ peer.queue = << >>)
    PROVE  IInv'
<1>1. op' = [op EXCEPT !.step = st] /\ last' = last
  BY DEF Goto
<1>2. /\ op \in Ops /\ peer \in Peers /\ channel \in BOOLEAN /\ op.kind \in Channels
      /\ Cut(Sent(op.kind), op.buf, peer)
  BY Download
<1>3. /\ op' \in Ops /\ op'.kind = op.kind /\ op'.obj = op.obj /\ op'.new = op.new
      /\ op'.step = st /\ op'.buf = op.buf
  BY <1>1, <1>2 DEF Ops
<1>4. Dead' = Dead
  BY DEF Dead
<1>5. op'.kind \in {"exec", "scp_recv"} /\ op'.step # "call" /\ op'.step # "exec"
      /\ Cut(Sent(op'.kind), op'.buf, peer')
      /\ (op'.step = "finish" => Dead' \/ (peer'.eof = TRUE /\ peer'.queue = << >>))
  BY <1>2, <1>3, <1>4
<1>6. DownInv' /\ UpInv'
  BY <1>3, <1>5, DownStep
<1> QED BY <1>1, <1>2, <1>3, <1>6, GoesOn

\* A read takes the front of the queue.
LEMMA Taking ==
    ASSUME IInv, \E k \in 1..ExecBuf : ExecData(k) \/ ScpData(k)
    PROVE  IInv'
<1> PICK k \in 1..ExecBuf : ExecData(k) \/ ScpData(k)
  OBVIOUS
<1>0. k \in Nat
  BY SshAssumption
<1> DEFINE y == op.buf \o SubSeq(peer.queue, 1, k)
<1>1. /\ Take(k) /\ op.kind \in {"exec", "scp_recv"} /\ op.step = "loop"
      /\ \/ op' = [op EXCEPT !.buf = y]
         \/ op' = [op EXCEPT !.buf = y, !.step = IF peer.eof /\ k = Len(peer.queue) THEN "finish" ELSE "loop"]
  BY DEF ExecData, ScpData, At
<1>2. /\ k <= Len(peer.queue) /\ ObjSame /\ UNCHANGED <<channel, conn, rf, last, noMem>>
      /\ peer' = [peer EXCEPT !.queue = SubSeq(@, k + 1, Len(@))]
  BY <1>1 DEF Take, objVars, hist, ObjSame
<1>3. /\ op \in Ops /\ peer \in Peers /\ channel \in BOOLEAN /\ op.kind \in Channels
      /\ op.buf \in Seq(Cells) /\ Sent(op.kind) \in Seq(Cells)
      /\ Cut(Sent(op.kind), op.buf, peer)
  BY <1>1, Download
<1>4. /\ peer' \in Peers /\ y \in Seq(Cells) /\ Cut(Sent(op.kind), y, peer')
      /\ peer'.eof = peer.eof /\ (k = Len(peer.queue) => peer'.queue = << >>)
  <2> DEFINE s == Sent(op.kind)
  <2>1. s \in Seq(Cells) /\ op.buf \in Seq(Cells) /\ peer \in Peers /\ Cut(s, op.buf, peer)
        /\ k <= Len(peer.queue)
    BY <1>2, <1>3
  <2> HIDE DEF s
  <2>2. Taken(peer, peer', op.buf, y, k)
    BY <1>2 DEF Taken
  <2> HIDE DEF y
  <2>3. /\ peer' \in Peers /\ y \in Seq(Cells) /\ Cut(s, y, peer')
        /\ peer'.eof = peer.eof /\ (k = Len(peer.queue) => peer'.queue = << >>)
    BY <1>0, <1>2, <2>1, <2>2, CutTake
  <2> QED BY <2>3 DEF s
<1> HIDE DEF y
<1>5. /\ op' \in Ops /\ op'.kind = op.kind /\ op'.obj = op.obj /\ op'.new = op.new
      /\ op'.buf = y /\ op'.step \in {"loop", "finish"}
      /\ (op'.step = "finish" => peer.eof /\ k = Len(peer.queue))
  <2>1. CASE op' = [op EXCEPT !.buf = y]
    BY <1>1, <1>3, <1>4, <2>1 DEF Ops
  <2>2. CASE op' = [op EXCEPT !.buf = y, !.step = IF peer.eof /\ k = Len(peer.queue) THEN "finish" ELSE "loop"]
    <3>1. CASE peer.eof /\ k = Len(peer.queue)
      BY <1>3, <1>4, <2>2, <3>1 DEF Ops
    <3>2. CASE ~(peer.eof /\ k = Len(peer.queue))
      BY <1>3, <1>4, <2>2, <3>2 DEF Ops
    <3> QED BY <3>1, <3>2
  <2> QED BY <1>1, <2>1, <2>2
<1>6. op'.step = "finish" => peer'.eof = TRUE /\ peer'.queue = << >>
  BY <1>3, <1>4, <1>5 DEF Peers
<1>7. op'.kind \in {"exec", "scp_recv"} /\ op'.step # "call" /\ op'.step # "exec"
      /\ Cut(Sent(op'.kind), op'.buf, peer')
  BY <1>1, <1>4, <1>5
<1>8. DownInv' /\ UpInv'
  BY <1>5, <1>6, <1>7, DownStep
<1> QED BY <1>2, <1>3, <1>4, <1>5, <1>8, GoesOn

\* The other steps of exec and scp_recv.
LEMMA Downloading ==
    ASSUME IInv, ExecStart \/ ExecEnd \/ ExecError \/ ScpEnd \/ ScpError
    PROVE  IInv'
<1>1. op.kind \in {"exec", "scp_recv"} /\ op.step \in {"exec", "loop"}
  BY DEF ExecStart, ExecEnd, ExecError, ScpEnd, ScpError, At
<1>2. op.step # "call" /\ peer \in Peers /\ channel \in BOOLEAN /\ noMem \in BOOLEAN
  BY <1>1, Download
<1>3. \/ /\ Goto("loop") \/ (Goto("finish") /\ (Dead \/ Eof))
         /\ UNCHANGED <<objVars, channel, conn, peer, rf, hist>>
      \/ FreeAndRaise
  BY DEF ExecStart, ExecEnd, ExecError, ScpEnd, ScpError
<1>4. CASE FreeAndRaise
  <2>1. Raise("OSError") /\ ObjSame /\ UNCHANGED <<conn, peer, rf, noMem>> /\ channel' = FALSE
    BY <1>4 DEF FreeAndRaise, objVars, hist, ObjSame
  <2> QED BY <1>2, <2>1, Raised
<1>5. CASE /\ Goto("loop") \/ (Goto("finish") /\ (Dead \/ Eof))
           /\ UNCHANGED <<objVars, channel, conn, peer, rf, hist>>
  <2>1. ObjSame /\ UNCHANGED <<conn, rf, noMem, channel, peer>>
    BY <1>5 DEF objVars, hist, ObjSame
  <2>2. Eof => peer.eof = TRUE /\ peer.queue = << >>
    BY <1>2 DEF Eof, Peers
  <2>3. CASE Goto("loop")
    BY <1>1, <1>2, <2>1, <2>3, DownGoto
  <2>4. CASE Goto("finish") /\ (Dead \/ Eof)
    BY <1>1, <1>2, <2>1, <2>2, <2>4, DownGoto
  <2> QED BY <1>5, <2>3, <2>4
<1> QED BY <1>3, <1>4, <1>5

\* Opening the channel.
LEMMA Opening ==
    ASSUME IInv,
           \/ OpenChannel("exec", Output, "exec")
           \/ OpenChannel("scp_recv", Append(RemoteFile, Nul), "loop")
           \/ OpenChannel("scp_send", <<>>, "loop")
    PROVE  IInv'
<1>1. ASSUME NEW k \in {"exec", "scp_recv"}, NEW st \in {"exec", "loop"}, st = "exec" => k = "exec",
             OpenChannel(k, Sent(k), st)
      PROVE  IInv'
  <2>1. /\ op.kind = k /\ op.step = "call" /\ channel' = TRUE
        /\ peer' = [NoPeer EXCEPT !.out = Sent(k)] /\ ObjSame
        /\ UNCHANGED <<conn, rf, noMem, last>> /\ op' = [op EXCEPT !.step = st]
    BY <1>1 DEF OpenChannel, At, Goto, objVars, hist, ObjSame
  <2>2. op \in Ops /\ op.kind \in Channels /\ Sent(k) \in Seq(Cells) /\ op.buf = << >>
    BY <2>1, Download
  <2>3. peer' \in Peers /\ Cut(Sent(k), << >>, peer')
    <3> HIDE DEF NoPeer, Cut, Sent
    <3> QED BY <2>1, <2>2, CutOpen
  <2>4. /\ op' \in Ops /\ op'.kind = op.kind /\ op'.obj = op.obj /\ op'.new = op.new
        /\ op'.step = st /\ op'.buf = << >>
    BY <2>1, <2>2 DEF Ops
  <2>5. DownInv' /\ UpInv'
    <3>1. op'.kind \in {"exec", "scp_recv"} /\ op'.step # "call" /\ op'.step # "finish"
          /\ Cut(Sent(op'.kind), op'.buf, peer') /\ (op'.step = "exec" => op'.kind = "exec")
      BY <1>1, <2>1, <2>3, <2>4
    <3> QED BY <2>4, <3>1, DownStep
  <2> QED BY <2>1, <2>2, <2>3, <2>4, <2>5, GoesOn
<1>2. CASE OpenChannel("exec", Output, "exec")
  <2>1. Sent("exec") = Output
    BY DEF Sent
  <2> QED BY <1>1, <1>2, <2>1
<1>3. CASE OpenChannel("scp_recv", Append(RemoteFile, Nul), "loop")
  <2>1. Sent("scp_recv") = Append(RemoteFile, Nul)
    BY DEF Sent
  <2> QED BY <1>1, <1>3, <2>1
<1>4. CASE OpenChannel("scp_send", <<>>, "loop")
  <2>1. /\ op.kind = "scp_send" /\ op.step = "call" /\ channel' = TRUE
        /\ peer' = [NoPeer EXCEPT !.out = <<>>] /\ ObjSame
        /\ UNCHANGED <<conn, rf, noMem, last>> /\ op' = [op EXCEPT !.step = "loop"]
    BY <1>4 DEF OpenChannel, At, Goto, objVars, hist, ObjSame
  <2>2. op \in Ops /\ op.kind \in Channels /\ op.p = 0
    BY <2>1 DEF IInv, FlowInv, DataType, UpInv, Channels
  <2>3. peer' \in Peers /\ peer'.got = << >>
    BY <2>1, Constants DEF NoPeer, Peers
  <2>4. /\ op' \in Ops /\ op'.kind = op.kind /\ op'.obj = op.obj /\ op'.new = op.new
        /\ op'.step = "loop" /\ op'.p = op.p /\ op'.left = op.left /\ op'.data = op.data
        /\ op.data \in Seq(Cells)
    BY <2>1, <2>2 DEF Ops
  <2>5. Slice(op.data, 0, 0) = << >>
    BY <2>4, SliceEnds
  <2>6. DownInv' /\ UpInv'
    BY <2>1, <2>2, <2>3, <2>4, <2>5 DEF DownInv, UpInv, IInv, FlowInv
  <2> QED BY <2>1, <2>2, <2>3, <2>4, <2>6, GoesOn
<1> QED BY <1>2, <1>3, <1>4
\* An upload with everything its loop needs.
LEMMA UpStep ==
    ASSUME op'.kind = "scp_send", op'.step \in {"loop", "finish"},
           op'.p \in Nat /\ op'.left \in Nat /\ op'.p + op'.left = Len(op'.data),
           op'.step = "loop" => peer'.got = Slice(op'.data, 0, op'.p),
           op'.step = "finish" => Dead' \/ peer'.got = Append(op'.data, Nul)
    PROVE  DownInv' /\ UpInv'
<1>1. UpInv'
  BY DEF UpInv
<1>2. DownInv'
  BY DEF DownInv
<1> QED BY <1>1, <1>2

LEMMA Uploading ==
    ASSUME IInv, (\E k \in 1..op.left : ScpWrite(k)) \/ ScpTerminate
    PROVE  IInv'
<1>1. op.kind = "scp_send" /\ op.step = "loop" /\ op.kind \in Channels
  BY DEF ScpWrite, ScpTerminate, At, Channels
<1>2. /\ op \in Ops /\ peer \in Peers /\ channel \in BOOLEAN
      /\ op.p \in Nat /\ op.left \in Nat /\ op.p + op.left = Len(op.data)
      /\ peer.got = Slice(op.data, 0, op.p)
  BY <1>1 DEF IInv, FlowInv, DataType, ChanInv, UpInv
<1>3. op.data \in Seq(Cells) /\ Len(op.data) \in Nat /\ peer.got \in Seq(Cells)
  BY <1>2 DEF Ops, Peers
<1>4. ASSUME NEW k \in 1..op.left, ScpWrite(k) PROVE IInv'
  <2> DEFINE part == SubSeq(op.data, op.p + 1, op.p + k)
  <2>1. /\ peer' = [peer EXCEPT !.got = @ \o part]
        /\ op' = [op EXCEPT !.p = @ + k, !.left = @ - k]
        /\ ObjSame /\ UNCHANGED <<conn, rf, noMem, last, channel>>
    BY <1>4 DEF ScpWrite, Advance, objVars, hist, ObjSame
  <2>2. /\ op.p + k \in Nat /\ op.left - k \in Nat /\ k \in Nat
        /\ (op.p + k) + (op.left - k) = Len(op.data) /\ op.p <= op.p + k
        /\ op.p + k <= Len(op.data)
    BY <1>2, <1>3
  <2>3. part = Slice(op.data, op.p, op.p + k)
    BY DEF Slice
  <2> HIDE DEF part
  <2>4. Within(op.data, 0, op.p) /\ Within(op.data, op.p, op.p + k)
    BY <1>2, <1>3, <2>2 DEF Within
  <2>5. peer.got \o part = Slice(op.data, 0, op.p + k) /\ Within(op.data, 0, op.p + k)
    <3>1. /\ Slice(op.data, 0, op.p) \o Slice(op.data, op.p, op.p + k) = Slice(op.data, 0, op.p + k)
          /\ Within(op.data, 0, op.p + k)
      BY <2>4, SliceJoin
    <3> QED BY <1>2, <2>3, <3>1
  <2>6. peer.got \o part \in Seq(Cells)
    <3>1. Part(peer.got \o part, op.data, 0, op.p + k)
      BY <2>5, SliceOf
    <3> QED BY <3>1 DEF Part
  <2>7. peer' \in Peers /\ peer'.got = peer.got \o part
    BY <1>2, <2>1, <2>6 DEF Peers
  <2>8. /\ op' \in Ops /\ op'.kind = op.kind /\ op'.obj = op.obj /\ op'.new = op.new
        /\ op'.step = "loop" /\ op'.p = op.p + k /\ op'.left = op.left - k
        /\ op'.data = op.data
    <3> DEFINE a == op.p + k
               b == op.left - k
    <3>1. op' = [op EXCEPT !.p = a, !.left = b] /\ a \in Int /\ b \in Int
      BY <1>2, <2>1, <2>2
    <3> HIDE DEF a, b
    <3>2. /\ op' \in Ops /\ op'.kind = op.kind /\ op'.obj = op.obj /\ op'.new = op.new
          /\ op'.step = "loop" /\ op'.p = a /\ op'.left = b /\ op'.data = op.data
      BY <1>1, <1>2, <3>1 DEF Ops
    <3> QED BY <3>2 DEF a, b
  <2>9. DownInv' /\ UpInv'
    BY <1>1, <2>2, <2>5, <2>7, <2>8, UpStep
  <2> QED BY <1>1, <1>2, <2>1, <2>7, <2>8, <2>9, GoesOn
<1>5. CASE ScpTerminate
  <2>1. /\ op.left = 0 /\ op' = [op EXCEPT !.step = "finish"]
        /\ peer' = IF Dead THEN peer ELSE [peer EXCEPT !.got = Append(@, Nul)]
        /\ ObjSame /\ UNCHANGED <<conn, rf, noMem, last, channel>>
    BY <1>5 DEF ScpTerminate, Goto, objVars, hist, ObjSame
  <2>2. op.p = Len(op.data)
    BY <1>2, <1>3, <2>1
  <2>3. peer.got = op.data
    BY <1>2, <1>3, <2>2, SliceEnds
  <2>4. Append(peer.got, Nul) \in Seq(Cells)
    BY <1>3, SshAssumption, AppendProperties
  <2>5. peer' \in Peers /\ (Dead' \/ peer'.got = Append(op.data, Nul))
    <3>1. CASE Dead
      BY <1>2, <2>1, <3>1 DEF Dead
    <3>2. CASE ~Dead
      BY <1>2, <2>1, <2>3, <2>4, <3>2 DEF Peers
    <3> QED BY <3>1, <3>2
  <2>6. /\ op' \in Ops /\ op'.kind = op.kind /\ op'.obj = op.obj /\ op'.new = op.new
        /\ op'.step = "finish" /\ op'.p = op.p /\ op'.left = op.left /\ op'.data = op.data
    BY <1>1, <1>2, <2>1 DEF Ops
  <2>7. DownInv' /\ UpInv'
    BY <1>1, <1>2, <2>5, <2>6, UpStep
  <2> QED BY <1>1, <1>2, <2>1, <2>5, <2>6, <2>7, GoesOn
<1> QED BY <1>4, <1>5

\* What was read off what the server sends.
LEMMA TakenOffIs ==
    ASSUME NEW s \in Seq(Cells), NEW x \in Seq(Cells), peer \in Peers, peer' = peer,
           Cut(s, x, peer)
    PROVE  TakenOff(s)' = x
<1>1. Len(x) \in Nat /\ Len(peer.queue) \in Nat /\ Len(s) \in Nat
  BY DEF Peers
<1>2. Len(peer.out) = Len(s) - (Len(x) + Len(peer.queue))
  BY CutParts
<1>3. Len(s) - Len(peer.out) - Len(peer.queue) = Len(x)
  BY <1>1, <1>2
<1>4. x = SubSeq(s, 1, Len(x))
  BY DEF Cut, Slice
<1> QED BY <1>3, <1>4 DEF TakenOff

\* The result of a call with a channel.
LEMMA Finishing ==
    ASSUME IInv, Finish
    PROVE  IInv'
<1>0. /\ op \in Ops /\ peer \in Peers /\ noMem \in BOOLEAN
      /\ conn \in {"up", "fin", "lost", "bad"} /\ rf \in [Handles -> Files]
      /\ op.buf \in Seq(Cells)
  BY DEF IInv, FlowInv, DataType, ChanInv, Ops
<1> DEFINE res == IF op.kind = "scp_recv" THEN [op EXCEPT !.buf = Strip(@)] ELSE op
<1>1. /\ op.step = "finish" /\ (Dead \/ peer.eof) /\ channel' = FALSE
      /\ last' = [res EXCEPT !.clean = ~Dead] /\ op' = NoOp
      /\ ObjSame /\ UNCHANGED <<conn, peer, rf, noMem>>
  BY DEF Finish, Return, objVars, hist, ObjSame
<1>2. /\ last'.kind = op.kind /\ last'.clean = ~Dead /\ last'.data = op.data
      /\ last'.buf = IF op.kind = "scp_recv" THEN Strip(op.buf) ELSE op.buf
  BY <1>0, <1>1 DEF Ops
<1> HIDE DEF res
<1>3. DataType'
  BY <1>0, <1>1, Constants DEF DataType
<1>4. TransfersExact'
  <2>1. CASE op.kind \in {"exec", "scp_recv"}
    <3> DEFINE s == Sent(op.kind)
    <3>1. s \in Seq(Cells) /\ Cut(s, op.buf, peer)
      BY <1>1, <2>1, Download
    <3>2. ~Dead => peer.eof = TRUE /\ peer.queue = << >>
      BY <1>1, <2>1 DEF IInv, FlowInv, DownInv
    <3> HIDE DEF s
    <3>3. /\ Len(op.buf) <= Len(s) /\ op.buf = Slice(s, 0, Len(op.buf))
          /\ peer.eof = TRUE /\ peer.queue = << >> => op.buf = s
      BY <1>0, <3>1, CutAll
    <3>4. ~Ended("scp_send")' /\ ~Ended("read")' /\ ~Ended("write")'
      BY <1>2, <2>1 DEF Ended
    <3>5. CASE op.kind = "exec"
      <4>1. s = Output
        BY <3>5 DEF s, Sent
      <4>3. TakenOff(Output)' = op.buf
        BY <1>0, <1>1, <3>1, <4>1, TakenOffIs
      <4>4. last'.clean => op.buf = Output
        BY <1>2, <3>2, <3>3, <4>1
      <4>5. last'.buf = op.buf /\ ~Ended("scp_recv")'
        BY <1>2, <3>5 DEF Ended
      <4> HIDE DEF Ended, TakenOff
      <4> QED BY <3>4, <4>3, <4>4, <4>5 DEF TransfersExact
    <3>6. CASE op.kind = "scp_recv"
      <4>1. s = Append(RemoteFile, Nul) /\ RemoteFile \in Seq(Cells)
        BY <3>6, SshAssumption DEF s, Sent
      <4>2. /\ IsPrefix(Strip(op.buf), RemoteFile)
            /\ op.buf = Append(RemoteFile, Nul) => Strip(op.buf) = RemoteFile
        <5> HIDE DEF Strip, IsPrefix, Slice
        <5>1. Len(op.buf) <= Len(Append(RemoteFile, Nul))
              /\ op.buf = Slice(Append(RemoteFile, Nul), 0, Len(op.buf))
          BY <3>3, <4>1
        <5> QED BY <1>0, <4>1, <5>1, Stripped
      <4>3. last'.clean => Strip(op.buf) = RemoteFile
        <5> HIDE DEF Strip
        <5> QED BY <1>2, <3>2, <3>3, <4>1, <4>2
      <4>4. last'.buf = Strip(op.buf) /\ ~Ended("exec")'
        BY <1>2, <3>6 DEF Ended
      <4>5. TakenOff(Append(RemoteFile, Nul))' = op.buf
        BY <1>0, <1>1, <3>1, <4>1, TakenOffIs
      <4>6. op.buf = Strip(op.buf) \/ op.buf = Append(Strip(op.buf), Nul)
        BY <1>0, StripsOne
      <4> HIDE DEF Ended, IsPrefix, Strip, TakenOff
      <4> QED BY <3>4, <4>2, <4>3, <4>4, <4>5, <4>6 DEF TransfersExact
    <3> QED BY <2>1, <3>5, <3>6
  <2>2. CASE op.kind = "scp_send"
    <3>1. ~Dead => peer.got = Append(op.data, Nul)
      BY <1>1, <2>2 DEF IInv, FlowInv, UpInv
    <3>2. last'.clean => peer'.got = Append(last'.data, Nul)
      BY <1>1, <1>2, <3>1
    <3>3. ~Ended("exec")' /\ ~Ended("scp_recv")' /\ ~Ended("read")' /\ ~Ended("write")'
      BY <1>2, <2>2 DEF Ended
    <3> HIDE DEF Ended
    <3> QED BY <3>2, <3>3 DEF TransfersExact
  <2>3. CASE op.kind \notin Channels
    <3>1. op.kind \notin {"read", "write"}
      BY <1>1 DEF IInv, ChanInv, Simple
    <3> QED BY <1>2, <2>3, <3>1, NothingReported
  <2> QED BY <2>1, <2>2, <2>3 DEF Channels
<1> QED BY <1>0, <1>1, <1>3, <1>4, IdleFlow, IdleChan, ReturnedObj DEF IInv
-----------------------------------------------------------------------------
(* SFTPFile.read and SFTPFile.write *)

\* A transfer of a remote file goes on.
LEMMA FileGoesOn ==
    ASSUME IInv, op.kind \in {"read", "write"}, ObjSame,
           UNCHANGED <<conn, channel, noMem, peer, last>>,
           op' \in Ops, rf' \in [Handles -> Files],
           op'.kind = op.kind /\ op'.obj = op.obj /\ op'.new = op.new /\ op'.step = op.step,
           ReadInv', WriteInv'
    PROVE  IInv'
<1>1. op.kind # "none" /\ op.kind \in Simple /\ op.kind \notin Channels
  BY DEF Channels, Simple
<1>2. ObjInv'
  BY CalleeSame, ObjStay DEF IInv, ObjSame
<1>3. ChanInv'
  BY <1>1 DEF IInv, ChanInv
<1>4. DataType'
  BY DEF IInv, FlowInv, DataType
<1>5. LastInv'
  BY <1>1, NothingReported DEF IInv, FlowInv, LastInv
<1>6. DownInv' /\ UpInv'
  BY <1>1 DEF DownInv, UpInv
<1> QED BY <1>2, <1>3, <1>4, <1>5, <1>6 DEF IInv, FlowInv

\* A transfer of a remote file ends.
LEMMA FileEnds ==
    ASSUME IInv, op.kind \in {"read", "write"}, ObjSame, op' = NoOp,
           UNCHANGED <<conn, channel, noMem, peer>>, rf' \in [Handles -> Files],
           TransfersExact'
    PROVE  IInv'
<1>1. ChanInv'
  <2>1. channel \in BOOLEAN /\ noMem \in BOOLEAN /\ (channel = FALSE \/ noMem = TRUE)
    BY NoChannel DEF IInv, Channels
  <2> QED BY <2>1, IdleChan
<1>2. DataType'
  BY Constants DEF IInv, FlowInv, DataType
<1> QED BY <1>1, <1>2, IdleFlow, ReturnedObj DEF IInv

\* What a read that has come to pos returns.
ReadExact(base, pos, asked, buf) ==
    /\ buf = Slice(RemoteFile, base, pos)
    /\ Len(buf) = IF asked < 0 THEN Len(RemoteFile) - base
                  ELSE Lo(Len(RemoteFile) - base, asked)

LEMMA ReadReturns ==
    ASSUME last'.kind = "read", op' = NoOp,
           ReadExact(last'.base, rf'[last'.obj].pos, last'.asked, last'.buf)
    PROVE  TransfersExact'
<1>1. ~Ended("exec")' /\ ~Ended("scp_recv")' /\ ~Ended("scp_send")' /\ ~Ended("write")'
  BY DEF Ended
<1>2. /\ last'.buf = SubSeq(RemoteFile, last'.base + 1, rf'[last'.obj].pos)
      /\ Len(last'.buf) = IF last'.asked < 0 THEN Len(RemoteFile) - last'.base
                          ELSE Lo(Len(RemoteFile) - last'.base, last'.asked)
  BY DEF ReadExact, Slice
<1> HIDE DEF Ended
<1> QED BY <1>1, <1>2 DEF TransfersExact

LEMMA Reading ==
    ASSUME IInv, (\E k \in 1..SftpBuf : ReadData(k)) \/ ReadEnd
    PROVE  IInv'
<1> DEFINE h == op.obj
           pos == rf[h].pos
           base == op.base
           n == Len(RemoteFile)
           rest == Rest(h)
<1>1. op.kind = "read" /\ op.step = "call"
  BY DEF ReadData, ReadEnd, At
<1>2. /\ op \in Ops /\ rf \in [Handles -> Files] /\ h \in Handles
      /\ op.left \in Int /\ op.asked \in Int
  BY <1>1 DEF IInv, FlowInv, DataType, ObjInv, Callee, Ops
<1>3. RemoteFile \in Seq(Cells) /\ n \in Nat /\ pos \in Nat /\ pos <= n /\ rf[h] \in Files
  BY <1>2, SshAssumption DEF Files
<1>4. /\ base \in Nat /\ base <= pos /\ op.buf = Slice(RemoteFile, base, pos)
      /\ op.asked <= 0 => op.left = op.asked
      /\ op.asked = 0 => pos = base
      /\ op.asked > 0 => op.left > 0 /\ op.left = op.asked - (pos - base)
  BY <1>1 DEF IInv, FlowInv, ReadInv
<1>5. rest = Slice(RemoteFile, pos, n)
  BY DEF Rest, Slice
<1>6. SftpBuf \in Nat /\ SftpBuf > 0
  BY SshAssumption
<1>7. h = op.obj /\ pos = rf[h].pos /\ base = op.base /\ n = Len(RemoteFile) /\ rest = Rest(h)
  OBVIOUS
<1> HIDE DEF h, pos, base, n, rest
<1>8. Within(RemoteFile, base, pos) /\ Within(RemoteFile, pos, n)
  BY <1>3, <1>4, <1>7 DEF Within
<1>9. Len(rest) = n - pos /\ Len(op.buf) = pos - base
  <2>1. Part(rest, RemoteFile, pos, n) /\ Part(op.buf, RemoteFile, base, pos)
    BY <1>4, <1>5, <1>8, SliceOf
  <2> QED BY <2>1 DEF Part
<1>10. ASSUME NEW k \in 1..SftpBuf, ReadData(k) PROVE IInv'
  <2> DEFINE buf == op.buf \o SubSeq(rest, 1, k)
             left == CountOff(op.left, k)
             more == [op EXCEPT !.buf = buf, !.left = left]
  <2>1. /\ k <= Lo(Want, Len(rest))
        /\ rf' = [rf EXCEPT ![h].pos = @ + k]
        /\ IF op.left > 0 /\ more.left = 0 THEN Return(more) ELSE op' = more /\ last' = last
        /\ ObjSame /\ UNCHANGED <<channel, conn, peer, noMem>>
    BY <1>7, <1>10 DEF ReadData, objVars, hist, ObjSame
  <2>k. k \in Nat /\ k > 0 /\ k <= SftpBuf
    BY <1>6
  <2>2. Want \in Int /\ (op.left >= 0 => Want <= op.left)
    BY <1>2, <1>6 DEF Want
  <2>3. k <= Want /\ k <= n - pos
    <3>1. \A u, v \in Int : Lo(u, v) <= u /\ Lo(u, v) <= v /\ Lo(u, v) \in Int
      BY DEF Lo
    <3>2. n - pos \in Int
      BY <1>3
    <3> QED BY <1>9, <2>k, <2>1, <2>2, <3>1, <3>2
  <2>4. op.left # 0 /\ (op.left > 0 => k <= op.left)
    BY <1>2, <2>k, <2>2, <2>3
  <2>5. left \in Int /\ (op.left > 0 => left = op.left - k) /\ (op.left < 0 => left = op.left)
    BY <1>2, <2>k DEF CountOff
  <2>6. pos + k \in Nat /\ pos <= pos + k /\ pos + k <= n /\ base <= pos + k
        /\ k <= n - pos
    BY <1>3, <1>4, <2>k, <2>3
  <2>7. buf = Slice(RemoteFile, base, pos + k) /\ Within(RemoteFile, base, pos + k)
    <3>1. SubSeq(rest, 1, k) = Slice(rest, 0, k)
      BY DEF Slice
    <3>2. Slice(Slice(RemoteFile, pos, n), 0, k) = Slice(RemoteFile, pos + 0, pos + k)
          /\ Within(RemoteFile, pos + 0, pos + k)
      <4>1. 0 \in Nat /\ k \in Nat /\ 0 <= k /\ k <= n - pos
        BY <2>k, <2>3
      <4>2. Within(RemoteFile, pos, n)
        BY <1>8
      <4> QED BY <4>1, <4>2, SliceSub
    <3>3. pos + 0 = pos
      BY <1>3
    <3>4. Slice(RemoteFile, base, pos) \o Slice(RemoteFile, pos, pos + k)
             = Slice(RemoteFile, base, pos + k)
          /\ Within(RemoteFile, base, pos + k)
      <4>1. Within(RemoteFile, base, pos) /\ Within(RemoteFile, pos, pos + k)
        BY <1>8, <3>2, <3>3
      <4> QED BY <4>1, SliceJoin
    <3> QED BY <1>4, <1>5, <3>1, <3>2, <3>3, <3>4
  <2>8. buf \in Seq(Cells) /\ Len(buf) = (pos + k) - base
    <3>1. Part(buf, RemoteFile, base, pos + k)
      BY <2>7, SliceOf
    <3> QED BY <3>1 DEF Part
  <2> HIDE DEF buf, left
  <2>9. /\ more \in Ops /\ more.kind = "read" /\ more.obj = h /\ more.new = op.new
        /\ more.step = op.step /\ more.buf = buf /\ more.left = left /\ more.base = base
        /\ more.asked = op.asked
    BY <1>1, <1>2, <1>7, <2>5, <2>8 DEF Ops
  <2>10. rf' \in [Handles -> Files] /\ rf'[h].pos = pos + k
    <3>1. pos + k \in 0..Len(RemoteFile)
      BY <1>7, <2>6
    <3>2. [rf[h] EXCEPT !.pos = pos + k] \in Files /\ [rf[h] EXCEPT !.pos = pos + k].pos = pos + k
      BY <1>3, <3>1 DEF Files
    <3>3. rf' = [rf EXCEPT ![h] = [rf[h] EXCEPT !.pos = pos + k]]
      BY <1>2, <1>7, <2>1
    <3> QED BY <1>2, <3>2, <3>3
  <2> HIDE DEF more
  <2>11. CASE op.left > 0 /\ more.left = 0
    <3>1. op' = NoOp /\ last' = [more EXCEPT !.clean = ~Dead]
      BY <2>1, <2>11 DEF Return
    <3>2. /\ last'.kind = "read" /\ last'.obj = h /\ last'.buf = buf /\ last'.base = base
          /\ last'.asked = op.asked
      BY <2>9, <3>1 DEF Ops
    <3>3. op.left = k /\ op.asked > 0 /\ op.asked = (pos + k) - base
      <4>1. op.left \in Int /\ k \in Nat /\ op.left > 0 /\ op.left - k = 0
        BY <1>2, <2>k, <2>5, <2>9, <2>11
      <4>2. op.left = k
        BY <4>1
      <4>3. op.asked > 0 /\ op.left = op.asked - (pos - base)
        BY <1>2, <1>4, <4>1
      <4>4. op.asked \in Int /\ pos \in Int /\ base \in Int
        BY <1>2, <1>3, <1>4
      <4>5. \A a, b, c, v \in Int : v = a - (b - c) => a = (b + v) - c
        OBVIOUS
      <4> QED BY <4>1, <4>2, <4>3, <4>4, <4>5
    <3>4. ReadExact(base, pos + k, op.asked, buf)
      <4>1. op.asked <= n - base /\ n - base \in Int
        BY <1>3, <1>4, <2>6, <3>3
      <4>2. Lo(n - base, op.asked) = op.asked
        BY <1>2, <4>1 DEF Lo
      <4>3. ~(op.asked < 0)
        BY <1>2, <3>3
      <4> QED BY <1>7, <2>7, <2>8, <3>3, <4>2, <4>3 DEF ReadExact
    <3>5. TransfersExact'
      BY <2>10, <3>1, <3>2, <3>4, ReadReturns
    <3> QED BY <1>1, <2>1, <2>10, <3>1, <3>5, FileEnds
  <2>12. CASE ~(op.left > 0 /\ more.left = 0)
    <3>1. op' = more /\ last' = last
      BY <2>1, <2>12
    <3>2. op.asked <= 0 => left = op.asked
      BY <1>2, <1>4, <2>4, <2>5
    <3>3. op.asked # 0
      BY <1>2, <1>4, <2>4
    <3>4. op.asked > 0 => left > 0 /\ left = op.asked - ((pos + k) - base)
      <4> SUFFICES ASSUME op.asked > 0 PROVE left > 0 /\ left = op.asked - ((pos + k) - base)
        OBVIOUS
      <4>1. op.left > 0 /\ op.left = op.asked - (pos - base) /\ left = op.left - k
        BY <1>4, <2>5
      <4>2. left # 0 /\ k <= op.left
        BY <2>4, <2>9, <2>12, <4>1
      <4> QED BY <1>2, <1>3, <1>4, <2>k, <4>1, <4>2
    <3>5. ReadInv'
      <4>1. /\ op'.obj = h /\ op'.base = base /\ op'.buf = buf /\ op'.left = left
            /\ op'.asked = op.asked
        BY <2>9, <3>1
      <4> QED BY <1>4, <2>6, <2>7, <2>10, <3>2, <3>3, <3>4, <4>1 DEF ReadInv
    <3>6. WriteInv'
      BY <2>9, <3>1 DEF WriteInv
    <3> QED BY <1>1, <1>7, <2>1, <2>9, <2>10, <3>1, <3>5, <3>6, FileGoesOn
  <2> QED BY <2>11, <2>12
<1>11. CASE ReadEnd
  <2>1. /\ rest = << >> \/ Want = 0
        /\ op' = NoOp /\ last' = [op EXCEPT !.clean = ~Dead]
        /\ ObjSame /\ UNCHANGED <<channel, conn, peer, rf, noMem>>
    BY <1>7, <1>11 DEF ReadEnd, Return, objVars, hist, ObjSame
  <2>2. /\ last'.kind = "read" /\ last'.obj = h /\ last'.buf = op.buf /\ last'.base = base
        /\ last'.asked = op.asked
    BY <1>1, <1>2, <1>7, <2>1 DEF Ops
  <2>3. rest = << >> => pos = n
    <3>1. rest = << >> => Len(rest) = 0
      OBVIOUS
    <3> QED BY <1>3, <1>9, <3>1
  <2>4. Want = 0 => op.left = 0
    BY <1>2, <1>6 DEF Want
  <2>5. pos - base = IF op.asked < 0 THEN n - base ELSE Lo(n - base, op.asked)
    <3>1. CASE pos = n
      BY <1>2, <1>3, <1>4, <3>1 DEF Lo
    <3>2. CASE op.left = 0
      BY <1>2, <1>3, <1>4, <3>2 DEF Lo
    <3> QED BY <2>1, <2>3, <2>4, <3>1, <3>2
  <2>6. ReadExact(base, pos, op.asked, op.buf)
    BY <1>4, <1>7, <1>9, <2>5 DEF ReadExact
  <2>7. TransfersExact'
    BY <1>7, <2>1, <2>2, <2>6, ReadReturns
  <2> QED BY <1>1, <1>2, <2>1, <2>7, FileEnds
<1> QED BY <1>10, <1>11
LEMMA Writing ==
    ASSUME IInv, (\E k \in 1..op.left : WriteData(k)) \/ WriteEnd
    PROVE  IInv'
<1> DEFINE h == op.obj
           d == rf[h].data
           base == op.base
<1>1. op.kind = "write" /\ op.step = "call"
  BY DEF WriteData, WriteEnd, At
<1>2. /\ op \in Ops /\ rf \in [Handles -> Files] /\ h \in Handles
      /\ op.data \in Seq(Cells) /\ Len(op.data) \in Nat
  BY <1>1 DEF IInv, FlowInv, DataType, ObjInv, Callee, Ops
<1>3. d \in Seq(Cells) /\ Len(d) \in Nat /\ rf[h] \in Files
  BY <1>2 DEF Files
<1>4. /\ op.p \in Nat /\ op.left \in Nat /\ op.p + op.left = Len(op.data)
      /\ base \in Nat /\ base <= Len(d)
      /\ Slice(d, base, Len(d)) = Slice(op.data, 0, op.p)
  BY <1>1 DEF IInv, FlowInv, WriteInv
<1>5. h = op.obj /\ d = rf[h].data /\ base = op.base
  OBVIOUS
<1> HIDE DEF h, d, base
<1>6. ASSUME NEW k \in 1..op.left, WriteData(k) PROVE IInv'
  <2> DEFINE e == SubSeq(op.data, op.p + 1, op.p + k)
             p == op.p + k
             left == op.left - k
  <2>1. /\ rf' = [rf EXCEPT ![h].data = @ \o e]
        /\ op' = [op EXCEPT !.p = p, !.left = left] /\ last' = last
        /\ ObjSame /\ UNCHANGED <<channel, conn, peer, noMem>>
    BY <1>5, <1>6 DEF WriteData, Advance, objVars, hist, ObjSame
  <2>2. /\ p \in Nat /\ left \in Nat /\ p + left = Len(op.data) /\ op.p <= p
        /\ p <= Len(op.data)
    <3>1. \A a, u, v, w \in Nat : u + v = w /\ 1 <= a /\ a <= v =>
             /\ u + a \in Nat /\ v - a \in Nat /\ (u + a) + (v - a) = w /\ u <= u + a
             /\ u + a <= w
      OBVIOUS
    <3>2. k \in Nat /\ 1 <= k /\ k <= op.left
      BY <1>4
    <3> QED BY <1>2, <1>4, <3>1, <3>2
  <2>3. e = Slice(op.data, op.p, p)
    BY DEF Slice
  <2> HIDE DEF e, p, left
  <2>4. Within(op.data, 0, op.p) /\ Within(op.data, op.p, p)
    BY <1>2, <1>4, <2>2 DEF Within
  <2>5. Slice(op.data, 0, op.p) \o Slice(op.data, op.p, p) = Slice(op.data, 0, p)
    BY <2>4, SliceJoin
  <2>6. e \in Seq(Cells)
    <3>1. Part(e, op.data, op.p, p)
      BY <2>3, <2>4, SliceOf
    <3> QED BY <3>1 DEF Part
  <2> DEFINE f == d \o e
  <2>7. /\ Slice(f, base, Len(f)) = Slice(d, base, Len(d)) \o e
        /\ f \in Seq(Cells) /\ Len(f) = Len(d) + Len(e) /\ Len(e) \in Nat
    <3>1. Slice(f, base, Len(f)) = Slice(d, base, Len(d)) \o e
      BY <1>3, <1>4, <2>6, SliceOfConcat
    <3>2. f \in Seq(Cells) /\ Len(f) = Len(d) + Len(e) /\ Len(e) \in Nat
      BY <1>3, <2>6
    <3> QED BY <3>1, <3>2
  <2>8. rf' = [rf EXCEPT ![h] = [rf[h] EXCEPT !.data = f]]
    BY <1>2, <1>5, <2>1
  <2> HIDE DEF f
  <2>9. rf' \in [Handles -> Files] /\ rf'[h].data = f
    <3>1. [rf[h] EXCEPT !.data = f] \in Files /\ [rf[h] EXCEPT !.data = f].data = f
      BY <1>3, <2>7 DEF Files
    <3> QED BY <1>2, <2>8, <3>1
  <2>10. /\ op' \in Ops /\ op'.kind = op.kind /\ op'.obj = h /\ op'.new = op.new
         /\ op'.step = op.step /\ op'.p = p /\ op'.left = left /\ op'.data = op.data
         /\ op'.base = base
    <3>1. p \in Int /\ left \in Int
      BY <2>2
    <3>2. op' \in Ops
      BY <1>2, <2>1, <3>1 DEF Ops
    <3>3. op' = [op EXCEPT !.p = p, !.left = left]
      BY <2>1
    <3> QED BY <1>2, <1>5, <3>2, <3>3 DEF Ops
  <2>11. base <= Len(f) /\ Slice(f, base, Len(f)) = Slice(op.data, 0, p)
    <3>1. base <= Len(f)
      BY <1>3, <1>4, <2>7
    <3> QED BY <1>4, <2>3, <2>5, <2>7, <3>1
  <2>12. WriteInv'
    BY <1>4, <2>2, <2>9, <2>10, <2>11 DEF WriteInv
  <2>13. ReadInv'
    BY <1>1, <2>10 DEF ReadInv
  <2> QED BY <1>1, <1>5, <2>1, <2>9, <2>10, <2>12, <2>13, FileGoesOn
<1>7. CASE WriteEnd
  <2>1. /\ op' = NoOp /\ last' = [op EXCEPT !.clean = ~Dead]
        /\ ObjSame /\ UNCHANGED <<channel, conn, peer, rf, noMem>>
    BY <1>7 DEF WriteEnd, Return, objVars, hist, ObjSame
  <2>2. /\ last'.kind = "write" /\ last'.obj = h /\ last'.data = op.data /\ last'.base = base
        /\ last'.left = op.left
    BY <1>1, <1>2, <1>5, <2>1 DEF Ops
  <2>3. Len(op.data) - op.left = op.p
    BY <1>2, <1>4
  <2>4. SubSeq(d, base + 1, Len(d)) = SubSeq(op.data, 1, op.p)
    BY <1>4 DEF Slice
  <2>5. SubSeq(rf'[last'.obj].data, last'.base + 1, Len(rf'[last'.obj].data))
           = SubSeq(last'.data, 1, Len(last'.data) - last'.left)
    BY <1>5, <2>1, <2>2, <2>3, <2>4
  <2>6. ~Ended("exec")' /\ ~Ended("scp_recv")' /\ ~Ended("scp_send")' /\ ~Ended("read")'
    BY <2>2 DEF Ended
  <2>7. TransfersExact'
    <3> HIDE DEF Ended
    <3> QED BY <2>5, <2>6 DEF TransfersExact
  <2> QED BY <1>1, <1>2, <2>1, <2>7, FileEnds
<1> QED BY <1>6, <1>7

-----------------------------------------------------------------------------
(* The invariant holds *)

LEMMA InitInv == Init => IInv
<1> SUFFICES ASSUME Init PROVE IInv
  OBVIOUS
<1>1. op.kind = "none" /\ last.kind = "none" /\ op = NoOp /\ op.obj = NoObj
  BY DEF Init, NoOp
<1>2. ObjInv
  <2>1. ObjType
    BY Kinds DEF Init, ObjType, Maybe
  <2>2. Chain /\ Pointers
    BY DEF Init, Chain, Pointers
  <2> QED BY <1>1, <2>1, <2>2 DEF ObjInv, Callee
<1>3. ChanInv
  BY <1>1 DEF Init, ChanInv, Channels, Simple
<1>4. DataType
  <2>1. op \in Ops /\ peer \in Peers /\ conn = "up"
    BY Constants DEF Init
  <2>2. rf \in [Handles -> Files]
    <3>1. << >> \in Seq(Cells) /\ Len(RemoteFile) \in Nat
      BY SshAssumption
    <3>2. [mode |-> "none", pos |-> 0, data |-> << >>] \in Files
      BY <3>1 DEF Files
    <3> QED BY <3>2 DEF Init
  <2> QED BY <2>1, <2>2 DEF DataType
<1>5. DownInv /\ UpInv /\ ReadInv /\ WriteInv
  BY <1>1 DEF DownInv, UpInv, ReadInv, WriteInv
<1>6. LastInv
  BY <1>1 DEF LastInv, TransfersExact, Ended
<1> QED BY <1>2, <1>3, <1>4, <1>5, <1>6 DEF IInv, FlowInv

LEMMA NextInv == IInv /\ [Next]_vars => IInv'
<1> SUFFICES ASSUME IInv, [Next]_vars PROVE IInv'
  OBVIOUS
<1>1. CASE UNCHANGED vars
  <2>1. ObjSame /\ UNCHANGED <<op, peer, rf, last, conn, channel, noMem>>
    BY <1>1 DEF vars, objVars, hist, ObjSame
  <2>2. ObjInv'
    BY <2>1, CalleeSame, ObjStay DEF IInv, ObjSame
  <2>3. FlowInv'
    BY <2>1, Conditions, SameFlow DEF IInv, Dead
  <2> QED BY <2>1, <2>2, <2>3, ChanSame DEF IInv
<1>2. CASE Call
  BY <1>2, Refused, Calling DEF Call
<1>3. CASE Step
  <2>1. CASE Auth \/ Request
    BY <2>1, Asking
  <2>2. CASE MakeDone \/ MakeNoMemory
    BY <2>2, Making
  <2>3. CASE MakeFailed \/ OpenFailed \/ ExecRefused \/ ScpWriteError \/ TransferError
    BY <2>3, Raising
  <2>4. CASE \/ OpenChannel("exec", Output, "exec")
             \/ OpenChannel("scp_recv", Append(RemoteFile, Nul), "loop")
             \/ OpenChannel("scp_send", <<>>, "loop")
    BY <2>4, Opening
  <2>5. CASE ExecStart \/ ExecEnd \/ ExecError \/ ScpEnd \/ ScpError
    BY <2>5, Downloading
  <2>6. CASE \E k \in 1..ExecBuf : ExecData(k) \/ ScpData(k)
    BY <2>6, Taking
  <2>7. CASE (\E k \in 1..op.left : ScpWrite(k)) \/ ScpTerminate
    BY <2>7, Uploading
  <2>8. CASE Finish
    BY <2>8, Finishing
  <2>9. CASE (\E k \in 1..SftpBuf : ReadData(k)) \/ ReadEnd
    BY <2>9, Reading
  <2>10. CASE (\E k \in 1..op.left : WriteData(k)) \/ WriteEnd
    BY <2>10, Writing
  <2>11. CASE Close
    BY <2>11, Closing
  <2> QED BY <1>3, <2>1, <2>2, <2>3, <2>4, <2>5, <2>6, <2>7, <2>8, <2>9, <2>10, <2>11 DEF Step
<1>4. CASE NoMemory
  BY <1>4, Raising
<1>5. CASE Environment
  BY <1>5, Surroundings, PeerSteps DEF Environment
<1> QED BY <1>1, <1>2, <1>3, <1>4, <1>5 DEF Next

LEMMA SpecInv == Spec => []IInv
<1>1. Init => IInv
  BY InitInv
<1>2. IInv /\ [Next]_vars => IInv'
  BY NextInv
<1> QED BY <1>1, <1>2, PTL DEF Spec

-----------------------------------------------------------------------------
(* The socket the callbacks of libssh2 reach by a pointer the collector does not
   see is there during every call, because the object of the call keeps its
   session and the session its socket; and an orderly script never makes the
   module pass a pointer to what libssh2 has freed. *)
THEOREM ObjectsOutliveCalls == Spec => []LifetimesSafe
<1>1. IInv => LifetimesSafe
  <2> SUFFICES ASSUME IInv PROVE LifetimesSafe
    OBVIOUS
  <2>1. ASSUME op.kind # "none" PROVE Sock \in live
    <3>1. op.obj \in live /\ live \subseteq Objs
      BY <2>1 DEF IInv, ObjInv, ObjType, Callee
    <3>2. \A o \in live \ {Sock} : Parent(o, ref[o]) /\ ref[o] \in live
      BY DEF IInv, ObjInv, Chain
    <3>3. ASSUME Session \in live PROVE Sock \in live
      BY <3>2, <3>3, Kinds DEF Parent
    <3>4. ASSUME NEW s \in Sftps, s \in live PROVE Session \in live
      BY <3>2, <3>4, Kinds DEF Parent
    <3>5. ASSUME NEW h \in Handles, h \in live PROVE Sock \in live
      <4>1. ref[h] \in Sftps /\ ref[h] \in live
        BY <3>2, <3>5, Kinds DEF Parent
      <4> QED BY <3>3, <3>4, <4>1
    <3> QED BY <3>1, <3>3, <3>4, <3>5 DEF Objs
  <2>2. orderly => ~misused
    BY DEF IInv, ObjInv, ObjType, Pointers
  <2> QED BY <2>1, <2>2 DEF LifetimesSafe
<1> QED BY <1>1, SpecInv, PTL

(* Whatever the server, the connection and the objects do, no call but one that
   runs out of memory leaves its channel open. *)
THEOREM NoChannelLeft == Spec => []ChannelsFreed
<1>1. IInv => ChannelsFreed
  BY DEF IInv, ChanInv, ChannelsFreed, Channels
<1> QED BY <1>1, SpecInv, PTL

(* A call of exec, scp_recv, scp_send, read or write that reports success returned
   exactly what it read, or sent exactly what it was given, unless the connection
   broke; and when it broke, exec and scp_recv still return every cell they read,
   scp_recv but for one zero byte at the end.  For every content and every way the
   cells arrive. *)
THEOREM ReportedIsTransferred == Spec => []TransfersExact
<1>1. IInv => TransfersExact
  BY DEF IInv, FlowInv, LastInv
<1> QED BY <1>1, SpecInv, PTL
=============================================================================
