----------------------------- MODULE TlsProofs -----------------------------
(***************************************************************************)
(* Proofs about Tls for every set of sockets, every script of the peers    *)
(* and every size a program reads with.                                    *)
(*                                                                         *)
(* The invariant is one of each socket: Sock says of its object (b), the   *)
(* object's fields (f), the session (z), the raw socket (r) and what the   *)
(* program saw (h) who owns the session, what the handshake has let        *)
(* through, and where in the peer's stream the program is.  CallInv says   *)
(* which socket the call in progress may be about.                         *)
(***************************************************************************)
EXTENDS Tls, SequenceTheorems, TLAPS

Fields == [ssl_sock : BOOLEAN, sock : BOOLEAN, blocking : BOOLEAN,
           buf : Seq(Nat), off : Nat, bytes_left : Nat]
Session == [state : {"none", "live", "freed", "twice"}, later : BOOLEAN,
            hs : {"NOT_OK", "OK", "DEAD"}, client : BOOLEAN]
Raw == [script : Seq(Fragment), open : BOOLEAN, blocking : BOOLEAN,
        sent : Nat, arrived : Nat, taken : Nat]
Seen == [asked : BOOLEAN, got : Seq(Nat), eof : BOOLEAN, torn : BOOLEAN,
         wrote : BOOLEAN]

TypeOK ==
  /\ ctx \in [verify_mode : {"CERT_NONE", "CERT_REQUIRED"}, ca : BOOLEAN,
              options : SUBSET {"VERIFY_LATER", "CONNECT_IN_PARTS"}]
  /\ obj \in [Sockets -> {"none", "making", "held", "garbage", "gone"}]
  /\ o \in [Sockets -> Fields]
  /\ ssl \in [Sockets -> Session]
  /\ raw \in [Sockets -> Raw]
  /\ hist \in [Sockets -> Seen]
  /\ call.op \in {"none", "wrap", "read", "write"}
  /\ call.op = "none" => call = Idle
  /\ call.op # "none" => call.s \in Sockets
  /\ call.op = "read" => call.size \in Nat \ {0}

\* A connection runs on the socket of a live object; a wrap is in progress
\* only until the session is established or dead.
CallInv ==
  /\ call.op # "none" => obj[call.s] \in {"making", "held"}
  /\ call.op = "wrap" => ssl[call.s].hs = "NOT_OK" /\ ssl[call.s].state = "live"

Net(r) ==
  /\ Connection(r.script)
  /\ r.taken <= r.arrived /\ r.arrived <= r.sent /\ r.sent <= Len(r.script)

\* A fragment of this kind was taken by axTLS.
Took(r, kind) == \E i \in 1..r.taken : r.script[i].kind = kind
NoBad(r) == \A i \in DOMAIN r.script : r.script[i].kind # "badcert"

Own(b, f, z, r, h) ==
  /\ f.ssl_sock <=> z.state = "live"
  /\ b \in {"none", "gone"} => ~f.ssl_sock
  /\ z.state # "twice"
  /\ z.state = "freed" /\ f.sock => ~r.open
  /\ b = "none" => /\ r.taken = 0 /\ f.bytes_left = 0
                   /\ h.got = << >> /\ ~h.wrote /\ ~h.eof

Hand(f, z, r, h) ==
  /\ z.hs = "NOT_OK" => ~Took(r, "finished")
  /\ z.hs = "OK" => Took(r, "finished")
  /\ z.client /\ ~z.later /\ z.hs # "DEAD" => ~Took(r, "badcert")
  /\ h.asked => z.client /\ ~z.later
  /\ h.asked /\ (f.bytes_left > 0 \/ h.got # << >> \/ h.wrote) => NoBad(r)

\* Application bytes in the fragments axTLS took.
Before(r) == IF r.taken = 0 THEN 0
             ELSE r.script[r.taken].at + Len(r.script[r.taken].data)

Stream(f, r, h) ==
  /\ f.off + f.bytes_left <= Len(f.buf)
  /\ ~h.torn =>
    /\ h.got = [i \in 1..Len(h.got) |-> i]
    /\ Len(h.got) + f.bytes_left = Before(r)
    /\ \A j \in 1..f.bytes_left :
         f.buf[f.off + j] = Len(h.got) + j
    /\ h.eof => \A i \in DOMAIN r.script : \A b \in DOMAIN r.script[i].data :
                  r.script[i].data[b] \in 1..Len(h.got)

Sock(b, f, z, r, h) == Net(r) /\ Own(b, f, z, r, h) /\ Hand(f, z, r, h) /\ Stream(f, r, h)

SockInv == \A s \in Sockets : Sock(obj[s], o[s], ssl[s], raw[s], hist[s])

IInv == TypeOK /\ CallInv /\ SockInv
-----------------------------------------------------------------------------
(* What happens to one socket *)

\* Polling only moves arrived up to sent.
LEMMA PolledSock ==
  ASSUME NEW b, NEW f, NEW z, NEW r \in Raw, NEW h, Sock(b, f, z, r, h)
  PROVE  LET p == [r EXCEPT !.arrived = r.sent] IN p \in Raw /\ Sock(b, f, z, p, h)
<1> DEFINE p == [r EXCEPT !.arrived = r.sent]
<1>1. /\ p \in Raw /\ p.script = r.script /\ p.taken = r.taken /\ p.open = r.open
      /\ p.sent = r.sent /\ p.arrived = r.sent
  BY DEF Raw
<1> HIDE DEF p
<1>2. r.taken \in Nat /\ r.arrived \in Nat /\ r.sent \in Nat
  BY DEF Raw
<1>3. Net(p)
  BY <1>1, <1>2 DEF Sock, Net
<1>4. Own(b, f, z, p, h)
  BY <1>1 DEF Sock, Own
<1>5. Hand(f, z, p, h)
  BY <1>1 DEF Sock, Hand, Took, NoBad
<1>6. Stream(f, p, h)
  BY <1>1 DEF Sock, Stream, Before
<1>7. p \in Raw /\ Sock(b, f, z, p, h)
  BY <1>1, <1>3, <1>4, <1>5, <1>6 DEF Sock
<1> QED
  BY <1>7 DEF p

\* What the invariant says of a socket depends on these fields alone.
LEMMA SameSock ==
  ASSUME NEW b, NEW f, NEW g, NEW z, NEW r, NEW p, NEW h, Sock(b, f, z, r, h), Net(p),
         g.ssl_sock = f.ssl_sock, g.sock = f.sock, g.bytes_left = f.bytes_left, g.off = f.off,
         g.buf = f.buf, p.script = r.script, p.taken = r.taken, p.open = r.open
  PROVE  Sock(b, g, z, p, h)
<1>1. Own(b, g, z, p, h)
  BY DEF Sock, Own
<1>2. Hand(g, z, p, h)
  BY DEF Sock, Hand, Took, NoBad
<1>3. Stream(g, p, h)
  BY DEF Sock, Stream, Before
<1> QED
  BY <1>1, <1>2, <1>3 DEF Sock

\* A session may die at any time.
LEMMA DeadSock ==
  ASSUME NEW b, NEW f, NEW z \in Session, NEW r, NEW h, Sock(b, f, z, r, h)
  PROVE  Sock(b, f, [z EXCEPT !.hs = "DEAD"], r, h)
<1> DEFINE y == [z EXCEPT !.hs = "DEAD"]
<1>1. y.hs = "DEAD" /\ y.state = z.state /\ y.client = z.client /\ y.later = z.later
  BY DEF Session
<1> HIDE DEF y
<1>2. Own(b, f, y, r, h) /\ Hand(f, y, r, h)
  BY <1>1 DEF Sock, Own, Hand
<1>3. Sock(b, f, y, r, h)
  BY <1>2 DEF Sock
<1> QED
  BY <1>3 DEF y

\* A raw socket may be closed at any time; what was on its way is gone.
LEMMA ClosedSock ==
  ASSUME NEW b, NEW f, NEW z, NEW r \in Raw, NEW h, Sock(b, f, z, r, h)
  PROVE  LET p == [r EXCEPT !.open = FALSE, !.sent = r.taken, !.arrived = r.taken]
         IN  p \in Raw /\ ~p.open /\ Sock(b, f, z, p, h)
<1> DEFINE p == [r EXCEPT !.open = FALSE, !.sent = r.taken, !.arrived = r.taken]
<1>1. /\ p \in Raw /\ p.script = r.script /\ p.taken = r.taken /\ p.open = FALSE
      /\ p.sent = r.taken /\ p.arrived = r.taken
  BY DEF Raw
<1> HIDE DEF p
<1>2. /\ r.taken \in Nat /\ r.arrived \in Nat /\ r.sent \in Nat
      /\ r.script \in Seq(Fragment)
  BY DEF Raw
<1>3. Net(p)
  <2>1. Len(r.script) \in Nat
    BY <1>2
  <2> QED
    BY <1>1, <1>2, <2>1 DEF Sock, Net
<1>4. Own(b, f, z, p, h)
  BY <1>1 DEF Sock, Own
<1>5. Hand(f, z, p, h)
  BY <1>1 DEF Sock, Hand, Took, NoBad
<1>6. Stream(f, p, h)
  BY <1>1 DEF Sock, Stream, Before
<1>7. p \in Raw /\ ~p.open /\ Sock(b, f, z, p, h)
  BY <1>1, <1>3, <1>4, <1>5, <1>6 DEF Sock
<1> QED
  BY <1>7 DEF p

\* The next fragment of a connection.
LEMMA NextFragment ==
  ASSUME NEW r \in Raw, Net(r), r.taken < r.arrived
  PROVE  /\ r.taken \in Nat /\ r.taken + 1 \in DOMAIN r.script
         /\ \A i \in 1..r.taken : i \in DOMAIN r.script /\ i < r.taken + 1
         /\ \A i \in DOMAIN r.script : r.script[i] \in Fragment
         /\ DOMAIN r.script = 1..Len(r.script) /\ Len(r.script) \in Nat
<1>1. /\ r.taken \in Nat /\ r.arrived \in Nat /\ r.sent \in Nat
      /\ r.script \in Seq(Fragment)
  BY DEF Raw
<1>2. DOMAIN r.script = 1..Len(r.script) /\ Len(r.script) \in Nat
  BY <1>1
<1>3. \A i \in DOMAIN r.script : r.script[i] \in Fragment
  BY <1>1
<1>4. r.taken + 1 \in 1..Len(r.script)
  BY <1>1, <1>2 DEF Net
<1> QED
  BY <1>1, <1>2, <1>3, <1>4

\* The stream so far ends where the next fragment begins.
LEMMA BeforeNext ==
  ASSUME NEW r \in Raw, Net(r), r.taken < r.arrived
  PROVE  /\ Before(r) = r.script[r.taken + 1].at
         /\ Before(r) \in Nat
         /\ Len(r.script[r.taken + 1].data) \in Nat
         /\ Before([r EXCEPT !.taken = @ + 1])
              = Before(r) + Len(r.script[r.taken + 1].data)
<1> DEFINE n == r.taken + 1
           p == [r EXCEPT !.taken = @ + 1]
<1>1. /\ r.taken \in Nat /\ n \in DOMAIN r.script /\ Connection(r.script)
      /\ r.script[n] \in Fragment /\ DOMAIN r.script = 1..Len(r.script)
  BY NextFragment DEF Net
<1>2. r.script[n].at \in Nat /\ Len(r.script[n].data) \in Nat
  BY <1>1 DEF Fragment
<1>3. Before(r) = r.script[n].at
  <2>1. CASE r.taken = 0
    <3>1. r.script # << >>
      BY <1>1
    <3> QED
      BY <1>1, <2>1, <3>1 DEF Before, Connection
  <2>2. CASE r.taken # 0
    <3>1. r.taken \in DOMAIN r.script /\ r.taken < n /\ n = r.taken + 1
      BY <1>1, <2>2, NextFragment
    <3> QED
      BY <1>1, <2>2, <3>1 DEF Before, Connection
  <2> QED
    BY <2>1, <2>2
<1>4. p.taken = n /\ p.script = r.script /\ n # 0
  BY <1>1 DEF Raw
<1>5. Before(p) = r.script[n].at + Len(r.script[n].data)
  BY <1>4 DEF Before
<1> QED
  BY <1>2, <1>3, <1>5

\* Taking the next fragment moves the session on by that one fragment.
LEMMA TookNext ==
  ASSUME NEW r \in Raw, Net(r), r.taken < r.arrived, NEW kind
  PROVE  LET p == [r EXCEPT !.taken = @ + 1] IN
         /\ p \in Raw /\ Net(p) /\ p.script = r.script /\ p.open = r.open
         /\ Took(p, kind) <=> Took(r, kind) \/ r.script[r.taken + 1].kind = kind
         /\ NoBad(p) <=> NoBad(r)
<1> DEFINE p == [r EXCEPT !.taken = @ + 1]
<1>1. r.taken \in Nat /\ r.arrived \in Nat
  BY DEF Raw
<1>2. /\ p \in Raw /\ p.script = r.script /\ p.open = r.open /\ p.taken = r.taken + 1
      /\ p.arrived = r.arrived /\ p.sent = r.sent
  BY <1>1 DEF Raw
<1> HIDE DEF p
<1>3. Net(p)
  BY <1>1, <1>2 DEF Net
<1>4. 1..(r.taken + 1) = 1..r.taken \cup {r.taken + 1}
  BY <1>1
<1>5. Took(p, kind) <=> Took(r, kind) \/ r.script[r.taken + 1].kind = kind
  BY <1>2, <1>4 DEF Took
<1>6. NoBad(p) <=> NoBad(r)
  BY <1>2 DEF NoBad
<1> QED
  BY <1>2, <1>3, <1>5, <1>6 DEF p

\* A fragment that carries no data: handshake, record header, or the end.
LEMMA TakeOther ==
  ASSUME NEW b, NEW f \in Fields, NEW z \in Session, NEW r \in Raw, NEW h \in Seen,
         Sock(b, f, z, r, h), b # "none", z.hs # "DEAD", r.taken < r.arrived,
         NEW hs \in {"NOT_OK", "OK", "DEAD"},
         r.script[r.taken + 1].kind # "data",
         \/ hs = "DEAD"
         \/ hs = "OK" /\ r.script[r.taken + 1].kind = "finished"
         \/ /\ hs = z.hs /\ r.script[r.taken + 1].kind # "finished"
            /\ r.script[r.taken + 1].kind = "badcert" => ~z.client \/ z.later
  PROVE  Sock(b, f, [z EXCEPT !.hs = hs], [r EXCEPT !.taken = @ + 1], h)
<1> DEFINE p == [r EXCEPT !.taken = @ + 1]
           y == [z EXCEPT !.hs = hs]
<1>1. Net(r)
  BY DEF Sock
<1>2. /\ p \in Raw /\ Net(p) /\ p.script = r.script /\ p.open = r.open
      /\ NoBad(p) <=> NoBad(r)
  BY <1>1, TookNext
<1>3. \A kind : Took(p, kind) <=> Took(r, kind) \/ r.script[r.taken + 1].kind = kind
  BY <1>1, TookNext
<1>4. y.hs = hs /\ y.state = z.state /\ y.client = z.client /\ y.later = z.later
  BY DEF Session
<1>5. Before(p) = Before(r)
  <2>1. Len(r.script[r.taken + 1].data) = 0
    <3>1. r.script[r.taken + 1].data = << >>
      BY <1>1, NextFragment DEF Net, Connection
    <3> QED
      BY <3>1
  <2> QED
    BY <1>1, <2>1, BeforeNext
<1> HIDE DEF p, y
<1>6. Own(b, f, y, p, h)
  BY <1>2, <1>4 DEF Sock, Own
<1>7. Hand(f, y, p, h)
  BY <1>2, <1>3, <1>4 DEF Sock, Hand
<1>8. Stream(f, p, h)
  BY <1>2, <1>5 DEF Sock, Stream
<1>9. Sock(b, f, y, p, h)
  BY <1>2, <1>6, <1>7, <1>8 DEF Sock
<1> QED
  BY <1>9 DEF p, y

\* Data comes after the handshake: none of it from a peer that failed it.
LEMMA DataIsVerified ==
  ASSUME NEW f, NEW z, NEW r \in Raw, NEW h, Net(r), Hand(f, z, r, h),
         z.hs # "DEAD", r.taken < r.arrived, r.script[r.taken + 1].kind = "data"
  PROVE  h.asked => NoBad(r)
<1> SUFFICES ASSUME h.asked, NEW i \in DOMAIN r.script, r.script[i].kind = "badcert"
             PROVE  FALSE
  BY DEF NoBad
<1>1. ~Took(r, "badcert")
  BY DEF Hand
<1>2. /\ r.taken \in Nat /\ r.taken + 1 \in DOMAIN r.script
      /\ DOMAIN r.script = 1..Len(r.script) /\ Len(r.script) \in Nat
  BY NextFragment
<1>3. PICK j \in 1..((r.taken + 1) - 1) : r.script[j].kind = "finished"
  BY <1>2 DEF Net, Connection
<1>4. j \in DOMAIN r.script /\ j \in 1..r.taken
  BY <1>2, <1>3
<1>5. ~(j < i)
  BY <1>3, <1>4 DEF Net, Connection
<1>6. i \in 1..r.taken
  BY <1>2, <1>4, <1>5
<1> QED
  BY <1>1, <1>6 DEF Took

\* The next record of the peer's stream is decrypted into an empty buffer.
LEMMA TakeData ==
  ASSUME NEW b, NEW f \in Fields, NEW z \in Session, NEW r \in Raw, NEW h \in Seen,
         Sock(b, f, z, r, h), b # "none", z.hs # "DEAD", r.taken < r.arrived,
         r.script[r.taken + 1].kind = "data", f.bytes_left = 0
  PROVE  LET data == r.script[r.taken + 1].data
             g == [f EXCEPT !.buf = data, !.off = 0, !.bytes_left = Len(data)]
         IN  g \in Fields /\ Sock(b, g, z, [r EXCEPT !.taken = @ + 1], h)
<1> DEFINE p == [r EXCEPT !.taken = @ + 1]
           c == r.script[r.taken + 1]
           g == [f EXCEPT !.buf = c.data, !.off = 0, !.bytes_left = Len(c.data)]
<1>1. Net(r)
  BY DEF Sock
<1>2. /\ p \in Raw /\ Net(p) /\ p.script = r.script /\ p.open = r.open
      /\ NoBad(p) <=> NoBad(r)
  BY <1>1, TookNext
<1>3. \A kind : Took(p, kind) <=> Took(r, kind) \/ c.kind = kind
  BY <1>1, TookNext
<1>4. /\ Before(r) = c.at /\ Before(p) = Before(r) + Len(c.data)
      /\ Before(r) \in Nat /\ Len(c.data) \in Nat
  BY <1>1, BeforeNext
<1>5. c.data \in Seq(Nat) /\ \A j \in 1..Len(c.data) : c.data[j] = c.at + j
  <2>1. c \in Fragment /\ r.taken + 1 \in DOMAIN r.script
    BY <1>1, NextFragment
  <2>2. c.data \in Seq(Nat) /\ DOMAIN c.data = 1..Len(c.data)
    BY <2>1 DEF Fragment
  <2> QED
    BY <1>1, <2>1, <2>2 DEF Net, Connection
<1>6. /\ g \in Fields /\ g.buf = c.data /\ g.off = 0 /\ g.bytes_left = Len(c.data)
      /\ g.ssl_sock = f.ssl_sock /\ g.sock = f.sock
  BY <1>4, <1>5 DEF Fields
<1>7. h.asked => NoBad(r)
  BY <1>1, DataIsVerified DEF Sock
<1> HIDE DEF p, c, g
<1>8. Own(b, g, z, p, h)
  BY <1>2, <1>6 DEF Sock, Own
<1>9. Hand(g, z, p, h)
  BY <1>2, <1>3, <1>7 DEF Sock, Hand, c
<1>10. Stream(g, p, h)
  <2>1. g.off + g.bytes_left <= Len(g.buf)
    BY <1>4, <1>6
  <2>2. ASSUME ~h.torn
        PROVE  /\ h.got = [i \in 1..Len(h.got) |-> i]
               /\ Len(h.got) + g.bytes_left = Before(p)
               /\ \A j \in 1..g.bytes_left : g.buf[g.off + j] = Len(h.got) + j
    <3>1. /\ h.got = [i \in 1..Len(h.got) |-> i]
          /\ Len(h.got) + f.bytes_left = Before(r)
      BY <2>2 DEF Sock, Stream
    <3>2. Len(h.got) \in Nat
      BY DEF Seen
    <3>3. Len(h.got) = Before(r)
      BY <3>1, <3>2
    <3>4. \A j \in 1..Len(c.data) : 0 + j = j
      BY <1>4
    <3> QED
      BY <1>4, <1>5, <1>6, <3>1, <3>3, <3>4
  <2> QED
    BY <1>2, <2>1, <2>2 DEF Sock, Stream
<1>11. g \in Fields /\ Sock(b, g, z, p, h)
  BY <1>2, <1>6, <1>8, <1>9, <1>10 DEF Sock
<1> QED
  BY <1>11 DEF p, c, g

\* At close_notify, with nothing left in the buffer, all the peer's bytes
\* have been handed over.
LEMMA SeeEnd ==
  ASSUME NEW b, NEW f \in Fields, NEW z, NEW r \in Raw, NEW h \in Seen,
         Sock(b, f, z, r, h), b # "none", r.taken < r.arrived,
         r.script[r.taken + 1].kind = "notify", f.bytes_left = 0
  PROVE  LET e == [h EXCEPT !.eof = TRUE] IN e \in Seen /\ Sock(b, f, z, r, e)
<1> DEFINE e == [h EXCEPT !.eof = TRUE]
           n == r.taken + 1
<1>1. /\ e \in Seen /\ e.got = h.got /\ e.torn = h.torn /\ e.wrote = h.wrote
      /\ e.asked = h.asked
  BY DEF Seen
<1>2. Net(r) /\ Connection(r.script)
  BY DEF Sock, Net
<1>3. /\ r.taken \in Nat /\ n \in DOMAIN r.script
      /\ DOMAIN r.script = 1..Len(r.script) /\ Len(r.script) \in Nat
      /\ \A i \in DOMAIN r.script : r.script[i] \in Fragment
  BY <1>2, NextFragment
<1>4. ASSUME ~h.torn, NEW i \in DOMAIN r.script, NEW j \in DOMAIN r.script[i].data
      PROVE  r.script[i].data[j] \in 1..Len(h.got)
  <2> DEFINE c == r.script[i]
  <2>1. c.at \in Nat /\ DOMAIN c.data = 1..Len(c.data) /\ Len(c.data) \in Nat
    BY <1>3, SMTT(30) DEF Fragment
  <2>2. c.data[j] = c.at + j /\ j \in 1..Len(c.data)
    <3>1. \A x \in DOMAIN r.script : \A y \in DOMAIN r.script[x].data :
             r.script[x].data[y] = r.script[x].at + y
      BY <1>2, Zenon DEF Connection
    <3> QED
      BY <1>4, <2>1, <3>1
  <2>3. c.kind = "data"
    <3> SUFFICES ASSUME c.kind # "data" PROVE FALSE
      OBVIOUS
    <3>1. c.data = << >>
      BY <1>2 DEF Connection
    <3>2. Len(c.data) = 0
      BY <3>1
    <3> QED
      BY <2>2, <3>2
  <2>4. ~(n < i) /\ i # n
    BY <1>2, <1>3, <2>3 DEF Connection
  <2>5. i < n /\ i \in Nat
    BY <1>3, <2>4
  <2>6. c.at + Len(c.data) <= r.script[n].at
    BY <1>2, <1>3, <2>5 DEF Connection
  <2>7. Before(r) = r.script[n].at /\ Before(r) \in Nat
    BY <1>2, BeforeNext
  <2>8. Len(h.got) + f.bytes_left = Before(r)
    BY <1>4 DEF Sock, Stream
  <2>9. Len(h.got) \in Nat
    BY DEF Seen
  <2> HIDE DEF c, n
  <2>10. c.data[j] \in 1..Len(h.got)
    BY <2>1, <2>2, <2>6, <2>7, <2>8, <2>9
  <2> QED
    BY <2>10 DEF c
<1> HIDE DEF e, n
<1>5. Own(b, f, z, r, e) /\ Hand(f, z, r, e)
  BY <1>1 DEF Sock, Own, Hand
<1>6. Stream(f, r, e)
  BY <1>1, <1>4 DEF Sock, Stream
<1>7. e \in Seen /\ Sock(b, f, z, r, e)
  BY <1>1, <1>2, <1>5, <1>6 DEF Sock
<1> QED
  BY <1>7 DEF e

\* A concatenation holds the one sequence and then the other.
LEMMA ConcatParts ==
  ASSUME NEW a \in Seq(Nat), NEW b \in Seq(Nat)
  PROVE  /\ Len(a \o b) = Len(a) + Len(b)
         /\ \A i \in 1..Len(a) : (a \o b)[i] = a[i]
         /\ \A j \in 1..Len(b) : (a \o b)[Len(a) + j] = b[j]
<1>1. /\ Len(a \o b) = Len(a) + Len(b)
      /\ \A i \in 1..Len(a) + Len(b) :
           (a \o b)[i] = IF i <= Len(a) THEN a[i] ELSE b[i - Len(a)]
  BY ConcatProperties
<1>2. Len(a) \in Nat /\ Len(b) \in Nat
  OBVIOUS
<1>3. ASSUME NEW i \in 1..Len(a) PROVE (a \o b)[i] = a[i]
  <2>1. i \in 1..Len(a) + Len(b) /\ i <= Len(a)
    BY <1>2
  <2> QED
    BY <1>1, <2>1
<1>4. ASSUME NEW j \in 1..Len(b) PROVE (a \o b)[Len(a) + j] = b[j]
  <2>1. Len(a) + j \in 1..Len(a) + Len(b) /\ ~(Len(a) + j <= Len(a)) /\ Len(a) + j - Len(a) = j
    BY <1>2
  <2> QED
    BY <1>1, <2>1
<1> QED
  BY <1>1, <1>3, <1>4

\* A read copies the next bytes of the stream, and the pointer moves on.
LEMMA CopyOut ==
  ASSUME NEW b, NEW f \in Fields, NEW z, NEW r, NEW h \in Seen,
         Sock(b, f, z, r, h), b # "none", NEW n \in 1..f.bytes_left
  PROVE  LET g == [f EXCEPT !.off = @ + n, !.bytes_left = @ - n]
             e == [h EXCEPT !.got = @ \o SubSeq(f.buf, f.off + 1, f.off + n)]
         IN  g \in Fields /\ e \in Seen /\ Sock(b, g, z, r, e)
<1> DEFINE sub == SubSeq(f.buf, f.off + 1, f.off + n)
           g == [f EXCEPT !.off = @ + n, !.bytes_left = @ - n]
           e == [h EXCEPT !.got = @ \o sub]
           l == Len(h.got)
<1>1. /\ f.buf \in Seq(Nat) /\ f.off \in Nat /\ f.bytes_left \in Nat
      /\ h.got \in Seq(Nat) /\ l \in Nat
      /\ n \in Nat /\ 1 <= n /\ n <= f.bytes_left /\ f.off + f.bytes_left <= Len(f.buf)
      /\ Len(f.buf) \in Nat
  BY DEF Fields, Seen, Sock, Stream
<1>2. /\ sub \in Seq(Nat) /\ Len(sub) = n
      /\ \A j \in 1..n : sub[j] = f.buf[f.off + j]
  <2> DEFINE lo == f.off + 1
             hi == f.off + n
  <2>1. lo \in Int /\ hi \in Int /\ lo <= hi /\ hi - lo + 1 = n
    <3>1. \A a, m \in Nat : 1 <= m => /\ a + 1 \in Int /\ a + m \in Int /\ a + 1 <= a + m
                                      /\ (a + m) - (a + 1) + 1 = m
      OBVIOUS
    <3> QED
      BY <1>1, <3>1
  <2>2. \A i \in lo..hi : f.buf[i] \in Nat
    <3>1. \A i \in lo..hi : i \in 1..Len(f.buf)
      <4>1. \A a, m, w, v \in Nat : m <= w /\ a + w <= v =>
               \A i \in (a + 1)..(a + m) : i \in 1..v
        OBVIOUS
      <4> QED
        BY <1>1, <4>1
    <3>2. \A i \in 1..Len(f.buf) : f.buf[i] \in Nat
      BY <1>1, SMTT(30)
    <3> HIDE DEF lo, hi
    <3> QED
      BY <3>1, <3>2
  <2>3. \A j \in 1..n : lo + j - 1 = f.off + j
    BY <1>1
  <2> HIDE DEF lo, hi
  <2>4. /\ SubSeq(f.buf, lo, hi) \in Seq(Nat) /\ Len(SubSeq(f.buf, lo, hi)) = n
        /\ \A j \in 1..n : SubSeq(f.buf, lo, hi)[j] = f.buf[lo + j - 1]
    BY <2>1, <2>2, SubSeqProperties
  <2> QED
    BY <2>3, <2>4 DEF lo, hi
<1> HIDE DEF sub
<1>3. /\ g \in Fields /\ g.off = f.off + n /\ g.bytes_left = f.bytes_left - n
      /\ g.buf = f.buf /\ g.ssl_sock = f.ssl_sock /\ g.sock = f.sock
  <2> DEFINE x == f.off + n
             y == f.bytes_left - n
  <2>1. x \in Nat /\ y \in Nat
    BY <1>1, SMTT(30)
  <2>2. g = [f EXCEPT !.off = x, !.bytes_left = y]
    BY DEF Fields
  <2> HIDE DEF x, y, g
  <2>3. /\ g \in Fields /\ g.off = x /\ g.bytes_left = y /\ g.buf = f.buf
        /\ g.ssl_sock = f.ssl_sock /\ g.sock = f.sock
    BY <2>1, <2>2 DEF Fields
  <2> QED
    BY <2>3 DEF x, y
<1>4. h.got \o sub \in Seq(Nat)
  BY <1>1, <1>2
<1>5. /\ e \in Seen /\ e.got = h.got \o sub /\ e.torn = h.torn /\ e.eof = h.eof
      /\ e.asked = h.asked /\ e.wrote = h.wrote
  BY <1>4 DEF Seen
<1>6. /\ Len(e.got) = l + n /\ DOMAIN e.got = 1..(l + n)
      /\ \A i \in 1..l : e.got[i] = h.got[i]
      /\ \A j \in 1..n : e.got[l + j] = sub[j]
  <2> HIDE DEF e
  <2>1. /\ Len(h.got \o sub) = l + n
        /\ \A i \in 1..l : (h.got \o sub)[i] = h.got[i]
        /\ \A j \in 1..n : (h.got \o sub)[l + j] = sub[j]
    BY <1>1, <1>2, ConcatParts
  <2>2. DOMAIN e.got = 1..(l + n)
    BY <1>4, <1>5, <2>1
  <2> QED
    BY <1>5, <2>1, <2>2
<1> HIDE DEF g, e, l
<1>7. Own(b, g, z, r, e)
  BY <1>3, <1>5 DEF Sock, Own
<1>8. Hand(g, z, r, e)
  BY <1>1, <1>5 DEF Sock, Hand
<1>9. Stream(g, r, e)
  <2>1. g.off + g.bytes_left <= Len(g.buf)
    BY <1>1, <1>3
  <2>2. ASSUME ~h.torn
        PROVE  /\ e.got = [i \in 1..Len(e.got) |-> i]
               /\ Len(e.got) + g.bytes_left = Before(r)
               /\ \A j \in 1..g.bytes_left : g.buf[g.off + j] = Len(e.got) + j
               /\ l <= Len(e.got)
    <3>1. /\ h.got = [i \in 1..l |-> i]
          /\ l + f.bytes_left = Before(r)
          /\ \A j \in 1..f.bytes_left : f.buf[f.off + j] = l + j
      BY <2>2 DEF Sock, Stream, l
    <3>2. \A i \in 1..(l + n) : e.got[i] = i
      <4> SUFFICES ASSUME NEW i \in 1..(l + n) PROVE e.got[i] = i
        OBVIOUS
      <4>1. CASE i \in 1..l
        BY <1>6, <3>1, <4>1
      <4>2. CASE i \notin 1..l
        <5>1. i - l \in 1..n /\ i - l \in 1..f.bytes_left /\ l + (i - l) = i
          BY <1>1, <4>2
        <5>2. e.got[l + (i - l)] = sub[i - l] /\ sub[i - l] = f.buf[f.off + (i - l)]
          BY <1>2, <1>6, <5>1
        <5>3. f.buf[f.off + (i - l)] = l + (i - l)
          BY <3>1, <5>1
        <5> QED
          BY <5>1, <5>2, <5>3
      <4> QED
        BY <4>1, <4>2
    <3>3. e.got = [i \in 1..Len(e.got) |-> i]
      <4>1. e.got \in Seq(Nat)
        BY <1>4, <1>5
      <4>2. e.got = [i \in DOMAIN e.got |-> e.got[i]]
        BY <4>1
      <4> QED
        BY <1>6, <3>2, <4>2
    <3>4. \A j \in 1..g.bytes_left : g.buf[g.off + j] = Len(e.got) + j
      <4> SUFFICES ASSUME NEW j \in 1..g.bytes_left
                   PROVE  f.buf[f.off + n + j] = l + n + j
        BY <1>3, <1>6
      <4>1. n + j \in 1..f.bytes_left /\ f.off + (n + j) = f.off + n + j
            /\ l + (n + j) = l + n + j
        <5>1. \A a, m, v, w, y \in Nat : m <= v /\ 1 <= y /\ y <= v - m =>
                 /\ m + y \in 1..v /\ a + (m + y) = a + m + y /\ w + (m + y) = w + m + y
          OBVIOUS
        <5>2. j \in Nat /\ 1 <= j /\ j <= f.bytes_left - n
          BY <1>1, <1>3
        <5> QED
          BY <1>1, <5>1, <5>2, SMTT(30)
      <4>2. f.buf[f.off + (n + j)] = l + (n + j)
        BY <3>1, <4>1
      <4> QED
        BY <4>1, <4>2
    <3>5. Len(e.got) + g.bytes_left = Before(r) /\ l <= Len(e.got)
      BY <1>1, <1>3, <1>6, <3>1
    <3> QED
      BY <3>3, <3>4, <3>5
  <2>3. ASSUME ~h.torn, h.eof, NEW i \in DOMAIN r.script, NEW j \in DOMAIN r.script[i].data
        PROVE  r.script[i].data[j] \in 1..Len(e.got)
    <3>1. r.script[i].data[j] \in 1..l
      BY <2>3 DEF Sock, Stream, l
    <3> QED
      BY <1>1, <1>6, <3>1
  <2> QED
    BY <1>5, <2>1, <2>2, <2>3 DEF Stream
<1>10. g \in Fields /\ e \in Seen /\ Sock(b, g, z, r, e)
  BY <1>3, <1>5, <1>7, <1>8, <1>9 DEF Sock
<1> QED
  BY <1>10 DEF g, e, sub

\* An established session sends: the buffer is overwritten, and if part of a
\* record was still unread in it the stream is torn.
LEMMA WriteOver ==
  ASSUME NEW b, NEW f \in Fields, NEW z \in Session, NEW r \in Raw, NEW h \in Seen,
         Sock(b, f, z, r, h), b # "none", z.hs = "OK"
  PROVE  LET g == [f EXCEPT !.buf = [i \in DOMAIN @ |-> Junk]]
             e == [h EXCEPT !.wrote = @ \/ r.open, !.torn = @ \/ f.bytes_left > 0]
         IN  g \in Fields /\ e \in Seen /\ Sock(b, g, z, r, e)
<1> DEFINE g == [f EXCEPT !.buf = [i \in DOMAIN @ |-> Junk]]
           e == [h EXCEPT !.wrote = @ \/ r.open, !.torn = @ \/ f.bytes_left > 0]
           buf == [i \in DOMAIN f.buf |-> Junk]
<1>1. f.buf \in Seq(Nat) /\ f.bytes_left \in Nat /\ f.off \in Nat
  BY DEF Fields
<1>2. buf \in Seq(Nat) /\ Len(buf) = Len(f.buf)
  BY <1>1 DEF Junk
<1>3. /\ g \in Fields /\ g.buf = buf /\ g.off = f.off /\ g.bytes_left = f.bytes_left
      /\ g.ssl_sock = f.ssl_sock /\ g.sock = f.sock
  BY <1>2 DEF Fields
<1>4. (h.torn \/ f.bytes_left > 0) \in BOOLEAN /\ (h.wrote \/ r.open) \in BOOLEAN
  OBVIOUS
<1>5. /\ e \in Seen /\ e.got = h.got /\ e.torn = (h.torn \/ f.bytes_left > 0)
      /\ e.eof = h.eof /\ e.asked = h.asked
  BY <1>4 DEF Seen
<1> HIDE DEF g, e, buf
<1>6. Own(b, g, z, r, e)
  BY <1>3, <1>5 DEF Sock, Own
<1>7. h.asked => NoBad(r)
  <2> SUFFICES ASSUME h.asked, NEW i \in DOMAIN r.script, r.script[i].kind = "badcert"
               PROVE  FALSE
    BY DEF NoBad
  <2>1. ~Took(r, "badcert") /\ Took(r, "finished")
    BY DEF Sock, Hand
  <2>2. PICK j \in 1..r.taken : r.script[j].kind = "finished"
    BY <2>1 DEF Took
  <2>3. /\ r.taken \in Nat /\ r.arrived \in Nat /\ r.sent \in Nat
        /\ DOMAIN r.script = 1..Len(r.script) /\ Len(r.script) \in Nat
    BY DEF Raw
  <2>4. r.taken <= Len(r.script) /\ Connection(r.script)
    BY <2>3 DEF Sock, Net
  <2>5. j \in DOMAIN r.script
    BY <2>3, <2>4
  <2>6. ~(j < i)
    BY <2>2, <2>4, <2>5 DEF Connection
  <2>7. i \in 1..r.taken
    BY <2>2, <2>3, <2>6
  <2> QED
    BY <2>1, <2>7 DEF Took
<1>8. Hand(g, z, r, e)
  BY <1>3, <1>5, <1>7 DEF Sock, Hand
<1>9. Stream(g, r, e)
  <2>1. g.off + g.bytes_left <= Len(g.buf)
    BY <1>2, <1>3 DEF Sock, Stream
  <2>2. ~e.torn => ~h.torn /\ f.bytes_left = 0
    <3>1. f.bytes_left > 0 \/ f.bytes_left = 0
      BY <1>1
    <3>2. ~e.torn => ~h.torn /\ ~(f.bytes_left > 0)
      BY <1>5, Zenon
    <3> QED
      BY <3>1, <3>2, Zenon
  <2> QED
    BY <1>3, <1>5, <2>1, <2>2 DEF Sock, Stream
<1>10. g \in Fields /\ e \in Seen /\ Sock(b, g, z, r, e)
  BY <1>3, <1>5, <1>6, <1>8, <1>9 DEF Sock
<1> QED
  BY <1>10 DEF g, e
-----------------------------------------------------------------------------
(* One ssl_read *)

\* What SslRead returns, by the fragment it took.
LEMMA ReadCases ==
  ASSUME TypeOK, SockInv, NEW s \in Sockets
  PROVE  LET r == SslRead(s)
             c == raw[s].script[raw[s].taken + 1]
         IN
         /\ r.hs \in {"NOT_OK", "OK", "DEAD"} /\ r.took \in {0, 1}
         /\ r.hs = "DEAD" => r.ret # "OK"
         /\ r.ret = "DATA" => r.took = 1 /\ c.kind = "data"
         /\ r.ret = "CLOSE_NOTIFY" => r.took = 1 /\ c.kind = "notify"
         /\ r.took = 0 => r.hs = ssl[s].hs \/ r.hs = "DEAD"
         /\ r.took = 1 =>
              /\ ssl[s].hs # "DEAD" /\ raw[s].taken < raw[s].arrived
              /\ c.kind = "data" => r.ret = "DATA" /\ r.hs = ssl[s].hs
              /\ \/ r.hs = "DEAD"
                 \/ r.hs = "OK" /\ c.kind = "finished"
                 \/ /\ r.hs = ssl[s].hs /\ c.kind # "finished"
                    /\ c.kind = "badcert" => ~ssl[s].client \/ ssl[s].later
<1> DEFINE c == raw[s].script[raw[s].taken + 1]
<1>1. raw[s] \in Raw /\ Net(raw[s]) /\ ssl[s] \in Session
  BY DEF TypeOK, SockInv, Sock
<1>2. raw[s].taken \in Nat /\ raw[s].arrived \in Nat /\ raw[s].taken <= raw[s].arrived
  BY <1>1 DEF Raw, Net
<1>3. ssl[s].hs \in {"NOT_OK", "OK", "DEAD"}
  BY <1>1 DEF Session
<1> DEFINE gone == ssl[s].hs = "DEAD" \/ ~raw[s].open
<1>4. CASE gone
  <2>1. SslRead(s) = [ret |-> "CONN_LOST", hs |-> "DEAD", took |-> 0]
    BY <1>4 DEF SslRead
  <2> QED
    BY <2>1
<1>5. CASE ~gone /\ raw[s].taken = raw[s].arrived
  <2>1. PICK ret \in {"OK", "EAGAIN"} :
          SslRead(s) = [ret |-> ret, hs |-> ssl[s].hs, took |-> 0]
    BY <1>5 DEF SslRead
  <2> QED
    BY <1>3, <1>5, <2>1
<1>6. CASE ~gone /\ raw[s].taken # raw[s].arrived
  <2>1. raw[s].taken < raw[s].arrived
    BY <1>2, <1>6
  <2>2. c.kind \in Kinds
    BY <1>1, <2>1, NextFragment DEF Fragment
  <2> DEFINE Result(ret, hs, n) == [ret |-> ret, hs |-> hs, took |-> n]
  <2>3. SslRead(s) =
          CASE c.kind \in {"cert", "badcert"} ->
                   IF CertAccepted(s, c.kind) THEN Result("OK", ssl[s].hs, 1)
                   ELSE Result("ERROR", "DEAD", 1)
            [] c.kind = "finished" -> Result("OK", "OK", 1)
            [] c.kind = "header" -> Result("OK", ssl[s].hs, 1)
            [] c.kind = "data" -> Result("DATA", ssl[s].hs, 1)
            [] c.kind = "drop" -> Result("CONN_LOST", "DEAD", 1)
            [] c.kind = "notify" -> Result("CLOSE_NOTIFY", "DEAD", 1)
    BY <1>6 DEF SslRead
  <2> HIDE DEF c
  <2>4. CASE c.kind \in {"cert", "badcert"}
    <3>1. CASE CertAccepted(s, c.kind)
      <4>1. SslRead(s) = Result("OK", ssl[s].hs, 1)
        BY <2>3, <2>4, <3>1
      <4>2. c.kind = "badcert" => ~ssl[s].client \/ ssl[s].later
        BY <3>1 DEF CertAccepted
      <4> QED
        BY <1>3, <1>6, <2>1, <2>4, <4>1, <4>2 DEF c
    <3>2. CASE ~CertAccepted(s, c.kind)
      <4>1. SslRead(s) = Result("ERROR", "DEAD", 1)
        BY <2>3, <2>4, <3>2
      <4> QED
        BY <1>6, <2>1, <2>4, <4>1 DEF c
    <3> QED
      BY <3>1, <3>2
  <2>5. CASE c.kind = "finished"
    <3>1. SslRead(s) = Result("OK", "OK", 1)
      BY <2>3, <2>5
    <3> QED
      BY <1>6, <2>1, <2>5, <3>1 DEF c
  <2>6. CASE c.kind = "header"
    <3>1. SslRead(s) = Result("OK", ssl[s].hs, 1)
      BY <2>3, <2>6
    <3> QED
      BY <1>3, <1>6, <2>1, <2>6, <3>1 DEF c
  <2>7. CASE c.kind = "data"
    <3>1. SslRead(s) = Result("DATA", ssl[s].hs, 1)
      BY <2>3, <2>7
    <3> QED
      BY <1>3, <1>6, <2>1, <2>7, <3>1 DEF c
  <2>8. CASE c.kind = "drop"
    <3>1. SslRead(s) = Result("CONN_LOST", "DEAD", 1)
      BY <2>3, <2>8
    <3> QED
      BY <1>6, <2>1, <2>8, <3>1 DEF c
  <2>9. CASE c.kind = "notify"
    <3>1. SslRead(s) = Result("CLOSE_NOTIFY", "DEAD", 1)
      BY <2>3, <2>9
    <3> QED
      BY <1>6, <2>1, <2>9, <3>1 DEF c
  <2> QED
    BY <2>2, <2>4, <2>5, <2>6, <2>7, <2>8, <2>9 DEF Kinds
<1> QED
  BY <1>4, <1>5, <1>6

\* A session that is still shaking hands has no data to give.
LEMMA NoDataYet ==
  ASSUME TypeOK, SockInv, NEW s \in Sockets, ssl[s].hs = "NOT_OK"
  PROVE  SslRead(s).ret # "DATA"
<1> SUFFICES ASSUME SslRead(s).ret = "DATA" PROVE FALSE
  OBVIOUS
<1> DEFINE r == raw[s]
<1>1. r \in Raw /\ Net(r) /\ ~Took(r, "finished")
  BY DEF TypeOK, SockInv, Sock, Hand
<1>2. r.taken < r.arrived /\ r.script[r.taken + 1].kind = "data"
  BY ReadCases
<1> HIDE DEF r
<1>3. r.taken \in Nat /\ r.taken + 1 \in DOMAIN r.script
  BY <1>1, <1>2, NextFragment
<1>4. PICK j \in 1..((r.taken + 1) - 1) : r.script[j].kind = "finished"
  BY <1>1, <1>2, <1>3 DEF Net, Connection
<1>5. j \in 1..r.taken
  BY <1>3, <1>4
<1> QED
  BY <1>1, <1>4, <1>5 DEF Took

\* An ssl_read that returns no data leaves the socket as it should be.
LEMMA ReadNoData ==
  ASSUME TypeOK, SockInv, NEW s \in Sockets, obj[s] # "none",
         SslRead(s).ret # "DATA", NEW b, b # "none", NEW h \in Seen,
         Sock(b, o[s], ssl[s], raw[s], h)
  PROVE  Sock(b, o[s], [ssl[s] EXCEPT !.hs = SslRead(s).hs],
              [raw[s] EXCEPT !.taken = @ + SslRead(s).took], h)
<1> DEFINE r == SslRead(s)
<1>1. o[s] \in Fields /\ ssl[s] \in Session /\ raw[s] \in Raw
  BY DEF TypeOK
<1>2. CASE r.took = 0
  <2>1. r.hs = ssl[s].hs \/ r.hs = "DEAD"
    BY <1>2, ReadCases
  <2>3. raw[s].taken + r.took = raw[s].taken
    BY <1>1, <1>2 DEF Raw
  <2>4. [raw[s] EXCEPT !.taken = @ + r.took] = raw[s]
    BY <1>1, <2>3 DEF Raw
  <2>5. CASE r.hs = ssl[s].hs
    <3>1. [ssl[s] EXCEPT !.hs = r.hs] = ssl[s]
      BY <1>1, <2>5 DEF Session
    <3> QED
      BY <2>4, <3>1
  <2>6. CASE r.hs = "DEAD"
    <3>1. Sock(b, o[s], [ssl[s] EXCEPT !.hs = "DEAD"], raw[s], h)
      BY <1>1, DeadSock
    <3> QED
      BY <2>4, <2>6, <3>1
  <2> QED
    BY <2>1, <2>5, <2>6
<1>3. CASE r.took = 1
  <2> DEFINE c == raw[s].script[raw[s].taken + 1]
  <2>1. /\ r.hs \in {"NOT_OK", "OK", "DEAD"}
        /\ ssl[s].hs # "DEAD" /\ raw[s].taken < raw[s].arrived
        /\ c.kind # "data"
        /\ \/ r.hs = "DEAD"
           \/ r.hs = "OK" /\ c.kind = "finished"
           \/ /\ r.hs = ssl[s].hs /\ c.kind # "finished"
              /\ c.kind = "badcert" => ~ssl[s].client \/ ssl[s].later
    BY <1>3, ReadCases
  <2> HIDE DEF r
  <2>2. Sock(b, o[s], [ssl[s] EXCEPT !.hs = r.hs], [raw[s] EXCEPT !.taken = @ + 1], h)
    BY <1>1, <2>1, TakeOther
  <2> QED
    BY <1>3, <2>2 DEF r
<1> QED
  BY <1>2, <1>3, ReadCases
-----------------------------------------------------------------------------
(* One lemma per action *)

\* A step that only touches socket s.
LEMMA OneSocket ==
  ASSUME SockInv, NEW s \in Sockets,
         Sock(obj'[s], o'[s], ssl'[s], raw'[s], hist'[s]),
         \A t \in Sockets \ {s} : /\ obj'[t] = obj[t] /\ o'[t] = o[t] /\ ssl'[t] = ssl[t]
                                 /\ raw'[t] = raw[t] /\ hist'[t] = hist[t]
  PROVE  SockInv'
BY DEF SockInv

\* A step that leaves everything but the call and the context alone.
LEMMA NoSocket ==
  ASSUME SockInv, UNCHANGED <<obj, o, ssl, raw, hist>>
  PROVE  SockInv'
BY DEF SockInv

LEMMA PollStep == ASSUME IInv, Poll PROVE IInv'
<1>1. \A t \in Sockets : raw[t] \in Raw /\ Sock(obj[t], o[t], ssl[t], raw[t], hist[t])
  BY DEF IInv, TypeOK, SockInv
<1>2. \A t \in Sockets : raw'[t] = [raw[t] EXCEPT !.arrived = raw[t].sent]
  BY DEF Poll, PollHook
<1>3. ASSUME NEW t \in Sockets
      PROVE  raw'[t] \in Raw /\ Sock(obj[t], o[t], ssl[t], raw'[t], hist[t])
  <2>1. LET p == [raw[t] EXCEPT !.arrived = raw[t].sent]
        IN  p \in Raw /\ Sock(obj[t], o[t], ssl[t], p, hist[t])
    BY <1>1, PolledSock
  <2> QED
    BY <1>2, <2>1
<1>4. raw' \in [Sockets -> Raw]
  BY <1>3 DEF Poll, PollHook
<1> QED
  BY <1>3, <1>4 DEF Poll, IInv, TypeOK, CallInv, SockInv

LEMMA PeerSendStep == ASSUME IInv, NEW s \in Sockets, PeerSend(s) PROVE IInv'
<1> DEFINE p == [raw[s] EXCEPT !.sent = @ + 1]
<1>1. raw[s] \in Raw /\ Sock(obj[s], o[s], ssl[s], raw[s], hist[s])
  BY DEF IInv, TypeOK, SockInv
<1>2. raw'[s] = p /\ \A t \in Sockets \ {s} : raw'[t] = raw[t]
  BY DEF PeerSend, IInv, TypeOK
<1>3. /\ raw[s].sent \in Nat /\ raw[s].arrived \in Nat
      /\ raw[s].script \in Seq(Fragment) /\ Len(raw[s].script) \in Nat
  BY <1>1 DEF Raw
<1>4. /\ p \in Raw /\ p.script = raw[s].script /\ p.taken = raw[s].taken
      /\ p.open = raw[s].open /\ p.arrived = raw[s].arrived /\ p.sent = raw[s].sent + 1
  BY <1>1, <1>3 DEF Raw
<1> HIDE DEF p
<1>5. Net(p)
  <2>1. Net(raw[s])
    BY <1>1 DEF Sock
  <2>2. raw[s].sent < Len(raw[s].script)
    BY DEF PeerSend
  <2> QED
    BY <1>3, <1>4, <2>1, <2>2 DEF Net
<1>6. Sock(obj[s], o[s], ssl[s], p, hist[s])
  BY <1>1, <1>4, <1>5, SameSock
<1>7. SockInv'
  BY <1>2, <1>6, OneSocket DEF PeerSend, IInv
<1>8. raw' \in [Sockets -> Raw]
  BY <1>1, <1>2, <1>4 DEF PeerSend, IInv, TypeOK
<1> QED
  BY <1>7, <1>8 DEF PeerSend, IInv, TypeOK, CallInv

LEMMA ContextStep == ASSUME IInv, Context PROVE IInv'
<1>1. TypeOK' /\ CallInv' /\ UNCHANGED <<obj, o, ssl, raw, hist>>
  BY DEF Context, ssl_context_attr, ssl_context_load_verify_locations, IInv, TypeOK, CallInv
<1> QED
  BY <1>1, NoSocket DEF IInv

LEMMA WrapBadKeyStep == ASSUME IInv, NEW s \in Sockets, WrapBadKey(s) PROVE IInv'
<1>1. TypeOK' /\ CallInv'
  BY DEF WrapBadKey, IInv, TypeOK, CallInv, Idle
<1>2. Sock(obj[s], o[s], ssl[s], raw[s], hist[s]) /\ obj'[s] = "garbage"
  BY DEF IInv, SockInv, WrapBadKey, TypeOK
<1>3. Sock("garbage", o[s], ssl[s], raw[s], hist[s])
  BY <1>2 DEF Sock, Own
<1>4. SockInv'
  BY <1>2, <1>3, OneSocket DEF WrapBadKey, IInv, TypeOK
<1> QED
  BY <1>1, <1>4 DEF IInv

\* The wrap creates the session with the options verify_mode asked for.
LEMMA MakeNewStep ==
  ASSUME IInv, NEW s \in Sockets,
         NEW client \in BOOLEAN, NEW handshake \in BOOLEAN, NEW blocking \in BOOLEAN,
         ssl_socket_make_new(s, client, handshake, blocking)
  PROVE  IInv'
<1> DEFINE options == IF client THEN ClientOptions(handshake) ELSE ctx.options
           waits == client /\ "CONNECT_IN_PARTS" \notin options
           later == "VERIFY_LATER" \in options
           asked == client /\ ctx.verify_mode = "CERT_REQUIRED"
           z == [state |-> "live", hs |-> "NOT_OK", later |-> later, client |-> client]
           f == [o[s] EXCEPT !.ssl_sock = TRUE, !.sock = ~waits]
           p == [raw[s] EXCEPT !.blocking = blocking]
           h == [hist[s] EXCEPT !.asked = asked]
           b == IF waits THEN "making" ELSE "held"
<1>1. /\ o[s] \in Fields /\ raw[s] \in Raw /\ hist[s] \in Seen /\ obj[s] = "none"
      /\ Sock(obj[s], o[s], ssl[s], raw[s], hist[s])
  BY DEF IInv, TypeOK, SockInv, ssl_socket_make_new
<1>2. options \in SUBSET {"VERIFY_LATER", "CONNECT_IN_PARTS"}
  BY DEF ClientOptions, IInv, TypeOK
<1>3. asked => client /\ ~later
  BY DEF ClientOptions
<1>4. waits \in BOOLEAN /\ later \in BOOLEAN /\ asked \in BOOLEAN
  OBVIOUS
<1>5. /\ obj' = [obj EXCEPT ![s] = b] /\ o' = [o EXCEPT ![s] = f]
      /\ ssl' = [ssl EXCEPT ![s] = z] /\ raw' = [raw EXCEPT ![s] = p]
      /\ hist' = [hist EXCEPT ![s] = h] /\ ctx' = [ctx EXCEPT !.options = options]
      /\ call' = IF waits THEN [op |-> "wrap", s |-> s] ELSE Idle
  BY <1>1 DEF ssl_socket_make_new, IInv, TypeOK
<1>6. /\ f \in Fields /\ f.ssl_sock = TRUE /\ f.bytes_left = o[s].bytes_left
      /\ f.off = o[s].off /\ f.buf = o[s].buf
  BY <1>1, <1>4 DEF Fields
<1>7. z \in Session /\ z.state = "live" /\ z.hs = "NOT_OK" /\ z.later = later
      /\ z.client = client
  BY <1>4 DEF Session
<1>8. /\ p \in Raw /\ p.script = raw[s].script /\ p.taken = raw[s].taken
      /\ p.open = raw[s].open /\ p.arrived = raw[s].arrived /\ p.sent = raw[s].sent
  BY <1>1 DEF Raw
<1>9. /\ h \in Seen /\ h.asked = asked /\ h.got = hist[s].got /\ h.eof = hist[s].eof
      /\ h.torn = hist[s].torn /\ h.wrote = hist[s].wrote
  BY <1>1, <1>4 DEF Seen
<1>10. b \in {"making", "held"}
  OBVIOUS
<1> HIDE DEF options, waits, later, asked, z, f, p, h, b
<1>11. TypeOK'
  <2>1. ctx' \in [verify_mode : {"CERT_NONE", "CERT_REQUIRED"}, ca : BOOLEAN,
                   options : SUBSET {"VERIFY_LATER", "CONNECT_IN_PARTS"}]
    BY <1>2, <1>5 DEF IInv, TypeOK
  <2>2. call' = Idle \/ (call'.op = "wrap" /\ call'.s = s)
    BY <1>5
  <2>3. /\ call'.op \in {"none", "wrap", "read", "write"}
        /\ call'.op = "none" => call' = Idle
        /\ call'.op # "none" => call'.s \in Sockets
        /\ call'.op # "read"
    BY <2>2 DEF Idle
  <2> QED
    BY <1>5, <1>6, <1>7, <1>8, <1>9, <1>10, <2>1, <2>3 DEF IInv, TypeOK
<1>12. CallInv'
  <2>1. obj'[s] = b /\ ssl'[s] = z
    BY <1>5 DEF IInv, TypeOK
  <2>2. call'.op = "none" \/ (call'.op = "wrap" /\ call'.s = s)
    BY <1>5 DEF Idle
  <2> QED
    BY <1>7, <1>10, <2>1, <2>2 DEF CallInv
<1>13. Sock(b, f, z, p, h)
  <2>1. Net(p) /\ p.taken = 0
    BY <1>1, <1>8 DEF Sock, Net, Own
  <2>2. Own(b, f, z, p, h)
    BY <1>6, <1>7, <1>10, <2>1 DEF Own
  <2>3. \A kind : ~Took(p, kind)
    BY <2>1 DEF Took
  <2>4. ~(f.bytes_left > 0) /\ h.got = << >> /\ ~h.wrote
    BY <1>1, <1>6, <1>9 DEF Sock, Own
  <2>5. Hand(f, z, p, h)
    BY <1>3, <1>7, <1>9, <2>3, <2>4 DEF Hand
  <2>6. Stream(f, p, h)
    BY <1>1, <1>6, <1>8, <1>9, SMTT(30) DEF Sock, Stream, Before
  <2> QED
    BY <2>1, <2>2, <2>5, <2>6 DEF Sock
<1>14. SockInv'
  <2>1. /\ obj'[s] = b /\ ssl'[s] = z /\ o'[s] = f /\ raw'[s] = p /\ hist'[s] = h
        /\ \A t \in Sockets \ {s} :
             /\ obj'[t] = obj[t] /\ o'[t] = o[t] /\ ssl'[t] = ssl[t]
             /\ raw'[t] = raw[t] /\ hist'[t] = hist[t]
    BY <1>5 DEF IInv, TypeOK
  <2> QED
    BY <1>13, <2>1, OneSocket DEF IInv
<1> QED
  BY <1>11, <1>12, <1>14 DEF IInv

\* The effect of one ssl_read on the session and on lwIP's queue: socket s
\* takes its fragment, and at most the arrival of others moves on.
LEMMA TakesReadSock ==
  ASSUME IInv, NEW s \in Sockets, TakesRead(s, SslRead(s))
  PROVE  LET p == [raw[s] EXCEPT !.taken = @ + SslRead(s).took] IN
         /\ ssl' \in [Sockets -> Session] /\ raw' \in [Sockets -> Raw]
         /\ p \in Raw
         /\ ssl'[s] = [ssl[s] EXCEPT !.hs = SslRead(s).hs]
         /\ raw'[s] = p \/ raw'[s] = [p EXCEPT !.arrived = p.sent]
         /\ \A t \in Sockets \ {s} :
              /\ ssl'[t] = ssl[t]
              /\ raw'[t] = raw[t] \/ raw'[t] = [raw[t] EXCEPT !.arrived = raw[t].sent]
<1> DEFINE n == SslRead(s).took
           p == [raw[s] EXCEPT !.taken = @ + n]
           Polled(r) == [r EXCEPT !.arrived = r.sent]
<1>1. n \in {0, 1} /\ SslRead(s).hs \in {"NOT_OK", "OK", "DEAD"}
  BY ReadCases DEF IInv
<1>2. \A t \in Sockets : raw[t] \in Raw /\ ssl[t] \in Session
  BY DEF IInv, TypeOK
<1>3. ssl' = [ssl EXCEPT ![s].hs = SslRead(s).hs]
  BY DEF TakesRead
<1>4. /\ ssl' \in [Sockets -> Session]
      /\ ssl'[s] = [ssl[s] EXCEPT !.hs = SslRead(s).hs]
      /\ \A t \in Sockets \ {s} : ssl'[t] = ssl[t]
  <2>1. [ssl[s] EXCEPT !.hs = SslRead(s).hs] \in Session
    BY <1>1, <1>2 DEF Session
  <2> QED
    BY <1>3, <2>1 DEF IInv, TypeOK
<1> HIDE DEF n
<1>5. raw[s].taken + n \in Nat
  BY <1>1, <1>2 DEF Raw
<1>6. p \in Raw /\ p.sent = raw[s].sent /\ \A r \in Raw : Polled(r) \in Raw
  BY <1>2, <1>5 DEF Raw
<1>7. raw' = [raw EXCEPT ![s].taken = @ + n] \/ raw' = [PollHook(raw) EXCEPT ![s].taken = @ + n]
  BY DEF TakesRead, n
<1>8. CASE raw' = [raw EXCEPT ![s].taken = @ + n]
  <2>1. raw'[s] = p /\ \A t \in Sockets \ {s} : raw'[t] = raw[t]
    BY <1>8 DEF IInv, TypeOK
  <2>2. raw' \in [Sockets -> Raw]
    BY <1>2, <1>6, <1>8, <2>1 DEF IInv, TypeOK
  <2> QED
    BY <1>4, <1>6, <2>1, <2>2 DEF n
<1>9. CASE raw' = [PollHook(raw) EXCEPT ![s].taken = @ + n]
  <2>1. /\ raw'[s] = [Polled(raw[s]) EXCEPT !.taken = @ + n]
        /\ \A t \in Sockets \ {s} : raw'[t] = Polled(raw[t])
        /\ raw' = [t \in Sockets |-> raw'[t]]
    BY <1>9 DEF PollHook
  <2>2. [Polled(raw[s]) EXCEPT !.taken = @ + n] = Polled(p)
    BY <1>2 DEF Raw
  <2>3. ASSUME NEW t \in Sockets PROVE raw'[t] \in Raw
    <3>1. CASE t = s
      BY <1>6, <2>1, <2>2, <3>1
    <3>2. CASE t # s
      <4>1. raw[t] \in Raw /\ Polled(raw[t]) \in Raw
        BY <1>2, <1>6
      <4> QED
        BY <2>1, <3>2, <4>1
    <3> QED
      BY <3>1, <3>2
  <2>4. raw' \in [Sockets -> Raw]
    BY <2>1, <2>3
  <2> QED
    BY <1>4, <1>6, <2>1, <2>2, <2>4 DEF n
<1> QED
  BY <1>7, <1>8, <1>9

LEMMA TakesReadKeeps ==
  ASSUME IInv, NEW s \in Sockets, TakesRead(s, SslRead(s)),
         Sock(obj'[s], o'[s], [ssl[s] EXCEPT !.hs = SslRead(s).hs],
              [raw[s] EXCEPT !.taken = @ + SslRead(s).took], hist'[s]),
         \A t \in Sockets \ {s} : obj'[t] = obj[t] /\ o'[t] = o[t] /\ hist'[t] = hist[t]
  PROVE  SockInv'
<1> DEFINE p == [raw[s] EXCEPT !.taken = @ + SslRead(s).took]
<1>1. /\ p \in Raw /\ ssl'[s] = [ssl[s] EXCEPT !.hs = SslRead(s).hs]
      /\ raw'[s] = p \/ raw'[s] = [p EXCEPT !.arrived = p.sent]
      /\ \A t \in Sockets \ {s} :
           /\ ssl'[t] = ssl[t]
           /\ raw'[t] = raw[t] \/ raw'[t] = [raw[t] EXCEPT !.arrived = raw[t].sent]
  BY TakesReadSock
<1>2. Sock(obj'[s], o'[s], ssl'[s], p, hist'[s])
  BY <1>1
<1> HIDE DEF p
<1>3. Sock(obj'[s], o'[s], ssl'[s], raw'[s], hist'[s])
  BY <1>1, <1>2, PolledSock
<1>4. ASSUME NEW t \in Sockets \ {s}
      PROVE  Sock(obj'[t], o'[t], ssl'[t], raw'[t], hist'[t])
  <2>1. raw[t] \in Raw /\ Sock(obj[t], o[t], ssl[t], raw[t], hist[t])
    BY DEF IInv, TypeOK, SockInv
  <2>2. Sock(obj[t], o[t], ssl[t], raw'[t], hist[t])
    <3>1. LET q == [raw[t] EXCEPT !.arrived = raw[t].sent]
          IN  q \in Raw /\ Sock(obj[t], o[t], ssl[t], q, hist[t])
      BY <2>1, PolledSock
    <3>2. raw'[t] = raw[t] \/ raw'[t] = [raw[t] EXCEPT !.arrived = raw[t].sent]
      BY <1>1
    <3> QED
      BY <2>1, <3>1, <3>2
  <2> QED
    BY <1>1, <2>2
<1> QED
  BY <1>3, <1>4 DEF SockInv

\* The call that ends is followed by none, one that goes on stays typed.
LEMMA CallType ==
  ASSUME TypeOK, call' = call \/ call' = Idle
  PROVE  /\ call'.op \in {"none", "wrap", "read", "write"}
         /\ call'.op = "none" => call' = Idle
         /\ call'.op # "none" => call'.s \in Sockets /\ call' = call
         /\ call'.op = "read" => call'.size \in Nat \ {0}
BY DEF TypeOK, Idle

LEMMA WrapStepStep == ASSUME IInv, WrapStep PROVE IInv'
<1> DEFINE s == call.s
           r == SslRead(s)
           done == r.hs = "OK"
           failed == r.ret # "OK"
           b == IF done THEN "held" ELSE IF failed THEN "garbage" ELSE obj[s]
           f == [o[s] EXCEPT !.sock = done]
<1>1. s \in Sockets /\ obj[s] \in {"making", "held"} /\ ssl[s].hs = "NOT_OK"
      /\ call.op = "wrap" /\ ssl[s].state = "live"
  BY DEF WrapStep, IInv, TypeOK, CallInv
<1>2. /\ TakesRead(s, r) /\ obj' = [obj EXCEPT ![s] = b] /\ o' = [o EXCEPT ![s] = f]
      /\ call' = (IF done \/ failed THEN Idle ELSE call) /\ ctx' = ctx /\ hist' = hist
  BY DEF WrapStep, IInv, TypeOK
<1>3. /\ o[s] \in Fields /\ hist[s] \in Seen
      /\ Sock(obj[s], o[s], ssl[s], raw[s], hist[s])
  BY <1>1 DEF IInv, TypeOK, SockInv
<1>4. done \in BOOLEAN
  OBVIOUS
<1>5. /\ f \in Fields /\ f.ssl_sock = o[s].ssl_sock /\ f.buf = o[s].buf
      /\ f.off = o[s].off /\ f.bytes_left = o[s].bytes_left
  BY <1>3, <1>4 DEF Fields
<1>6. b \in {"making", "held", "garbage"} /\ b # "none"
  BY <1>1
<1>7. Sock(b, o[s], ssl[s], raw[s], hist[s])
  BY <1>1, <1>3, <1>6 DEF Sock, Own
<1>8. r.ret # "DATA"
  BY <1>1, NoDataYet DEF IInv
<1>9. r.hs \in {"NOT_OK", "OK", "DEAD"} /\ (r.hs = "DEAD" => r.ret # "OK")
  BY <1>1, ReadCases DEF IInv
<1> DEFINE y == [ssl[s] EXCEPT !.hs = r.hs]
           p == [raw[s] EXCEPT !.taken = @ + r.took]
<1>10. Sock(b, o[s], y, p, hist[s])
  BY <1>1, <1>3, <1>6, <1>7, <1>8, ReadNoData DEF IInv
<1>11. ssl' \in [Sockets -> Session] /\ raw' \in [Sockets -> Raw] /\ ssl'[s] = y
       /\ y.hs = r.hs /\ y.state = "live"
  <2>1. ssl[s] \in Session
    BY <1>1 DEF IInv, TypeOK
  <2> QED
    BY <1>1, <1>2, <2>1, TakesReadSock DEF Session
<1>12. Sock(b, f, y, p, hist[s])
  <2>1. y.state = "live" /\ o[s] \in Fields
    BY <1>3, <1>11
  <2> HIDE DEF b, f, y, p
  <2>2. Net(p) /\ Own(b, o[s], y, p, hist[s]) /\ Hand(o[s], y, p, hist[s])
        /\ Stream(o[s], p, hist[s])
    BY <1>10 DEF Sock
  <2>3. Own(b, f, y, p, hist[s])
    BY <1>5, <2>1, <2>2 DEF Own
  <2>4. Hand(f, y, p, hist[s]) /\ Stream(f, p, hist[s])
    BY <1>5, <2>2 DEF Hand, Stream
  <2> QED
    BY <2>2, <2>3, <2>4 DEF Sock
<1>13. call' = Idle \/ (call' = call /\ r.hs = "NOT_OK" /\ b = obj[s])
  BY <1>2, <1>9
<1> HIDE DEF s, r, done, failed, b, f, y, p
<1>14. SockInv'
  <2>1. /\ obj'[s] = b /\ o'[s] = f /\ hist'[s] = hist[s]
        /\ \A t \in Sockets \ {s} : obj'[t] = obj[t] /\ o'[t] = o[t] /\ hist'[t] = hist[t]
    BY <1>1, <1>2 DEF IInv, TypeOK
  <2>2. Sock(obj'[s], o'[s], [ssl[s] EXCEPT !.hs = SslRead(s).hs],
             [raw[s] EXCEPT !.taken = @ + SslRead(s).took], hist'[s])
    BY <1>12, <2>1 DEF y, p, r
  <2> QED
    BY <1>1, <1>2, <2>1, <2>2, TakesReadKeeps DEF r
<1>15. TypeOK'
  BY <1>1, <1>2, <1>5, <1>6, <1>11, <1>13, CallType DEF IInv, TypeOK
<1>16. CallInv'
  <2>1. \/ call' = Idle
        \/ /\ call' = call /\ obj'[s] = obj[s]
           /\ ssl'[s].hs = "NOT_OK" /\ ssl'[s].state = "live"
    BY <1>1, <1>2, <1>11, <1>13 DEF IInv, TypeOK
  <2> QED
    BY <1>1, <2>1 DEF CallInv, Idle, s
<1> QED
  BY <1>14, <1>15, <1>16 DEF IInv

LEMMA ReadCallStep ==
  ASSUME IInv, NEW s \in Sockets, NEW size \in Sizes, ssl_socket_read(s, size)
  PROVE  IInv'
<1>1. size \in Nat \ {0}
  BY TlsAssumption
<1>2. SockInv'
  BY NoSocket DEF ssl_socket_read, IInv
<1>3. call'.op = "read" /\ call'.s = s /\ call'.size = size
  BY DEF ssl_socket_read
<1> QED
  BY <1>1, <1>2, <1>3 DEF ssl_socket_read, IInv, TypeOK, CallInv

LEMMA WriteCallStep == ASSUME IInv, NEW s \in Sockets, ssl_socket_write(s) PROVE IInv'
<1>1. SockInv'
  BY NoSocket DEF ssl_socket_write, IInv
<1>2. call'.op = "write" /\ call'.s = s
  BY DEF ssl_socket_write
<1> QED
  BY <1>1, <1>2 DEF ssl_socket_write, IInv, TypeOK, CallInv

LEMMA ReadStepStep == ASSUME IInv, ReadStep PROVE IInv'
<1> DEFINE s == call.s
           r == SslRead(s)
           data == raw[s].script[raw[s].taken + 1].data
           f == IF r.ret = "DATA"
                THEN [o[s] EXCEPT !.buf = data, !.off = 0, !.bytes_left = Len(data)]
                ELSE o[s]
           h == [hist[s] EXCEPT !.eof = @ \/ r.ret = "CLOSE_NOTIFY"]
           y == [ssl[s] EXCEPT !.hs = r.hs]
           p == [raw[s] EXCEPT !.taken = @ + r.took]
<1>1. s \in Sockets /\ obj[s] \in {"making", "held"} /\ o[s].bytes_left = 0
      /\ call.op = "read"
  BY DEF ReadStep, IInv, TypeOK, CallInv
<1>2. /\ o[s] \in Fields /\ ssl[s] \in Session /\ raw[s] \in Raw /\ hist[s] \in Seen
      /\ Sock(obj[s], o[s], ssl[s], raw[s], hist[s])
  BY <1>1 DEF IInv, TypeOK, SockInv
<1>3. /\ TakesRead(s, r) /\ o' = [o EXCEPT ![s] = f] /\ hist' = [hist EXCEPT ![s] = h]
      /\ call' = call \/ call' = Idle
      /\ ctx' = ctx /\ obj' = obj
  <2>1. /\ TakesRead(s, r) /\ hist' = [hist EXCEPT ![s].eof = @ \/ r.ret = "CLOSE_NOTIFY"]
        /\ call' = call \/ call' = Idle
        /\ ctx' = ctx /\ obj' = obj
    BY DEF ReadStep
  <2>2. hist' = [hist EXCEPT ![s] = h]
    BY <1>1, <2>1 DEF IInv, TypeOK
  <2>3. o' = [o EXCEPT ![s] = f]
    <3>1. CASE r.ret = "DATA"
      <4>1. o' = [o EXCEPT ![s].buf = data, ![s].off = 0, ![s].bytes_left = Len(data)]
        BY <3>1 DEF ReadStep
      <4> QED
        BY <1>1, <1>2, <3>1, <4>1 DEF IInv, TypeOK
    <3>2. CASE r.ret # "DATA"
      BY <1>1, <3>2 DEF ReadStep, IInv, TypeOK
    <3> QED
      BY <3>1, <3>2
  <2> QED
    BY <2>1, <2>2, <2>3
<1>4. ASSUME r.ret = "DATA"
      PROVE  f \in Fields /\ h \in Seen /\ Sock(obj[s], f, y, p, h)
  <2> HIDE DEF r
  <2>1. h = hist[s]
    <3>1. (hist[s].eof \/ r.ret = "CLOSE_NOTIFY") = hist[s].eof
      BY <1>2, <1>4 DEF Seen
    <3> QED
      BY <1>2, <3>1 DEF Seen
  <2>2. /\ ssl[s].hs # "DEAD" /\ raw[s].taken < raw[s].arrived /\ r.took = 1
        /\ raw[s].script[raw[s].taken + 1].kind = "data" /\ r.hs = ssl[s].hs
    BY <1>1, <1>4, ReadCases DEF IInv, r
  <2>3. y = ssl[s]
    BY <1>2, <2>2 DEF Session
  <2>4. LET g == [o[s] EXCEPT !.buf = data, !.off = 0, !.bytes_left = Len(data)]
        IN  g \in Fields /\ Sock(obj[s], g, ssl[s], [raw[s] EXCEPT !.taken = @ + 1], hist[s])
    BY <1>1, <1>2, <2>2, TakeData
  <2>5. f \in Fields /\ Sock(obj[s], f, y, p, h) /\ h \in Seen
    BY <1>2, <1>4, <2>1, <2>2, <2>3, <2>4
  <2> QED
    BY <2>5
<1>5. ASSUME r.ret # "DATA"
      PROVE  f \in Fields /\ h \in Seen /\ Sock(obj[s], f, y, p, h)
  <2>1. f = o[s]
    BY <1>5
  <2>2. h \in Seen /\ Sock(obj[s], o[s], ssl[s], raw[s], h)
    <3>1. CASE r.ret = "CLOSE_NOTIFY"
      <4>1. raw[s].taken < raw[s].arrived /\ raw[s].script[raw[s].taken + 1].kind = "notify"
        BY <1>1, <3>1, ReadCases DEF IInv
      <4>2. LET e == [hist[s] EXCEPT !.eof = TRUE]
            IN  e \in Seen /\ Sock(obj[s], o[s], ssl[s], raw[s], e)
        BY <1>1, <1>2, <4>1, SeeEnd
      <4>3. h = [hist[s] EXCEPT !.eof = TRUE]
        BY <3>1
      <4> QED
        BY <4>2, <4>3
    <3>2. CASE r.ret # "CLOSE_NOTIFY"
      <4>1. (hist[s].eof \/ r.ret = "CLOSE_NOTIFY") = hist[s].eof
        BY <1>2, <3>2 DEF Seen
      <4>2. h = hist[s]
        BY <1>2, <4>1 DEF Seen
      <4> QED
        BY <1>2, <4>2
    <3> QED
      BY <3>1, <3>2
  <2>3. Sock(obj[s], o[s], y, p, h)
    BY <1>1, <1>2, <1>5, <2>2, ReadNoData DEF IInv
  <2> QED
    BY <1>2, <2>1, <2>2, <2>3
<1>6. f \in Fields /\ h \in Seen /\ Sock(obj[s], f, y, p, h)
  BY <1>4, <1>5
<1>7. ssl' \in [Sockets -> Session] /\ raw' \in [Sockets -> Raw]
  BY <1>1, <1>3, TakesReadSock
<1> HIDE DEF s, r, f, h, y, p, data
<1>8. SockInv'
  <2>1. /\ obj'[s] = obj[s] /\ o'[s] = f /\ hist'[s] = h
        /\ \A t \in Sockets \ {s} : obj'[t] = obj[t] /\ o'[t] = o[t] /\ hist'[t] = hist[t]
    BY <1>1, <1>3 DEF IInv, TypeOK
  <2>2. Sock(obj'[s], o'[s], [ssl[s] EXCEPT !.hs = SslRead(s).hs],
             [raw[s] EXCEPT !.taken = @ + SslRead(s).took], hist'[s])
    BY <1>6, <2>1 DEF y, p, r
  <2> QED
    BY <1>1, <1>3, <2>1, <2>2, TakesReadKeeps DEF r
<1>9. TypeOK'
  BY <1>1, <1>3, <1>6, <1>7, CallType DEF IInv, TypeOK
<1>10. CallInv'
  BY <1>1, <1>3 DEF IInv, CallInv, Idle, s
<1> QED
  BY <1>8, <1>9, <1>10 DEF IInv

LEMMA ReadCopyStep == ASSUME IInv, ReadCopy PROVE IInv'
<1> DEFINE s == call.s
           n == IF call.size > o[s].bytes_left THEN o[s].bytes_left ELSE call.size
           f == [o[s] EXCEPT !.off = @ + n, !.bytes_left = @ - n]
           h == [hist[s] EXCEPT !.got = @ \o SubSeq(o[s].buf, o[s].off + 1, o[s].off + n)]
<1>1. s \in Sockets /\ obj[s] \in {"making", "held"} /\ call.size \in Nat \ {0}
      /\ o[s].bytes_left > 0
  BY DEF ReadCopy, IInv, TypeOK, CallInv
<1>2. /\ o[s] \in Fields /\ hist[s] \in Seen
      /\ Sock(obj[s], o[s], ssl[s], raw[s], hist[s])
  BY <1>1 DEF IInv, TypeOK, SockInv
<1>3. n \in 1..o[s].bytes_left
  <2>1. o[s].bytes_left \in Nat
    BY <1>2 DEF Fields
  <2> QED
    BY <1>1, <2>1
<1>4. f \in Fields /\ h \in Seen /\ Sock(obj[s], f, ssl[s], raw[s], h)
  <2> HIDE DEF n
  <2> QED
    BY <1>1, <1>2, <1>3, CopyOut
<1>5. o' = [o EXCEPT ![s] = f] /\ hist' = [hist EXCEPT ![s] = h]
      /\ call' = Idle /\ UNCHANGED <<ctx, obj, ssl, raw>>
  BY <1>1, <1>2 DEF ReadCopy, IInv, TypeOK
<1> HIDE DEF s, n, f, h
<1>6. SockInv'
  <2>1. /\ o'[s] = f /\ hist'[s] = h
        /\ \A t \in Sockets \ {s} : o'[t] = o[t] /\ hist'[t] = hist[t]
    BY <1>1, <1>5 DEF IInv, TypeOK
  <2> QED
    BY <1>1, <1>4, <1>5, <2>1, OneSocket DEF IInv
<1>7. TypeOK'
  BY <1>1, <1>4, <1>5, CallType DEF IInv, TypeOK
<1>8. CallInv'
  BY <1>5 DEF CallInv, Idle
<1> QED
  BY <1>6, <1>7, <1>8 DEF IInv

LEMMA WriteStepStep == ASSUME IInv, WriteStep PROVE IInv'
<1> DEFINE s == call.s
<1>1. s \in Sockets /\ obj[s] \in {"making", "held"} /\ call.op = "write"
  BY DEF WriteStep, IInv, TypeOK, CallInv
<1>2. /\ o[s] \in Fields /\ ssl[s] \in Session /\ raw[s] \in Raw /\ hist[s] \in Seen
      /\ Sock(obj[s], o[s], ssl[s], raw[s], hist[s])
  BY <1>1 DEF IInv, TypeOK, SockInv
<1>3. ctx' = ctx /\ obj' = obj
  BY DEF WriteStep
<1>4. CASE SslWriteSends(s)
  <2> DEFINE f == [o[s] EXCEPT !.buf = [i \in DOMAIN @ |-> Junk]]
             h == [hist[s] EXCEPT !.wrote = @ \/ raw[s].open, !.torn = @ \/ o[s].bytes_left > 0]
  <2>1. f \in Fields /\ h \in Seen /\ Sock(obj[s], f, ssl[s], raw[s], h)
    <3>1. ssl[s].hs = "OK"
      BY <1>4 DEF SslWriteSends
    <3> QED
      BY <1>1, <1>2, <3>1, WriteOver
  <2>2. o' = [o EXCEPT ![s] = f] /\ hist' = [hist EXCEPT ![s] = h]
        /\ call' = Idle /\ UNCHANGED <<ssl, raw>>
    BY <1>1, <1>2, <1>4 DEF SslWriteSends, IInv, TypeOK
  <2> HIDE DEF s, f, h
  <2>3. /\ o'[s] = f /\ hist'[s] = h
        /\ \A t \in Sockets \ {s} : o'[t] = o[t] /\ hist'[t] = hist[t]
    BY <1>1, <2>2 DEF IInv, TypeOK
  <2>4. SockInv'
    BY <1>1, <1>3, <2>1, <2>2, <2>3, OneSocket DEF IInv
  <2>5. TypeOK' /\ CallInv'
    BY <1>1, <1>3, <2>1, <2>2, CallType DEF IInv, TypeOK, CallInv, Idle
  <2> QED
    BY <2>4, <2>5 DEF IInv
<1>5. CASE SslWriteWaits(s)
  <2>1. ssl[s].hs = "NOT_OK" /\ UNCHANGED <<o, hist>> /\ (call' = call \/ call' = Idle)
    BY <1>5 DEF SslWriteWaits
  <2>2. CASE UNCHANGED <<ssl, raw>>
    <3>1. SockInv'
      BY <1>3, <2>1, <2>2, NoSocket DEF IInv
    <3> QED
      BY <1>1, <1>3, <2>1, <2>2, <3>1, CallType DEF IInv, TypeOK, CallInv, Idle
  <2>3. CASE TakesRead(s, SslRead(s))
    <3>1. SslRead(s).ret # "DATA"
      BY <1>1, <2>1, NoDataYet DEF IInv
    <3>2. Sock(obj[s], o[s], [ssl[s] EXCEPT !.hs = SslRead(s).hs],
               [raw[s] EXCEPT !.taken = @ + SslRead(s).took], hist[s])
      BY <1>1, <1>2, <3>1, ReadNoData DEF IInv
    <3>3. ssl' \in [Sockets -> Session] /\ raw' \in [Sockets -> Raw]
      BY <1>1, <2>3, TakesReadSock
    <3> HIDE DEF s
    <3>4. SockInv'
      BY <1>1, <1>3, <2>1, <2>3, <3>2, TakesReadKeeps
    <3>5. TypeOK' /\ CallInv'
      BY <1>1, <1>3, <2>1, <3>3, CallType DEF IInv, TypeOK, CallInv, Idle
    <3> QED
      BY <3>4, <3>5 DEF IInv
  <2> QED
    BY <1>5, <2>2, <2>3 DEF SslWriteWaits
<1>6. CASE SslWriteFails(s)
  <2>1. call' = Idle /\ UNCHANGED <<o, ssl, raw, hist>>
    BY <1>6 DEF SslWriteFails
  <2>2. SockInv'
    BY <1>3, <2>1, NoSocket DEF IInv
  <2> QED
    BY <1>3, <2>1, <2>2, CallType DEF IInv, TypeOK, CallInv, Idle
<1> QED
  BY <1>4, <1>5, <1>6 DEF WriteStep

\* What closing does to the raw socket.
LEMMA RawClosedOne ==
  ASSUME TypeOK, NEW s \in Sockets
  PROVE  RawClosed(s) = [raw EXCEPT ![s] = [raw[s] EXCEPT !.open = FALSE,
                                              !.sent = raw[s].taken,
                                              !.arrived = raw[s].taken]]
BY DEF TypeOK, RawClosed, Raw

\* Close frees a live session once and forgets it, then closes the socket if the
\* wrap got that far and nobody closed it before.
LEMMA CloseSessionSock ==
  ASSUME IInv, NEW s \in Sockets, CloseSession(s), obj[s] # "none",
         NEW b \in {"held", "gone"}, obj' = [obj EXCEPT ![s] = b], hist' = hist
  PROVE  SockInv' /\ o' \in [Sockets -> Fields] /\ ssl' \in [Sockets -> Session]
         /\ raw' \in [Sockets -> Raw]
<1>1. /\ o[s] \in Fields /\ ssl[s] \in Session /\ raw[s] \in Raw /\ hist[s] \in Seen
      /\ Sock(obj[s], o[s], ssl[s], raw[s], hist[s])
      /\ obj'[s] = b /\ \A t \in Sockets \ {s} : obj'[t] = obj[t]
  BY DEF IInv, TypeOK, SockInv
<1>2. CASE ~o[s].ssl_sock
  <2>1. UNCHANGED <<ssl, o, raw>>
    BY <1>2 DEF CloseSession
  <2>2. Sock(b, o[s], ssl[s], raw[s], hist[s])
    BY <1>1, <1>2 DEF Sock, Own
  <2>3. SockInv'
    BY <1>1, <2>1, <2>2, OneSocket DEF IInv
  <2> QED
    BY <2>1, <2>3 DEF IInv, TypeOK
<1>3. CASE o[s].ssl_sock
  <2> DEFINE f == [o[s] EXCEPT !.ssl_sock = FALSE]
             z == [ssl[s] EXCEPT !.state = "freed"]
             p == IF o[s].sock /\ raw[s].open
                  THEN [raw[s] EXCEPT !.open = FALSE, !.sent = raw[s].taken,
                                      !.arrived = raw[s].taken]
                  ELSE raw[s]
  <2>1. ssl[s].state = "live"
    BY <1>1, <1>3 DEF Sock, Own
  <2>2. /\ o' = [o EXCEPT ![s] = f] /\ ssl' = [ssl EXCEPT ![s] = z]
        /\ raw' = [raw EXCEPT ![s] = p]
    <3>1. /\ ssl \in [Sockets -> Session] /\ o \in [Sockets -> Fields]
          /\ raw \in [Sockets -> Raw]
      BY DEF IInv, TypeOK
    <3>2. ssl' = [ssl EXCEPT ![s] = z]
      BY <1>3, <2>1, <3>1 DEF CloseSession, Session
    <3>3. o' = [o EXCEPT ![s] = f]
      BY <1>3, <3>1 DEF CloseSession, Fields
    <3>4. raw' = [raw EXCEPT ![s] = p]
      <4>1. CASE o[s].sock /\ raw[s].open
        <5>1. raw' = RawClosed(s)
          BY <1>3, <4>1 DEF CloseSession
        <5>2. RawClosed(s) = [raw EXCEPT ![s] = p]
          BY <4>1, RawClosedOne DEF IInv
        <5> QED
          BY <5>1, <5>2
      <4>2. CASE ~(o[s].sock /\ raw[s].open)
        BY <1>3, <3>1, <4>2 DEF CloseSession
      <4> QED
        BY <4>1, <4>2
    <3> QED
      BY <3>2, <3>3, <3>4
  <2>3. p \in Raw /\ (o[s].sock => ~p.open) /\ Sock(obj[s], o[s], ssl[s], p, hist[s])
    BY <1>1, ClosedSock
  <2>4. /\ f \in Fields /\ ~f.ssl_sock /\ f.sock = o[s].sock /\ f.bytes_left = o[s].bytes_left
        /\ f.off = o[s].off /\ f.buf = o[s].buf
    BY <1>1 DEF Fields
  <2>5. /\ z \in Session /\ z.state = "freed" /\ z.hs = ssl[s].hs
        /\ z.client = ssl[s].client /\ z.later = ssl[s].later
    BY <1>1 DEF Session
  <2> HIDE DEF f, z, p
  <2>7. Sock(b, f, z, p, hist[s])
    <3>1. Net(p) /\ Own(b, f, z, p, hist[s])
      BY <1>1, <2>3, <2>4, <2>5 DEF Sock, Own
    <3>2. Hand(f, z, p, hist[s])
      BY <2>3, <2>4, <2>5 DEF Sock, Hand
    <3>3. Stream(f, p, hist[s])
      BY <2>3, <2>4 DEF Sock, Stream
    <3> QED
      BY <3>1, <3>2, <3>3 DEF Sock
  <2>8. /\ o'[s] = f /\ ssl'[s] = z /\ raw'[s] = p
        /\ \A t \in Sockets \ {s} : o'[t] = o[t] /\ ssl'[t] = ssl[t] /\ raw'[t] = raw[t]
    BY <2>2 DEF IInv, TypeOK
  <2>9. SockInv'
    BY <1>1, <2>7, <2>8, OneSocket DEF IInv
  <2> QED
    BY <2>2, <2>3, <2>4, <2>5, <2>9 DEF IInv, TypeOK
<1> QED
  BY <1>2, <1>3

LEMMA RawCloseStep == ASSUME IInv, NEW s \in Sockets, RawClose(s) PROVE IInv'
<1> DEFINE p == [raw[s] EXCEPT !.open = FALSE, !.sent = raw[s].taken,
                               !.arrived = raw[s].taken]
<1>1. raw[s] \in Raw /\ Sock(obj[s], o[s], ssl[s], raw[s], hist[s])
  BY DEF IInv, TypeOK, SockInv
<1>2. raw' = [raw EXCEPT ![s] = p] /\ UNCHANGED <<ctx, ops, obj, o, ssl, call, hist>>
  BY RawClosedOne DEF RawClose, IInv
<1>3. p \in Raw /\ Sock(obj[s], o[s], ssl[s], p, hist[s])
  BY <1>1, ClosedSock
<1> HIDE DEF p
<1>4. raw'[s] = p /\ raw' \in [Sockets -> Raw] /\ \A t \in Sockets \ {s} : raw'[t] = raw[t]
  BY <1>2, <1>3 DEF IInv, TypeOK
<1>5. SockInv'
  BY <1>2, <1>3, <1>4, OneSocket DEF IInv
<1> QED
  BY <1>2, <1>4, <1>5 DEF IInv, TypeOK, CallInv

LEMMA CloseStep == ASSUME IInv, NEW s \in Sockets, ssl_socket_ioctl(s) PROVE IInv'
<1>1. obj[s] = "held" /\ CloseSession(s) /\ UNCHANGED <<ctx, obj, call, hist>> /\ call = Idle
  BY DEF ssl_socket_ioctl
<1>2. obj' = [obj EXCEPT ![s] = "held"]
  BY <1>1 DEF IInv, TypeOK
<1>3. SockInv' /\ o' \in [Sockets -> Fields] /\ ssl' \in [Sockets -> Session]
      /\ raw' \in [Sockets -> Raw]
  BY <1>1, <1>2, CloseSessionSock
<1> QED
  BY <1>1, <1>3 DEF IInv, TypeOK, CallInv, Idle

LEMMA CollectStep == ASSUME IInv, NEW s \in Sockets, Collect(s) PROVE IInv'
<1>1. /\ obj[s] # "none" /\ CloseSession(s) /\ UNCHANGED <<ctx, call, hist>>
      /\ call = Idle /\ obj' = [obj EXCEPT ![s] = "gone"]
  BY DEF Collect
<1>2. SockInv' /\ o' \in [Sockets -> Fields] /\ ssl' \in [Sockets -> Session]
      /\ raw' \in [Sockets -> Raw]
  BY <1>1, CloseSessionSock
<1> QED
  BY <1>1, <1>2 DEF IInv, TypeOK, CallInv, Idle

LEMMA SetBlockingStep ==
  ASSUME IInv, NEW s \in Sockets, NEW flag \in BOOLEAN, ssl_socket_setblocking(s, flag)
  PROVE  IInv'
<1> DEFINE f == [o[s] EXCEPT !.blocking = flag]
           p == [raw[s] EXCEPT !.blocking = flag]
<1>1. /\ o[s] \in Fields /\ raw[s] \in Raw
      /\ Sock(obj[s], o[s], ssl[s], raw[s], hist[s])
  BY DEF IInv, TypeOK, SockInv
<1>2. /\ o' = [o EXCEPT ![s] = f] /\ raw' = [raw EXCEPT ![s] = p]
      /\ UNCHANGED <<ctx, obj, ssl, call, hist>>
  BY DEF ssl_socket_setblocking, IInv, TypeOK
<1>3. /\ f \in Fields /\ f.ssl_sock = o[s].ssl_sock /\ f.bytes_left = o[s].bytes_left
      /\ f.sock = o[s].sock
      /\ f.off = o[s].off /\ f.buf = o[s].buf
  BY <1>1 DEF Fields
<1>4. /\ p \in Raw /\ p.script = raw[s].script /\ p.taken = raw[s].taken
      /\ p.open = raw[s].open /\ p.arrived = raw[s].arrived /\ p.sent = raw[s].sent
  BY <1>1 DEF Raw
<1> HIDE DEF f, p
<1>5. Sock(obj[s], f, ssl[s], p, hist[s])
  <2>1. Net(p)
    BY <1>1, <1>4 DEF Sock, Net
  <2> QED
    BY <1>1, <1>3, <1>4, <2>1, SameSock
<1>6. /\ o'[s] = f /\ raw'[s] = p
      /\ \A t \in Sockets \ {s} : o'[t] = o[t] /\ raw'[t] = raw[t]
  BY <1>2 DEF IInv, TypeOK
<1>7. SockInv'
  BY <1>2, <1>5, <1>6, OneSocket DEF IInv
<1> QED
  BY <1>2, <1>3, <1>4, <1>7 DEF IInv, TypeOK, CallInv

LEMMA StutterStep == ASSUME IInv, UNCHANGED vars PROVE IInv'
<1>1. SockInv'
  BY NoSocket DEF IInv, vars
<1> QED
  BY <1>1 DEF IInv, TypeOK, CallInv, vars

-----------------------------------------------------------------------------
(* The theorems *)

LEMMA InitInv == Init => IInv
<1> SUFFICES ASSUME Init PROVE IInv
  OBVIOUS
<1>1. PICK q \in Scripts :
        raw = [s \in Sockets |-> [script |-> q[s], open |-> TRUE, blocking |-> TRUE,
                                  sent |-> 0, arrived |-> 0, taken |-> 0]]
  BY DEF Init
<1>2. \A s \in Sockets : Connection(q[s]) /\ q[s] \in Seq(Fragment)
  BY TlsAssumption DEF Connection
<1>3. raw \in [Sockets -> Raw]
  BY <1>1, <1>2 DEF Raw
<1>4. << >> \in Seq(Nat)
  OBVIOUS
<1>5. TypeOK
  <2>1. o \in [Sockets -> Fields] /\ hist \in [Sockets -> Seen] /\ ssl \in [Sockets -> Session]
    BY <1>4 DEF Init, Fields, Seen, Session
  <2> QED
    BY <1>3, <2>1 DEF Init, TypeOK, Idle
<1>6. CallInv
  BY DEF Init, CallInv, Idle
<1>7. ASSUME NEW s \in Sockets PROVE Sock(obj[s], o[s], ssl[s], raw[s], hist[s])
  <2>1. /\ raw[s].script = q[s] /\ raw[s].open /\ raw[s].sent = 0 /\ raw[s].arrived = 0
        /\ raw[s].taken = 0 /\ obj[s] = "none"
        /\ ~o[s].ssl_sock /\ o[s].buf = << >> /\ o[s].off = 0 /\ o[s].bytes_left = 0
        /\ ssl[s].state = "none" /\ ssl[s].hs = "NOT_OK" /\ ~ssl[s].client
        /\ ~hist[s].asked /\ hist[s].got = << >> /\ ~hist[s].eof /\ ~hist[s].wrote
    BY <1>1 DEF Init
  <2>2. Len(q[s]) \in Nat
    BY <1>2
  <2>3. Net(raw[s])
    BY <1>2, <2>1, <2>2 DEF Net
  <2>4. Own(obj[s], o[s], ssl[s], raw[s], hist[s])
    BY <2>1 DEF Own
  <2>5. Hand(o[s], ssl[s], raw[s], hist[s])
    BY <2>1 DEF Hand, Took
  <2>6. << >> = [i \in 1..Len(<< >>) |-> i] /\ Len(<< >>) = 0
    OBVIOUS
  <2>7. Stream(o[s], raw[s], hist[s])
    BY <2>1, <2>6 DEF Stream, Before
  <2> QED
    BY <2>3, <2>4, <2>5, <2>7 DEF Sock
<1> QED
  BY <1>5, <1>6, <1>7 DEF IInv, SockInv

LEMMA NextInv == IInv /\ [Next]_vars => IInv'
<1> SUFFICES ASSUME IInv, [Next]_vars PROVE IInv'
  OBVIOUS
<1>1. CASE Context \/ Poll
  BY <1>1, ContextStep, PollStep
<1>2. CASE Steps
  BY <1>2, WrapStepStep, ReadStepStep, ReadCopyStep, WriteStepStep DEF Steps
<1>3. ASSUME NEW s \in Sockets, Socket(s) PROVE IInv'
  BY <1>3, WrapBadKeyStep, MakeNewStep, ReadCallStep, WriteCallStep, CloseStep,
     CollectStep, RawCloseStep, SetBlockingStep, PeerSendStep DEF Socket
<1>4. CASE UNCHANGED vars
  BY <1>4, StutterStep
<1> QED
  BY <1>1, <1>2, <1>3, <1>4 DEF Next

LEMMA Invariance == Spec => []IInv
BY InitInv, NextInv, PTL DEF Spec

\* Whatever the order in which programs and the collector close SSL objects and
\* raw sockets, ssl_socket_ioctl frees every session exactly once, no session
\* outlives its object, and freeing the session of a finished wrap closes its raw
\* socket, for any number of sockets of one context.
THEOREM SessionsOwned == Spec => []SessionOwned
<1>1. IInv => SessionOwned
  BY DEF IInv, SockInv, Sock, Own, SessionOwned
<1> QED
  BY <1>1, Invariance, PTL

\* A client wrapped under CERT_REQUIRED exchanges no data with a peer whose
\* certificate fails, whatever the scripts are and whatever later wraps do to
\* the shared context (ssl_socket_make_new).
THEOREM CertificatesVerified == Spec => []VerifiedAsAsked
<1>1. IInv => VerifiedAsAsked
  BY DEF IInv, SockInv, Sock, Hand, NoBad, VerifiedAsAsked
<1> QED
  BY <1>1, Invariance, PTL

\* ssl_socket_read returns the peer's bytes in order, each once, and all of
\* them before it reports the peer's close_notify, for every script, every cut
\* into fragments and every size, while no write tore the stream.
THEOREM StreamsExact == Spec => []StreamExact
<1>1. IInv => StreamExact
  BY DEF IInv, SockInv, Sock, Stream, StreamExact
<1> QED
  BY <1>1, Invariance, PTL
=============================================================================
