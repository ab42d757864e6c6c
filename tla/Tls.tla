-------------------------------- MODULE Tls --------------------------------
(***************************************************************************)
(* The tls module (port/modtls_axtls_uc386dos.c): SSLContext objects whose *)
(* axTLS context every wrapped socket shares, and SSLSocket streams over   *)
(* lwIP.  MicroPython runs one call at a time; what runs beside it is the  *)
(* peer, whose bytes reach lwIP only when somebody polls the interface.    *)
(* The peer's side of a connection is a script of fragments; a socket      *)
(* keeps how many of them were sent, reached lwIP, and were taken by       *)
(* axTLS.  axTLS itself is external: SslRead and SslWrite say what the     *)
(* module relies on.                                                       *)
(***************************************************************************)
EXTENDS Integers, Sequences

CONSTANTS Sockets,   \* raw sockets a program wraps, each at most once
          Scripts,   \* what the peers may send: functions from Sockets to
                     \* sequences of fragments; << >> if not connected
          Sizes,     \* sizes a program reads with
          MaxOps     \* bound on verify_mode, setblocking and write calls

Kinds == {"cert", "badcert", "finished", "header", "data", "notify", "drop"}

\* A fragment of a script: application bytes are numbered in the order the
\* peer sends them, and at counts those before the fragment.
Fragment == [kind : Kinds, at : Nat, data : Seq(Nat)]

\* What the peer of one connection sends, as far as axTLS lets it through:
\* certificates, finished, records, and nothing after the end.
Connection(c) ==
  /\ c \in Seq(Fragment)
  /\ \A i \in DOMAIN c :
       /\ c[i].kind # "data" => c[i].data = << >>
       /\ c[i].kind = "data" => \E j \in 1..(i - 1) : c[j].kind = "finished"
       /\ \A b \in DOMAIN c[i].data : c[i].data[b] = c[i].at + b
  /\ \A i, j \in DOMAIN c : i < j =>
       /\ c[i].at + Len(c[i].data) <= c[j].at
       /\ j = i + 1 => c[j].at = c[i].at + Len(c[i].data)
       /\ c[i].kind = "finished" => c[j].kind \notin {"cert", "badcert", "finished"}
       /\ c[i].kind \notin {"notify", "drop"}
  /\ c # << >> => c[1].at = 0

ASSUME TlsAssumption ==
  /\ \A p \in Scripts : \A s \in Sockets : Connection(p[s])
  /\ Sizes \subseteq Nat \ {0}
  /\ MaxOps \in Nat

Junk == 0            \* a byte axTLS wrote over the record it had decrypted

VARIABLES
  ctx,        \* the SSLContext: [verify_mode, ca, options]
  obj,        \* the SSLSocket object: none, making, held, garbage, gone
  o,          \* its fields: [ssl_sock, sock, blocking, buf, off, bytes_left]
  ssl,        \* the axTLS session: [state, later, hs, client]
  raw,        \* the lwIP socket: [script, open, blocking, sent, arrived, taken]
  call,       \* the Python call in progress: [op, s, size]
  ops,        \* the calls MaxOps bounds, so far
  hist        \* per socket: [asked, got, eof, torn, wrote], what a program saw
vars == <<ctx, obj, o, ssl, raw, call, ops, hist>>

Idle == [op |-> "none"]

Init ==
  /\ ctx = [verify_mode |-> "CERT_NONE", ca |-> FALSE,
            options |-> {"VERIFY_LATER"}]
  /\ obj = [s \in Sockets |-> "none"]
  /\ o = [s \in Sockets |-> [ssl_sock |-> FALSE, sock |-> FALSE, blocking |-> TRUE,
                             buf |-> << >>, off |-> 0, bytes_left |-> 0]]
  /\ ssl = [s \in Sockets |-> [state |-> "none", later |-> FALSE, hs |-> "NOT_OK",
                               client |-> FALSE]]
  /\ \E p \in Scripts :
       raw = [s \in Sockets |-> [script |-> p[s], open |-> TRUE, blocking |-> TRUE,
                                 sent |-> 0, arrived |-> 0, taken |-> 0]]
  /\ call = Idle
  /\ ops = 0
  /\ hist = [s \in Sockets |-> [asked |-> FALSE, got |-> << >>, eof |-> FALSE,
                                torn |-> FALSE, wrote |-> FALSE]]

----------------------------------------------------------------------------
(* The network.  Polling hands lwIP everything that reached the card; what  *)
(* comes for a closed socket is thrown away.                               *)

PeerSend(s) ==
  /\ ssl[s].state # "none" /\ raw[s].open
  /\ raw[s].sent < Len(raw[s].script)
  /\ raw' = [raw EXCEPT ![s].sent = @ + 1]
  /\ UNCHANGED <<ctx, ops, obj, o, ssl, call, hist>>

PollHook(r) == [s \in Sockets |-> [r[s] EXCEPT !.arrived = r[s].sent]]

\* lwip.callback() from Python, or a wait inside the raw socket.
Poll ==
  /\ raw' = PollHook(raw)
  /\ UNCHANGED <<ctx, ops, obj, o, ssl, call, hist>>

\* A certificate is checked when it arrives, unless the session was created
\* with SSL_SERVER_VERIFY_LATER, against the CAs loaded by then: "cert" chains
\* to the CA of load_verify_locations, "badcert" does not.
CertAccepted(s, kind) ==
  \/ ~ssl[s].client
  \/ ssl[s].later
  \/ ctx.ca /\ kind = "cert"

\* One ssl_read: the result, the handshake status it leaves, and how many
\* fragments it took (none or one).  A closed raw socket answers with an error,
\* which axTLS takes for a lost connection.
SslRead(s) ==
  LET r == raw[s]
      f == r.script[r.taken + 1]
      Result(ret, hs, n) == [ret |-> ret, hs |-> hs, took |-> n]
      gone == ssl[s].hs = "DEAD" \/ ~r.open
  IN  CASE gone -> Result("CONN_LOST", "DEAD", 0)
        [] ~gone /\ r.taken = r.arrived ->
             Result(IF r.blocking THEN "OK" ELSE "EAGAIN", ssl[s].hs, 0)
        [] OTHER ->
             CASE f.kind \in {"cert", "badcert"} ->
                      IF CertAccepted(s, f.kind) THEN Result("OK", ssl[s].hs, 1)
                      ELSE Result("ERROR", "DEAD", 1)
               [] f.kind = "finished" -> Result("OK", "OK", 1)
               [] f.kind = "header" -> Result("OK", ssl[s].hs, 1)
               [] f.kind = "data" -> Result("DATA", ssl[s].hs, 1)
               [] f.kind = "drop" -> Result("CONN_LOST", "DEAD", 1)
               [] f.kind = "notify" -> Result("CLOSE_NOTIFY", "DEAD", 1)

\* Fault form: the loop retries without running the poll hook.
TakesReadNoPoll(s, r) ==
  /\ ssl' = [ssl EXCEPT ![s].hs = r.hs]
  /\ raw' = [raw EXCEPT ![s].taken = @ + r.took]

\* The effect of one ssl_read on the session and on lwIP's queue.
TakesRead(s, r) ==
  /\ ssl' = [ssl EXCEPT ![s].hs = r.hs]
  /\ raw' = [(IF r.ret = "OK" /\ call.op = "read" /\ o[s].blocking
              THEN PollHook(raw) ELSE raw) EXCEPT ![s].taken = @ + r.took]

----------------------------------------------------------------------------
(* SSLContext *)

\* ctx.verify_mode = v; any other value raises ValueError.
ssl_context_attr(v) ==
  /\ call = Idle
  /\ ops < MaxOps /\ ops' = ops + 1
  /\ ctx' = [ctx EXCEPT !.verify_mode = v]
  /\ UNCHANGED <<obj, o, ssl, raw, call, hist>>

\* A malformed cadata raises and loads nothing.
ssl_context_load_verify_locations ==
  /\ call = Idle
  /\ ctx' = [ctx EXCEPT !.ca = TRUE]
  /\ UNCHANGED <<obj, ops, o, ssl, raw, call, hist>>

\* Fault form: CERT_REQUIRED does not clear the bit the context was created with.
ClientOptionsKeepsLater(handshake) ==
  IF handshake THEN ctx.options \ {"CONNECT_IN_PARTS"}
  ELSE ctx.options \union {"CONNECT_IN_PARTS"}

\* What a client wrap leaves in the options of the shared axTLS context
\* (SSL_NO_DEFAULT_KEY, which only says where a key comes from, is left out).
ClientOptions(handshake) ==
  LET verify == IF ctx.verify_mode = "CERT_REQUIRED"
                THEN ctx.options \ {"VERIFY_LATER"}
                ELSE ctx.options \union {"VERIFY_LATER"}
  IN  IF handshake THEN verify \ {"CONNECT_IN_PARTS"}
      ELSE verify \union {"CONNECT_IN_PARTS"}

----------------------------------------------------------------------------
(* SSLSocket *)

\* The key or certificate that load_cert_chain stored does not load: the object
\* was allocated, zeroed, and is left to the collector without a session.
WrapBadKey(s) ==
  /\ call = Idle
  /\ obj[s] = "none" /\ raw[s].script # << >>
  /\ obj' = [obj EXCEPT ![s] = "garbage"]
  /\ UNCHANGED <<ctx, ops, o, ssl, raw, call, hist>>

\* ssl_socket_make_new up to the session it creates.  o->sock is assigned
\* only on the way out, so a wrap that raises leaves it empty.
ssl_socket_make_new(s, client, handshake, blocking) ==
  /\ call = Idle
  /\ client \/ handshake
  /\ obj[s] = "none" /\ raw[s].script # << >>
  /\ LET options == IF client THEN ClientOptions(handshake) ELSE ctx.options
         waits == client /\ "CONNECT_IN_PARTS" \notin options
     IN  /\ ctx' = [ctx EXCEPT !.options = options]
         /\ ssl' = [ssl EXCEPT ![s] = [state |-> "live", hs |-> "NOT_OK",
                                       later |-> "VERIFY_LATER" \in options,
                                       client |-> client]]
         /\ obj' = [obj EXCEPT ![s] = IF waits THEN "making" ELSE "held"]
         /\ o' = [o EXCEPT ![s].ssl_sock = TRUE, ![s].sock = ~waits]
         /\ call' = IF waits THEN [op |-> "wrap", s |-> s] ELSE Idle
  /\ raw' = [raw EXCEPT ![s].blocking = blocking]
  /\ hist' = [hist EXCEPT ![s].asked = client /\ ctx.verify_mode = "CERT_REQUIRED"]
  /\ UNCHANGED ops

\* ssl_client_new's handshake loop, one ssl_read at a time, and what
\* wrap_socket does with its outcome.
WrapStep ==
  /\ call.op = "wrap"
  /\ LET s == call.s
         r == SslRead(s)
         done == r.hs = "OK"
         failed == r.ret # "OK"
     IN  /\ TakesRead(s, r)
         /\ obj' = [obj EXCEPT ![s] = IF done THEN "held"
                                      ELSE IF failed THEN "garbage" ELSE @]
         /\ o' = [o EXCEPT ![s].sock = done]
         /\ call' = IF done \/ failed THEN Idle ELSE call
  /\ UNCHANGED <<ctx, ops, hist>>

\* On a closed socket read and write return EBADF and change nothing.
ssl_socket_read(s, size) ==
  /\ call = Idle
  /\ obj[s] = "held"
  /\ o[s].ssl_sock
  /\ call' = [op |-> "read", s |-> s, size |-> size]
  /\ UNCHANGED <<ctx, ops, obj, o, ssl, raw, hist>>

\* The loop of ssl_socket_read: a blocking socket polls the interface each
\* time axTLS has nothing for it yet.
ReadStep ==
  /\ call.op = "read"
  /\ o[call.s].bytes_left = 0
  /\ LET s == call.s
         r == SslRead(s)
         again == r.ret = "DATA" \/ (r.ret = "OK" /\ o[s].blocking)
     IN  /\ TakesRead(s, r)
         /\ IF r.ret = "DATA"
            THEN LET data == raw[s].script[raw[s].taken + 1].data
                 IN  o' = [o EXCEPT ![s].buf = data, ![s].off = 0,
                                    ![s].bytes_left = Len(data)]
            ELSE o' = o
         /\ call' = IF again THEN call ELSE Idle
         /\ hist' = [hist EXCEPT ![s].eof = @ \/ r.ret = "CLOSE_NOTIFY"]
  /\ UNCHANGED <<ctx, ops, obj>>

\* Fault form: bytes_left goes down, the buffer pointer stays.
ReadCopyKeepsPointer ==
  /\ call.op = "read"
  /\ o[call.s].bytes_left > 0
  /\ LET s == call.s
         n == IF call.size > o[s].bytes_left THEN o[s].bytes_left ELSE call.size
     IN  /\ hist' = [hist EXCEPT ![s].got =
                       @ \o SubSeq(o[s].buf, o[s].off + 1, o[s].off + n)]
         /\ o' = [o EXCEPT ![s].bytes_left = @ - n]
  /\ call' = Idle
  /\ UNCHANGED <<ctx, ops, obj, ssl, raw>>

\* Copying out of axTLS's record buffer, as much as fits.
ReadCopy ==
  /\ call.op = "read"
  /\ o[call.s].bytes_left > 0
  /\ LET s == call.s
         n == IF call.size > o[s].bytes_left THEN o[s].bytes_left ELSE call.size
     IN  /\ hist' = [hist EXCEPT ![s].got =
                       @ \o SubSeq(o[s].buf, o[s].off + 1, o[s].off + n)]
         /\ o' = [o EXCEPT ![s].off = @ + n, ![s].bytes_left = @ - n]
  /\ call' = Idle
  /\ UNCHANGED <<ctx, ops, obj, ssl, raw>>

ssl_socket_write(s) ==
  /\ call = Idle
  /\ ops < MaxOps /\ ops' = ops + 1
  /\ obj[s] = "held"
  /\ o[s].ssl_sock
  /\ call' = [op |-> "write", s |-> s]
  /\ UNCHANGED <<ctx, obj, o, ssl, raw, hist>>

\* An established session sends the data from the buffer the last record was
\* decrypted into, and spoils that buffer also if the raw socket is closed and
\* nothing is sent (write then returns 0); one that is still shaking hands returns 0, having taken a
\* fragment of the handshake or not.
SslWriteSends(s) ==
  /\ ssl[s].hs = "OK"
  /\ o' = [o EXCEPT ![s].buf = [i \in DOMAIN @ |-> Junk]]
  /\ hist' = [hist EXCEPT ![s].wrote = @ \/ raw[s].open,
                          ![s].torn = @ \/ o[s].bytes_left > 0]
  /\ call' = Idle
  /\ UNCHANGED <<ssl, raw>>
SslWriteWaits(s) ==
  /\ ssl[s].hs = "NOT_OK"
  /\ \/ TakesRead(s, SslRead(s))
     \/ UNCHANGED <<ssl, raw>>
  /\ call' = IF o[s].blocking THEN call ELSE Idle
  /\ UNCHANGED <<o, hist>>
SslWriteFails(s) ==
  /\ ssl[s].hs = "DEAD"
  /\ call' = Idle
  /\ UNCHANGED <<o, ssl, raw, hist>>

\* The eagain loop of ssl_socket_write: no poll between two attempts.
WriteStep ==
  /\ call.op = "write"
  /\ SslWriteSends(call.s) \/ SslWriteWaits(call.s) \/ SslWriteFails(call.s)
  /\ UNCHANGED <<ctx, ops, obj>>

\* External: lwIP closes a socket, once; what is on its way is thrown away.
RawClosed(s) == [raw EXCEPT ![s].open = FALSE, ![s].sent = raw[s].taken,
                            ![s].arrived = raw[s].taken]

\* Fault form: the pointer is not cleared after ssl_free.
CloseSessionKeepsPointer(s) ==
  IF o[s].ssl_sock
  THEN /\ ssl' = [ssl EXCEPT ![s].state = IF @ = "live" THEN "freed" ELSE "twice"]
       /\ UNCHANGED <<o, raw>>
  ELSE UNCHANGED <<ssl, o, raw>>

\* MP_STREAM_CLOSE: a session is freed once; later closes find NULL.  ssl_free
\* sends close_notify, on a closed raw socket in vain.  The request then goes on
\* to the raw socket, if the wrap got as far as that.
CloseSession(s) ==
  IF o[s].ssl_sock
  THEN /\ ssl' = [ssl EXCEPT ![s].state = IF @ = "live" THEN "freed" ELSE "twice"]
       /\ o' = [o EXCEPT ![s].ssl_sock = FALSE]
       /\ raw' = IF o[s].sock /\ raw[s].open THEN RawClosed(s) ELSE raw
  ELSE UNCHANGED <<ssl, o, raw>>

ssl_socket_ioctl(s) ==
  /\ call = Idle
  /\ obj[s] = "held"
  /\ CloseSession(s)
  /\ UNCHANGED <<ctx, ops, obj, call, hist>>

\* lwIP's socket.close (external), without the SSL object: by a program that
\* still holds the raw socket, or by the collector, which finalises the two
\* objects of a dropped connection in whatever order they lie in the heap.
RawClose(s) ==
  /\ call = Idle
  /\ raw[s].script # << >> /\ raw[s].open
  /\ raw' = RawClosed(s)
  /\ UNCHANGED <<ctx, ops, obj, o, ssl, call, hist>>

\* The collector runs __del__, which is close, on an object nobody holds.
Collect(s) ==
  /\ call = Idle
  /\ obj[s] \in {"held", "garbage"}
  /\ obj' = [obj EXCEPT ![s] = "gone"]
  /\ CloseSession(s)
  /\ UNCHANGED <<ctx, ops, call, hist>>

\* The raw socket first, then the flag the read and write loops look at.
ssl_socket_setblocking(s, flag) ==
  /\ call = Idle
  /\ ops < MaxOps /\ ops' = ops + 1
  /\ obj[s] = "held"
  /\ raw' = [raw EXCEPT ![s].blocking = flag]
  /\ o' = [o EXCEPT ![s].blocking = flag]
  /\ UNCHANGED <<ctx, obj, ssl, call, hist>>

----------------------------------------------------------------------------
Context ==
  \/ \E v \in {"CERT_NONE", "CERT_REQUIRED"} : ssl_context_attr(v)
  \/ ssl_context_load_verify_locations

Socket(s) ==
  \/ WrapBadKey(s)
  \/ \E client, handshake, blocking \in BOOLEAN :
       ssl_socket_make_new(s, client, handshake, blocking)
  \/ \E size \in Sizes : ssl_socket_read(s, size)
  \/ ssl_socket_write(s)
  \/ ssl_socket_ioctl(s)
  \/ Collect(s)
  \/ RawClose(s)
  \/ \E flag \in BOOLEAN : ssl_socket_setblocking(s, flag)
  \/ PeerSend(s)

Steps == WrapStep \/ ReadStep \/ ReadCopy \/ WriteStep

Next == Context \/ Poll \/ Steps \/ \E s \in Sockets : Socket(s)

Spec == Init /\ [][Next]_vars /\ WF_vars(ReadStep) /\ WF_vars(ReadCopy)
----------------------------------------------------------------------------
(* Properties *)

\* The bytes a program read are the first bytes the peer sent, none lost,
\* repeated or reordered, whatever sizes it reads with and however records
\* are cut into fragments; and a read that returned 0 for the peer's
\* close_notify had handed over all of them.  The claim ends for a socket
\* written to while part of a record was unread: axTLS sends from the buffer
\* that part is still in (ssl_socket_read's o->buf and bytes_left).
StreamExact ==
  \A s \in Sockets : ~hist[s].torn =>
    /\ hist[s].got = [i \in 1..Len(hist[s].got) |-> i]
    /\ hist[s].eof => \A i \in DOMAIN raw[s].script :
                        \A b \in DOMAIN raw[s].script[i].data :
                          raw[s].script[i].data[b] \in 1..Len(hist[s].got)

\* A client socket wrapped while verify_mode was CERT_REQUIRED exchanges no
\* application data with a peer whose certificate does not chain to a loaded CA
\* (the host name is not compared with the certificate's): not when
\* the handshake is deferred to the first read, and not when later wraps
\* change the options of the context it shares (ssl_socket_make_new).
VerifiedAsAsked ==
  \A s \in Sockets :
    hist[s].asked /\ (hist[s].got # << >> \/ hist[s].wrote)
      => \A i \in DOMAIN raw[s].script : raw[s].script[i].kind # "badcert"

\* A session is freed exactly once, in whatever order the program and the
\* collector close the SSL object and the raw socket: an object never keeps a
\* pointer to a freed session, across close, a second close and the finaliser, no
\* session outlives its object, that of a wrap that raised included, and freeing
\* the session of a finished wrap closes the raw socket too (ssl_socket_ioctl).
SessionOwned ==
  \A s \in Sockets :
    /\ o[s].ssl_sock => ssl[s].state = "live"
    /\ ssl[s].state # "twice"
    /\ obj[s] = "gone" => ssl[s].state # "live"
    /\ ssl[s].state = "freed" /\ o[s].sock => ~raw[s].open

\* The peer's last fragment ends the connection.
Ends(s) == raw[s].script # << >> /\ raw[s].script[Len(raw[s].script)].kind \in {"notify", "drop"}

\* A blocking read of a connection the peer has closed or dropped returns,
\* with data or with 0: the poll in the loop of ssl_socket_read is what brings
\* the bytes in, nobody else polls while the call runs.
ReadReturns ==
  \A s \in Sockets :
    (/\ call.op = "read" /\ call.s = s
     /\ Ends(s) /\ raw[s].sent = Len(raw[s].script)) ~> call.op # "read"
============================================================================
