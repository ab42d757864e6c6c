------------------------------- MODULE MCTls -------------------------------
(* One connection with two records and close_notify, one to an untrusted    *)
(* peer that is dropped after a record, or two connections of one context:  *)
(* a peer that drops it at once and an untrusted one that shakes hands.     *)
EXTENDS Tls, TLC

CONSTANTS s1, s2

F(kind, at, data) == [kind |-> kind, at |-> at, data |-> data]
Hello(cert) == << F(cert, 0, << >>), F("finished", 0, << >>) >>
Both(a, b) == (s1 :> a) @@ (s2 :> b)
Closed == << F("header", 0, << >>), F("data", 0, <<1, 2>>), F("data", 2, <<3>>),
             F("notify", 3, << >>) >>
Dropped == << F("data", 0, <<1, 2>>), F("drop", 2, << >>) >>
Gone == << F("drop", 0, << >>) >>

MCScripts == { Both(Hello("cert") \o Closed, << >>),
               Both(Hello("badcert") \o Dropped, << >>),
               Both(Gone, Hello("badcert")) }
============================================================================
