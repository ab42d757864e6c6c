------------------------------ MODULE UrlParse ------------------------------
(***************************************************************************)
(* urllib.parse, port/urllib_parse_uc386dos.c, on the bytes of the         *)
(* arguments.  A function that ends in mp_obj_new_str_from_vstr answers     *)
(* with a text or raises UnicodeError.                                     *)
(***************************************************************************)
EXTENDS Integers, SequencesExt, FiniteSetsExt

Percent == 37
Plus == 43
Space == 32
Amp == 38
Semi == 59
Equal == 61
Query == 63
Hash == 35
SlashC == 47
ColonC == 58

(* Bytes 128..191 that must follow, after byte c; -1: no text. *)
Due(due, c) ==
    IF due = 0
    THEN CASE c < 128 -> 0
           [] c \in 192..223 -> 1
           [] c \in 224..239 -> 2
           [] c \in 240..247 -> 3
           [] OTHER -> -1
    ELSE IF due > 0 /\ c \in 128..191 THEN due - 1 ELSE -1

utf8_check(bytes) ==
    LET due[i \in 0..Len(bytes)] == IF i = 0 THEN 0 ELSE Due(due[i - 1], bytes[i])
    IN  due[Len(bytes)] = 0

Returned(x) == [raised |-> FALSE, value |-> x]
UnicodeError == [raised |-> TRUE, value |-> <<>>]

mp_obj_new_str_from_vstr(bytes) ==
    IF utf8_check(bytes) THEN Returned(bytes) ELSE UnicodeError

-----------------------------------------------------------------------------
Letter == (65..90) \cup (97..122)
Digit == 48..57
is_unreserved(c) == c \in Letter \cup Digit \cup {45, 95, 46, 126}

hex_value(c) ==
    CASE c \in Digit -> c - 48
      [] c \in 65..70 -> c - 55
      [] c \in 97..102 -> c - 87
      [] OTHER -> -1

HexDigit(v) == IF v < 10 THEN 48 + v ELSE 55 + v
vstr_add_pct(c) == <<Percent, HexDigit(c \div 16), HexDigit(c % 16)>>

(* Fault form: the percent sign passes. *)
QuoteCharPercent(c, safe, plus) ==
    IF plus /\ c = Space THEN <<Plus>>
    ELSE IF is_unreserved(c) \/ c \in safe \cup {Percent} THEN <<c>>
    ELSE vstr_add_pct(c)

QuoteChar(c, safe, plus) ==
    IF plus /\ c = Space THEN <<Plus>>
    ELSE IF \/ is_unreserved(c) \/ c \in safe
            \/ ~plus /\ safe = {} /\ c = SlashC
    THEN <<c>>
    ELSE vstr_add_pct(c)

(* safe is the set of characters of the argument, empty if there is none. *)
Quoted(s, safe, plus) ==
    LET quoted[i \in 0..Len(s)] ==
          IF i = 0 THEN <<>> ELSE quoted[i - 1] \o QuoteChar(s[i], safe, plus)
    IN  quoted[Len(s)]

quote_inner(s, safe, plus) == mp_obj_new_str_from_vstr(Quoted(s, safe, plus))

(* An escape starts at i: two hex digits follow. *)
Escape(s, i) ==
    /\ s[i] = Percent /\ i + 2 <= Len(s)
    /\ hex_value(s[i + 1]) >= 0 /\ hex_value(s[i + 2]) >= 0

(* st.skip: digits of an escape still to be passed over. *)
UnquoteStep(s, plus, st, i) ==
    IF st.skip > 0 THEN [skip |-> st.skip - 1, out |-> st.out]
    ELSE IF plus /\ s[i] = Plus THEN [skip |-> 0, out |-> Append(st.out, Space)]
    ELSE IF Escape(s, i)
    THEN [skip |-> 2,
          out |-> Append(st.out, 16 * hex_value(s[i + 1]) + hex_value(s[i + 2]))]
    ELSE [skip |-> 0, out |-> Append(st.out, s[i])]

Unescaped(s, plus) ==
    LET read[i \in 0..Len(s)] ==
          IF i = 0 THEN [skip |-> 0, out |-> <<>>]
          ELSE UnquoteStep(s, plus, read[i - 1], i)
    IN  read[Len(s)].out

do_unquote(s, plus) == mp_obj_new_str_from_vstr(Unescaped(s, plus))

-----------------------------------------------------------------------------
(* First position from i on that holds one of the characters, or the end. *)
Find(s, i, chars) == Min({k \in i..Len(s) : s[k] \in chars} \cup {Len(s) + 1})

(* Position of the colon after the scheme, 0 if there is no scheme. *)
SchemeEnd(u) ==
    IF u = <<>> \/ u[1] \notin Letter THEN 0
    ELSE LET stop == Min({k \in 2..Len(u) : u[k] \notin Letter \cup Digit \cup {43, 45, 46}}
                         \cup {Len(u) + 1})
         IN  IF stop <= Len(u) /\ u[stop] = ColonC THEN stop ELSE 0

NetlocEnd(u, i) == Find(u, i, {SlashC, Query, Hash})

urlsplit(u) ==
    LET colon == SchemeEnd(u)
        after == colon + 1
        auth == after + 1 <= Len(u) /\ u[after] = SlashC /\ u[after + 1] = SlashC
        path0 == IF auth THEN NetlocEnd(u, after + 2) ELSE after
        path1 == Find(u, path0, {Query, Hash})
        query == path1 <= Len(u) /\ u[path1] = Query
        query1 == IF query THEN Find(u, path1 + 1, {Hash}) ELSE path1
    IN  [scheme |-> SubSeq(u, 1, colon - 1),
         netloc |-> IF auth THEN SubSeq(u, after + 2, path0 - 1) ELSE <<>>,
         path |-> SubSeq(u, path0, path1 - 1),
         query |-> IF query THEN SubSeq(u, path1 + 1, query1 - 1) ELSE <<>>,
         fragment |-> SubSeq(u, query1 + 1, Len(u))]

-----------------------------------------------------------------------------
(* Without a safe argument quote_inner does not raise. *)
urlencode_pair(kv) ==
    quote_inner(kv[1], {}, TRUE).value \o <<Equal>> \o quote_inner(kv[2], {}, TRUE).value

Encoded(pairs) ==
    LET encoded[i \in 0..Len(pairs)] ==
          IF i = 0 THEN <<>>
          ELSE (IF i = 1 THEN <<>> ELSE Append(encoded[i - 1], Amp)) \o urlencode_pair(pairs[i])
    IN  encoded[Len(pairs)]

urlencode(pairs) == mp_obj_new_str_from_vstr(Encoded(pairs))

(* The pair, if any, that a part between two separators holds. *)
PairOf(part, keep) ==
    LET eq == Find(part, 1, {Equal})
        key == SubSeq(part, 1, eq - 1)
        val == SubSeq(part, eq + 1, Len(part))
    IN  IF key # <<>> /\ (val # <<>> \/ keep)
        THEN <<<<Unescaped(key, TRUE), Unescaped(val, TRUE)>>>> ELSE <<>>

(* st.part: what has been passed since the last separator. *)
QueryStep(st, c, keep) ==
    IF c \in {Amp, Semi} THEN [pairs |-> st.pairs \o PairOf(st.part, keep), part |-> <<>>]
    ELSE [pairs |-> st.pairs, part |-> Append(st.part, c)]

PairsIn(qs, keep) ==
    LET read[i \in 0..Len(qs)] ==
          IF i = 0 THEN [pairs |-> <<>>, part |-> <<>>]
          ELSE QueryStep(read[i - 1], qs[i], keep)
        end == read[Len(qs)]
    IN  end.pairs \o PairOf(end.part, keep)

(* The first do_unquote that raises ends the call, and the list is lost. *)
parse_qsl(qs, keep) ==
    LET pairs == PairsIn(qs, keep)
    IN  IF \A i \in DOMAIN pairs : utf8_check(pairs[i][1]) /\ utf8_check(pairs[i][2])
        THEN Returned(pairs) ELSE UnicodeError
=============================================================================
