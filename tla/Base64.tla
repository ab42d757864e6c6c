------------------------------- MODULE Base64 -------------------------------
(***************************************************************************)
(* The base64 module, port/base64_uc386dos.c.  A byte is a number; a call  *)
(* that raises ValueError has the result Invalid.                          *)
(***************************************************************************)
EXTENDS Integers, SequencesExt

Pad == 61                         \* '='
Blank == {32, 9, 13, 10}
Invalid == <<-1>>

b64_alphabet(v) ==
    CASE v < 26 -> 65 + v
      [] v \in 26..51 -> 71 + v
      [] v \in 52..61 -> v - 4
      [] v = 62 -> 43
      [] v = 63 -> 47

b64_decode_char(c) ==
    CASE c \in 65..90 -> c - 65
      [] c \in 97..122 -> c - 71
      [] c \in 48..57 -> c + 4
      [] c = 43 -> 62
      [] c = 47 -> 63
      [] OTHER -> -1

(* Sextet j (0..3) of the group that starts after byte 3 * g. *)
Sextet(s, g, j) ==
    LET byte(k) == IF 3 * g + k <= Len(s) THEN s[3 * g + k] ELSE 0
        v == byte(1) * 65536 + byte(2) * 256 + byte(3)
    IN  (v \div 2^(18 - 6 * j)) % 64

(* Fault form: two bytes at the end get the padding of one. *)
b64encodeShortTail(s) ==
    [k \in 1..4 * ((Len(s) + 2) \div 3) |->
        LET g == (k - 1) \div 4
            j == (k - 1) % 4
        IN  IF 3 * g + j >= Len(s) /\ j > 1 THEN Pad ELSE b64_alphabet(Sextet(s, g, j))]

(* Groups of three bytes; a sextet with no byte of the data in it is padding. *)
b64encode(s) ==
    [k \in 1..4 * ((Len(s) + 2) \div 3) |->
        LET g == (k - 1) \div 4
            j == (k - 1) % 4
        IN  IF 3 * g + j > Len(s) THEN Pad ELSE b64_alphabet(Sextet(s, g, j))]

(* The accumulator is an int that wraps; below 16 bits nothing is lost, since
   no more than 14 are ever looked at. *)
Collect(st, c) ==
    LET v == b64_decode_char(c)
        bits == (st.bits * 64 + v) % 2^16
        have == st.collected + 6
    IN  IF st.stop \/ c \in Blank THEN st
        ELSE IF c = Pad THEN [st EXCEPT !.stop = TRUE]
        ELSE IF v < 0 THEN [st EXCEPT !.stop = TRUE, !.out = Invalid]
        ELSE IF have < 8 THEN [st EXCEPT !.bits = bits, !.collected = have]
        ELSE [st EXCEPT !.bits = bits, !.collected = have - 8,
                        !.out = Append(@, (bits \div 2^(have - 8)) % 256)]

b64decode(s) ==
    LET after[i \in 0..Len(s)] ==
          IF i = 0 THEN [bits |-> 0, collected |-> 0, out |-> <<>>, stop |-> FALSE]
          ELSE Collect(after[i - 1], s[i])
    IN  after[Len(s)].out

-----------------------------------------------------------------------------
hex(v) == IF v < 10 THEN 48 + v ELSE 55 + v

hex_digit(c) ==
    CASE c \in 48..57 -> c - 48
      [] c \in 65..70 -> c - 55
      [] c \in 97..102 -> c - 87
      [] OTHER -> -1

b16encode(s) ==
    [k \in 1..2 * Len(s) |->
        LET c == s[(k + 1) \div 2] IN hex(IF k % 2 = 1 THEN c \div 16 ELSE c % 16)]

b16decode(s) ==
    IF Len(s) % 2 = 1 \/ \E k \in 1..Len(s) : hex_digit(s[k]) < 0 THEN Invalid
    ELSE [k \in 1..Len(s) \div 2 |-> 16 * hex_digit(s[2 * k - 1]) + hex_digit(s[2 * k])]
=============================================================================
