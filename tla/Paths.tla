-------------------------------- MODULE Paths -------------------------------
(***************************************************************************)
(* The string functions of os.path, port/path_uc386dos.c, on sequences of  *)
(* character codes.  Positions count from 1, and 0 stands for "none" (-1   *)
(* in the code).                                                           *)
(***************************************************************************)
EXTENDS Integers, SequencesExt

Back == 92                        \* the separator the functions write
Slash == 47
Colon == 58
Dot == 46

is_sep(c) == c \in {Back, Slash}
EndsInSep(s) == s # <<>> /\ is_sep(s[Len(s)])

last_sep(s) == SelectLastInSeq(s, is_sep)

(* Fault form: a dot that begins the name begins an extension. *)
last_dotAnywhere(s, start) ==
    SelectLastInSubSeq(s, start + 1, Len(s), LAMBDA c : c = Dot)

(* start is the position before the name; its first character does not count. *)
last_dot(s, start) ==
    SelectLastInSubSeq(s, start + 2, Len(s), LAMBDA c : c = Dot)

isabs(p) == (p # <<>> /\ is_sep(p[1])) \/ (Len(p) >= 2 /\ p[2] = Colon)

JoinPart(acc, p) ==
    IF p = <<>> THEN acc
    ELSE IF isabs(p) THEN p
    ELSE IF acc = <<>> \/ EndsInSep(acc) THEN acc \o p
    ELSE Append(acc, Back) \o p

join(parts) ==
    LET joined[i \in 0..Len(parts)] ==
          IF i = 0 THEN <<>> ELSE JoinPart(joined[i - 1], parts[i])
    IN  joined[Len(parts)]

(* The separator stays with the head when it is the root's. *)
HeadLength(p, sep) ==
    IF sep = 1 \/ (sep = 3 /\ p[2] = Colon) THEN sep ELSE sep - 1

dirname(p) ==
    LET sep == last_sep(p) IN IF sep = 0 THEN <<>> ELSE SubSeq(p, 1, HeadLength(p, sep))
basename(p) == SubSeq(p, last_sep(p) + 1, Len(p))
split(p) == <<dirname(p), basename(p)>>

splitext(p) ==
    LET dot == last_dot(p, last_sep(p))
    IN  IF dot = 0 THEN <<p, <<>>>>
        ELSE <<SubSeq(p, 1, dot - 1), SubSeq(p, dot, Len(p))>>

Collapse(acc, c) ==
    IF ~is_sep(c) THEN Append(acc, c)
    ELSE IF EndsInSep(acc) THEN acc
    ELSE Append(acc, Back)

Collapsed(base, p) ==
    LET after[i \in 0..Len(p)] == IF i = 0 THEN base ELSE Collapse(after[i - 1], p[i])
    IN  after[Len(p)]

normpath(p) ==
    LET n == Collapsed(<<>>, p) IN IF n = <<>> THEN <<Dot>> ELSE n

abspath(cwd, p) ==
    LET base == IF isabs(p) THEN <<>>
                ELSE IF cwd = <<>> \/ EndsInSep(cwd) THEN cwd ELSE Append(cwd, Back)
    IN  Collapsed(base, p)
=============================================================================
