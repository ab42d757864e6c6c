----------------------------- MODULE PureFunctions ---------------------------
(***************************************************************************)
(* The functions of the port that keep no state, each over its inputs: the *)
(* calendar over every day, the others over all words of bounded length.   *)
(* A behaviour lets the date advance or writes one word, character by      *)
(* character.                                                              *)
(***************************************************************************)
EXTENDS Calendar, Paths, UrlParse, Base64

CONSTANTS
    Chars,      \* Chars[d]: characters of the words of domain d
    MaxLen,     \* MaxLen[d]: bound on their length
    Cwd         \* the current directory, absolute

VARIABLES
    domain,     \* which functions the behaviour is about
    word        \* their argument

Domains == {"path", "url", "data"}

(* Backslashes only, and never two in a row: what DOS says of its directory, and
   what normpath leaves. *)
Normal(p) ==
    \A k \in 1..Len(p) : p[k] # Slash /\ (k > 1 => ~(p[k] = Back /\ p[k - 1] = Back))

ASSUME PureAssumption ==
    /\ MaxLen \in [Domains -> Nat]
    /\ \A d \in Domains : Chars[d] \subseteq 0..255
    /\ Cwd \in Seq(0..255) /\ isabs(Cwd) /\ Normal(Cwd)

fvars == <<vars, domain, word>>

FInit ==
    /\ Init
    /\ domain \in Domains \cup {"date"}
    /\ word = <<>>

Extend ==
    /\ domain \in Domains /\ Len(word) < MaxLen[domain]
    /\ \E c \in Chars[domain] : word' = Append(word, c)
    /\ UNCHANGED <<vars, domain>>

AnotherDay == domain = "date" /\ NextDay /\ UNCHANGED <<domain, word>>

FNext == Extend \/ AnotherDay

-----------------------------------------------------------------------------
(* os.path *)

(* A path names a drive, if at all, by a letter and a colon at its start. *)
ValidPath ==
    domain = "path" /\ \A k \in 1..Len(word) : word[k] = Colon => k = 2 /\ word[1] \in Letter

(* What split takes apart join puts together again, drives and roots included.
   splitext cuts at the last dot of a name that has something before it.
   normpath and abspath leave nothing to normalise, and keep the kind of path
   and the name of the file. *)
PathsConsistent ==
    ValidPath /\ word # <<>> =>
        LET root == splitext(word)[1]
            ext == splitext(word)[2]
            n == normpath(word)
            a == abspath(Cwd, word)
        IN  /\ basename(word) # <<>> => normpath(join(split(word))) = n
            /\ root \o ext = word
            /\ ext # <<>> => /\ ext[1] = Dot /\ basename(root) # <<>>
                             /\ \A k \in 2..Len(ext) : ext[k] # Dot /\ ~is_sep(ext[k])
            /\ Normal(n)
            /\ isabs(n) = isabs(word) /\ basename(n) = basename(word)
            /\ isabs(a) /\ abspath(Cwd, a) = a /\ basename(a) = basename(word)

-----------------------------------------------------------------------------
(* urllib.parse *)

Cuts == {<<SubSeq(word, 1, i), SubSeq(word, i + 1, Len(word))>> : i \in 1..Len(word)}

Mark(present, mark) == IF present THEN mark ELSE <<>>

(* quote, with any of the usual safe sets, answers whatever the bytes are, and
   unquote undoes quote and unquote_plus quote_plus (percent signs, plus signs,
   spaces, things that look like escapes) for every text; bytes that are no UTF-8
   text are quoted and then refused.  Unquoting what was never quoted does not
   make it longer.  parse_qsl undoes urlencode for pairs of texts with a key;
   without keep_blank_values exactly the pairs with an empty value are missing,
   and only a pair that is read can raise.  urlsplit loses nothing: the parts with
   their marks are the URL again (a mark before an empty part may be there or
   not), and no part contains a mark that would have ended it. *)
UrlsRoundTrip ==
    domain = "url" =>
        /\ \A plus \in BOOLEAN :
              /\ \A safe \in {{}, {SlashC}, {ColonC, SlashC}} :
                    LET quoted == quote_inner(word, safe, plus)
                    IN  /\ ~quoted.raised
                        /\ do_unquote(quoted.value, plus) =
                               IF utf8_check(word) THEN Returned(word) ELSE UnicodeError
              /\ Len(do_unquote(word, plus).value) <= Len(word)
        /\ \A kv \in Cuts :
              LET pairs == <<kv, <<kv[1], <<>>>>, kv>>
                  query == urlencode(pairs)
                  texts == utf8_check(kv[1]) /\ utf8_check(kv[2])
              IN  /\ ~query.raised
                  /\ parse_qsl(query.value, TRUE) =
                         IF texts THEN Returned(pairs) ELSE UnicodeError
                  /\ parse_qsl(query.value, FALSE) =
                         IF kv[2] = <<>> THEN Returned(<<>>)
                         ELSE IF texts THEN Returned(<<kv, kv>>) ELSE UnicodeError
        /\ LET p == urlsplit(word)
           IN  /\ \E auth, query, frag \in BOOLEAN :
                     word = Mark(p.scheme # <<>>, Append(p.scheme, ColonC))
                            \o Mark(auth, <<SlashC, SlashC>>) \o p.netloc \o p.path
                            \o Mark(query, <<Query>>) \o p.query
                            \o Mark(frag, <<Hash>>) \o p.fragment
               /\ ToSet(p.netloc) \cap {SlashC, Query, Hash} = {}
               /\ ToSet(p.path) \cap {Query, Hash} = {}
               /\ Hash \notin ToSet(p.query) /\ ColonC \notin ToSet(p.scheme)

-----------------------------------------------------------------------------
(* base64 *)

(* b64decode undoes b64encode for data of every length modulo three, with line
   breaks anywhere in the text; b16decode undoes b16encode and takes small
   letters as well. *)
EncodingRoundTrip ==
    domain = "data" =>
        LET e == b64encode(word)
            h == b16encode(word)
        IN  /\ b64decode(e) = word
            /\ \A i \in 1..Len(e) : b64decode(InsertAt(e, i, 10)) = word
            /\ b16decode(h) = word
            /\ b16decode([k \in DOMAIN h |-> IF h[k] >= 65 THEN h[k] + 32 ELSE h[k]]) = word
=============================================================================
