---------------------------- MODULE TextProofs ----------------------------
(***************************************************************************)
(* Proofs about the functions on texts and data that keep no state: the    *)
(* paths of Paths for every path and every current directory, the URLs of  *)
(* UrlParse and the encodings of Base64 for texts of every length.         *)
(*                                                                         *)
(* The only invariant is that the argument is a text.  What a function     *)
(* that reads its argument character by character computes is shown in     *)
(* three steps: RecursionExists gives the values of its recursive          *)
(* definition, RunsEqual makes them the ones the definition chooses, and   *)
(* SetInduction carries what holds of them from one character to the next. *)
(***************************************************************************)
EXTENDS LibraryProofs

(* The argument of the pure functions is a text of the domain's characters. *)
WordInv == /\ domain \in Domains \cup {"date"}
           /\ domain \in Domains => word \in Seq(Octets)

(* Every step keeps the invariant. *)
LEMMA WordNextInv == WordInv /\ [LNext]_lvars => WordInv'
<1>1. Extend \/ UNCHANGED <<domain, word>> \/ ~[LNext]_lvars
  BY DEF LNext, lvars, fvars, CallFunction, UseFiles, UseCrypto, FNext, AnotherDay
<1>2. ASSUME WordInv, UNCHANGED <<domain, word>> PROVE WordInv'
  BY <1>2 DEF WordInv
<1>3. ASSUME WordInv, Extend PROVE WordInv'
  <2>1. PICK c \in Chars[domain] : word' = Append(word, c)
    BY <1>3 DEF Extend
  <2>2. domain \in Domains /\ domain' = domain
    BY <1>3 DEF Extend
  <2>3. c \in Octets
    <3>1. c \in 0..255
      BY <2>1, <2>2, PureAssumption
    <3> QED
      BY <3>1 DEF Octets
  <2> QED
    BY <1>3, <2>1, <2>2, <2>3, AppendProperties DEF WordInv
<1> QED
  BY <1>1, <1>2, <1>3

(* The argument is always a text. *)
LEMMA WordsAreTexts == LSpec => []WordInv
<1>1. LInit => WordInv
  <2>1. <<>> \in Seq(Octets)
    BY EmptySeq
  <2> QED
    BY <2>1 DEF LInit, FInit, WordInv
<1> QED
  BY <1>1, WordNextInv, PTL DEF LSpec

-----------------------------------------------------------------------------
(* os.path: the separators *)

(* The greatest member of a set of positions. *)
LEMMA GreatestPosition ==
    ASSUME NEW n \in Nat, NEW I \in SUBSET (1..n), I # {}
    PROVE  Max(I) \in I /\ \A j \in I : j <= Max(I)
<1> DEFINE T == {m \in Nat : \E i \in I : m = n - i}
<1>1. T # {}
  <2>1. PICK i \in I : TRUE
    OBVIOUS
  <2>2. n - i \in T
    BY <2>1
  <2> QED
    BY <2>2
<1>2. PICK m \in T : \A k \in T : m <= k
  BY <1>1, LeastNumber
<1>3. PICK i \in I : m = n - i
  BY <1>2
<1>4. ASSUME NEW j \in I PROVE j <= i
  <2>1. n - j \in T
    OBVIOUS
  <2>2. m <= n - j
    BY <1>2, <2>1
  <2> QED
    BY <1>3, <2>2
<1> QED
  BY <1>3, <1>4 DEF Max

(* The position of the last separator, 0 if there is none. *)
LastSepAt(s, k) ==
    /\ k \in 0..Len(s) /\ (k > 0 => is_sep(s[k]))
    /\ \A j \in 1..Len(s) : j > k => ~is_sep(s[j])

LEMMA LastSepIs ==
    ASSUME NEW s \in Seq(Int)
    PROVE  LastSepAt(s, last_sep(s)) /\ \A k : LastSepAt(s, k) => k = last_sep(s)
<1> DEFINE n == Len(s)
           I == {i \in 1..n : is_sep(s[i])}
<1>1. n \in Nat
  BY LenProperties
<1>2. last_sep(s) = IF I # {} THEN Max(I) ELSE 0
  BY DEF last_sep, SelectLastInSeq
<1> HIDE DEF n
<1>3. I # {} => Max(I) \in I /\ \A j \in I : j <= Max(I)
  BY <1>1, GreatestPosition
<1>4. CASE I = {}
  <2>1. last_sep(s) = 0 /\ \A j \in 1..n : ~is_sep(s[j])
    BY <1>2, <1>4
  <2>2. LastSepAt(s, 0)
    BY <1>1, <2>1 DEF LastSepAt, n
  <2>3. ASSUME NEW k, LastSepAt(s, k) PROVE k = 0
    BY <1>1, <2>1, <2>3 DEF LastSepAt, n
  <2> QED
    BY <2>1, <2>2, <2>3
<1>5. CASE I # {}
  <2> DEFINE m == last_sep(s)
  <2>1. m \in I /\ \A j \in I : j <= m
    BY <1>2, <1>3, <1>5
  <2> HIDE DEF m
  <2>2. m \in 1..n /\ is_sep(s[m]) /\ \A j \in 1..n : is_sep(s[j]) => j <= m
    BY <2>1
  <2>3. LastSepAt(s, m)
    BY <1>1, <2>2 DEF LastSepAt, n
  <2>4. ASSUME NEW k, LastSepAt(s, k) PROVE k = m
    <3>1. /\ k \in 0..n /\ (k > 0 => is_sep(s[k]))
          /\ \A j \in 1..n : j > k => ~is_sep(s[j])
      BY <2>4 DEF LastSepAt, n
    <3>2. m <= k
      BY <1>1, <2>2, <3>1
    <3>3. k \in 1..n /\ is_sep(s[k])
      BY <1>1, <2>2, <3>1, <3>2
    <3> QED
      BY <1>1, <2>2, <3>2, <3>3
  <2> QED
    BY <2>3, <2>4 DEF m
<1> QED
  BY <1>4, <1>5

-----------------------------------------------------------------------------
(* normpath and abspath *)

LEMMA CollapseCases ==
    ASSUME NEW acc \in Seq(Int), NEW c \in Int
    PROVE  /\ Collapse(acc, c) \in Seq(Int)
           /\ EndsInSep(Collapse(acc, c)) <=> is_sep(c)
           /\ ~is_sep(c) => Collapse(acc, c) = Append(acc, c)
           /\ is_sep(c) /\ EndsInSep(acc) => Collapse(acc, c) = acc
           /\ is_sep(c) /\ ~EndsInSep(acc) => Collapse(acc, c) = Append(acc, Back)
<1>1. Back \in Int /\ is_sep(Back)
  BY DEF Back, is_sep
<1>2. ASSUME NEW d \in Int
      PROVE  Append(acc, d) \in Seq(Int) /\ (EndsInSep(Append(acc, d)) <=> is_sep(d))
  BY AppendProperties DEF EndsInSep
<1> QED
  BY <1>1, <1>2 DEF Collapse

(* The text a path has become, character by character. *)
Steps(base, p, f) ==
    /\ f \in [0..Len(p) -> Seq(Int)] /\ f[0] = base
    /\ \A i \in 1..Len(p) : f[i] = Collapse(f[i - 1], p[i])

(* normpath and abspath work character by character. *)
LEMMA CollapsedIs ==
    ASSUME NEW base \in Seq(Int), NEW p \in Seq(Int)
    PROVE  \E f : Steps(base, p, f) /\ Collapsed(base, p) = f[Len(p)]
<1> DEFINE M == Len(p)
           D == 0..M
           Body(f) == [n \in D |-> IF n = 0 THEN base ELSE Collapse(f[n - 1], p[n])]
           Eq(f) == f = Body(f)
           F == [k \in Nat |-> [x \in Seq(Int) |-> IF k \in 1..M THEN Collapse(x, p[k]) ELSE x]]
           after == CHOOSE f : Eq(f)
<1>1. M \in Nat /\ \A k \in 1..M : p[k] \in Int
  BY LenProperties, ElementOfSeq
<1>2. Collapsed(base, p) = after[M]
  BY DEF Collapsed
<1> HIDE DEF M
<1>3. PICK g \in [0..M -> Seq(Int)] : Recurs(g, base, F, M)
  <2>1. F \in [Nat -> [Seq(Int) -> Seq(Int)]]
    BY <1>1, CollapseCases
  <2> HIDE DEF F
  <2> QED
    BY <1>1, <2>1, RecursionExists
<1>4. g[0] = base /\ \A n \in 1..M : g[n] = Collapse(g[n - 1], p[n])
  <2>1. \A n \in 1..M : n \in Nat /\ n - 1 \in 0..M
    BY <1>1
  <2>2. \A k \in 1..M, x \in Seq(Int) : F[k][x] = Collapse(x, p[k])
    BY <1>1
  <2> HIDE DEF F
  <2>3. ASSUME NEW n \in 1..M PROVE g[n] = Collapse(g[n - 1], p[n])
    <3>1. g[n] = F[n][g[n - 1]]
      BY <1>3 DEF Recurs
    <3>2. g[n - 1] \in Seq(Int)
      BY <2>1
    <3> QED
      BY <2>2, <3>1, <3>2
  <2> QED
    BY <1>3, <2>3 DEF Recurs
<1>5. Eq(g)
  <2>1. \A n \in D : n # 0 => n \in 1..M
    BY <1>1
  <2> QED
    BY <1>4, <2>1
<1>6. Eq(after)
  <2> HIDE DEF Eq
  <2> QED
    BY <1>5
<1> HIDE DEF after
<1>7. ASSUME NEW n \in D
      PROVE  after[n] = IF n = 0 THEN base ELSE Collapse(after[n - 1], p[n])
  <2>1. \A f : Body(f)[n] = IF n = 0 THEN base ELSE Collapse(f[n - 1], p[n])
    OBVIOUS
  <2>2. after = Body(after)
    BY <1>6
  <2> HIDE DEF Body
  <2> QED
    BY <2>1, <2>2
<1> HIDE DEF Eq, Body
<1>8. \A n \in D : after[n] = g[n]
  <2>1. \A n \in 1..M : n \in D /\ n # 0
    BY <1>1
  <2>2. \A n \in 1..M : after[n - 1] = g[n - 1] => after[n] = g[n]
    BY <1>4, <1>7, <2>1
  <2>3. after[0] = g[0]
    BY <1>1, <1>4, <1>7
  <2>4. SameSteps(after, g, M)
    BY <2>2, <2>3 DEF SameSteps
  <2> QED
    BY <1>1, <2>4, RunsEqual
<1>9. after[M] = g[M]
  BY <1>1, <1>8
<1>10. Steps(base, p, g)
  BY <1>3, <1>4 DEF Steps, M
<1> QED
  BY <1>2, <1>9, <1>10 DEF M

(* One byte more. *)
LEMMA SubSeqGrows ==
    ASSUME NEW S, NEW s \in Seq(S), NEW n \in Nat, n < Len(s)
    PROVE  Append(SubSeq(s, 1, n), s[n + 1]) = SubSeq(s, 1, n + 1)
<1>1. Len(s) \in Nat /\ n + 1 \in 1..Len(s) /\ 1 \in 1..Len(s) /\ n + 1 \in 1..Len(s) /\ n + 1 - 1 = n
  BY LenProperties
<1>2. s[n + 1] \in S /\ \A i \in 1..n : s[i] \in S
  <2>1. \A i \in 1..Len(s) : s[i] \in S
    BY ElementOfSeq
  <2> QED
    BY <1>1, <2>1
<1>3. SubSeq(s, 1, n) \in Seq(S)
  BY <1>2, SubSeqProperties
<1>4. SubSeq(s, 1, n + 1) = SubSeq(s, 1, n) \o <<s[n + 1]>>
  BY <1>1, SubSeqRecursiveSecond
<1> QED
  BY <1>2, <1>3, <1>4, AppendIsConcat

(* The text after the i-th character. *)
StepTaken(p, f, i) ==
    /\ f[i] \in Seq(Int) /\ f[i + 1] \in Seq(Int) /\ p[i + 1] \in Int
    /\ f[i + 1] = Collapse(f[i], p[i + 1])

LEMMA StepIs ==
    ASSUME NEW base \in Seq(Int), NEW p \in Seq(Int), NEW f, Steps(base, p, f),
           NEW i \in Nat, i < Len(p)
    PROVE  StepTaken(p, f, i)
<1>1. Len(p) \in Nat
  BY LenProperties
<1>2. i + 1 \in 1..Len(p) /\ i \in 0..Len(p) /\ i + 1 \in 0..Len(p) /\ i + 1 - 1 = i
  BY <1>1
<1>3. p[i + 1] \in Int
  BY <1>2, ElementOfSeq
<1> DEFINE k == i + 1
<1>4. k \in 1..Len(p) /\ k \in 0..Len(p) /\ k - 1 = i /\ k = i + 1
  BY <1>2
<1> HIDE DEF k
<1>5. f[k] = Collapse(f[k - 1], p[k]) /\ f[k] \in Seq(Int) /\ f[i] \in Seq(Int)
  BY <1>2, <1>4 DEF Steps
<1> QED
  BY <1>3, <1>4, <1>5 DEF StepTaken

(* Two paths that go on alike after texts that are alike. *)
Alike(p, i, q, j, n) == i + n <= Len(p) /\ j + n <= Len(q) /\ \A t \in 1..n : p[i + t] = q[j + t]

LEMMA RunsAgree ==
    ASSUME NEW a \in Seq(Int), NEW b \in Seq(Int), NEW p \in Seq(Int), NEW q \in Seq(Int),
           NEW f, Steps(a, p, f), NEW g, Steps(b, q, g),
           NEW i \in Nat, NEW j \in Nat, NEW n \in Nat, f[i] = g[j], Alike(p, i, q, j, n)
    PROVE  f[i + n] = g[j + n]
<1> DEFINE T == {t \in Nat : t <= n => f[i + t] = g[j + t]}
<1>0. Len(p) \in Nat /\ Len(q) \in Nat /\ i + n <= Len(p) /\ j + n <= Len(q)
  BY LenProperties DEF Alike
<1>1. 0 \in T
  BY DEF Steps
<1>2. ASSUME NEW t \in Nat, t \in T PROVE t + 1 \in T
  <2> SUFFICES ASSUME t + 1 <= n PROVE f[i + (t + 1)] = g[j + (t + 1)]
    OBVIOUS
  <2>1. /\ t <= n /\ t + 1 \in 1..n /\ i + t \in Nat /\ i + t < Len(p)
        /\ j + t \in Nat /\ j + t < Len(q)
        /\ i + (t + 1) = i + t + 1 /\ j + (t + 1) = j + t + 1
    BY <1>0
  <2>2. f[i + t] = g[j + t] /\ p[i + t + 1] = q[j + t + 1]
    <3> DEFINE k == t + 1
    <3>1. k \in 1..n /\ i + k = i + t + 1 /\ j + k = j + t + 1
      BY <2>1
    <3> HIDE DEF k
    <3>2. p[i + k] = q[j + k]
      BY <3>1 DEF Alike
    <3> QED
      BY <1>2, <2>1, <3>1, <3>2
  <2>3. f[i + t + 1] = Collapse(f[i + t], p[i + t + 1])
    <3>9. StepTaken(p, f, i + t)
      BY <2>1, StepIs
    <3> QED
      BY <3>9 DEF StepTaken
  <2>4. g[j + t + 1] = Collapse(g[j + t], q[j + t + 1])
    <3>9. StepTaken(q, g, j + t)
      BY <2>1, StepIs
    <3> QED
      BY <3>9 DEF StepTaken
  <2> QED
    BY <2>1, <2>2, <2>3, <2>4
<1>3. \A t \in Nat : t \in T
  <2> HIDE DEF T
  <2> QED
    BY <1>1, <1>2, SetInduction
<1> QED
  BY <1>3

(* Nothing is left to normalise. *)
LEMMA NormalStep ==
    ASSUME NEW x \in Seq(Int), Normal(x), NEW c \in Int
    PROVE  Normal(Collapse(x, c))
<1> DEFINE n == Len(x)
<1>1. n \in Nat /\ (x # <<>> => n > 0)
  BY LenProperties, EmptySeq
<1>2. ASSUME NEW d \in Int, d # Slash, d = Back => ~EndsInSep(x) PROVE Normal(Append(x, d))
  <2>1. /\ Len(Append(x, d)) = n + 1 /\ Append(x, d)[n + 1] = d
        /\ \A k \in 1..n : Append(x, d)[k] = x[k]
    BY AppendProperties
  <2>2. n > 0 /\ d = Back => x[n] # Back
    <3>1. n > 0 => x # <<>>
      BY EmptySeq
    <3> QED
      BY <1>2, <3>1 DEF EndsInSep, is_sep
  <2> HIDE DEF n
  <2>3. ASSUME NEW k \in 1..(n + 1)
        PROVE  /\ Append(x, d)[k] # Slash
               /\ k > 1 => ~(Append(x, d)[k] = Back /\ Append(x, d)[k - 1] = Back)
    <3>1. CASE k = n + 1
      <4>1. k > 1 => k - 1 = n /\ n \in 1..n /\ n > 0
        BY <1>1, <3>1
      <4> QED
        BY <1>2, <2>1, <2>2, <3>1, <4>1
    <3>2. CASE k # n + 1
      <4>1. k \in 1..n /\ (k > 1 => k - 1 \in 1..n)
        BY <1>1, <3>2
      <4>2. x[k] # Slash /\ (k > 1 => ~(x[k] = Back /\ x[k - 1] = Back))
        BY <4>1 DEF Normal, n
      <4> QED
        BY <2>1, <4>1, <4>2
    <3> QED
      BY <3>1, <3>2
  <2> QED
    BY <2>1, <2>3 DEF Normal
<1>3. CASE ~is_sep(c)
  <2>1. c # Slash /\ c # Back
    BY <1>3 DEF is_sep
  <2>2. Collapse(x, c) = Append(x, c)
    BY <1>3, CollapseCases
  <2>3. Normal(Append(x, c))
    BY <1>2, <2>1
  <2> QED
    BY <2>2, <2>3
<1>4. CASE is_sep(c) /\ EndsInSep(x)
  <2>1. Collapse(x, c) = x
    BY <1>4, CollapseCases
  <2> QED
    BY <2>1
<1>5. CASE is_sep(c) /\ ~EndsInSep(x)
  <2>1. Back \in Int /\ Back # Slash
    BY DEF Back, Slash
  <2>2. Collapse(x, c) = Append(x, Back)
    BY <1>5, CollapseCases
  <2>3. Normal(Append(x, Back))
    BY <1>2, <1>5, <2>1
  <2> QED
    BY <2>2, <2>3
<1> QED
  BY <1>3, <1>4, <1>5

(* A normal beginning stays normal, whatever is added to it. *)
LEMMA NormalKept ==
    ASSUME NEW base \in Seq(Int), Normal(base), NEW p \in Seq(Int), NEW f, Steps(base, p, f)
    PROVE  Normal(f[Len(p)])
<1> DEFINE T == {i \in Nat : i <= Len(p) => Normal(f[i])}
<1>0. Len(p) \in Nat
  BY LenProperties
<1>1. 0 \in T
  BY DEF Steps
<1>2. ASSUME NEW i \in Nat, i \in T PROVE i + 1 \in T
  <2> SUFFICES ASSUME i + 1 <= Len(p) PROVE Normal(f[i + 1])
    OBVIOUS
  <2>1. i < Len(p) /\ i <= Len(p)
    BY <1>0
  <2>2. f[i] \in Seq(Int) /\ p[i + 1] \in Int /\ f[i + 1] = Collapse(f[i], p[i + 1])
    <3>9. StepTaken(p, f, i)
      BY <2>1, StepIs
    <3> QED
      BY <3>9 DEF StepTaken
  <2>3. Normal(f[i])
    BY <1>2, <2>1
  <2> QED
    BY <2>2, <2>3, NormalStep
<1>3. \A i \in Nat : i \in T
  <2> HIDE DEF T
  <2> QED
    BY <1>1, <1>2, SetInduction
<1> QED
  BY <1>0, <1>3

(* A path that needs no normalising is left alone. *)
LEMMA NormalLeft ==
    ASSUME NEW p \in Seq(Int), Normal(p)
    PROVE  Collapsed(<<>>, p) = p
<1> DEFINE n == Len(p)
<1>0. n \in Nat /\ <<>> \in Seq(Int)
  BY LenProperties, EmptySeq
<1>1. PICK f : Steps(<<>>, p, f) /\ Collapsed(<<>>, p) = f[n]
  BY <1>0, CollapsedIs
<1> HIDE DEF n
<1> DEFINE T == {i \in Nat : i <= n => f[i] = SubSeq(p, 1, i)}
<1>2. 0 \in T
  <2>1. SubSeq(p, 1, 0) = <<>>
    BY SubSeqEmpty
  <2> QED
    BY <1>1, <2>1 DEF Steps
<1>3. ASSUME NEW i \in Nat, i \in T PROVE i + 1 \in T
  <2> SUFFICES ASSUME i + 1 <= n PROVE f[i + 1] = SubSeq(p, 1, i + 1)
    OBVIOUS
  <2> DEFINE x == f[i]
             c == p[i + 1]
  <2>1. i < n /\ i <= n /\ i + 1 \in 1..n
    BY <1>0
  <2>2. x \in Seq(Int) /\ c \in Int /\ f[i + 1] = Collapse(x, c)
    <3> DEFINE base == <<>>
    <3>1. i < Len(p) /\ Steps(base, p, f) /\ base \in Seq(Int)
      BY <1>0, <1>1, <2>1 DEF n
    <3> HIDE DEF base
    <3> QED
      <4>9. StepTaken(p, f, i)
        BY <3>1, StepIs
      <4> QED
        BY <4>9 DEF StepTaken
  <2>3. x = SubSeq(p, 1, i) /\ Append(SubSeq(p, 1, i), c) = SubSeq(p, 1, i + 1)
    BY <1>3, <2>1, SubSeqGrows DEF n
  <2>4. c # Slash /\ (i + 1 > 1 => ~(c = Back /\ p[i + 1 - 1] = Back))
    BY <2>1 DEF Normal, n
  <2>5. Len(x) = i /\ \A k \in 1..i : x[k] = p[k]
    <3>1. \A k \in 1..i : p[k] \in Int
      BY <1>0, <2>1, ElementOfSeq DEF n
    <3>2. /\ Len(SubSeq(p, 1, i)) = IF 1 <= i THEN i - 1 + 1 ELSE 0
          /\ \A k \in 1..(i - 1 + 1) : SubSeq(p, 1, i)[k] = p[1 + k - 1]
      BY <3>1, SubSeqProperties
    <3> QED
      BY <2>3, <3>2
  <2> HIDE DEF x
  <2>6. CASE ~is_sep(c)
    BY <2>2, <2>3, <2>6, CollapseCases
  <2>7. CASE is_sep(c)
    <3>1. c = Back
      BY <2>4, <2>7 DEF is_sep
    <3>2. ~EndsInSep(x)
      <4>1. SUFFICES ASSUME EndsInSep(x) PROVE FALSE
        OBVIOUS
      <4>2. i > 0 /\ is_sep(x[i])
        <5>1. x # <<>>
          BY <4>1 DEF EndsInSep
        <5>2. Len(x) # 0
          BY <2>2, <5>1, EmptySeq
        <5> QED
          BY <2>5, <4>1, <5>2 DEF EndsInSep
      <4>3. i \in 1..i /\ i + 1 - 1 = i /\ i + 1 > 1 /\ i \in 1..n
        BY <2>1, <4>2, <1>0
      <4>4. p[i] = x[i]
        BY <2>5, <4>3
      <4>5. p[i] # Slash
        BY <4>3 DEF Normal, n
      <4>6. p[i] = Back
        BY <4>2, <4>4, <4>5 DEF is_sep
      <4> QED
        BY <2>4, <3>1, <4>3, <4>6
    <3> QED
      BY <2>2, <2>3, <2>7, <3>1, <3>2, CollapseCases
  <2> QED
    BY <2>6, <2>7
<1>4. \A i \in Nat : i \in T
  <2> HIDE DEF T
  <2> QED
    BY <1>2, <1>3, SetInduction
<1>5. SubSeq(p, 1, n) = p
  BY SubSeqFull DEF n
<1> QED
  BY <1>0, <1>1, <1>4, <1>5

-----------------------------------------------------------------------------
(* What is kept *)

(* A piece of a sequence, and its beginning. *)
Segment(s, m, n, x) == Len(x) = n /\ \A k \in 1..n : x[k] = s[m + k]

LEMMA PieceIs ==
    ASSUME NEW S, NEW s \in Seq(S), NEW m \in Nat, NEW n \in Nat, m + n <= Len(s)
    PROVE  SubSeq(s, m + 1, m + n) \in Seq(S) /\ Segment(s, m, n, SubSeq(s, m + 1, m + n))
<1> DEFINE a == m + 1
           b == m + n
<1>0. Len(s) \in Nat
  BY LenProperties
<1>1. /\ a \in Int /\ b \in Int /\ b - a + 1 = n /\ (IF a <= b THEN n ELSE 0) = n
      /\ \A i \in a..b : i \in 1..Len(s)
  BY <1>0
<1>2. \A k \in 1..n : a + k - 1 = m + k
  OBVIOUS
<1> HIDE DEF a, b
<1>3. \A i \in a..b : s[i] \in S
  BY <1>1, ElementOfSeq
<1>4. /\ SubSeq(s, a, b) \in Seq(S)
      /\ Len(SubSeq(s, a, b)) = IF a <= b THEN b - a + 1 ELSE 0
      /\ \A k \in 1..(b - a + 1) : SubSeq(s, a, b)[k] = s[a + k - 1]
  BY <1>1, <1>3, SubSeqProperties
<1>5. Len(SubSeq(s, a, b)) = n /\ \A k \in 1..n : SubSeq(s, a, b)[k] = s[a + k - 1]
  BY <1>1, <1>4
<1>6. \A k \in 1..n : SubSeq(s, a, b)[k] = s[m + k]
  BY <1>2, <1>5
<1> QED
  BY <1>4, <1>5, <1>6 DEF Segment, a, b

LEMMA FrontIs ==
    ASSUME NEW S, NEW s \in Seq(S), NEW n \in Nat, n <= Len(s)
    PROVE  SubSeq(s, 1, n) \in Seq(S) /\ Segment(s, 0, n, SubSeq(s, 1, n))
<1> DEFINE z == 0
<1>1. z \in Nat /\ z + n <= Len(s) /\ z + 1 = 1 /\ z + n = n /\ z = 0
  BY LenProperties
<1> HIDE DEF z
<1>2. SubSeq(s, z + 1, z + n) \in Seq(S) /\ Segment(s, z, n, SubSeq(s, z + 1, z + n))
  BY <1>1, PieceIs
<1> QED
  BY <1>1, <1>2

(* One text begins another. *)
Begins(x, y) == Len(x) <= Len(y) /\ \A k \in 1..Len(x) : y[k] = x[k]

LEMMA CollapseBegins ==
    ASSUME NEW acc \in Seq(Int), NEW c \in Int
    PROVE  Begins(acc, Collapse(acc, c))
<1>1. \A d \in Int : Begins(acc, Append(acc, d))
  <2>1. Len(acc) \in Nat
    BY LenProperties
  <2>2. ASSUME NEW d \in Int
        PROVE  Len(Append(acc, d)) = Len(acc) + 1 /\ \A k \in 1..Len(acc) : Append(acc, d)[k] = acc[k]
    BY AppendProperties
  <2> QED
    BY <2>1, <2>2 DEF Begins
<1>2. Begins(acc, acc)
  BY LenProperties DEF Begins
<1>3. Back \in Int
  BY DEF Back
<1>4. CASE ~is_sep(c)
  <2>1. Collapse(acc, c) = Append(acc, c)
    BY <1>4, CollapseCases
  <2> QED
    BY <1>1, <2>1
<1>5. CASE is_sep(c) /\ EndsInSep(acc)
  <2>1. Collapse(acc, c) = acc
    BY <1>5, CollapseCases
  <2> QED
    BY <1>2, <2>1
<1>6. CASE is_sep(c) /\ ~EndsInSep(acc)
  <2>1. Collapse(acc, c) = Append(acc, Back)
    BY <1>6, CollapseCases
  <2> QED
    BY <1>1, <1>3, <2>1
<1> QED
  BY <1>4, <1>5, <1>6

LEMMA BeginsOn ==
    ASSUME NEW x \in Seq(Int), NEW y \in Seq(Int), NEW z \in Seq(Int), Begins(x, y), Begins(y, z)
    PROVE  Begins(x, z)
<1>1. Len(x) \in Nat /\ Len(y) \in Nat /\ Len(z) \in Nat
  BY LenProperties
<1>2. Len(x) <= Len(y) /\ Len(y) <= Len(z)
  BY DEF Begins
<1>3. ASSUME NEW k \in 1..Len(x) PROVE z[k] = x[k]
  <2>1. k \in 1..Len(y)
    BY <1>1, <1>2
  <2>2. z[k] = y[k] /\ y[k] = x[k]
    BY <2>1 DEF Begins
  <2> QED
    BY <2>2
<1> QED
  BY <1>1, <1>2, <1>3 DEF Begins

(* What is written stays. *)
LEMMA PrefixKept ==
    ASSUME NEW base \in Seq(Int), NEW p \in Seq(Int), NEW f, Steps(base, p, f),
           NEW i \in Nat, NEW n \in Nat, i + n <= Len(p)
    PROVE  Begins(f[i], f[i + n]) /\ f[i] \in Seq(Int) /\ f[i + n] \in Seq(Int)
<1> DEFINE T == {t \in Nat : t <= n => Begins(f[i], f[i + t])}
<1>0. Len(p) \in Nat
  BY LenProperties
<1>1. \A j \in Nat : j <= Len(p) => f[j] \in Seq(Int)
  <2>1. f \in [0..Len(p) -> Seq(Int)]
    BY DEF Steps
  <2>2. \A j \in Nat : j <= Len(p) => j \in 0..Len(p)
    BY <1>0
  <2> QED
    BY <2>1, <2>2
<1>2. f[i] \in Seq(Int)
  BY <1>0, <1>1
<1>3. 0 \in T
  <2>1. Begins(f[i], f[i])
    BY <1>2, LenProperties DEF Begins
  <2>2. i + 0 = i
    OBVIOUS
  <2> QED
    BY <2>1, <2>2
<1>4. ASSUME NEW t \in Nat, t \in T PROVE t + 1 \in T
  <2> SUFFICES ASSUME t + 1 <= n PROVE Begins(f[i], f[i + (t + 1)])
    OBVIOUS
  <2> DEFINE j == i + t
  <2>1. j \in Nat /\ j < Len(p) /\ i + (t + 1) = j + 1 /\ t <= n
    BY <1>0
  <2>2. Begins(f[i], f[j])
    BY <1>4, <2>1
  <2> HIDE DEF j
  <2>3. f[j] \in Seq(Int) /\ p[j + 1] \in Int /\ f[j + 1] = Collapse(f[j], p[j + 1]) /\ f[j + 1] \in Seq(Int)
    <3>9. StepTaken(p, f, j)
      BY <2>1, StepIs
    <3> QED
      BY <3>9 DEF StepTaken
  <2>4. Begins(f[j], f[j + 1])
    BY <2>3, CollapseBegins
  <2>5. Begins(f[i], f[j + 1])
    BY <1>2, <2>2, <2>3, <2>4, BeginsOn
  <2> QED
    BY <2>1, <2>5
<1>5. \A t \in Nat : t \in T
  <2> HIDE DEF T
  <2> QED
    BY <1>3, <1>4, SetInduction
<1>6. i + n \in Nat /\ n <= n
  OBVIOUS
<1>7. Begins(f[i], f[i + n])
  BY <1>5, <1>6
<1>8. f[i + n] \in Seq(Int)
  BY <1>1, <1>6
<1> QED
  BY <1>2, <1>7, <1>8

(* A text followed by characters, none of them a separator. *)
Followed(x, y, p, s, t) ==
    /\ Len(y) = Len(x) + t
    /\ \A k \in 1..Len(x) : y[k] = x[k]
    /\ \A k \in 1..t : y[Len(x) + k] = p[s + k]

LEMMA NameFollows ==
    ASSUME NEW base \in Seq(Int), NEW p \in Seq(Int), NEW f, Steps(base, p, f),
           NEW s \in Nat, NEW n \in Nat, s + n <= Len(p),
           \A k \in 1..n : ~is_sep(p[s + k])
    PROVE  Followed(f[s], f[s + n], p, s, n) /\ f[s] \in Seq(Int) /\ f[s + n] \in Seq(Int)
<1> DEFINE x == f[s]
           T == {t \in Nat : t <= n => Followed(x, f[s + t], p, s, t)}
<1>0. Len(p) \in Nat
  BY LenProperties
<1>1. \A j \in Nat : j <= Len(p) => f[j] \in Seq(Int)
  <2>1. f \in [0..Len(p) -> Seq(Int)]
    BY DEF Steps
  <2>2. \A j \in Nat : j <= Len(p) => j \in 0..Len(p)
    BY <1>0
  <2> QED
    BY <2>1, <2>2
<1>2. x \in Seq(Int) /\ Len(x) \in Nat
  <2>1. x \in Seq(Int)
    BY <1>0, <1>1
  <2> HIDE DEF x
  <2> QED
    BY <2>1, LenProperties
<1>3. 0 \in T
  <2>1. f[s + 0] = x
    OBVIOUS
  <2> HIDE DEF x
  <2>2. Followed(x, x, p, s, 0)
    BY <1>2 DEF Followed
  <2> QED
    BY <2>1, <2>2
<1> HIDE DEF x
<1>4. ASSUME NEW t \in Nat, t \in T PROVE t + 1 \in T
  <2> SUFFICES ASSUME t + 1 <= n PROVE Followed(x, f[s + (t + 1)], p, s, t + 1)
    OBVIOUS
  <2> DEFINE j == s + t
             y == f[j]
             c == p[j + 1]
  <2>1. j \in Nat /\ j < Len(p) /\ s + (t + 1) = j + 1 /\ t <= n
    BY <1>0
  <2>2. Followed(x, y, p, s, t)
    BY <1>4, <2>1
  <2>3. ~is_sep(c)
    <3> DEFINE k == t + 1
    <3>1. k \in 1..n /\ s + k = j + 1
      OBVIOUS
    <3> HIDE DEF k, j
    <3> QED
      BY <3>1
  <2> HIDE DEF j
  <2>4. y \in Seq(Int) /\ c \in Int /\ f[j + 1] = Collapse(y, c)
    <3>9. StepTaken(p, f, j)
      BY <2>1, StepIs
    <3> QED
      BY <3>9 DEF StepTaken
  <2>5. c = p[s + (t + 1)]
    BY <2>1
  <2> HIDE DEF y, c
  <2>6. f[j + 1] = Append(y, c)
    BY <2>3, <2>4, CollapseCases
  <2>7. /\ Len(Append(y, c)) = Len(y) + 1 /\ Append(y, c)[Len(y) + 1] = c
        /\ \A k \in 1..Len(y) : Append(y, c)[k] = y[k]
    BY <2>4, AppendProperties
  <2>8. Followed(x, Append(y, c), p, s, t + 1)
    <3> DEFINE z == Append(y, c)
               m == Len(x)
    <3>1. /\ Len(y) = m + t /\ \A k \in 1..m : y[k] = x[k]
          /\ \A k \in 1..t : y[m + k] = p[s + k]
      BY <2>2 DEF Followed
    <3>2. m \in Nat
      BY <1>2
    <3> HIDE DEF m
    <3>3. /\ Len(z) = Len(y) + 1 /\ z[Len(y) + 1] = c /\ \A k \in 1..Len(y) : z[k] = y[k]
      BY <2>7
    <3>4. \A k \in 1..m : k \in 1..Len(y)
      BY <3>1, <3>2
    <3>5. \A k \in 1..m : z[k] = x[k]
      BY <3>1, <3>3, <3>4
    <3>6. ASSUME NEW k \in 1..(t + 1) PROVE z[m + k] = p[s + k]
      <4>1. CASE k = t + 1
        <5>1. m + k = Len(y) + 1
          BY <3>1, <3>2, <4>1
        <5> QED
          BY <2>5, <3>3, <4>1, <5>1
      <4>2. CASE k # t + 1
        <5>1. k \in 1..t
          BY <4>2
        <5>2. Len(y) = m + t
          BY <3>1
        <5>3. m + k \in 1..Len(y)
          BY <3>2, <5>1, <5>2
        <5> QED
          BY <3>1, <3>3, <5>1, <5>3
      <4> QED
        BY <4>1, <4>2
    <3>7. Len(z) = m + (t + 1)
      BY <3>1, <3>2, <3>3
    <3> QED
      BY <3>5, <3>6, <3>7 DEF Followed, m
  <2> QED
    BY <2>1, <2>6, <2>8
<1>5. \A t \in Nat : t \in T
  <2> HIDE DEF T
  <2> QED
    BY <1>3, <1>4, SetInduction
<1>6. s + n \in Nat /\ n <= n
  OBVIOUS
<1> QED
  BY <1>1, <1>2, <1>5, <1>6 DEF x

(* What follows a separator, or the start, to the end of a text is its name. *)
LEMMA NameFrom ==
    ASSUME NEW x \in Seq(Int), x = <<>> \/ EndsInSep(x), NEW y \in Seq(Int), NEW p \in Seq(Int),
           NEW s \in Nat, NEW n \in Nat, s + n = Len(p), LastSepAt(p, s),
           Followed(x, y, p, s, n)
    PROVE  basename(y) = basename(p)
<1> DEFINE m == Len(x)
<1>1. m \in Nat /\ Len(p) \in Nat /\ (m > 0 => is_sep(x[m])) /\ m <= m + n
  <2>1. m \in Nat /\ Len(p) \in Nat
    BY LenProperties
  <2>2. x = <<>> => m = 0
    BY EmptySeq
  <2>3. m <= m + n
    BY <2>1
  <2> QED
    BY <2>1, <2>2, <2>3 DEF EndsInSep
<1>2. /\ Len(y) = m + n /\ \A k \in 1..m : y[k] = x[k]
      /\ \A k \in 1..n : y[m + k] = p[s + k]
  BY DEF Followed
<1> HIDE DEF m
<1>3. \A k \in 1..n : s + k \in 1..Len(p) /\ s + k > s
  BY <1>1
<1>4. \A k \in 1..n : ~is_sep(p[s + k])
  BY <1>3 DEF LastSepAt
<1>5. LastSepAt(y, m)
  <2>1. m \in 0..Len(y)
    BY <1>1, <1>2
  <2>2. m > 0 => is_sep(y[m])
    <3>1. m > 0 => m \in 1..m
      BY <1>1
    <3> QED
      BY <1>1, <1>2, <3>1
  <2>3. ASSUME NEW j \in 1..Len(y), j > m PROVE ~is_sep(y[j])
    <3> DEFINE k == j - m
    <3>1. k \in 1..n /\ m + k = j
      BY <1>1, <1>2, <2>3
    <3> HIDE DEF k
    <3>2. y[m + k] = p[s + k] /\ ~is_sep(p[s + k])
      BY <1>2, <1>4, <3>1
    <3> QED
      BY <3>1, <3>2
  <2> QED
    BY <2>1, <2>2, <2>3 DEF LastSepAt
<1>6. last_sep(y) = m /\ last_sep(p) = s
  BY <1>5, LastSepIs
<1>7. basename(y) = SubSeq(y, m + 1, m + n) /\ basename(p) = SubSeq(p, s + 1, s + n)
  BY <1>2, <1>6 DEF basename
<1>8. SubSeq(y, m + 1, m + n) \in Seq(Int) /\ Segment(y, m, n, SubSeq(y, m + 1, m + n))
  <2>1. m + n <= Len(y)
    BY <1>1, <1>2
  <2> QED
    BY <1>1, <2>1, PieceIs
<1>9. SubSeq(p, s + 1, s + n) \in Seq(Int) /\ Segment(p, s, n, SubSeq(p, s + 1, s + n))
  <2>1. s + n <= Len(p)
    BY <1>1
  <2> QED
    BY <2>1, PieceIs
<1> DEFINE u == SubSeq(y, m + 1, m + n)
           v == SubSeq(p, s + 1, s + n)
<1>10. u \in Seq(Int) /\ v \in Seq(Int) /\ Len(u) = n /\ Len(v) = n /\ \A k \in 1..n : u[k] = v[k]
  BY <1>2, <1>8, <1>9 DEF Segment
<1> HIDE DEF u, v
<1>11. u = v
  BY <1>10, SeqEqual
<1> QED
  BY <1>7, <1>11 DEF u, v

(* Normalising changes no name. *)
LEMMA NameKept ==
    ASSUME NEW base \in Seq(Int), base = <<>> \/ EndsInSep(base),
           NEW p \in Seq(Int), NEW f, Steps(base, p, f)
    PROVE  basename(f[Len(p)]) = basename(p)
<1> DEFINE s == last_sep(p)
           n == Len(p) - s
<1>1. LastSepAt(p, s) /\ Len(p) \in Nat
  BY LastSepIs, LenProperties
<1> HIDE DEF s
<1>2. s \in Nat /\ n \in Nat /\ s + n = Len(p) /\ s + n <= Len(p)
  BY <1>1 DEF LastSepAt
<1> HIDE DEF n
<1>3. \A k \in 1..n : ~is_sep(p[s + k])
  <2>1. \A k \in 1..n : s + k \in 1..Len(p) /\ s + k > s
    BY <1>2
  <2> QED
    BY <1>1, <2>1 DEF LastSepAt
<1>4. Followed(f[s], f[s + n], p, s, n) /\ f[s] \in Seq(Int) /\ f[s + n] \in Seq(Int)
  BY <1>2, <1>3, NameFollows
<1>5. f[s] = <<>> \/ EndsInSep(f[s])
  <2>1. CASE s = 0
    BY <2>1 DEF Steps
  <2>2. CASE s # 0
    <3> DEFINE i == s - 1
    <3>1. i \in Nat /\ i < Len(p) /\ i + 1 = s
      BY <1>2, <2>2
    <3> HIDE DEF i
    <3>2. f[i] \in Seq(Int) /\ p[i + 1] \in Int /\ f[i + 1] = Collapse(f[i], p[i + 1])
      <4>9. StepTaken(p, f, i)
        BY <3>1, StepIs
      <4> QED
        BY <4>9 DEF StepTaken
    <3>3. is_sep(p[s])
      BY <1>1, <1>2, <2>2 DEF LastSepAt
    <3>4. EndsInSep(Collapse(f[i], p[i + 1]))
      BY <3>1, <3>2, <3>3, CollapseCases
    <3> QED
      BY <3>1, <3>2, <3>4
  <2> QED
    BY <2>1, <2>2
<1>6. basename(f[s + n]) = basename(p)
  BY <1>1, <1>2, <1>4, <1>5, NameFrom
<1> QED
  BY <1>2, <1>6

(* Whether a path is absolute shows at its beginning. *)
LEMMA AbsoluteOn ==
    ASSUME NEW x \in Seq(Int), NEW y \in Seq(Int), Begins(x, y), isabs(x)
    PROVE  isabs(y)
<1>1. Len(x) \in Nat /\ Len(y) \in Nat /\ Len(x) <= Len(y)
  BY LenProperties DEF Begins
<1>2. CASE x # <<>> /\ is_sep(x[1])
  <2>1. Len(x) # 0 /\ 1 \in 1..Len(x) /\ Len(y) # 0
    BY <1>1, <1>2, EmptySeq
  <2>2. y # <<>> /\ y[1] = x[1]
    BY <2>1, EmptySeq DEF Begins
  <2> QED
    BY <1>2, <2>2 DEF isabs
<1>3. CASE Len(x) >= 2 /\ x[2] = Colon
  <2>1. 2 \in 1..Len(x) /\ Len(y) >= 2
    BY <1>1, <1>3
  <2>2. y[2] = x[2]
    BY <2>1 DEF Begins
  <2> QED
    BY <1>3, <2>1, <2>2 DEF isabs
<1> QED
  BY <1>2, <1>3 DEF isabs

(* A collapsed path is its beginning and more. *)
LEMMA CollapseAdds ==
    ASSUME NEW acc \in Seq(Int), NEW c \in Int, ~EndsInSep(acc)
    PROVE  /\ Len(Collapse(acc, c)) = Len(acc) + 1
           /\ is_sep(Collapse(acc, c)[Len(acc) + 1]) <=> is_sep(c)
           /\ Collapse(acc, c)[Len(acc) + 1] = Colon <=> c = Colon
<1> DEFINE m == Len(acc) + 1
<1>1. Back \in Int /\ is_sep(Back) /\ Back # Colon /\ ~is_sep(Colon)
  BY DEF Back, Colon, Slash, is_sep
<1>2. ASSUME NEW d \in Int PROVE Len(Append(acc, d)) = m /\ Append(acc, d)[m] = d
  BY AppendProperties
<1>3. CASE is_sep(c)
  <2>1. Collapse(acc, c) = Append(acc, Back)
    BY <1>3, CollapseCases
  <2>2. c # Colon
    BY <1>1, <1>3
  <2> QED
    BY <1>1, <1>2, <1>3, <2>1, <2>2
<1>4. CASE ~is_sep(c)
  <2>1. Collapse(acc, c) = Append(acc, c)
    BY <1>4, CollapseCases
  <2> QED
    BY <1>2, <2>1
<1> QED
  BY <1>3, <1>4

(* Normalising a path keeps its kind; something is left. *)
LEMMA KindKept ==
    ASSUME NEW base \in Seq(Int), Len(base) = 0, NEW p \in Seq(Int), p # <<>>, NEW f, Steps(base, p, f)
    PROVE  f[Len(p)] # <<>> /\ (isabs(f[Len(p)]) <=> isabs(p))
<1> DEFINE n == Len(p)
           y == f[n]
           z == 0
           o == 1
<1>2. n \in Nat /\ n > 0 /\ n >= 1
  BY EmptySeq, LenProperties
<1>3. f[0] \in Seq(Int) /\ p[1] \in Int /\ f[1] = Collapse(f[0], p[1]) /\ f[1] \in Seq(Int) /\ f[0] = base
  <2>1. z \in Nat /\ z < Len(p)
    BY <1>2
  <2>2. z = 0 /\ z + 1 = 1
    OBVIOUS
  <2> HIDE DEF z, n
  <2>3. f[z] \in Seq(Int) /\ p[z + 1] \in Int /\ f[z + 1] = Collapse(f[z], p[z + 1]) /\ f[z + 1] \in Seq(Int)
    <3>9. StepTaken(p, f, z)
      BY <2>1, StepIs
    <3> QED
      BY <3>9 DEF StepTaken
  <2> QED
    BY <2>2, <2>3 DEF Steps
<1>4. Len(f[1]) = 1 /\ (is_sep(f[1][1]) <=> is_sep(p[1]))
  <2>1. ~EndsInSep(base)
    BY EmptySeq DEF EndsInSep
  <2>2. /\ Len(Collapse(base, p[1])) = Len(base) + 1
        /\ is_sep(Collapse(base, p[1])[Len(base) + 1]) <=> is_sep(p[1])
    BY <1>3, <2>1, CollapseAdds
  <2>3. f[1] = Collapse(base, p[1]) /\ Len(base) + 1 = 1
    BY <1>3
  <2> QED
    BY <2>2, <2>3
<1>5. y \in Seq(Int) /\ Len(y) >= 1 /\ y # <<>> /\ y[1] = f[1][1] /\ Len(y) \in Nat
  <2> DEFINE k == n - 1
  <2>1. o \in Nat /\ k \in Nat /\ o + k = n /\ o + k <= Len(p) /\ o = 1
    BY <1>2
  <2> HIDE DEF o, k
  <2>2. Begins(f[o], f[o + k]) /\ f[o + k] \in Seq(Int)
    BY <2>1, PrefixKept
  <2>3. Begins(f[1], y) /\ y \in Seq(Int)
    BY <2>1, <2>2
  <2> HIDE DEF y
  <2>4. Len(y) \in Nat /\ 1 \in 1..1
    BY <2>3, LenProperties
  <2>5. Len(y) >= 1 /\ y[1] = f[1][1]
    BY <1>4, <2>3, <2>4 DEF Begins
  <2> QED
    BY <2>3, <2>4, <2>5, EmptySeq
<1>6. CASE is_sep(p[1])
  BY <1>4, <1>5, <1>6 DEF isabs
<1>7. CASE ~is_sep(p[1])
  <2>1. CASE n = 1
    <3>1. y = f[1]
      BY <2>1
    <3>2. Len(y) = 1 /\ ~is_sep(y[1])
      BY <1>4, <1>7, <3>1
    <3>3. ~isabs(y)
      BY <3>2 DEF isabs
    <3>4. ~isabs(p)
      BY <1>7, <2>1 DEF isabs
    <3> QED
      BY <1>5, <3>3, <3>4
  <2>2. CASE n # 1
    <3>1. n >= 2
      <4> HIDE DEF n
      <4> QED
        BY <1>2, <2>2
    <3>2. p[2] \in Int /\ f[2] = Collapse(f[1], p[2])
      <4>1. o \in Nat /\ o < Len(p)
        BY <3>1
      <4>2. o = 1 /\ o + 1 = 2
        OBVIOUS
      <4> HIDE DEF o, n, y
      <4>3. p[o + 1] \in Int /\ f[o + 1] = Collapse(f[o], p[o + 1])
        <5>9. StepTaken(p, f, o)
          BY <4>1, StepIs
        <5> QED
          BY <5>9 DEF StepTaken
      <4> QED
        BY <4>2, <4>3
    <3>3. ~EndsInSep(f[1])
      BY <1>4, <1>7 DEF EndsInSep
    <3>4. Len(f[2]) = 2 /\ (f[2][2] = Colon <=> p[2] = Colon)
      <4> DEFINE x == f[1]
      <4>1. x \in Seq(Int) /\ ~EndsInSep(x)
        BY <1>3, <3>3
      <4>2. Len(x) + 1 = 2 /\ f[2] = Collapse(x, p[2])
        BY <1>4, <3>2
      <4> HIDE DEF x
      <4>3. /\ Len(Collapse(x, p[2])) = Len(x) + 1
            /\ Collapse(x, p[2])[Len(x) + 1] = Colon <=> p[2] = Colon
        BY <3>2, <4>1, CollapseAdds
      <4> QED
        BY <4>2, <4>3
    <3>5. Len(y) >= 2 /\ y[2] = f[2][2]
      <4> DEFINE w == 2
                 k == n - 2
      <4>1. w \in Nat /\ k \in Nat /\ w + k = n /\ w + k <= Len(p) /\ w = 2
        BY <1>2, <3>1
      <4> HIDE DEF w, k
      <4>2. Begins(f[w], f[w + k]) /\ f[w + k] \in Seq(Int)
        BY <4>1, PrefixKept
      <4>3. Begins(f[2], y)
        BY <4>1, <4>2
      <4> HIDE DEF y
      <4>4. 2 \in 1..2
        OBVIOUS
      <4> QED
        BY <3>4, <4>3, <4>4 DEF Begins
    <3>6. isabs(y) <=> f[2][2] = Colon
      BY <1>4, <1>5, <1>7, <3>5 DEF isabs
    <3>7. isabs(p) <=> p[2] = Colon
      BY <1>7, <3>1 DEF isabs
    <3> QED
      BY <1>5, <3>4, <3>6, <3>7
  <2> QED
    BY <2>1, <2>2
<1> QED
  BY <1>5, <1>6, <1>7

(* The empty path is normal. *)
LEMMA NormalOfEmpty == Normal(<<>>)
<1>1. Len(<<>>) = 0
  BY EmptySeq
<1>2. \A k \in 1..0 : FALSE
  OBVIOUS
<1> QED
  BY <1>1, <1>2 DEF Normal

(* What normpath and abspath do to a path. *)
LEMMA NormpathIs ==
    ASSUME NEW p \in Seq(Int), p # <<>>
    PROVE  /\ normpath(p) = Collapsed(<<>>, p) /\ normpath(p) \in Seq(Int)
           /\ Normal(normpath(p)) /\ (isabs(normpath(p)) <=> isabs(p))
           /\ basename(normpath(p)) = basename(p)
<1> DEFINE base == <<>>
<1>0. base \in Seq(Int) /\ base = <<>> /\ Len(base) = 0 /\ Normal(base) /\ Len(p) \in Nat
  BY NormalOfEmpty, EmptySeq, LenProperties
<1> HIDE DEF base
<1>1. PICK f : Steps(base, p, f) /\ Collapsed(base, p) = f[Len(p)]
  BY <1>0, CollapsedIs
<1> DEFINE y == f[Len(p)]
<1>2. y # <<>> /\ (isabs(y) <=> isabs(p))
  BY <1>0, <1>1, KindKept
<1>3. basename(y) = basename(p)
  BY <1>0, <1>1, NameKept
<1>4. Normal(y)
  BY <1>0, <1>1, NormalKept
<1>5. y \in Seq(Int)
  <2>1. f \in [0..Len(p) -> Seq(Int)] /\ Len(p) \in 0..Len(p)
    BY <1>0, <1>1 DEF Steps
  <2> QED
    BY <2>1
<1>6. Collapsed(<<>>, p) = y
  BY <1>0, <1>1
<1> HIDE DEF y
<1>7. normpath(p) = y
  BY <1>2, <1>6 DEF normpath
<1> QED
  BY <1>2, <1>3, <1>4, <1>5, <1>6, <1>7

(* abspath leaves nothing to make absolute, and keeps the name. *)
LEMMA AbspathIs ==
    ASSUME NEW cwd \in Seq(Int), isabs(cwd), Normal(cwd), NEW p \in Seq(Int), p # <<>>
    PROVE  /\ isabs(abspath(cwd, p)) /\ abspath(cwd, abspath(cwd, p)) = abspath(cwd, p)
           /\ basename(abspath(cwd, p)) = basename(p)
<1> DEFINE base == IF isabs(p) THEN <<>>
                   ELSE IF cwd = <<>> \/ EndsInSep(cwd) THEN cwd ELSE Append(cwd, Back)
           a == abspath(cwd, p)
<1>1. /\ base \in Seq(Int) /\ Normal(base) /\ (base = <<>> \/ EndsInSep(base))
      /\ (isabs(p) => base = <<>>) /\ (~isabs(p) => isabs(base))
  <2>1. cwd # <<>>
    BY DEF isabs
  <2>2. CASE isabs(p)
    BY <2>2, NormalOfEmpty, EmptySeq
  <2>3. CASE ~isabs(p) /\ EndsInSep(cwd)
    BY <2>3
  <2>4. CASE ~isabs(p) /\ ~EndsInSep(cwd)
    <3> DEFINE d == Append(cwd, Back)
    <3>1. Back \in Int /\ is_sep(Back) /\ ~is_sep(Dot)
      BY DEF Back, is_sep, Dot, Slash
    <3>2. Collapse(cwd, Back) = d /\ d \in Seq(Int) /\ EndsInSep(d)
      <4>1. d = Collapse(cwd, Back)
        BY <2>4, <3>1, CollapseCases
      <4> HIDE DEF d
      <4> QED
        BY <3>1, <4>1, CollapseCases
    <3>3. Begins(cwd, d)
      BY <3>1, <3>2, CollapseBegins
    <3>4. isabs(d)
      BY <3>2, <3>3, AbsoluteOn
    <3>5. Normal(d)
      BY <2>4, <3>1, <3>2, NormalStep
    <3>6. base = d
      BY <2>1, <2>4
    <3> QED
      BY <2>4, <3>2, <3>4, <3>5, <3>6
  <2> QED
    BY <2>2, <2>3, <2>4
<1>2. a = Collapsed(base, p)
  BY DEF abspath
<1> HIDE DEF base, a
<1>3. PICK f : Steps(base, p, f) /\ Collapsed(base, p) = f[Len(p)]
  BY <1>1, CollapsedIs
<1>4. basename(a) = basename(p) /\ Normal(a)
  BY <1>1, <1>2, <1>3, NameKept, NormalKept
<1>5. Begins(base, a) /\ a \in Seq(Int)
  <2> DEFINE z == 0
             n == Len(p)
  <2>1. z \in Nat /\ n \in Nat /\ z + n = n /\ z + n <= Len(p) /\ z = 0
    BY LenProperties
  <2> HIDE DEF z, n
  <2>2. Begins(f[z], f[z + n]) /\ f[z + n] \in Seq(Int)
    BY <1>1, <1>3, <2>1, PrefixKept
  <2>3. f[z] = base /\ f[z + n] = a
    BY <1>2, <1>3, <2>1 DEF Steps, n
  <2> QED
    BY <2>2, <2>3
<1>6. isabs(a)
  <2>1. CASE isabs(p)
    <3>1. Len(base) = 0
      BY <1>1, <2>1, EmptySeq
    <3>2. isabs(f[Len(p)]) <=> isabs(p)
      BY <1>1, <1>3, <3>1, KindKept
    <3> QED
      BY <1>2, <1>3, <2>1, <3>2
  <2>2. CASE ~isabs(p)
    BY <1>1, <1>5, <2>2, AbsoluteOn
  <2> QED
    BY <2>1, <2>2
<1>7. abspath(cwd, a) = a
  <2>1. abspath(cwd, a) = Collapsed(<<>>, a)
    BY <1>6 DEF abspath
  <2> QED
    BY <1>4, <1>5, <2>1, NormalLeft
<1> QED
  BY <1>4, <1>6, <1>7 DEF a

-----------------------------------------------------------------------------
(* split, join and splitext *)

LEMMA JoinIs ==
    ASSUME NEW d, NEW b
    PROVE  join(<<d, b>>) = JoinPart(JoinPart(<<>>, d), b)
<1> DEFINE parts == <<d, b>>
           D == 0..Len(parts)
           Body(f) == [i \in D |-> IF i = 0 THEN <<>> ELSE JoinPart(f[i - 1], parts[i])]
           Eq(f) == f = Body(f)
           h == JoinPart(<<>>, d)
           w == JoinPart(h, b)
           g == [i \in D |-> IF i = 0 THEN <<>> ELSE IF i = 1 THEN h ELSE w]
           joined == CHOOSE f : Eq(f)
<1>1. Len(parts) = 2 /\ parts[1] = d /\ parts[2] = b
  OBVIOUS
<1>2. join(parts) = joined[Len(parts)]
  BY DEF join
<1>3. D = {0, 1, 2}
  BY <1>1
<1> HIDE DEF parts, D
<1>4. Body(g) = [i \in D |-> IF i = 0 THEN <<>> ELSE JoinPart(g[i - 1], parts[i])]
  OBVIOUS
<1>5. g[0] = <<>> /\ g[1] = h /\ g[2] = w
  BY <1>3
<1>6. ASSUME NEW i \in D PROVE g[i] = IF i = 0 THEN <<>> ELSE JoinPart(g[i - 1], parts[i])
  <2> HIDE DEF g, h
  <2>1. CASE i = 0
    BY <1>5, <2>1
  <2>2. CASE i = 1
    <3>1. i - 1 = 0
      BY <2>2
    <3> QED
      BY <1>1, <1>5, <2>2, <3>1 DEF h
  <2>3. CASE i = 2
    <3>1. i - 1 = 1
      BY <2>3
    <3> QED
      BY <1>1, <1>5, <2>3, <3>1
  <2> QED
    BY <1>3, <2>1, <2>2, <2>3
<1>7. Eq(g)
  BY <1>6
<1>8. Eq(joined)
  <2> HIDE DEF Eq
  <2> QED
    BY <1>7
<1> HIDE DEF joined, g
<1>9. \A i \in D : joined[i] = IF i = 0 THEN <<>> ELSE JoinPart(joined[i - 1], parts[i])
  <2>1. \A f : \A i \in D : Body(f)[i] = IF i = 0 THEN <<>> ELSE JoinPart(f[i - 1], parts[i])
    OBVIOUS
  <2>2. joined = Body(joined)
    BY <1>8
  <2> HIDE DEF Body
  <2> QED
    BY <2>1, <2>2
<1> HIDE DEF Eq, Body
<1>10. joined[0] = <<>>
  BY <1>3, <1>9
<1>11. joined[1] = h
  <2>1. 1 \in D /\ 1 # 0 /\ 1 - 1 = 0
    BY <1>3
  <2>2. joined[1] = JoinPart(joined[1 - 1], parts[1])
    BY <1>9, <2>1
  <2> QED
    BY <1>1, <1>10, <2>1, <2>2
<1> HIDE DEF h
<1>12. joined[2] = w
  <2>1. 2 \in D /\ 2 # 0 /\ 2 - 1 = 1
    BY <1>3
  <2>2. joined[2] = JoinPart(joined[2 - 1], parts[2])
    BY <1>9, <2>1
  <2> QED
    BY <1>1, <1>11, <2>1, <2>2
<1> QED
  BY <1>1, <1>2, <1>12 DEF parts, h

(* The head and the name of a path that has a name. *)
LEMMA JoinSplit ==
    ASSUME NEW p \in Seq(Int), basename(p) # <<>>,
           \A k \in 1..Len(p) : p[k] = Colon => k = 2
    PROVE  \/ join(split(p)) = p
           \/ /\ last_sep(p) > 1 /\ EndsInSep(dirname(p))
              /\ join(split(p)) = dirname(p) \o basename(p)
              /\ dirname(p) = SubSeq(p, 1, last_sep(p) - 1)
           \/ /\ last_sep(p) > 1
              /\ join(split(p)) = Append(dirname(p), Back) \o basename(p)
              /\ dirname(p) = SubSeq(p, 1, last_sep(p) - 1)
<1> DEFINE s == last_sep(p)
           n == Len(p) - s
           d == dirname(p)
           b == basename(p)
           J == join(split(p))
<1>1. LastSepAt(p, s) /\ Len(p) \in Nat
  BY LastSepIs, LenProperties
<1>2. s \in Nat /\ s <= Len(p) /\ s + n = Len(p) /\ n \in Nat
  BY <1>1 DEF LastSepAt
<1>3. b = SubSeq(p, s + 1, s + n)
  BY <1>2 DEF basename
<1>4. J = JoinPart(JoinPart(<<>>, d), b)
  BY JoinIs DEF split
<1>5. d = IF s = 0 THEN <<>> ELSE SubSeq(p, 1, HeadLength(p, s))
  BY DEF dirname
<1>6. s = 0 => basename(p) = p
  BY SubSeqFull DEF basename
<1> HIDE DEF s, d, b, n, J
<1>7. b \in Seq(Int) /\ Segment(p, s, n, b) /\ n > 0 /\ b # <<>>
  <2>1. s + n <= Len(p)
    BY <1>1, <1>2
  <2>2. b \in Seq(Int) /\ Segment(p, s, n, b)
    BY <1>2, <1>3, <2>1, PieceIs
  <2>3. Len(b) # 0
    BY <2>2, EmptySeq DEF b
  <2> QED
    BY <1>2, <2>2, <2>3 DEF Segment, b
<1>8. JoinPart(<<>>, d) = d \/ d \notin Seq(Int)
  BY ConcatEmptySeq DEF JoinPart
<1>9. CASE s = 0
  <2>1. d = <<>> /\ b = p
    BY <1>5, <1>6, <1>9 DEF b
  <2>2. JoinPart(<<>>, d) = <<>>
    BY <2>1 DEF JoinPart
  <2>3. <<>> \o b = b
    BY <1>7, ConcatEmptySeq
  <2>4. J = b
    BY <1>4, <1>7, <2>2, <2>3 DEF JoinPart
  <2> QED
    BY <2>1, <2>4 DEF J
<1>10. CASE s > 0
  <2>1. ~isabs(b)
    <3>1. b[1] = p[s + 1] /\ (n >= 2 => b[2] = p[s + 2])
      BY <1>2, <1>7 DEF Segment
    <3>2. s + 1 \in 1..Len(p) /\ s + 1 > s
      BY <1>1, <1>2, <1>7
    <3>3. ~is_sep(p[s + 1])
      BY <1>1, <3>2 DEF LastSepAt
    <3>4. n >= 2 => s + 2 \in 1..Len(p) /\ s + 2 # 2
      BY <1>1, <1>2, <1>10
    <3>5. n >= 2 => b[2] # Colon
      BY <3>1, <3>4
    <3>6. Len(b) = n
      BY <1>7 DEF Segment
    <3> QED
      BY <3>1, <3>3, <3>5, <3>6 DEF isabs
  <2> DEFINE H == HeadLength(p, s)
  <2>2. (s = 1 \/ H = s \/ H = s - 1) /\ (s = 1 => H = s)
    BY DEF HeadLength
  <2> HIDE DEF H
  <2>3. H \in Nat /\ H > 0 /\ H <= Len(p) /\ (H = s \/ (s > 1 /\ H = s - 1))
    BY <1>2, <1>10, <2>2
  <2>4. d = SubSeq(p, 1, H)
    <3>1. s # 0
      BY <1>2, <1>10
    <3> QED
      BY <1>5, <3>1 DEF H
  <2>5. d \in Seq(Int) /\ Segment(p, 0, H, d)
    BY <2>3, <2>4, FrontIs
  <2>6. Len(d) = H /\ d # <<>>
    BY <2>3, <2>5, EmptySeq DEF Segment
  <2>7. JoinPart(<<>>, d) = d
    BY <1>8, <2>5
  <2>8. J = IF EndsInSep(d) THEN d \o b ELSE Append(d, Back) \o b
    BY <1>4, <1>7, <2>1, <2>6, <2>7 DEF JoinPart
  <2>9. CASE H = s
    <3>1. d[H] = p[0 + H] /\ 0 + H = s
      BY <2>3, <2>5, <2>9 DEF Segment
    <3>2. is_sep(p[s])
      BY <1>1, <1>10 DEF LastSepAt
    <3>3. EndsInSep(d)
      BY <2>6, <3>1, <3>2 DEF EndsInSep
    <3>4. d \o b = p
      <4>1. 1 \in 1..Len(p) + 1 /\ s \in 1 - 1..Len(p) /\ Len(p) \in s..Len(p)
        BY <1>1, <1>2
      <4>2. SubSeq(p, 1, s) \o SubSeq(p, s + 1, Len(p)) = SubSeq(p, 1, Len(p))
        BY <4>1, ConcatAdjacentSubSeq
      <4>3. SubSeq(p, 1, Len(p)) = p
        BY SubSeqFull
      <4> QED
        BY <1>2, <1>3, <2>4, <2>9, <4>2, <4>3
    <3> QED
      BY <2>8, <3>3, <3>4 DEF J
  <2>10. CASE s > 1 /\ H = s - 1
    BY <2>4, <2>8, <2>10 DEF J, d, b, s
  <2> QED
    BY <2>3, <2>9, <2>10
<1>11. s = 0 \/ s > 0
  BY <1>2
<1> QED
  BY <1>9, <1>10, <1>11

(* The two texts are the same from where the name begins. *)
LEMMA NormalJoined ==
    ASSUME NEW p \in Seq(Int), p # <<>>, basename(p) # <<>>,
           \A k \in 1..Len(p) : p[k] = Colon => k = 2
    PROVE  normpath(join(split(p))) = normpath(p)
<1> DEFINE J == join(split(p))
           d == dirname(p)
           b == basename(p)
           s == last_sep(p)
           n == Len(p) - s
           h == s - 1
           base == <<>>
<1>1. CASE J = p
  BY <1>1
<1>2. CASE s > 1 /\ d = SubSeq(p, 1, h) /\ ((EndsInSep(d) /\ J = d \o b) \/ J = Append(d, Back) \o b)
  <2>1. LastSepAt(p, s) /\ Len(p) \in Nat
    BY LastSepIs, LenProperties
  <2>2. /\ s \in Nat /\ s <= Len(p) /\ s + n = Len(p) /\ n \in Nat /\ h \in Nat /\ h > 0
        /\ h + 1 = s /\ h < Len(p)
    <3>1. s \in Nat /\ s <= Len(p) /\ s > 1 /\ Len(p) \in Nat
      BY <1>2, <2>1 DEF LastSepAt
    <3> HIDE DEF s
    <3> QED
      BY <3>1
  <2>3. is_sep(p[s])
    BY <1>2, <2>1 DEF LastSepAt
  <2>4. b = SubSeq(p, s + 1, s + n)
    BY <2>2 DEF basename
  <2>5. base \in Seq(Int)
    BY EmptySeq
  <2>20. base = <<>>
    OBVIOUS
  <2> HIDE DEF s, d, b, n, h, J, base
  <2>6. b \in Seq(Int) /\ Segment(p, s, n, b) /\ Len(b) = n
    <3>1. s + n <= Len(p)
      BY <2>1, <2>2
    <3>2. b \in Seq(Int) /\ Segment(p, s, n, b)
      BY <2>2, <2>4, <3>1, PieceIs
    <3> QED
      BY <3>2 DEF Segment
  <2>7. d \in Seq(Int) /\ Segment(p, 0, h, d) /\ Len(d) = h /\ \A k \in 1..h : d[k] = p[k]
    <3>1. d \in Seq(Int) /\ Segment(p, 0, h, d)
      BY <1>2, <2>1, <2>2, FrontIs
    <3>2. \A k \in 1..h : 0 + k = k
      BY <2>2
    <3> QED
      BY <3>1, <3>2 DEF Segment
  <2>8. PICK f : Steps(base, p, f) /\ Collapsed(base, p) = f[Len(p)]
    BY <2>5, CollapsedIs
  <2>9. f[h] \in Seq(Int) /\ p[s] \in Int /\ f[s] = Collapse(f[h], p[s])
    <3>1. f[h] \in Seq(Int) /\ p[h + 1] \in Int /\ f[h + 1] = Collapse(f[h], p[h + 1])
      <4>9. StepTaken(p, f, h)
        BY <2>2, <2>5, <2>8, StepIs
      <4> QED
        BY <4>9 DEF StepTaken
    <3> QED
      BY <2>2, <3>1
  <2> DEFINE e == IF EndsInSep(d) /\ J = d \o b THEN d ELSE Append(d, Back)
             m == Len(e)
  <2>10. J = e \o b
    BY <1>2
  <2>11. /\ e \in Seq(Int) /\ m \in Nat /\ h <= m /\ \A k \in 1..h : e[k] = p[k]
         /\ (m = h /\ EndsInSep(d)) \/ (m = h + 1 /\ e[h + 1] = Back)
    <3>1. CASE EndsInSep(d) /\ J = d \o b
      <4>1. e = d
        BY <3>1
      <4> HIDE DEF e
      <4> QED
        BY <2>2, <2>7, <3>1, <4>1
    <3>2. CASE ~(EndsInSep(d) /\ J = d \o b)
      <4> DEFINE x == Append(d, Back)
      <4>1. e = x
        BY <3>2
      <4> HIDE DEF e
      <4>3. Back \in Int
        BY DEF Back
      <4>4. /\ x \in Seq(Int) /\ Len(x) = Len(d) + 1 /\ x[Len(d) + 1] = Back
            /\ \A k \in 1..Len(d) : x[k] = d[k]
        BY <2>7, <4>3, AppendProperties
      <4> HIDE DEF x
      <4>2. /\ e \in Seq(Int) /\ Len(e) = h + 1 /\ e[h + 1] = Back
            /\ \A k \in 1..h : e[k] = d[k]
        BY <2>7, <4>1, <4>4
      <4> QED
        BY <2>2, <2>7, <4>2
    <3> QED
      BY <3>1, <3>2
  <2> HIDE DEF e, m
  <2>12. J \in Seq(Int) /\ Len(J) = m + n /\ (\A k \in 1..m : J[k] = e[k])
         /\ \A k \in 1..n : J[m + k] = p[s + k]
    <3>1. /\ J \in Seq(Int) /\ Len(J) = Len(e) + Len(b)
          /\ \A k \in 1..Len(e) + Len(b) : J[k] = IF k <= Len(e) THEN e[k] ELSE b[k - Len(e)]
      BY <2>6, <2>10, <2>11, ConcatProperties
    <3>2. /\ J \in Seq(Int) /\ Len(J) = m + n
          /\ \A k \in 1..m + n : J[k] = IF k <= m THEN e[k] ELSE b[k - m]
      BY <2>6, <3>1 DEF m
    <3>3. ASSUME NEW k \in 1..m PROVE J[k] = e[k]
      <4>1. k \in 1..m + n /\ k <= m
        BY <2>2, <2>11
      <4> QED
        BY <3>2, <4>1
    <3>4. ASSUME NEW k \in 1..n PROVE J[m + k] = p[s + k]
      <4>1. m + k \in 1..m + n /\ ~(m + k <= m) /\ (m + k) - m = k
        BY <2>2, <2>11
      <4>2. J[m + k] = b[k]
        BY <3>2, <4>1
      <4> QED
        BY <2>6, <4>2 DEF Segment
    <3> QED
      BY <3>2, <3>3, <3>4
  <2>13. PICK g : Steps(base, J, g) /\ Collapsed(base, J) = g[Len(J)]
    BY <2>5, <2>12, CollapsedIs
  <2>14. g[h] = f[h]
    <3> DEFINE z == 0
    <3>1. z \in Nat /\ z + h = h /\ z + h <= Len(J) /\ z + h <= Len(p)
      <4>1. Len(J) = m + n /\ m \in Nat /\ h <= m
        BY <2>11, <2>12
      <4> QED
        BY <2>1, <2>2, <4>1
    <3>2. f[z] = g[z]
      BY <2>8, <2>13 DEF Steps
    <3>3. Alike(p, z, J, z, h)
      <4>1. \A t \in 1..h : z + t = t /\ t \in 1..m
        BY <2>2, <2>11
      <4> QED
        BY <2>11, <2>12, <3>1, <4>1 DEF Alike
    <3> HIDE DEF z
    <3>4. f[z + h] = g[z + h]
      <4>1. J \in Seq(Int)
        BY <2>12
      <4> QED
        BY <2>2, <2>5, <2>8, <2>13, <3>1, <3>2, <3>3, <4>1, RunsAgree
    <3> QED
      BY <3>1, <3>4
  <2>15. g[m] = f[s]
    <3>1. CASE m = h /\ EndsInSep(d)
      <4>1. is_sep(p[h])
        <5>1. d[h] = p[h] /\ is_sep(d[h])
          BY <2>2, <2>7, <3>1 DEF EndsInSep
        <5> QED
          BY <5>1
      <4>2. EndsInSep(f[h])
        <5> DEFINE q == h - 1
        <5>1. q \in Nat /\ q < Len(p) /\ q + 1 = h
          BY <2>1, <2>2
        <5> HIDE DEF q
        <5>2. f[q] \in Seq(Int) /\ p[q + 1] \in Int /\ f[q + 1] = Collapse(f[q], p[q + 1])
          <6>9. StepTaken(p, f, q)
            BY <2>5, <2>8, <5>1, StepIs
          <6> QED
            BY <6>9 DEF StepTaken
        <5>3. EndsInSep(Collapse(f[q], p[q + 1]))
          BY <4>1, <5>1, <5>2, CollapseCases
        <5> QED
          BY <5>1, <5>2, <5>3
      <4>3. f[s] = f[h]
        BY <2>3, <2>9, <4>2, CollapseCases
      <4> QED
        BY <2>14, <3>1, <4>3
    <3>2. CASE m = h + 1 /\ e[h + 1] = Back
      <4>1. h + 1 \in 1..m /\ h < Len(J)
        BY <2>2, <2>12, <3>2
      <4>2. J[h + 1] = Back
        BY <2>12, <3>2, <4>1
      <4>3. g[h] \in Seq(Int) /\ J[h + 1] \in Int /\ g[h + 1] = Collapse(g[h], J[h + 1])
        <5>9. StepTaken(J, g, h)
          BY <2>2, <2>5, <2>12, <2>13, <4>1, StepIs
        <5> QED
          BY <5>9 DEF StepTaken
      <4>4. is_sep(Back) /\ Back \in Int
        BY DEF Back, is_sep
      <4>5. Collapse(f[h], Back) = Collapse(f[h], p[s])
        BY <2>3, <4>4 DEF Collapse
      <4> QED
        BY <2>9, <2>14, <3>2, <4>2, <4>3, <4>5
    <3> QED
      BY <2>11, <3>1, <3>2
  <2>16. g[m + n] = f[s + n]
    <3>1. s + n <= Len(p) /\ m + n <= Len(J)
      BY <2>1, <2>2, <2>12
    <3>2. Alike(p, s, J, m, n)
      BY <2>12, <3>1 DEF Alike
    <3>3. J \in Seq(Int) /\ m \in Nat /\ s \in Nat /\ n \in Nat /\ f[s] = g[m]
      BY <2>2, <2>11, <2>12, <2>15
    <3> QED
      BY <2>5, <2>8, <2>13, <3>2, <3>3, RunsAgree
  <2>17. Collapsed(base, J) = Collapsed(base, p)
    BY <2>2, <2>8, <2>12, <2>13, <2>16
  <2>18. J # <<>>
    <3>1. Len(J) > 0
      BY <2>2, <2>11, <2>12
    <3> QED
      BY <3>1, EmptySeq
  <2>19. normpath(J) = Collapsed(<<>>, J) /\ normpath(p) = Collapsed(<<>>, p)
    BY <2>12, <2>18, NormpathIs
  <2> QED
    BY <2>17, <2>19, <2>20 DEF J
<1> QED
  BY <1>1, <1>2, JoinSplit

(* The last dot of a name, after its first character. *)
LEMMA LastDotIs ==
    ASSUME NEW p \in Seq(Int), NEW s \in Nat, NEW dot, dot = last_dot(p, s)
    PROVE  \/ dot = 0
           \/ /\ dot \in Nat /\ s + 2 <= dot /\ dot <= Len(p) /\ p[dot] = Dot
              /\ \A j \in Nat : dot < j /\ j <= Len(p) => p[j] # Dot
<1> DEFINE n == Len(p)
           I == {i \in (s + 2)..n : p[i] = Dot}
<1>1. n \in Nat
  BY LenProperties
<1>2. dot = IF I # {} THEN Max(I) ELSE 0
  BY DEF last_dot, SelectLastInSubSeq
<1> HIDE DEF n
<1>3. I \in SUBSET (1..n)
  BY <1>1
<1>4. CASE I = {}
  BY <1>2, <1>4
<1>5. CASE I # {}
  <2>1. dot \in I /\ \A j \in I : j <= dot
    BY <1>1, <1>2, <1>3, <1>5, GreatestPosition
  <2>2. dot \in Nat /\ s + 2 <= dot /\ dot <= n /\ p[dot] = Dot
    BY <1>1, <2>1
  <2>3. ASSUME NEW j \in Nat, dot < j, j <= n PROVE p[j] # Dot
    <3>1. j \in (s + 2)..n /\ ~(j <= dot)
      BY <1>1, <2>2, <2>3
    <3> QED
      BY <2>1, <3>1
  <2> QED
    BY <2>2, <2>3 DEF n
<1> QED
  BY <1>4, <1>5

(* splitext cuts the path in two, at the last dot of a name. *)
LEMMA SplitextIs ==
    ASSUME NEW p \in Seq(Int), NEW root, NEW ext,
           root = splitext(p)[1], ext = splitext(p)[2]
    PROVE  /\ root \o ext = p
           /\ ext # <<>> => /\ ext[1] = Dot /\ basename(root) # <<>>
                            /\ \A k \in 2..Len(ext) : ext[k] # Dot /\ ~is_sep(ext[k])
<1> DEFINE s == last_sep(p)
           dot == last_dot(p, s)
           N == Len(p)
<1>1. LastSepAt(p, s) /\ N \in Nat
  BY LastSepIs, LenProperties
<1>2. /\ dot = 0 => root = p /\ ext = <<>>
      /\ dot # 0 => root = SubSeq(p, 1, dot - 1) /\ ext = SubSeq(p, dot, N)
  BY DEF splitext
<1>3. s \in Nat
  BY <1>1 DEF LastSepAt
<1> HIDE DEF s, N
<1>4. \/ dot = 0
      \/ /\ dot \in Nat /\ s + 2 <= dot /\ dot <= N /\ p[dot] = Dot
         /\ \A j \in Nat : dot < j /\ j <= N => p[j] # Dot
  BY <1>3, LastDotIs DEF N
<1> HIDE DEF dot
<1>5. CASE dot = 0
  BY <1>2, <1>5, ConcatEmptySeq
<1>6. CASE dot # 0
  <2> DEFINE m == dot - 1
             n == N - m
  <2>1. /\ dot \in Nat /\ s + 2 <= dot /\ dot <= N /\ p[dot] = Dot
        /\ \A j \in Nat : dot < j /\ j <= N => p[j] # Dot
    BY <1>4, <1>6
  <2>2. m \in Nat /\ m + 1 = dot /\ n \in Nat /\ m + n = N /\ n >= 1 /\ s < m /\ m <= N
    BY <1>1, <1>3, <2>1
  <2>3. root = SubSeq(p, 1, m) /\ ext = SubSeq(p, m + 1, m + n)
    BY <1>2, <1>6, <2>2
  <2> HIDE DEF m, n
  <2>4. root \in Seq(Int) /\ Segment(p, 0, m, root) /\ Len(root) = m /\ \A k \in 1..m : root[k] = p[k]
    <3>1. root \in Seq(Int) /\ Segment(p, 0, m, root)
      BY <2>2, <2>3, FrontIs DEF N
    <3>2. \A k \in 1..m : 0 + k = k
      BY <2>2
    <3> QED
      BY <3>1, <3>2 DEF Segment
  <2>5. ext \in Seq(Int) /\ Segment(p, m, n, ext) /\ Len(ext) = n
    <3>1. m + n <= Len(p)
      BY <1>1, <2>2 DEF N
    <3>2. ext \in Seq(Int) /\ Segment(p, m, n, ext)
      BY <2>2, <2>3, <3>1, PieceIs
    <3> QED
      BY <3>2 DEF Segment
  <2>6. root \o ext = p
    <3>1. 1 \in 1..Len(p) + 1 /\ m \in 1 - 1..Len(p) /\ N \in m..Len(p)
      BY <1>1, <2>2 DEF N
    <3>2. SubSeq(p, 1, m) \o SubSeq(p, m + 1, N) = SubSeq(p, 1, N)
      <4> DEFINE o == 1
      <4>1. o \in 1..Len(p) + 1 /\ m \in o - 1..Len(p)
        BY <3>1
      <4> HIDE DEF o
      <4>2. SubSeq(p, o, m) \o SubSeq(p, m + 1, N) = SubSeq(p, o, N)
        BY <3>1, <4>1, ConcatAdjacentSubSeq
      <4> QED
        BY <4>2 DEF o
    <3>3. SubSeq(p, 1, N) = p
      BY SubSeqFull DEF N
    <3> QED
      BY <2>2, <2>3, <3>2, <3>3
  <2>7. ext[1] = Dot
    <3>1. ext[1] = p[m + 1]
      <4> DEFINE o == 1
      <4>1. o \in 1..n
        BY <2>2
      <4> HIDE DEF o
      <4>2. ext[o] = p[m + o]
        BY <2>5, <4>1 DEF Segment
      <4> QED
        BY <4>2 DEF o
    <3> QED
      BY <2>1, <2>2, <3>1
  <2>8. basename(root) # <<>>
    <3>1. LastSepAt(root, s)
      <4>1. s \in 0..m /\ (s > 0 => s \in 1..m)
        BY <1>3, <2>2
      <4>2. \A j \in 1..m : j \in 1..N
        BY <1>1, <2>2
      <4>3. (s > 0 => is_sep(p[s])) /\ \A j \in 1..N : j > s => ~is_sep(p[j])
        BY <1>1 DEF LastSepAt, N
      <4> QED
        BY <2>4, <4>1, <4>2, <4>3 DEF LastSepAt
    <3>2. last_sep(root) = s
      BY <2>4, <3>1, LastSepIs
    <3>3. basename(root) = SubSeq(root, s + 1, m)
      BY <2>4, <3>2 DEF basename
    <3> DEFINE r == m - s
    <3>4. r \in Nat /\ s + r = m /\ r # 0 /\ s + r <= Len(root)
      BY <1>3, <2>2, <2>4
    <3> HIDE DEF r
    <3>5. Segment(root, s, r, SubSeq(root, s + 1, s + r))
      BY <1>3, <2>4, <3>4, PieceIs
    <3>6. Len(SubSeq(root, s + 1, m)) = r
      BY <3>4, <3>5 DEF Segment
    <3> QED
      BY <3>3, <3>4, <3>6, EmptySeq
  <2>9. ASSUME NEW k \in 2..Len(ext) PROVE ext[k] # Dot /\ ~is_sep(ext[k])
    <3>1. k \in 1..n /\ m + k \in Nat /\ dot < m + k /\ m + k <= N /\ s < m + k /\ m + k \in 1..N
      BY <1>1, <1>3, <2>1, <2>2, <2>5
    <3>2. ext[k] = p[m + k]
      BY <2>5, <3>1 DEF Segment
    <3>3. p[m + k] # Dot
      BY <2>1, <3>1
    <3>4. ~is_sep(p[m + k])
      BY <1>1, <3>1 DEF LastSepAt, N
    <3> QED
      BY <3>2, <3>3, <3>4
  <2> QED
    BY <2>6, <2>7, <2>8, <2>9
<1> QED
  BY <1>5, <1>6

(* What split takes apart join puts together again, drives and roots included;
   splitext cuts at the last dot of a name that has something before it; normpath
   and abspath leave nothing to normalise, and keep the kind of path and the name
   of the file: for every path and every current directory. *)
THEOREM PathsAreConsistent == LSpec => []PathsConsistent
<1>1. WordInv => PathsConsistent
  <2> SUFFICES ASSUME WordInv, ValidPath, word # <<>> PROVE PathsConsistent
    BY DEF PathsConsistent
  <2>1. word \in Seq(Int)
    <3>1. word \in Seq(Octets) /\ Octets \subseteq Int
      BY DEF WordInv, ValidPath, Domains, Octets
    <3> QED
      BY <3>1, SeqMonotonic
  <2>2. \A k \in 1..Len(word) : word[k] = Colon => k = 2
    BY DEF ValidPath
  <2>3. Cwd \in Seq(Int) /\ isabs(Cwd) /\ Normal(Cwd)
    <3>1. Cwd \in Seq(0..255) /\ 0..255 \subseteq Int
      BY PureAssumption
    <3>2. Cwd \in Seq(Int)
      BY <3>1, SeqMonotonic
    <3> QED
      BY <3>2, PureAssumption
  <2> DEFINE root == splitext(word)[1]
             ext == splitext(word)[2]
             n == normpath(word)
             a == abspath(Cwd, word)
  <2>4. basename(word) # <<>> => normpath(join(split(word))) = n
    BY <2>1, <2>2, NormalJoined
  <2>5. /\ root \o ext = word
        /\ ext # <<>> => /\ ext[1] = Dot /\ basename(root) # <<>>
                         /\ \A k \in 2..Len(ext) : ext[k] # Dot /\ ~is_sep(ext[k])
    BY <2>1, SplitextIs
  <2>6. Normal(n) /\ (isabs(n) <=> isabs(word)) /\ basename(n) = basename(word)
    BY <2>1, NormpathIs
  <2>7. isabs(a) /\ abspath(Cwd, a) = a /\ basename(a) = basename(word)
    BY <2>1, <2>3, AbspathIs
  <2>8. isabs(n) = isabs(word)
    <3>1. isabs(n) \in BOOLEAN /\ isabs(word) \in BOOLEAN
      BY DEF isabs
    <3> QED
      BY <2>6, <3>1
  <2> HIDE DEF root, ext, n, a
  <2>9. /\ basename(word) # <<>> => normpath(join(split(word))) = n
        /\ root \o ext = word
        /\ ext # <<>> => /\ ext[1] = Dot /\ basename(root) # <<>>
                         /\ \A k \in 2..Len(ext) : ext[k] # Dot /\ ~is_sep(ext[k])
        /\ Normal(n)
        /\ isabs(n) = isabs(word) /\ basename(n) = basename(word)
        /\ isabs(a) /\ abspath(Cwd, a) = a /\ basename(a) = basename(word)
    BY <2>4, <2>5, <2>6, <2>7, <2>8
  <2> QED
    BY <2>9 DEF PathsConsistent, root, ext, n, a
<1> QED
  BY <1>1, WordsAreTexts, PTL

-----------------------------------------------------------------------------
(* quote and unquote *)

(* A hex digit has the value it was written for. *)
LEMMA HexDigitIs ==
    ASSUME NEW v \in Int, 0 <= v, v < 16
    PROVE  HexDigit(v) \in Int /\ hex_value(HexDigit(v)) = v
<1>1. CASE v < 10
  <2>1. HexDigit(v) = 48 + v
    BY <1>1 DEF HexDigit
  <2> QED
    BY <1>1, <2>1 DEF hex_value, Digit
<1>2. CASE 10 <= v
  <2>1. HexDigit(v) = 55 + v
    BY <1>2 DEF HexDigit
  <2>2. 55 + v \in 65..70 /\ ~(55 + v \in Digit) /\ ~(55 + v \in 97..102)
    BY <1>2 DEF Digit
  <2> QED
    BY <2>1, <2>2 DEF hex_value
<1> QED
  BY <1>1, <1>2

(* A character is written as itself, as an escape or, a space, as a plus sign. *)
Escaped(c, x) ==
    /\ Len(x) = 3 /\ x[1] = Percent /\ hex_value(x[2]) >= 0 /\ hex_value(x[3]) >= 0
    /\ 16 * hex_value(x[2]) + hex_value(x[3]) = c

Written(c, plus, x) ==
    \/ Len(x) = 1 /\ x[1] = Plus /\ plus /\ c = Space
    \/ Len(x) = 1 /\ x[1] = c /\ c # Percent /\ c # Plus
    \/ Escaped(c, x)

SafeSets == {{}, {SlashC}, {ColonC, SlashC}}

(* An escape has the value of the character. *)
LEMMA EscapeIs ==
    ASSUME NEW c \in Octets
    PROVE  vstr_add_pct(c) \in Seq(Int) /\ Escaped(c, vstr_add_pct(c))
<1> DEFINE h == c \div 16
           l == c % 16
           x == <<Percent, HexDigit(h), HexDigit(l)>>
<1>1. h \in Int /\ 0 <= h /\ h < 16 /\ l \in Int /\ 0 <= l /\ l < 16 /\ 16 * h + l = c
  BY DEF Octets
<1>2. vstr_add_pct(c) = x
  BY DEF vstr_add_pct
<1> HIDE DEF h, l
<1>3. /\ HexDigit(h) \in Int /\ hex_value(HexDigit(h)) = h
      /\ HexDigit(l) \in Int /\ hex_value(HexDigit(l)) = l
  BY <1>1, HexDigitIs
<1>4. Percent \in Int
  BY DEF Percent
<1>5. x \in Seq(Int) /\ Len(x) = 3 /\ x[1] = Percent /\ x[2] = HexDigit(h) /\ x[3] = HexDigit(l)
  BY <1>3, <1>4
<1> HIDE DEF x
<1> QED
  BY <1>1, <1>2, <1>3, <1>5 DEF Escaped

(* Every character is written in one of the three ways. *)
LEMMA QuoteCharIs ==
    ASSUME NEW c \in Octets, NEW safe, NEW plus
    PROVE  /\ QuoteChar(c, safe, plus) \in Seq(Int)
           /\ Len(QuoteChar(c, safe, plus)) > 0
           /\ safe \in SafeSets => Written(c, plus, QuoteChar(c, safe, plus))
<1> DEFINE x == QuoteChar(c, safe, plus)
<1>1. c \in Int /\ Plus \in Int /\ Percent # Plus
  BY DEF Octets, Plus, Percent
<1>2. ASSUME NEW d \in Int PROVE <<d>> \in Seq(Int) /\ Len(<<d>>) = 1 /\ <<d>>[1] = d
  OBVIOUS
<1>3. CASE plus /\ c = Space
  <2>1. x = <<Plus>>
    BY <1>3 DEF QuoteChar
  <2> HIDE DEF x
  <2>9. x \in Seq(Int) /\ Len(x) > 0 /\ (safe \in SafeSets => Written(c, plus, x))
    BY <1>1, <1>2, <1>3, <2>1 DEF Written
  <2> QED
    BY <2>9 DEF x
<1>4. CASE /\ ~(plus /\ c = Space)
           /\ is_unreserved(c) \/ c \in safe \/ (~plus /\ safe = {} /\ c = SlashC)
  <2>1. x = <<c>>
    BY <1>4 DEF QuoteChar
  <2>2. is_unreserved(c) => c # Percent /\ c # Plus
    BY DEF is_unreserved, Letter, Digit, Percent, Plus
  <2>3. safe \in SafeSets /\ c \in safe => c = SlashC \/ c = ColonC
    BY DEF SafeSets
  <2>4. c = SlashC \/ c = ColonC => c # Percent /\ c # Plus
    BY DEF SlashC, ColonC, Percent, Plus
  <2>5. safe \in SafeSets => c # Percent /\ c # Plus
    BY <1>4, <2>2, <2>3, <2>4
  <2> HIDE DEF x
  <2>9. x \in Seq(Int) /\ Len(x) > 0 /\ (safe \in SafeSets => Written(c, plus, x))
    BY <1>1, <1>2, <2>1, <2>5 DEF Written
  <2> QED
    BY <2>9 DEF x
<1>5. CASE /\ ~(plus /\ c = Space)
           /\ ~(is_unreserved(c) \/ c \in safe \/ (~plus /\ safe = {} /\ c = SlashC))
  <2>1. x = vstr_add_pct(c)
    BY <1>5 DEF QuoteChar
  <2>2. x \in Seq(Int) /\ Escaped(c, x)
    BY <2>1, EscapeIs
  <2> HIDE DEF x
  <2>3. Len(x) > 0
    BY <2>2 DEF Escaped
  <2>9. x \in Seq(Int) /\ Len(x) > 0 /\ (safe \in SafeSets => Written(c, plus, x))
    BY <2>2, <2>3 DEF Written
  <2> QED
    BY <2>9 DEF x
<1> QED
  BY <1>3, <1>4, <1>5

(* The text written so far. *)
Quoting(s, safe, plus, f) ==
    /\ f \in [0..Len(s) -> Seq(Int)] /\ f[0] = <<>>
    /\ \A i \in 1..Len(s) : f[i] = f[i - 1] \o QuoteChar(s[i], safe, plus)

(* Quoted writes the text character by character. *)
LEMMA QuotedIs ==
    ASSUME NEW s \in Seq(Octets), NEW safe, NEW plus
    PROVE  \E f : Quoting(s, safe, plus, f) /\ Quoted(s, safe, plus) = f[Len(s)]
<1> DEFINE M == Len(s)
           D == 0..M
           base == <<>>
           Body(f) == [n \in D |-> IF n = 0 THEN base ELSE f[n - 1] \o QuoteChar(s[n], safe, plus)]
           Eq(f) == f = Body(f)
           F == [k \in Nat |-> [x \in Seq(Int) |-> IF k \in 1..M THEN x \o QuoteChar(s[k], safe, plus) ELSE x]]
           quoted == CHOOSE f : Eq(f)
<1>1. M \in Nat
  BY LenProperties
<1>2. Quoted(s, safe, plus) = quoted[M]
  BY DEF Quoted
<1>3. base \in Seq(Int)
  BY EmptySeq
<1>4. \A k \in 1..M, x \in Seq(Int) : x \o QuoteChar(s[k], safe, plus) \in Seq(Int)
  BY ElementOfSeq, QuoteCharIs, ConcatProperties
<1>5. \A k \in 1..M : s[k] \in Octets
  BY ElementOfSeq
<1> HIDE DEF M, base
<1>6. PICK g \in [0..M -> Seq(Int)] : Recurs(g, base, F, M)
  <2>1. F \in [Nat -> [Seq(Int) -> Seq(Int)]]
    BY <1>4
  <2> HIDE DEF F
  <2> QED
    BY <1>1, <1>3, <2>1, RecursionExists
<1>7. g[0] = base /\ \A n \in 1..M : g[n] = g[n - 1] \o QuoteChar(s[n], safe, plus)
  <2>1. \A n \in 1..M : n \in Nat /\ n - 1 \in 0..M
    BY <1>1
  <2>2. \A k \in 1..M, x \in Seq(Int) : F[k][x] = x \o QuoteChar(s[k], safe, plus)
    <3> DEFINE V(x, k) == x \o QuoteChar(s[k], safe, plus)
    <3>1. F = [k \in Nat |-> [x \in Seq(Int) |-> IF k \in 1..M THEN V(x, k) ELSE x]]
      OBVIOUS
    <3>2. \A k \in 1..M : k \in Nat
      BY <1>1
    <3> HIDE DEF F, V
    <3>3. \A k \in 1..M, x \in Seq(Int) : F[k][x] = V(x, k)
      BY <3>1, <3>2
    <3> QED
      BY <3>3 DEF V
  <2> HIDE DEF F
  <2>3. ASSUME NEW n \in 1..M PROVE g[n] = g[n - 1] \o QuoteChar(s[n], safe, plus)
    <3>1. g[n] = F[n][g[n - 1]]
      BY <1>6 DEF Recurs
    <3>2. g[n - 1] \in Seq(Int)
      BY <2>1
    <3> QED
      BY <2>2, <3>1, <3>2
  <2> QED
    BY <1>6, <2>3 DEF Recurs
<1>8. Eq(g)
  <2>1. \A n \in D : n # 0 => n \in 1..M
    BY <1>1
  <2> QED
    BY <1>7, <2>1
<1>9. Eq(quoted)
  <2> HIDE DEF Eq
  <2> QED
    BY <1>8
<1> HIDE DEF quoted
<1>10. ASSUME NEW n \in D
       PROVE  quoted[n] = IF n = 0 THEN base ELSE quoted[n - 1] \o QuoteChar(s[n], safe, plus)
  <2>1. \A f : Body(f)[n] = IF n = 0 THEN base ELSE f[n - 1] \o QuoteChar(s[n], safe, plus)
    OBVIOUS
  <2>2. quoted = Body(quoted)
    BY <1>9
  <2> HIDE DEF Body
  <2> QED
    BY <2>1, <2>2
<1> HIDE DEF Eq, Body
<1>11. \A n \in D : quoted[n] = g[n]
  <2>1. \A n \in 1..M : n \in D /\ n # 0
    BY <1>1
  <2>2. \A n \in 1..M : quoted[n - 1] = g[n - 1] => quoted[n] = g[n]
    BY <1>7, <1>10, <2>1
  <2>3. quoted[0] = g[0]
    BY <1>1, <1>7, <1>10
  <2>4. SameSteps(quoted, g, M)
    BY <2>2, <2>3 DEF SameSteps
  <2> QED
    BY <1>1, <2>4, RunsEqual
<1>12. quoted[M] = g[M]
  BY <1>1, <1>11
<1>13. Quoting(s, safe, plus, g)
  BY <1>6, <1>7 DEF Quoting, M, base
<1> QED
  BY <1>2, <1>5, <1>12, <1>13 DEF M

Unquoting == [skip : Int, out : Seq(Int)]

(* The value of a hex digit is a number. *)
LEMMA HexValueIs == ASSUME NEW c \in Int PROVE hex_value(c) \in Int
<1>1. CASE c \in Digit
  <2>1. ~(c \in 65..70) /\ ~(c \in 97..102)
    BY <1>1 DEF Digit
  <2> QED
    BY <1>1, <2>1 DEF hex_value
<1>2. CASE c \in 65..70
  <2>1. ~(c \in Digit) /\ ~(c \in 97..102)
    BY <1>2 DEF Digit
  <2> QED
    BY <1>2, <2>1 DEF hex_value
<1>3. CASE c \in 97..102
  <2>1. ~(c \in Digit) /\ ~(c \in 65..70)
    BY <1>3 DEF Digit
  <2> QED
    BY <1>3, <2>1 DEF hex_value
<1>4. CASE ~(c \in Digit) /\ ~(c \in 65..70) /\ ~(c \in 97..102)
  BY <1>4 DEF hex_value
<1> QED
  BY <1>1, <1>2, <1>3, <1>4

(* So is the value of an escape. *)
LEMMA EscapeValue ==
    ASSUME NEW s \in Seq(Int), NEW i \in 1..Len(s), Escape(s, i)
    PROVE  16 * hex_value(s[i + 1]) + hex_value(s[i + 2]) \in Int
<1>1. Len(s) \in Nat
  BY LenProperties
<1>2. i + 1 \in 1..Len(s) /\ i + 2 \in 1..Len(s)
  BY <1>1 DEF Escape
<1>3. s[i + 1] \in Int /\ s[i + 2] \in Int
  BY <1>2, ElementOfSeq
<1>4. hex_value(s[i + 1]) \in Int /\ hex_value(s[i + 2]) \in Int
  BY <1>3, HexValueIs
<1>5. \A a, b \in Int : 16 * a + b \in Int
  OBVIOUS
<1> QED
  BY <1>4, <1>5

(* A step of the reader, case by case. *)
LEMMA UnquoteStepIs ==
    ASSUME NEW s \in Seq(Int), NEW plus, NEW st \in Unquoting, NEW i \in 1..Len(s)
    PROVE  /\ UnquoteStep(s, plus, st, i) \in Unquoting
           /\ Len(UnquoteStep(s, plus, st, i).out) <= Len(st.out) + 1
<1> DEFINE x == UnquoteStep(s, plus, st, i)
           Grown(y) == y \in Unquoting /\ Len(y.out) <= Len(st.out) + 1
<1> SUFFICES Grown(x)
  OBVIOUS
<1>1. st.skip \in Int /\ st.out \in Seq(Int) /\ Len(st.out) \in Nat
  BY LenProperties DEF Unquoting
<1>2. ASSUME NEW d \in Int, NEW n \in Int
      PROVE  Grown([skip |-> n, out |-> Append(st.out, d)])
  <2>1. Append(st.out, d) \in Seq(Int) /\ Len(Append(st.out, d)) = Len(st.out) + 1
    BY <1>1, AppendProperties
  <2> QED
    BY <1>1, <2>1 DEF Unquoting
<1>3. CASE st.skip > 0
  <2>1. x = [skip |-> st.skip - 1, out |-> st.out]
    BY <1>3 DEF UnquoteStep
  <2>2. Grown([skip |-> st.skip - 1, out |-> st.out])
    BY <1>1 DEF Unquoting
  <2> HIDE DEF x, Grown
  <2> QED
    BY <2>1, <2>2
<1>4. CASE ~(st.skip > 0) /\ plus /\ s[i] = Plus
  <2>1. x = [skip |-> 0, out |-> Append(st.out, Space)] /\ Space \in Int
    BY <1>4 DEF UnquoteStep, Space
  <2> HIDE DEF x, Grown
  <2> QED
    BY <1>2, <2>1
<1>5. CASE ~(st.skip > 0) /\ ~(plus /\ s[i] = Plus) /\ Escape(s, i)
  <2> DEFINE d == 16 * hex_value(s[i + 1]) + hex_value(s[i + 2])
  <2>1. d \in Int
    BY <1>5, EscapeValue
  <2>2. x = [skip |-> 2, out |-> Append(st.out, d)]
    BY <1>5 DEF UnquoteStep
  <2> HIDE DEF d
  <2> HIDE DEF x, Grown
  <2> QED
    BY <1>2, <2>1, <2>2
<1>6. CASE ~(st.skip > 0) /\ ~(plus /\ s[i] = Plus) /\ ~Escape(s, i)
  <2>1. x = [skip |-> 0, out |-> Append(st.out, s[i])]
    BY <1>6 DEF UnquoteStep
  <2>2. s[i] \in Int
    BY ElementOfSeq
  <2> HIDE DEF x, Grown
  <2> QED
    BY <1>2, <2>1, <2>2
<1> QED
  BY <1>3, <1>4, <1>5, <1>6

(* The reader after each character. *)
Reading(s, plus, f) ==
    /\ f \in [0..Len(s) -> Unquoting] /\ f[0] = [skip |-> 0, out |-> <<>>]
    /\ \A i \in 1..Len(s) : f[i] = UnquoteStep(s, plus, f[i - 1], i)

(* Unescaped reads the text character by character. *)
LEMMA UnquotedIs ==
    ASSUME NEW s \in Seq(Int), NEW plus
    PROVE  \E f : Reading(s, plus, f) /\ Unescaped(s, plus) = f[Len(s)].out
<1> DEFINE M == Len(s)
           D == 0..M
           base == [skip |-> 0, out |-> <<>>]
           Body(f) == [n \in D |-> IF n = 0 THEN base ELSE UnquoteStep(s, plus, f[n - 1], n)]
           Eq(f) == f = Body(f)
           F == [k \in Nat |-> [x \in Unquoting |-> IF k \in 1..M THEN UnquoteStep(s, plus, x, k) ELSE x]]
           read == CHOOSE f : Eq(f)
<1>1. M \in Nat
  BY LenProperties
<1>2. Unescaped(s, plus) = read[M].out
  BY DEF Unescaped
<1>3. base \in Unquoting
  BY EmptySeq DEF Unquoting
<1>4. \A k \in 1..M, x \in Unquoting : UnquoteStep(s, plus, x, k) \in Unquoting
  BY UnquoteStepIs
<1>5. \A k \in 1..M : k \in 1..Len(s)
  OBVIOUS
<1> HIDE DEF M, base
<1>6. PICK g \in [0..M -> Unquoting] : Recurs(g, base, F, M)
  <2>1. F \in [Nat -> [Unquoting -> Unquoting]]
    BY <1>4
  <2> HIDE DEF F
  <2> QED
    BY <1>1, <1>3, <2>1, RecursionExists
<1>7. g[0] = base /\ \A n \in 1..M : g[n] = UnquoteStep(s, plus, g[n - 1], n)
  <2>1. \A n \in 1..M : n \in Nat /\ n - 1 \in 0..M
    BY <1>1
  <2>2. \A k \in 1..M, x \in Unquoting : F[k][x] = UnquoteStep(s, plus, x, k)
    BY <1>1
  <2> HIDE DEF F
  <2>3. ASSUME NEW n \in 1..M PROVE g[n] = UnquoteStep(s, plus, g[n - 1], n)
    <3>1. g[n] = F[n][g[n - 1]]
      BY <1>6 DEF Recurs
    <3>2. g[n - 1] \in Unquoting
      BY <2>1
    <3> QED
      BY <2>2, <3>1, <3>2
  <2> QED
    BY <1>6, <2>3 DEF Recurs
<1>8. Eq(g)
  <2>1. \A n \in D : n # 0 => n \in 1..M
    BY <1>1
  <2> QED
    BY <1>7, <2>1
<1>9. Eq(read)
  <2> HIDE DEF Eq
  <2> QED
    BY <1>8
<1> HIDE DEF read
<1>10. ASSUME NEW n \in D
       PROVE  read[n] = IF n = 0 THEN base ELSE UnquoteStep(s, plus, read[n - 1], n)
  <2>1. \A f : Body(f)[n] = IF n = 0 THEN base ELSE UnquoteStep(s, plus, f[n - 1], n)
    OBVIOUS
  <2>2. read = Body(read)
    BY <1>9
  <2> HIDE DEF Body
  <2> QED
    BY <2>1, <2>2
<1> HIDE DEF Eq, Body
<1>11. \A n \in D : read[n] = g[n]
  <2>1. \A n \in 1..M : n \in D /\ n # 0
    BY <1>1
  <2>2. \A n \in 1..M : read[n - 1] = g[n - 1] => read[n] = g[n]
    BY <1>7, <1>10, <2>1
  <2>3. read[0] = g[0]
    BY <1>1, <1>7, <1>10
  <2>4. SameSteps(read, g, M)
    BY <2>2, <2>3 DEF SameSteps
  <2> QED
    BY <1>1, <2>4, RunsEqual
<1>12. read[M] = g[M]
  BY <1>1, <1>11
<1>13. Reading(s, plus, g)
  BY <1>6, <1>7 DEF Reading, M, base
<1> QED
  BY <1>2, <1>5, <1>12, <1>13 DEF M

(* What the reader does with the next character. *)
LEMMA ReadIs ==
    ASSUME NEW s \in Seq(Int), NEW plus, NEW f, Reading(s, plus, f),
           NEW i \in Nat, NEW k, k = i + 1, k <= Len(s)
    PROVE  /\ f[i] \in Unquoting /\ k \in 1..Len(s) /\ s[k] \in Int
           /\ f[k] = UnquoteStep(s, plus, f[i], k)
<1>1. Len(s) \in Nat
  BY LenProperties
<1>2. k \in 1..Len(s) /\ i \in 0..Len(s) /\ k - 1 = i
  BY <1>1
<1>3. s[k] \in Int
  BY <1>2, ElementOfSeq
<1>4. f[k] = UnquoteStep(s, plus, f[k - 1], k) /\ f[i] \in Unquoting
  BY <1>2 DEF Reading
<1> QED
  BY <1>2, <1>3, <1>4

(* Reading writes no more characters than there are. *)
LEMMA NotLonger ==
    ASSUME NEW s \in Seq(Int), NEW plus
    PROVE  Unescaped(s, plus) \in Seq(Int) /\ Len(Unescaped(s, plus)) <= Len(s)
<1>1. PICK f : Reading(s, plus, f) /\ Unescaped(s, plus) = f[Len(s)].out
  BY UnquotedIs
<1>2. Len(s) \in Nat
  BY LenProperties
<1>3. \A i \in 0..Len(s) : f[i] \in Unquoting /\ Len(f[i].out) \in Nat
  <2>1. \A i \in 0..Len(s) : f[i] \in Unquoting
    BY <1>1 DEF Reading
  <2>2. \A st \in Unquoting : Len(st.out) \in Nat
    BY LenProperties DEF Unquoting
  <2> QED
    BY <2>1, <2>2
<1> DEFINE T == {i \in Nat : i <= Len(s) => Len(f[i].out) <= i}
<1>4. 0 \in T
  <2>1. f[0].out = <<>>
    BY <1>1 DEF Reading
  <2>2. Len(f[0].out) = 0
    BY <2>1, EmptySeq
  <2> QED
    BY <2>2
<1>5. ASSUME NEW i \in Nat, i \in T PROVE i + 1 \in T
  <2> SUFFICES ASSUME i + 1 <= Len(s) PROVE Len(f[i + 1].out) <= i + 1
    OBVIOUS
  <2> DEFINE k == i + 1
  <2>1. k = i + 1 /\ k <= Len(s) /\ i <= Len(s) /\ k \in 0..Len(s) /\ i \in 0..Len(s)
    BY <1>2
  <2> HIDE DEF k
  <2>2. f[i] \in Unquoting /\ k \in 1..Len(s) /\ f[k] = UnquoteStep(s, plus, f[i], k)
    BY <1>1, <2>1, ReadIs
  <2>3. Len(UnquoteStep(s, plus, f[i], k).out) <= Len(f[i].out) + 1
    BY <2>2, UnquoteStepIs
  <2>4. Len(f[i].out) <= i
    BY <1>5, <2>1
  <2>5. Len(f[k].out) \in Nat /\ Len(f[i].out) \in Nat
    BY <1>3, <2>1
  <2>6. Len(f[k].out) <= i + 1
    BY <2>2, <2>3, <2>4, <2>5
  <2> QED
    BY <2>6 DEF k
<1>6. \A i \in Nat : i \in T
  <2> HIDE DEF T
  <2> QED
    BY <1>4, <1>5, SetInduction
<1>7. f[Len(s)] \in Unquoting
  BY <1>2, <1>3
<1>8. f[Len(s)].out \in Seq(Int)
  BY <1>7 DEF Unquoting
<1> QED
  BY <1>1, <1>2, <1>6, <1>8

(* A text stands in another from a position on. *)
Stands(x, s, a) == a + Len(x) <= Len(s) /\ \A k \in 1..Len(x) : s[a + k] = x[k]

(* Between two characters, with so much put out. *)
ReadyAt(st, out) == st \in Unquoting /\ st.skip = 0 /\ st.out = out

(* What was written for a character is read as the character. *)
LEMMA WrittenRead ==
    ASSUME NEW s \in Seq(Int), NEW plus, NEW f, Reading(s, plus, f),
           NEW x \in Seq(Int), NEW c \in Int, Written(c, plus, x),
           NEW a \in Nat, Stands(x, s, a), NEW out, ReadyAt(f[a], out)
    PROVE  ReadyAt(f[a + Len(x)], Append(out, c))
<1> DEFINE b == a + 1
           n == Len(s)
<1>1. n \in Nat /\ Len(x) \in Nat /\ a + Len(x) <= n /\ Len(x) >= 1
  BY LenProperties DEF Stands, Written, Escaped
<1>2. b = a + 1 /\ b <= n /\ b \in Nat
  BY <1>1
<1> HIDE DEF b, n
<1>3. /\ f[a] \in Unquoting /\ b \in 1..n /\ s[b] \in Int
      /\ f[b] = UnquoteStep(s, plus, f[a], b)
  BY <1>2, ReadIs DEF n
<1>4. f[a].skip = 0 /\ f[a].out = out /\ ~(f[a].skip > 0) /\ f[b] \in Unquoting
  <2>1. UnquoteStep(s, plus, f[a], b) \in Unquoting
    BY <1>3, UnquoteStepIs DEF n
  <2> QED
    BY <1>3, <2>1 DEF ReadyAt
<1>5. s[b] = x[1]
  <2>1. 1 \in 1..Len(x)
    BY <1>1
  <2> QED
    BY <1>2, <2>1 DEF Stands
<1>6. CASE Len(x) = 1 /\ x[1] = Plus /\ plus /\ c = Space
  <2>1. f[b] = [skip |-> 0, out |-> Append(f[a].out, Space)]
    BY <1>3, <1>4, <1>5, <1>6 DEF UnquoteStep
  <2>2. f[b].skip = 0 /\ f[b].out = Append(out, c)
    BY <1>4, <1>6, <2>1
  <2>3. a + Len(x) = b
    BY <1>2, <1>6
  <2> QED
    BY <1>4, <2>2, <2>3 DEF ReadyAt
<1>7. CASE Len(x) = 1 /\ x[1] = c /\ c # Percent /\ c # Plus
  <2>1. ~Escape(s, b) /\ s[b] # Plus /\ s[b] = c
    BY <1>5, <1>7 DEF Escape
  <2>2. f[b] = [skip |-> 0, out |-> Append(f[a].out, s[b])]
    BY <1>3, <1>4, <2>1 DEF UnquoteStep
  <2>3. f[b].skip = 0 /\ f[b].out = Append(out, c)
    BY <1>4, <2>1, <2>2
  <2>4. a + Len(x) = b
    BY <1>2, <1>7
  <2> QED
    BY <1>4, <2>3, <2>4 DEF ReadyAt
<1>8. CASE Escaped(c, x)
  <2> DEFINE d == a + 2
             e == a + 3
  <2>1. /\ Len(x) = 3 /\ x[1] = Percent /\ hex_value(x[2]) >= 0 /\ hex_value(x[3]) >= 0
        /\ 16 * hex_value(x[2]) + hex_value(x[3]) = c
    BY <1>8 DEF Escaped
  <2>2. d = b + 1 /\ e = d + 1 /\ e = b + 2 /\ d <= n /\ e <= n /\ a + Len(x) = e /\ d \in Nat
    BY <1>1, <1>2, <2>1
  <2>3. s[d] = x[2] /\ s[e] = x[3]
    <3>1. 2 \in 1..Len(x) /\ 3 \in 1..Len(x)
      BY <2>1
    <3> QED
      BY <3>1 DEF Stands
  <2> HIDE DEF d, e
  <2>4. Escape(s, b) /\ s[b] # Plus
    <3>1. s[b + 1] = x[2] /\ s[b + 2] = x[3] /\ b + 2 <= n
      BY <2>2, <2>3
    <3>2. Percent # Plus
      BY DEF Percent, Plus
    <3> QED
      BY <1>5, <2>1, <3>1, <3>2 DEF Escape, n
  <2>5. /\ f[b] = [skip |-> 2, out |-> Append(f[a].out, 16 * hex_value(s[b + 1]) + hex_value(s[b + 2]))]
        /\ s[b + 1] = x[2] /\ s[b + 2] = x[3]
    BY <1>3, <1>4, <2>2, <2>3, <2>4 DEF UnquoteStep
  <2>6. f[b].skip = 2 /\ f[b].out = Append(out, c)
    BY <1>4, <2>1, <2>5
  <2>7. f[b] \in Unquoting /\ d \in 1..n /\ f[d] = UnquoteStep(s, plus, f[b], d)
    BY <1>2, <2>2, ReadIs DEF n
  <2>8. f[d] = [skip |-> f[b].skip - 1, out |-> f[b].out]
    BY <2>6, <2>7 DEF UnquoteStep
  <2>9. f[d].skip = 1 /\ f[d].out = Append(out, c)
    BY <2>6, <2>8
  <2>10. f[d] \in Unquoting /\ e \in 1..n /\ f[e] = UnquoteStep(s, plus, f[d], e)
    BY <2>2, ReadIs DEF n
  <2>11. f[e] = [skip |-> f[d].skip - 1, out |-> f[d].out]
    BY <2>9, <2>10 DEF UnquoteStep
  <2>12. f[e].skip = 0 /\ f[e].out = Append(out, c)
    BY <2>9, <2>11
  <2>13. f[e] \in Unquoting
    <3>1. UnquoteStep(s, plus, f[d], e) \in Unquoting
      BY <2>10, UnquoteStepIs DEF n
    <3> QED
      BY <2>10, <3>1
  <2> QED
    BY <2>2, <2>12, <2>13 DEF ReadyAt
<1> QED
  BY <1>6, <1>7, <1>8 DEF Written

(* The text after one more character. *)
QuotedAt(s, safe, plus, f, i, k) ==
    /\ f[i] \in Seq(Int) /\ f[k] \in Seq(Int) /\ s[k] \in Octets
    /\ QuoteChar(s[k], safe, plus) \in Seq(Int)
    /\ f[k] = f[i] \o QuoteChar(s[k], safe, plus)

LEMMA QuotedStep ==
    ASSUME NEW s \in Seq(Octets), NEW safe, NEW plus, NEW f, Quoting(s, safe, plus, f),
           NEW i \in Nat, i < Len(s)
    PROVE  QuotedAt(s, safe, plus, f, i, i + 1)
<1> DEFINE k == i + 1
<1>1. Len(s) \in Nat
  BY LenProperties
<1>2. k \in 1..Len(s) /\ i \in 0..Len(s) /\ k \in 0..Len(s) /\ k - 1 = i
  BY <1>1
<1>3. s[k] \in Octets
  BY <1>2, ElementOfSeq
<1>4. f[i] \in Seq(Int) /\ f[k] \in Seq(Int) /\ f[k] = f[k - 1] \o QuoteChar(s[k], safe, plus)
  BY <1>2 DEF Quoting
<1>5. QuoteChar(s[k], safe, plus) \in Seq(Int)
  BY <1>3, QuoteCharIs
<1> HIDE DEF k
<1>6. QuotedAt(s, safe, plus, f, i, k)
  BY <1>2, <1>3, <1>4, <1>5 DEF QuotedAt
<1> QED
  BY <1>6 DEF k

(* What is written stays. *)
LEMMA QuotedKept ==
    ASSUME NEW s \in Seq(Octets), NEW safe, NEW plus, NEW f, Quoting(s, safe, plus, f),
           NEW i \in Nat, NEW n \in Nat, i + n <= Len(s)
    PROVE  Begins(f[i], f[i + n])
<1> DEFINE T == {t \in Nat : t <= n => Begins(f[i], f[i + t])}
<1>0. Len(s) \in Nat
  BY LenProperties
<1>1. \A j \in Nat : j <= Len(s) => f[j] \in Seq(Int)
  <2>1. f \in [0..Len(s) -> Seq(Int)]
    BY DEF Quoting
  <2>2. \A j \in Nat : j <= Len(s) => j \in 0..Len(s)
    BY <1>0
  <2> QED
    BY <2>1, <2>2
<1>2. f[i] \in Seq(Int)
  BY <1>0, <1>1
<1>3. 0 \in T
  <2>1. Begins(f[i], f[i])
    BY <1>2, LenProperties DEF Begins
  <2>2. i + 0 = i
    OBVIOUS
  <2> QED
    BY <2>1, <2>2
<1>4. ASSUME NEW t \in Nat, t \in T PROVE t + 1 \in T
  <2> SUFFICES ASSUME t + 1 <= n PROVE Begins(f[i], f[i + (t + 1)])
    OBVIOUS
  <2> DEFINE j == i + t
             k == j + 1
  <2>1. j \in Nat /\ k = j + 1 /\ j < Len(s) /\ i + (t + 1) = k /\ t <= n
    BY <1>0
  <2>2. Begins(f[i], f[j])
    BY <1>4, <2>1
  <2>6. QuotedAt(s, safe, plus, f, j, k)
    BY <2>1, QuotedStep
  <2> HIDE DEF k, j
  <2>3. /\ f[j] \in Seq(Int) /\ f[k] \in Seq(Int)
        /\ QuoteChar(s[k], safe, plus) \in Seq(Int) /\ f[k] = f[j] \o QuoteChar(s[k], safe, plus)
    BY <2>6 DEF QuotedAt
  <2>4. Begins(f[j], f[k])
    <3> DEFINE x == QuoteChar(s[k], safe, plus)
               u == f[j]
    <3>1. u \in Seq(Int) /\ x \in Seq(Int) /\ f[k] = u \o x
      BY <2>3
    <3> HIDE DEF x, u
    <3>2. Len(u) \in Nat /\ Len(x) \in Nat
      BY <3>1, LenProperties
    <3>3. /\ Len(u \o x) = Len(u) + Len(x)
          /\ \A m \in 1..Len(u) + Len(x) : (u \o x)[m] = IF m <= Len(u) THEN u[m] ELSE x[m - Len(u)]
      BY <3>1, ConcatProperties
    <3>4. Begins(u, u \o x)
      BY <3>2, <3>3 DEF Begins
    <3> QED
      BY <3>1, <3>4 DEF u
  <2>5. Begins(f[i], f[k])
    BY <1>2, <2>2, <2>3, <2>4, BeginsOn
  <2> QED
    BY <2>1, <2>5
<1>5. \A t \in Nat : t \in T
  <2> HIDE DEF T
  <2> QED
    BY <1>3, <1>4, SetInduction
<1>6. n <= n
  OBVIOUS
<1> QED
  BY <1>5, <1>6

(* A written character stands in the text it was written to. *)
LEMMA WrittenStands ==
    ASSUME NEW u \in Seq(Int), NEW x \in Seq(Int), NEW s \in Seq(Int), Begins(u \o x, s)
    PROVE  Stands(x, s, Len(u)) /\ Len(u \o x) = Len(u) + Len(x)
<1>1. Len(u) \in Nat /\ Len(x) \in Nat
  BY LenProperties
<1>2. /\ Len(u \o x) = Len(u) + Len(x)
      /\ \A m \in 1..Len(u) + Len(x) : (u \o x)[m] = IF m <= Len(u) THEN u[m] ELSE x[m - Len(u)]
  BY ConcatProperties
<1>3. ASSUME NEW k \in 1..Len(x) PROVE s[Len(u) + k] = x[k]
  <2> DEFINE m == Len(u) + k
  <2>1. m \in 1..Len(u) + Len(x) /\ ~(m <= Len(u)) /\ m - Len(u) = k
    BY <1>1
  <2> HIDE DEF m
  <2>2. (u \o x)[m] = x[k]
    BY <1>2, <2>1
  <2>3. s[m] = (u \o x)[m]
    BY <1>2, <2>1 DEF Begins
  <2> QED
    BY <2>2, <2>3 DEF m
<1>4. Len(u) + Len(x) <= Len(s)
  BY <1>2 DEF Begins
<1> QED
  BY <1>2, <1>3, <1>4 DEF Stands

(* unquote undoes quote. *)
LEMMA QuoteRead ==
    ASSUME NEW w \in Seq(Octets), NEW safe \in SafeSets, NEW plus
    PROVE  /\ Unescaped(Quoted(w, safe, plus), plus) = w
           /\ Quoted(w, safe, plus) \in Seq(Int)
<1> DEFINE Q == Quoted(w, safe, plus)
           N == Len(w)
<1>1. PICK q : Quoting(w, safe, plus, q) /\ Q = q[Len(w)]
  BY QuotedIs
<1>2. N \in Nat
  BY LenProperties
<1>3. \A i \in Nat : i <= N => q[i] \in Seq(Int) /\ Begins(q[i], Q)
  <2>1. q \in [0..N -> Seq(Int)]
    BY <1>1 DEF Quoting
  <2>2. ASSUME NEW i \in Nat, i <= N PROVE q[i] \in Seq(Int) /\ Begins(q[i], Q)
    <3> DEFINE n == N - i
    <3>1. n \in Nat /\ i + n = N /\ i + n <= Len(w) /\ i \in 0..N
      BY <1>2, <2>2
    <3> HIDE DEF n
    <3>2. Begins(q[i], q[i + n])
      BY <1>1, <3>1, QuotedKept
    <3> QED
      BY <1>1, <2>1, <3>1, <3>2
  <2> QED
    BY <2>2
<1>4. Q \in Seq(Int)
  BY <1>1, <1>2, <1>3
<1> HIDE DEF Q
<1>5. PICK f : Reading(Q, plus, f) /\ Unescaped(Q, plus) = f[Len(Q)].out
  BY <1>4, UnquotedIs
<1> DEFINE T == {i \in Nat : i <= N => ReadyAt(f[Len(q[i])], SubSeq(w, 1, i))}
<1>6. 0 \in T
  <2>1. Len(q[0]) = 0 /\ SubSeq(w, 1, 0) = <<>>
    BY <1>1, EmptySeq, SubSeqEmpty DEF Quoting
  <2>2. f[0] = [skip |-> 0, out |-> <<>>] /\ f[0] \in Unquoting
    <3>1. 0 \in 0..Len(Q)
      BY <1>4, LenProperties
    <3> QED
      BY <1>5, <3>1 DEF Reading
  <2>3. ReadyAt(f[0], <<>>)
    BY <2>2 DEF ReadyAt
  <2> QED
    BY <2>1, <2>3
<1>7. ASSUME NEW i \in Nat, i \in T PROVE i + 1 \in T
  <2> SUFFICES ASSUME i + 1 <= N PROVE ReadyAt(f[Len(q[i + 1])], SubSeq(w, 1, i + 1))
    OBVIOUS
  <2> DEFINE k == i + 1
             x == QuoteChar(w[k], safe, plus)
             a == Len(q[i])
             out == SubSeq(w, 1, i)
  <2>1. k = i + 1 /\ k <= N /\ i <= N /\ i < N /\ k \in Nat
    BY <1>2
  <2>2. ReadyAt(f[a], out)
    BY <1>7, <2>1
  <2>3. Append(out, w[k]) = SubSeq(w, 1, k)
    BY <2>1, SubSeqGrows
  <2>11. QuotedAt(w, safe, plus, q, i, k)
    BY <1>1, <2>1, QuotedStep
  <2> HIDE DEF k
  <2>4. q[i] \in Seq(Int) /\ w[k] \in Octets /\ x \in Seq(Int) /\ q[k] = q[i] \o x
    BY <2>11 DEF QuotedAt
  <2>5. Written(w[k], plus, x) /\ w[k] \in Int
    BY <2>4, QuoteCharIs DEF Octets
  <2>6. a \in Nat
    BY <2>4, LenProperties
  <2> HIDE DEF x
  <2>7. Begins(q[i] \o x, Q)
    BY <1>3, <2>1, <2>4
  <2>8. Stands(x, Q, a) /\ Len(q[k]) = a + Len(x)
    BY <1>4, <2>4, <2>7, WrittenStands
  <2> HIDE DEF out, a
  <2>9. ReadyAt(f[a + Len(x)], Append(out, w[k]))
    BY <1>4, <1>5, <2>2, <2>4, <2>5, <2>6, <2>8, WrittenRead
  <2>10. ReadyAt(f[Len(q[k])], SubSeq(w, 1, k))
    BY <2>3, <2>8, <2>9
  <2> QED
    BY <2>10 DEF k
<1>8. \A i \in Nat : i \in T
  <2> HIDE DEF T
  <2> QED
    BY <1>6, <1>7, SetInduction
<1>9. ReadyAt(f[Len(q[N])], SubSeq(w, 1, N))
  BY <1>2, <1>8
<1>10. SubSeq(w, 1, N) = w
  BY SubSeqFull
<1>11. f[Len(Q)].out = w
  BY <1>1, <1>9, <1>10 DEF ReadyAt
<1> QED
  BY <1>4, <1>5, <1>11 DEF Q

-----------------------------------------------------------------------------
(* urlsplit *)

(* The least member of a set of positions. *)
LEMMA LeastPosition ==
    ASSUME NEW I \in SUBSET Nat, I # {}
    PROVE  Min(I) \in I /\ \A j \in I : Min(I) <= j
<1>1. PICK i \in I : \A j \in I : i <= j
  BY LeastNumber
<1> QED
  BY <1>1 DEF Min

(* The first position that holds one of the characters. *)
FoundAt(s, i, chars, m) ==
    /\ m \in Nat /\ i <= m /\ m <= Len(s) + 1
    /\ m <= Len(s) => s[m] \in chars
    /\ \A k \in Nat : i <= k /\ k < m => s[k] \notin chars

LEMMA FindIs ==
    ASSUME NEW s \in Seq(Int), NEW i \in Nat, i <= Len(s) + 1, NEW chars
    PROVE  FoundAt(s, i, chars, Find(s, i, chars))
<1> DEFINE n == Len(s)
           I == {k \in i..n : s[k] \in chars} \cup {n + 1}
           m == Find(s, i, chars)
<1>1. n \in Nat
  BY LenProperties
<1>2. m = Min(I)
  BY DEF Find
<1> HIDE DEF n
<1>3. I \in SUBSET Nat /\ I # {}
  BY <1>1
<1>4. Min(I) \in I /\ \A j \in I : Min(I) <= j
  <2> HIDE DEF I
  <2> QED
    BY <1>3, LeastPosition
<1>5. m \in I /\ \A j \in I : m <= j
  BY <1>2, <1>4
<1> HIDE DEF m
<1>6. m \in Nat /\ i <= m /\ m <= n + 1 /\ (m <= n => s[m] \in chars)
  BY <1>1, <1>5 DEF n
<1>7. ASSUME NEW k \in Nat, i <= k, k < m PROVE s[k] \notin chars
  <2>1. k \in i..n /\ ~(m <= k)
    BY <1>1, <1>6, <1>7
  <2> QED
    BY <1>5, <2>1
<1> QED
  BY <1>6, <1>7 DEF FoundAt, n, m

(* The colon after the scheme is the first colon. *)
LEMMA SchemeEndIs ==
    ASSUME NEW u \in Seq(Int)
    PROVE  \/ SchemeEnd(u) = 0
           \/ /\ SchemeEnd(u) \in Nat /\ 2 <= SchemeEnd(u) /\ SchemeEnd(u) <= Len(u)
              /\ u[SchemeEnd(u)] = ColonC
              /\ \A k \in Nat : 1 <= k /\ k < SchemeEnd(u) => u[k] # ColonC
<1> DEFINE n == Len(u)
           Good == Letter \cup Digit \cup {43, 45, 46}
           I == {k \in 2..n : u[k] \notin Good} \cup {n + 1}
           stop == Min(I)
           e == SchemeEnd(u)
<1>1. n \in Nat
  BY LenProperties
<1>2. e = 0 \/ (u # <<>> /\ u[1] \in Letter /\ e = stop /\ stop <= n /\ u[stop] = ColonC)
  BY DEF SchemeEnd
<1>3. ColonC \notin Good /\ ColonC \notin Letter
  BY DEF ColonC, Letter, Digit
<1> HIDE DEF n, e, Good
<1>4. CASE e = 0
  BY <1>4 DEF e
<1>5. CASE u # <<>> /\ u[1] \in Letter /\ e = stop /\ stop <= n /\ u[stop] = ColonC
  <2>1. n > 0
    BY <1>1, <1>5, EmptySeq DEF n
  <2>2. I \in SUBSET Nat /\ I # {} /\ \A j \in I : 2 <= j
    BY <1>1, <2>1
  <2>3. Min(I) \in I /\ \A j \in I : Min(I) <= j
    <3> HIDE DEF I
    <3> QED
      BY <2>2, LeastPosition
  <2>4. e \in I /\ e \in Nat /\ 2 <= e /\ e <= n /\ \A j \in I : e <= j
    BY <1>5, <2>2, <2>3
  <2> HIDE DEF stop
  <2>5. ASSUME NEW k \in Nat, 1 <= k, k < e PROVE u[k] # ColonC
    <3>1. CASE k = 1
      BY <1>3, <1>5, <3>1
    <3>2. CASE k # 1
      <4>1. k \in 2..n /\ ~(e <= k)
        BY <1>1, <2>4, <2>5, <3>2
      <4>2. u[k] \in Good
        BY <2>4, <4>1
      <4> QED
        BY <1>3, <4>2
    <3> QED
      BY <3>1, <3>2
  <2>6. u[e] = ColonC
    BY <1>5
  <2> QED
    BY <2>4, <2>5, <2>6 DEF e, n
<1> QED
  BY <1>2, <1>4, <1>5

(* A piece that misses some characters. *)
Misses(s, a, b, chars) == \A k \in Nat : a <= k /\ k <= b => s[k] \notin chars

LEMMA PieceMisses ==
    ASSUME NEW s \in Seq(Int), NEW a \in Nat, 1 <= a, NEW b \in Int, b <= Len(s), NEW chars,
           Misses(s, a, b, chars)
    PROVE  SubSeq(s, a, b) \in Seq(Int) /\ ToSet(SubSeq(s, a, b)) \cap chars = {}
<1> DEFINE x == SubSeq(s, a, b)
<1>1. Len(s) \in Nat
  BY LenProperties
<1>2. \A k \in a..b : k \in 1..Len(s) /\ k \in Nat /\ a <= k /\ k <= b
  BY <1>1
<1>3. \A k \in a..b : s[k] \in Int
  BY <1>2, ElementOfSeq
<1>4. /\ x \in Seq(Int) /\ Len(x) = IF a <= b THEN b - a + 1 ELSE 0
      /\ \A i \in 1..(b - a + 1) : x[i] = s[a + i - 1]
  BY <1>3, SubSeqProperties
<1> HIDE DEF x
<1>5. DOMAIN x = 1..Len(x)
  BY <1>4, LenProperties
<1>6. ASSUME NEW i \in 1..Len(x) PROVE x[i] \notin chars
  <2> DEFINE k == a + i - 1
  <2>1. i \in 1..(b - a + 1) /\ k \in Nat /\ a <= k /\ k <= b
    BY <1>4
  <2> HIDE DEF k
  <2>2. s[k] \notin chars
    BY <2>1 DEF Misses
  <2>3. x[i] = s[k]
    BY <1>4, <2>1 DEF k
  <2> QED
    BY <2>2, <2>3
<1>7. ToSet(x) \cap chars = {}
  BY <1>5, <1>6 DEF ToSet
<1> QED
  BY <1>4, <1>7 DEF x

LEMMA Associates ==
    ASSUME NEW a \in Seq(Int), NEW b \in Seq(Int), NEW c \in Seq(Int)
    PROVE  Grouped(a, b, c) /\ a \o b \in Seq(Int)
<1> DEFINE S == Int
<1>1. a \in Seq(S) /\ b \in Seq(S) /\ c \in Seq(S)
  OBVIOUS
<1>2. a \o b \in Seq(Int)
  BY ConcatProperties
<1> HIDE DEF S
<1>3. Grouped(a, b, c)
  BY <1>1, ConcatGrouped
<1> QED
  BY <1>2, <1>3

(* Adjacent pieces, and a piece by its first character. *)
LEMMA PiecesJoin ==
    ASSUME NEW s \in Seq(Int), NEW a \in Nat, NEW b \in Nat, 1 <= a, a <= b, b <= Len(s) + 1
    PROVE  SubSeq(s, 1, a - 1) \o SubSeq(s, a, b - 1) = SubSeq(s, 1, b - 1)
<1> DEFINE k == a - 1
           n == b - 1
           i == 1
<1>1. Len(s) \in Nat
  BY LenProperties
<1>2. i \in 1..Len(s) + 1 /\ k \in i - 1..Len(s) /\ n \in k..Len(s) /\ k + 1 = a
  BY <1>1
<1>3. i = 1
  OBVIOUS
<1> HIDE DEF i, k, n
<1>4. SubSeq(s, i, k) \o SubSeq(s, k + 1, n) = SubSeq(s, i, n)
  BY <1>2, ConcatAdjacentSubSeq
<1> QED
  BY <1>2, <1>3, <1>4 DEF k, n

LEMMA PieceOpens ==
    ASSUME NEW s \in Seq(Int), NEW a \in Nat, NEW b \in Nat, 1 <= a, a <= b, b <= Len(s)
    PROVE  SubSeq(s, a, b) = <<s[a]>> \o SubSeq(s, a + 1, b) /\ s[a] \in Int
<1>1. a \in 1..Len(s) /\ b \in a..Len(s)
  BY LenProperties
<1> QED
  BY <1>1, SubSeqRecursiveFirst, ElementOfSeq

(* A piece of a text is a text. *)
LEMMA PieceText ==
    ASSUME NEW s \in Seq(Int), NEW a \in Nat, 1 <= a, NEW b \in Int, b <= Len(s)
    PROVE  SubSeq(s, a, b) \in Seq(Int)
<1>1. \A k \in Nat : a <= k /\ k <= b => s[k] \notin {}
  OBVIOUS
<1> QED
  BY <1>1, PieceMisses DEF Misses

(* The URL is its scheme, its authority, its path, its query and its fragment,
   each with its mark. *)
PartsAre(M0, M1, netloc, path, M2, query, M3, frag) ==
    (((M0 \o (M1 \o netloc)) \o path) \o (M2 \o query)) \o (M3 \o frag)
       = M0 \o M1 \o netloc \o path \o M2 \o query \o M3 \o frag

(* The parts and their marks can be put together in any order of brackets. *)
LEMMA UrlWhole ==
    ASSUME NEW M0 \in Seq(Int), NEW M1 \in Seq(Int), NEW netloc \in Seq(Int), NEW path \in Seq(Int),
           NEW M2 \in Seq(Int), NEW query \in Seq(Int), NEW M3 \in Seq(Int), NEW frag \in Seq(Int)
    PROVE  PartsAre(M0, M1, netloc, path, M2, query, M3, frag)
<1> DEFINE A == ((M0 \o M1) \o netloc) \o path
           B == (A \o M2) \o query
<1>1. Grouped(M0, M1, netloc) /\ M0 \o M1 \in Seq(Int)
  BY Associates
<1>2. (M0 \o M1) \o netloc \in Seq(Int)
  BY <1>1, Associates
<1>3. A \in Seq(Int)
  BY <1>2, Associates
<1> HIDE DEF A
<1>4. Grouped(A, M2, query) /\ A \o M2 \in Seq(Int)
  BY <1>3, Associates
<1>5. B \in Seq(Int)
  BY <1>4, Associates
<1> HIDE DEF B
<1>6. Grouped(B, M3, frag)
  BY <1>5, Associates
<1> QED
  BY <1>1, <1>4, <1>6 DEF A, B, Grouped, PartsAre

SplitRight(u) ==
    LET p == urlsplit(u)
    IN  /\ \E auth, query, frag \in BOOLEAN :
              u = Mark(p.scheme # <<>>, Append(p.scheme, ColonC))
                  \o Mark(auth, <<SlashC, SlashC>>) \o p.netloc \o p.path
                  \o Mark(query, <<Query>>) \o p.query
                  \o Mark(frag, <<Hash>>) \o p.fragment
        /\ ToSet(p.netloc) \cap {SlashC, Query, Hash} = {}
        /\ ToSet(p.path) \cap {Query, Hash} = {}
        /\ Hash \notin ToSet(p.query) /\ ColonC \notin ToSet(p.scheme)

(* The parts with their marks are the URL, and no part has a mark that ends it. *)
LEMMA UrlSplitIs ==
    ASSUME NEW u \in Seq(Int)
    PROVE  SplitRight(u)
<1> DEFINE n == Len(u)
           colon == SchemeEnd(u)
           after == colon + 1
           auth == after + 1 <= n /\ u[after] = SlashC /\ u[after + 1] = SlashC
           path0 == IF auth THEN NetlocEnd(u, after + 2) ELSE after
           path1 == Find(u, path0, {Query, Hash})
           query == path1 <= n /\ u[path1] = Query
           query1 == IF query THEN Find(u, path1 + 1, {Hash}) ELSE path1
           p == urlsplit(u)
<1>1. n \in Nat
  BY LenProperties
<1>2. /\ p.scheme = SubSeq(u, 1, colon - 1)
      /\ p.netloc = IF auth THEN SubSeq(u, after + 2, path0 - 1) ELSE <<>>
      /\ p.path = SubSeq(u, path0, path1 - 1)
      /\ p.query = IF query THEN SubSeq(u, path1 + 1, query1 - 1) ELSE <<>>
      /\ p.fragment = SubSeq(u, query1 + 1, n)
  BY DEF urlsplit
<1>3. \/ colon = 0
      \/ /\ colon \in Nat /\ 2 <= colon /\ colon <= n /\ u[colon] = ColonC
         /\ \A k \in Nat : 1 <= k /\ k < colon => u[k] # ColonC
  BY SchemeEndIs
<1>4. ~auth => path0 = after
  OBVIOUS
<1>5. auth => path0 = Find(u, after + 2, {SlashC, Query, Hash})
  BY DEF NetlocEnd
<1>6. path1 = Find(u, path0, {Query, Hash})
  OBVIOUS
<1>7. (query <=> path1 <= n /\ u[path1] = Query) /\ (auth => after + 1 <= n /\ u[after] = SlashC /\ u[after + 1] = SlashC)
  OBVIOUS
<1>8. (query => query1 = Find(u, path1 + 1, {Hash})) /\ (~query => query1 = path1)
  OBVIOUS
<1>9. after = colon + 1
  OBVIOUS
<1> HIDE DEF n, colon, after, auth, path0, path1, query, query1, p
<1>10. after \in Nat /\ 1 <= after /\ after <= n + 1 /\ colon \in Nat /\ after - 1 = colon /\ colon <= n
  BY <1>1, <1>3, <1>9
<1>11. auth => FoundAt(u, after + 2, {SlashC, Query, Hash}, path0)
  <2>1. auth => after + 2 \in Nat /\ after + 2 <= n + 1
    BY <1>1, <1>7, <1>10
  <2> QED
    BY <1>5, <2>1, FindIs DEF n
<1>12. path0 \in Nat /\ after <= path0 /\ path0 <= n + 1 /\ (auth => after + 2 <= path0)
  BY <1>4, <1>10, <1>11 DEF FoundAt, n
<1>13. FoundAt(u, path0, {Query, Hash}, path1)
  BY <1>6, <1>12, FindIs DEF n
<1>14. path1 \in Nat /\ path0 <= path1 /\ path1 <= n + 1 /\ (path1 <= n => u[path1] = Query \/ u[path1] = Hash)
  BY <1>13 DEF FoundAt, n
<1>15. query => FoundAt(u, path1 + 1, {Hash}, query1)
  <2>1. query => path1 + 1 \in Nat /\ path1 + 1 <= n + 1
    BY <1>1, <1>7, <1>14
  <2> QED
    BY <1>8, <2>1, FindIs DEF n
<1>16. query1 \in Nat /\ path1 <= query1 /\ query1 <= n + 1 /\ (query1 <= n => u[query1] = Hash) /\ (query => path1 + 1 <= query1)
  <2>1. CASE query
    BY <1>14, <1>15, <2>1 DEF FoundAt, n
  <2>2. CASE ~query
    BY <1>7, <1>8, <1>14, <2>2
  <2> QED
    BY <2>1, <2>2
<1> DEFINE M0 == Mark(p.scheme # <<>>, Append(p.scheme, ColonC))
           M1 == IF auth THEN <<SlashC, SlashC>> ELSE <<>>
           M2 == IF query THEN <<Query>> ELSE <<>>
           M3 == IF query1 <= n THEN <<Hash>> ELSE <<>>
<1>17. SlashC \in Int /\ Query \in Int /\ Hash \in Int /\ ColonC \in Int
  BY DEF SlashC, Query, Hash, ColonC
<1>18. p.scheme \in Seq(Int) /\ M0 \in Seq(Int) /\ M0 = SubSeq(u, 1, colon) /\ ColonC \notin ToSet(p.scheme)
  <2>1. p.scheme \in Seq(Int) /\ ToSet(p.scheme) \cap {ColonC} = {}
    <3>1. colon - 1 \in Int /\ colon - 1 <= Len(u)
      BY <1>10 DEF n
    <3>2. Misses(u, 1, colon - 1, {ColonC})
      BY <1>3, <1>10 DEF Misses
    <3> QED
      BY <1>2, <3>1, <3>2, PieceMisses
  <2>2. CASE colon = 0
    <3>1. SubSeq(u, 1, colon) = <<>> /\ p.scheme = <<>>
      BY <1>2, <2>2, SubSeqEmpty
    <3>2. M0 = <<>> /\ <<>> \in Seq(Int)
      BY <3>1, EmptySeq DEF Mark
    <3> QED
      BY <2>1, <3>1, <3>2
  <2>3. CASE colon # 0
    <3> DEFINE m == colon - 1
    <3>1. m \in Nat /\ m + 1 = colon /\ m < Len(u) /\ m >= 1
      BY <1>1, <1>3, <2>3 DEF n
    <3>2. p.scheme = SubSeq(u, 1, m) /\ u[colon] = ColonC
      BY <1>2, <1>3, <2>3
    <3> HIDE DEF m
    <3>3. Append(SubSeq(u, 1, m), u[m + 1]) = SubSeq(u, 1, m + 1)
      BY <3>1, SubSeqGrows
    <3>4. Append(p.scheme, ColonC) = SubSeq(u, 1, colon)
      BY <3>1, <3>2, <3>3
    <3>5. p.scheme # <<>>
      <4>1. Segment(u, 0, m, SubSeq(u, 1, m))
        BY <3>1, FrontIs
      <4>2. Len(p.scheme) = m
        BY <3>2, <4>1 DEF Segment
      <4> QED
        BY <3>1, <4>2, EmptySeq
    <3>6. M0 = Append(p.scheme, ColonC)
      BY <3>5 DEF Mark
    <3>7. Append(p.scheme, ColonC) \in Seq(Int)
      BY <1>17, <2>1, AppendProperties
    <3> QED
      BY <2>1, <3>4, <3>6, <3>7
  <2> QED
    BY <2>2, <2>3
<1>19. /\ p.netloc \in Seq(Int) /\ M1 \in Seq(Int) /\ M1 \o p.netloc = SubSeq(u, after, path0 - 1)
       /\ ToSet(p.netloc) \cap {SlashC, Query, Hash} = {}
  <2>1. CASE auth
    <3> DEFINE a == after + 1
               b == path0 - 1
    <3>1. a \in Nat /\ 1 <= a /\ a = after + 1 /\ after + 2 = a + 1 /\ b \in Nat /\ a <= b /\ b <= n /\ after <= b
      BY <1>1, <1>10, <1>12, <2>1
    <3>2. u[after] = SlashC /\ u[a] = SlashC /\ M1 = <<SlashC, SlashC>> /\ p.netloc = SubSeq(u, a + 1, b)
      BY <1>2, <1>7, <2>1, <3>1
    <3>3. Misses(u, a + 1, b, {SlashC, Query, Hash})
      BY <1>11, <1>12, <2>1, <3>1 DEF FoundAt, Misses
    <3> HIDE DEF a, b
    <3>4. p.netloc \in Seq(Int) /\ ToSet(p.netloc) \cap {SlashC, Query, Hash} = {}
      <4>1. a + 1 \in Nat /\ 1 <= a + 1 /\ b \in Int /\ b <= Len(u)
        BY <3>1 DEF n
      <4> QED
        BY <3>2, <3>3, <4>1, PieceMisses
    <3>5. SubSeq(u, after, b) = <<SlashC>> \o SubSeq(u, a, b)
      BY <1>10, <3>1, <3>2, PieceOpens DEF n
    <3>6. SubSeq(u, a, b) = <<SlashC>> \o p.netloc
      BY <3>1, <3>2, PieceOpens DEF n
    <3> DEFINE y == <<SlashC>>
    <3>7. y \in Seq(Int) /\ M1 = y \o y
      BY <1>17, <3>2
    <3>8. SubSeq(u, after, b) = y \o (y \o p.netloc)
      BY <3>5, <3>6
    <3> HIDE DEF y
    <3>9. y \o (y \o p.netloc) = (y \o y) \o p.netloc /\ y \o y \in Seq(Int)
      <4> DEFINE l == p.netloc
      <4>1. l \in Seq(Int) /\ y \in Seq(Int)
        BY <3>4, <3>7
      <4> HIDE DEF l
      <4>2. Grouped(y, y, l) /\ y \o y \in Seq(Int)
        BY <4>1, Associates
      <4>3. y \o (y \o l) = (y \o y) \o l
        BY <4>2 DEF Grouped
      <4> QED
        BY <4>2, <4>3 DEF l
    <3>10. M1 \in Seq(Int) /\ M1 \o p.netloc = SubSeq(u, after, b)
      BY <3>7, <3>8, <3>9
    <3> QED
      BY <3>4, <3>10 DEF b
  <2>2. CASE ~auth
    <3>1. M1 = <<>> /\ p.netloc = <<>> /\ path0 = after
      BY <1>2, <1>4, <2>2
    <3>2. SubSeq(u, after, path0 - 1) = <<>>
      <4>1. after \in Int /\ path0 - 1 \in Int /\ path0 - 1 < after
        BY <1>10, <3>1
      <4> QED
        BY <4>1, SubSeqEmpty
    <3>3. <<>> \in Seq(Int) /\ <<>> \o <<>> = <<>>
      BY EmptySeq, ConcatEmptySeq
    <3>4. ToSet(<<>>) = {}
      BY EmptySeq DEF ToSet
    <3> QED
      BY <3>1, <3>2, <3>3, <3>4
  <2> QED
    BY <2>1, <2>2
<1>20. p.path \in Seq(Int) /\ ToSet(p.path) \cap {Query, Hash} = {}
  <2>1. path1 - 1 \in Int /\ path1 - 1 <= Len(u) /\ 1 <= path0
    BY <1>10, <1>12, <1>14 DEF n
  <2>2. Misses(u, path0, path1 - 1, {Query, Hash})
    BY <1>13, <1>14 DEF FoundAt, Misses
  <2> QED
    BY <1>2, <1>12, <2>1, <2>2, PieceMisses
<1>21. /\ p.query \in Seq(Int) /\ M2 \in Seq(Int) /\ M2 \o p.query = SubSeq(u, path1, query1 - 1)
       /\ Hash \notin ToSet(p.query)
  <2>1. CASE query
    <3> DEFINE a == path1 + 1
               b == query1 - 1
    <3>1. a \in Nat /\ 1 <= a /\ a = path1 + 1 /\ b \in Nat /\ path1 <= b /\ b <= n /\ 1 <= path1
      BY <1>1, <1>10, <1>12, <1>14, <1>16, <2>1
    <3>2. u[path1] = Query /\ M2 = <<Query>> /\ p.query = SubSeq(u, a, b)
      BY <1>2, <1>7, <2>1
    <3>3. Misses(u, a, b, {Hash})
      BY <1>15, <1>16, <2>1, <3>1 DEF FoundAt, Misses
    <3> HIDE DEF a, b
    <3>4. p.query \in Seq(Int) /\ ToSet(p.query) \cap {Hash} = {}
      BY <3>1, <3>2, <3>3, PieceMisses DEF n
    <3>5. SubSeq(u, path1, b) = <<Query>> \o p.query
      BY <1>14, <3>1, <3>2, PieceOpens DEF n
    <3>6. M2 \in Seq(Int)
      BY <1>17, <3>2
    <3> QED
      BY <3>2, <3>4, <3>5, <3>6 DEF b
  <2>2. CASE ~query
    <3>1. M2 = <<>> /\ p.query = <<>> /\ query1 = path1
      BY <1>2, <1>8, <2>2
    <3>2. SubSeq(u, path1, query1 - 1) = <<>>
      <4>1. path1 \in Int /\ query1 - 1 \in Int /\ query1 - 1 < path1
        BY <1>14, <3>1
      <4> QED
        BY <4>1, SubSeqEmpty
    <3>3. <<>> \in Seq(Int) /\ <<>> \o <<>> = <<>>
      BY EmptySeq, ConcatEmptySeq
    <3>4. ToSet(<<>>) = {}
      BY EmptySeq DEF ToSet
    <3> QED
      BY <3>1, <3>2, <3>3, <3>4
  <2> QED
    BY <2>1, <2>2
<1>22. p.fragment \in Seq(Int) /\ M3 \in Seq(Int) /\ M3 \o p.fragment = SubSeq(u, query1, n)
  <2>1. 1 <= query1 /\ query1 + 1 \in Nat /\ 1 <= query1 + 1
    BY <1>10, <1>12, <1>14, <1>16
  <2>2. p.fragment \in Seq(Int)
    BY <1>1, <1>2, <2>1, PieceText DEF n
  <2>3. CASE query1 <= n
    <3>1. M3 = <<Hash>> /\ u[query1] = Hash
      BY <1>16, <2>3
    <3>2. SubSeq(u, query1, n) = <<Hash>> \o p.fragment
      BY <1>1, <1>2, <1>16, <2>1, <2>3, <3>1, PieceOpens DEF n
    <3>3. M3 \in Seq(Int)
      BY <1>17, <3>1
    <3> QED
      BY <2>2, <3>1, <3>2, <3>3
  <2>4. CASE ~(query1 <= n)
    <3>1. M3 = <<>> /\ n < query1 /\ n < query1 + 1
      BY <1>1, <1>16, <2>4
    <3>2. SubSeq(u, query1, n) = <<>> /\ p.fragment = <<>>
      BY <1>1, <1>2, <1>16, <2>1, <3>1, SubSeqEmpty
    <3>3. <<>> \in Seq(Int) /\ <<>> \o <<>> = <<>>
      BY EmptySeq, ConcatEmptySeq
    <3> QED
      BY <3>1, <3>2, <3>3
  <2> QED
    BY <2>3, <2>4
<1> HIDE DEF M0, M1, M2, M3
<1>23. u = M0 \o M1 \o p.netloc \o p.path \o M2 \o p.query \o M3 \o p.fragment
  <2>1. SubSeq(u, 1, colon) \o SubSeq(u, after, path0 - 1) = SubSeq(u, 1, path0 - 1)
    <3>1. SubSeq(u, 1, after - 1) \o SubSeq(u, after, path0 - 1) = SubSeq(u, 1, path0 - 1)
      BY <1>10, <1>12, PiecesJoin DEF n
    <3> QED
      BY <1>10, <3>1
  <2>2. SubSeq(u, 1, path0 - 1) \o SubSeq(u, path0, path1 - 1) = SubSeq(u, 1, path1 - 1)
    <3>1. 1 <= path0
      BY <1>10, <1>12
    <3> QED
      BY <1>12, <1>14, <3>1, PiecesJoin DEF n
  <2>3. SubSeq(u, 1, path1 - 1) \o SubSeq(u, path1, query1 - 1) = SubSeq(u, 1, query1 - 1)
    <3>1. 1 <= path1
      BY <1>10, <1>12, <1>14
    <3> QED
      BY <1>14, <1>16, <3>1, PiecesJoin DEF n
  <2>4. SubSeq(u, 1, query1 - 1) \o SubSeq(u, query1, n) = u
    <3> DEFINE e == n + 1
    <3>1. 1 <= query1 /\ e \in Nat /\ query1 <= e /\ e <= Len(u) + 1 /\ e - 1 = n
      BY <1>1, <1>10, <1>12, <1>14, <1>16 DEF n
    <3> HIDE DEF e
    <3>2. SubSeq(u, 1, query1 - 1) \o SubSeq(u, query1, e - 1) = SubSeq(u, 1, e - 1)
      BY <1>16, <3>1, PiecesJoin
    <3>3. SubSeq(u, 1, n) = u
      BY SubSeqFull DEF n
    <3> QED
      BY <3>1, <3>2, <3>3
  <2>5. u = (((M0 \o (M1 \o p.netloc)) \o p.path) \o (M2 \o p.query)) \o (M3 \o p.fragment)
    BY <1>2, <1>18, <1>19, <1>21, <1>22, <2>1, <2>2, <2>3, <2>4
  <2>6. (((M0 \o (M1 \o p.netloc)) \o p.path) \o (M2 \o p.query)) \o (M3 \o p.fragment)
           = M0 \o M1 \o p.netloc \o p.path \o M2 \o p.query \o M3 \o p.fragment
    <3> DEFINE netloc == p.netloc
               path == p.path
               q == p.query
               frag == p.fragment
    <3>1. /\ M0 \in Seq(Int) /\ M1 \in Seq(Int) /\ netloc \in Seq(Int) /\ path \in Seq(Int)
          /\ M2 \in Seq(Int) /\ q \in Seq(Int) /\ M3 \in Seq(Int) /\ frag \in Seq(Int)
      BY <1>18, <1>19, <1>20, <1>21, <1>22
    <3> HIDE DEF netloc, path, q, frag
    <3>2. PartsAre(M0, M1, netloc, path, M2, q, M3, frag)
      BY <3>1, UrlWhole
    <3> QED
      BY <3>2 DEF netloc, path, q, frag, PartsAre
  <2> QED
    BY <2>5, <2>6
<1>24. \E x, y, z \in BOOLEAN :
          u = M0 \o Mark(x, <<SlashC, SlashC>>) \o p.netloc \o p.path
                 \o Mark(y, <<Query>>) \o p.query \o Mark(z, <<Hash>>) \o p.fragment
  <2>1. \E x \in BOOLEAN : M1 = Mark(x, <<SlashC, SlashC>>)
    BY DEF M1, Mark
  <2>2. \E y \in BOOLEAN : M2 = Mark(y, <<Query>>)
    BY DEF M2, Mark
  <2>3. \E z \in BOOLEAN : M3 = Mark(z, <<Hash>>)
    BY DEF M3, Mark
  <2> QED
    BY <1>23, <2>1, <2>2, <2>3
<1> QED
  BY <1>18, <1>19, <1>20, <1>21, <1>24 DEF SplitRight, M0, p

-----------------------------------------------------------------------------
(* urlencode and parse_qsl *)

Pair == Seq(Int) \X Seq(Int)
Parsing == [pairs : Seq(Pair), part : Seq(Int)]

(* What a part is read as is a pair of texts or nothing. *)
LEMMA PairOfIs ==
    ASSUME NEW text \in Seq(Int), NEW keep
    PROVE  PairOf(text, keep) \in Seq(Pair)
<1> DEFINE eq == Find(text, 1, {Equal})
           b == eq - 1
           a == eq + 1
           name == SubSeq(text, 1, b)
           val == SubSeq(text, a, Len(text))
           x == Unescaped(name, TRUE)
           y == Unescaped(val, TRUE)
<1>1. Len(text) \in Nat
  BY LenProperties
<1>2. FoundAt(text, 1, {Equal}, eq)
  BY <1>1, FindIs
<1>3. PairOf(text, keep) = IF name # <<>> /\ (val # <<>> \/ keep) THEN <<<<x, y>>>> ELSE <<>>
  BY DEF PairOf
<1> HIDE DEF eq
<1>4. b \in Int /\ b <= Len(text) /\ a \in Nat /\ 1 <= a
  BY <1>1, <1>2 DEF FoundAt
<1> HIDE DEF a, b
<1>5. name \in Seq(Int) /\ val \in Seq(Int)
  BY <1>1, <1>4, PieceText
<1> HIDE DEF name, val
<1>6. x \in Seq(Int) /\ y \in Seq(Int)
  BY <1>5, NotLonger
<1> HIDE DEF x, y
<1>7. <<x, y>> \in Pair
  BY <1>6 DEF Pair
<1>8. <<<<x, y>>>> \in Seq(Pair) /\ <<>> \in Seq(Pair)
  BY <1>7, EmptySeq
<1> QED
  BY <1>3, <1>8

(* The parser stays a parser. *)
LEMMA QueryStepIs ==
    ASSUME NEW st \in Parsing, NEW c \in Int, NEW keep
    PROVE  QueryStep(st, c, keep) \in Parsing
<1>1. st.pairs \in Seq(Pair) /\ st.part \in Seq(Int)
  BY DEF Parsing
<1>2. CASE c \in {Amp, Semi}
  <2> DEFINE x == st.pairs \o PairOf(st.part, keep)
  <2>1. QueryStep(st, c, keep) = [pairs |-> x, part |-> <<>>]
    BY <1>2 DEF QueryStep
  <2>2. x \in Seq(Pair)
    BY <1>1, PairOfIs, ConcatProperties
  <2> HIDE DEF x
  <2>3. <<>> \in Seq(Int)
    BY EmptySeq
  <2> QED
    BY <2>1, <2>2, <2>3 DEF Parsing
<1>3. CASE c \notin {Amp, Semi}
  <2>1. QueryStep(st, c, keep) = [pairs |-> st.pairs, part |-> Append(st.part, c)]
    BY <1>3 DEF QueryStep
  <2>2. Append(st.part, c) \in Seq(Int)
    BY <1>1, AppendProperties
  <2> QED
    BY <1>1, <2>1, <2>2 DEF Parsing
<1> QED
  BY <1>2, <1>3

(* The parser after each character. *)
Parsed(s, keep, f) ==
    /\ f \in [0..Len(s) -> Parsing] /\ f[0] = [pairs |-> <<>>, part |-> <<>>]
    /\ \A i \in 1..Len(s) : f[i] = QueryStep(f[i - 1], s[i], keep)

(* PairsIn reads the query character by character. *)
LEMMA ParsedIs ==
    ASSUME NEW s \in Seq(Int), NEW keep
    PROVE  \E f : Parsed(s, keep, f) /\ PairsIn(s, keep) = f[Len(s)].pairs \o PairOf(f[Len(s)].part, keep)
<1> DEFINE M == Len(s)
           D == 0..M
           base == [pairs |-> <<>>, part |-> <<>>]
           Body(f) == [n \in D |-> IF n = 0 THEN base ELSE QueryStep(f[n - 1], s[n], keep)]
           Eq(f) == f = Body(f)
           F == [k \in Nat |-> [x \in Parsing |-> IF k \in 1..M THEN QueryStep(x, s[k], keep) ELSE x]]
           read == CHOOSE f : Eq(f)
<1>1. M \in Nat
  BY LenProperties
<1>2. PairsIn(s, keep) = read[M].pairs \o PairOf(read[M].part, keep)
  BY DEF PairsIn
<1>3. base \in Parsing
  BY EmptySeq DEF Parsing
<1>4. \A k \in 1..M, x \in Parsing : QueryStep(x, s[k], keep) \in Parsing
  BY ElementOfSeq, QueryStepIs
<1>5. \A k \in 1..M : s[k] \in Int
  BY ElementOfSeq
<1> HIDE DEF M, base
<1>6. PICK g \in [0..M -> Parsing] : Recurs(g, base, F, M)
  <2>1. F \in [Nat -> [Parsing -> Parsing]]
    BY <1>4
  <2> HIDE DEF F
  <2> QED
    BY <1>1, <1>3, <2>1, RecursionExists
<1>7. g[0] = base /\ \A n \in 1..M : g[n] = QueryStep(g[n - 1], s[n], keep)
  <2>1. \A n \in 1..M : n \in Nat /\ n - 1 \in 0..M
    BY <1>1
  <2>2. \A k \in 1..M, x \in Parsing : F[k][x] = QueryStep(x, s[k], keep)
    BY <1>1
  <2> HIDE DEF F
  <2>3. ASSUME NEW n \in 1..M PROVE g[n] = QueryStep(g[n - 1], s[n], keep)
    <3>1. g[n] = F[n][g[n - 1]]
      BY <1>6 DEF Recurs
    <3>2. g[n - 1] \in Parsing
      BY <2>1
    <3> QED
      BY <2>2, <3>1, <3>2
  <2> QED
    BY <1>6, <2>3 DEF Recurs
<1>8. Eq(g)
  <2>1. \A n \in D : n # 0 => n \in 1..M
    BY <1>1
  <2> QED
    BY <1>7, <2>1
<1>9. Eq(read)
  <2> HIDE DEF Eq
  <2> QED
    BY <1>8
<1> HIDE DEF read
<1>10. ASSUME NEW n \in D
       PROVE  read[n] = IF n = 0 THEN base ELSE QueryStep(read[n - 1], s[n], keep)
  <2>1. \A f : Body(f)[n] = IF n = 0 THEN base ELSE QueryStep(f[n - 1], s[n], keep)
    OBVIOUS
  <2>2. read = Body(read)
    BY <1>9
  <2> HIDE DEF Body
  <2> QED
    BY <2>1, <2>2
<1> HIDE DEF Eq, Body
<1>11. \A n \in D : read[n] = g[n]
  <2>1. \A n \in 1..M : n \in D /\ n # 0
    BY <1>1
  <2>2. \A n \in 1..M : read[n - 1] = g[n - 1] => read[n] = g[n]
    BY <1>7, <1>10, <2>1
  <2>3. read[0] = g[0]
    BY <1>1, <1>7, <1>10
  <2>4. SameSteps(read, g, M)
    BY <2>2, <2>3 DEF SameSteps
  <2> QED
    BY <1>1, <2>4, RunsEqual
<1>12. read[M] = g[M]
  BY <1>1, <1>11
<1>13. Parsed(s, keep, g)
  BY <1>6, <1>7 DEF Parsed, M, base
<1> QED
  BY <1>2, <1>5, <1>12, <1>13 DEF M

(* With these pairs found and this text since the last separator. *)
ParsedAt(st, pairs, text) == st \in Parsing /\ st.pairs = pairs /\ st.part = text

(* One character more. *)
QueryTaken(s, keep, f, i, k) ==
    f[i] \in Parsing /\ f[k] \in Parsing /\ s[k] \in Int /\ f[k] = QueryStep(f[i], s[k], keep)

LEMMA QueryGoesOn ==
    ASSUME NEW s \in Seq(Int), NEW keep, NEW f, Parsed(s, keep, f),
           NEW i \in Nat, NEW k, k = i + 1, k <= Len(s)
    PROVE  QueryTaken(s, keep, f, i, k)
<1>1. Len(s) \in Nat
  BY LenProperties
<1>2. k \in 1..Len(s) /\ i \in 0..Len(s) /\ k \in 0..Len(s) /\ k - 1 = i
  BY <1>1
<1>3. s[k] \in Int
  BY <1>2, ElementOfSeq
<1>4. f[k] = QueryStep(f[k - 1], s[k], keep) /\ f[i] \in Parsing /\ f[k] \in Parsing
  BY <1>2 DEF Parsed
<1> QED
  BY <1>2, <1>3, <1>4 DEF QueryTaken

(* A text without separators is taken as it stands. *)
Plain(x, chars) == \A k \in 1..Len(x) : x[k] \notin chars

LEMMA PartRead ==
    ASSUME NEW s \in Seq(Int), NEW keep, NEW f, Parsed(s, keep, f), NEW pairs,
           NEW x \in Seq(Int), Plain(x, {Amp, Semi}),
           NEW a \in Nat, Stands(x, s, a), ParsedAt(f[a], pairs, <<>>)
    PROVE  ParsedAt(f[a + Len(x)], pairs, x)
<1> DEFINE T == {t \in Nat : t <= Len(x) => ParsedAt(f[a + t], pairs, SubSeq(x, 1, t))}
<1>0. Len(s) \in Nat /\ Len(x) \in Nat /\ a + Len(x) <= Len(s)
  BY LenProperties DEF Stands
<1>1. 0 \in T
  <2>1. SubSeq(x, 1, 0) = <<>> /\ a + 0 = a
    BY SubSeqEmpty
  <2> QED
    BY <2>1
<1>2. ASSUME NEW t \in Nat, t \in T PROVE t + 1 \in T
  <2> SUFFICES ASSUME t + 1 <= Len(x) PROVE ParsedAt(f[a + (t + 1)], pairs, SubSeq(x, 1, t + 1))
    OBVIOUS
  <2> DEFINE m == t + 1
             i == a + t
             k == a + m
             z == SubSeq(x, 1, t)
  <2>1. /\ m \in 1..Len(x) /\ i \in Nat /\ k = i + 1 /\ k <= Len(s)
        /\ t <= Len(x) /\ t < Len(x) /\ a + (t + 1) = k
    BY <1>0
  <2>2. ParsedAt(f[i], pairs, z)
    BY <1>2, <2>1
  <2>3. Append(z, x[m]) = SubSeq(x, 1, m)
    BY <2>1, SubSeqGrows
  <2> HIDE DEF i, k, m
  <2>4. QueryTaken(s, keep, f, i, k)
    BY <2>1, QueryGoesOn
  <2>5. s[k] = x[m] /\ x[m] \notin {Amp, Semi}
    BY <2>1 DEF Stands, Plain, k
  <2>6. f[k] = [pairs |-> f[i].pairs, part |-> Append(f[i].part, s[k])]
    BY <2>4, <2>5 DEF QueryTaken, QueryStep
  <2> HIDE DEF z
  <2>7. f[k].pairs = pairs /\ f[k].part = Append(z, x[m])
    BY <2>2, <2>5, <2>6 DEF ParsedAt
  <2>8. ParsedAt(f[k], pairs, SubSeq(x, 1, m))
    BY <2>3, <2>4, <2>7 DEF ParsedAt, QueryTaken
  <2> QED
    BY <2>1, <2>8 DEF m
<1>3. \A t \in Nat : t \in T
  <2> HIDE DEF T
  <2> QED
    BY <1>1, <1>2, SetInduction
<1>4. SubSeq(x, 1, Len(x)) = x
  BY SubSeqFull
<1> DEFINE n == Len(x)
<1>5. n \in Nat /\ n <= n
  BY <1>0
<1> HIDE DEF n
<1>6. ParsedAt(f[a + n], pairs, SubSeq(x, 1, n))
  <2>1. n <= Len(x)
    BY <1>5 DEF n
  <2> QED
    BY <1>3, <1>5, <2>1
<1> QED
  BY <1>4, <1>6 DEF n

(* A separator ends the pair. *)
LEMMA SepRead ==
    ASSUME NEW s \in Seq(Int), NEW keep, NEW f, Parsed(s, keep, f), NEW pairs, NEW text,
           NEW a \in Nat, NEW b, b = a + 1, b <= Len(s), s[b] = Amp, ParsedAt(f[a], pairs, text)
    PROVE  ParsedAt(f[b], pairs \o PairOf(text, keep), <<>>)
<1>1. QueryTaken(s, keep, f, a, b)
  BY QueryGoesOn
<1>2. f[b] = [pairs |-> f[a].pairs \o PairOf(f[a].part, keep), part |-> <<>>]
  BY <1>1 DEF QueryTaken, QueryStep
<1>3. f[a].pairs = pairs /\ f[a].part = text
  BY DEF ParsedAt
<1>4. f[b].pairs = pairs \o PairOf(text, keep) /\ f[b].part = <<>>
  BY <1>2, <1>3
<1> QED
  BY <1>1, <1>4 DEF ParsedAt, QueryTaken

(* What is written for a text has no separator in it. *)
Separators == {Amp, Semi, Equal}

LEMMA PlainChar ==
    ASSUME NEW c \in Octets
    PROVE  Plain(QuoteChar(c, {}, TRUE), Separators)
<1> DEFINE x == QuoteChar(c, {}, TRUE)
<1>0. Plus \in Int /\ Percent \in Int /\ c \in Int
  BY DEF Plus, Percent, Octets
<1>1. CASE c = Space
  <2>1. x = <<Plus>>
    BY <1>1 DEF QuoteChar
  <2>2. Plus \notin Separators
    BY DEF Plus, Separators, Amp, Semi, Equal
  <2>3. Len(x) = 1 /\ x[1] = Plus
    <3> HIDE DEF x
    <3> QED
      BY <1>0, <2>1
  <2> HIDE DEF x
  <2>4. \A k \in 1..Len(x) : k = 1
    BY <2>3
  <2>5. Plain(x, Separators)
    BY <2>2, <2>3, <2>4 DEF Plain
  <2> QED
    BY <2>5 DEF x
<1>2. CASE c # Space /\ is_unreserved(c)
  <2>1. x = <<c>>
    BY <1>2 DEF QuoteChar
  <2>2. c \notin Separators
    BY <1>2 DEF is_unreserved, Letter, Digit, Separators, Amp, Semi, Equal
  <2>3. Len(x) = 1 /\ x[1] = c
    <3> HIDE DEF x
    <3> QED
      BY <1>0, <2>1
  <2> HIDE DEF x
  <2>4. \A k \in 1..Len(x) : k = 1
    BY <2>3
  <2>5. Plain(x, Separators)
    BY <2>2, <2>3, <2>4 DEF Plain
  <2> QED
    BY <2>5 DEF x
<1>3. CASE c # Space /\ ~is_unreserved(c)
  <2> DEFINE h == HexDigit(c \div 16)
             l == HexDigit(c % 16)
  <2>1. x = <<Percent, h, l>>
    <3>1. x = vstr_add_pct(c)
      BY <1>3 DEF QuoteChar
    <3> QED
      BY <3>1 DEF vstr_add_pct
  <2>2. ASSUME NEW v \in Int, 0 <= v, v < 16 PROVE HexDigit(v) \notin Separators /\ HexDigit(v) \in Int
    <3>1. CASE v < 10
      <4>1. HexDigit(v) = 48 + v
        BY <3>1 DEF HexDigit
      <4> QED
        BY <2>2, <3>1, <4>1 DEF Separators, Amp, Semi, Equal
    <3>2. CASE ~(v < 10)
      <4>1. HexDigit(v) = 55 + v
        BY <3>2 DEF HexDigit
      <4> QED
        BY <2>2, <3>2, <4>1 DEF Separators, Amp, Semi, Equal
    <3> QED
      BY <3>1, <3>2
  <2>3. h \notin Separators /\ h \in Int
    <3>1. c \div 16 \in Int /\ 0 <= c \div 16 /\ c \div 16 < 16
      BY DEF Octets
    <3> QED
      BY <2>2, <3>1
  <2>4. l \notin Separators /\ l \in Int
    <3>1. c % 16 \in Int /\ 0 <= c % 16 /\ c % 16 < 16
      BY DEF Octets
    <3> QED
      BY <2>2, <3>1
  <2>5. Percent \notin Separators
    BY DEF Percent, Separators, Amp, Semi, Equal
  <2> HIDE DEF h, l
  <2>6. Len(x) = 3 /\ x[1] = Percent /\ x[2] = h /\ x[3] = l
    <3> HIDE DEF x
    <3> QED
      BY <1>0, <2>1, <2>3, <2>4
  <2> HIDE DEF x
  <2>7. \A k \in 1..Len(x) : k = 1 \/ k = 2 \/ k = 3
    BY <2>6
  <2>8. Plain(x, Separators)
    BY <2>3, <2>4, <2>5, <2>6, <2>7 DEF Plain
  <2> QED
    BY <2>8 DEF x
<1> QED
  BY <1>1, <1>2, <1>3

(* Two texts without separators make one. *)
LEMMA PlainOn ==
    ASSUME NEW x \in Seq(Int), NEW y \in Seq(Int), NEW chars, Plain(x, chars), Plain(y, chars)
    PROVE  Plain(x \o y, chars) /\ x \o y \in Seq(Int) /\ Len(x \o y) = Len(x) + Len(y)
<1>1. Len(x) \in Nat /\ Len(y) \in Nat
  BY LenProperties
<1>2. /\ x \o y \in Seq(Int) /\ Len(x \o y) = Len(x) + Len(y)
      /\ \A k \in 1..Len(x) + Len(y) : (x \o y)[k] = IF k <= Len(x) THEN x[k] ELSE y[k - Len(x)]
  BY ConcatProperties
<1>3. ASSUME NEW k \in 1..Len(x) + Len(y) PROVE (x \o y)[k] \notin chars
  <2>1. CASE k <= Len(x)
    <3>1. k \in 1..Len(x) /\ (x \o y)[k] = x[k]
      BY <1>1, <1>2, <2>1
    <3> QED
      BY <3>1 DEF Plain
  <2>2. CASE ~(k <= Len(x))
    <3> DEFINE j == k - Len(x)
    <3>1. j \in 1..Len(y)
      BY <1>1, <2>2
    <3>2. (x \o y)[k] = y[j]
      BY <1>2, <2>2
    <3> HIDE DEF j
    <3> QED
      BY <3>1, <3>2 DEF Plain
  <2> QED
    BY <2>1, <2>2
<1>4. Plain(x \o y, chars)
  <2> DEFINE z == x \o y
  <2>1. Len(z) = Len(x) + Len(y) /\ \A k \in 1..Len(x) + Len(y) : z[k] \notin chars
    BY <1>2, <1>3
  <2> HIDE DEF z
  <2>2. Plain(z, chars)
    BY <2>1 DEF Plain
  <2> QED
    BY <2>2 DEF z
<1> QED
  BY <1>2, <1>4

(* Nor has a whole text, and it is empty only if the text is. *)
LEMMA QuotedPlain ==
    ASSUME NEW w \in Seq(Octets)
    PROVE  /\ Plain(Quoted(w, {}, TRUE), Separators)
           /\ Quoted(w, {}, TRUE) = <<>> <=> w = <<>>
<1> DEFINE N == Len(w)
           safe == {}
           plus == TRUE
<1>1. PICK q : Quoting(w, safe, plus, q) /\ Quoted(w, safe, plus) = q[N]
  BY QuotedIs
<1>2. N \in Nat
  BY LenProperties
<1> DEFINE T == {i \in Nat : i <= N => q[i] \in Seq(Int) /\ Plain(q[i], Separators) /\ Len(q[i]) >= i}
<1>3. 0 \in T
  <2> DEFINE e == q[0]
  <2>1. e = <<>>
    BY <1>1 DEF Quoting
  <2>2. e \in Seq(Int) /\ Len(e) = 0
    BY <2>1, EmptySeq
  <2> HIDE DEF e
  <2>3. Plain(e, Separators) /\ Len(e) >= 0
    BY <2>2 DEF Plain
  <2> QED
    BY <2>2, <2>3 DEF e
<1>4. ASSUME NEW i \in Nat, i \in T PROVE i + 1 \in T
  <2> SUFFICES ASSUME i + 1 <= N
               PROVE  q[i + 1] \in Seq(Int) /\ Plain(q[i + 1], Separators) /\ Len(q[i + 1]) >= i + 1
    OBVIOUS
  <2> DEFINE k == i + 1
             x == q[i]
             y == QuoteChar(w[k], safe, plus)
  <2>1. k = i + 1 /\ i < Len(w) /\ i <= N
    BY <1>2
  <2>2. x \in Seq(Int) /\ Plain(x, Separators) /\ Len(x) >= i
    BY <1>4, <2>1
  <2>3. QuotedAt(w, safe, plus, q, i, k)
    BY <1>1, <2>1, QuotedStep
  <2> HIDE DEF k
  <2>4. w[k] \in Octets /\ y \in Seq(Int) /\ q[k] = x \o y
    BY <2>3 DEF QuotedAt
  <2>5. Plain(y, Separators) /\ Len(y) > 0
    BY <2>4, PlainChar, QuoteCharIs
  <2> HIDE DEF x, y
  <2>6. Plain(x \o y, Separators) /\ x \o y \in Seq(Int) /\ Len(x \o y) = Len(x) + Len(y)
    BY <2>2, <2>4, <2>5, PlainOn
  <2>7. Len(x) \in Nat /\ Len(y) \in Nat
    BY <2>2, <2>4, LenProperties
  <2>8. q[k] \in Seq(Int) /\ Plain(q[k], Separators) /\ Len(q[k]) >= k
    BY <2>1, <2>2, <2>4, <2>5, <2>6, <2>7
  <2> QED
    BY <2>8 DEF k
<1>5. \A i \in Nat : i \in T
  <2> HIDE DEF T
  <2> QED
    BY <1>3, <1>4, SetInduction
<1>6. q[N] \in Seq(Int) /\ Plain(q[N], Separators) /\ Len(q[N]) >= N
  BY <1>2, <1>5
<1>7. q[0] = <<>>
  BY <1>1 DEF Quoting
<1>8. q[N] = <<>> <=> w = <<>>
  <2>1. w = <<>> => N = 0
    BY EmptySeq
  <2>2. q[N] = <<>> => Len(q[N]) = 0
    BY EmptySeq
  <2>3. N = 0 => w = <<>>
    BY EmptySeq
  <2> HIDE DEF N
  <2>4. w = <<>> => q[N] = <<>>
    BY <1>7, <2>1
  <2>5. q[N] = <<>> => w = <<>>
    BY <1>2, <1>6, <2>2, <2>3
  <2> QED
    BY <2>4, <2>5
<1> QED
  BY <1>1, <1>6, <1>8

(* The bytes that are no ASCII characters. *)
High == {b \in Int : b >= 128}

(* Bytes below 128 are a text. *)
LEMMA AsciiPasses ==
    ASSUME NEW s \in Seq(Int), Plain(s, High)
    PROVE  utf8_check(s) /\ mp_obj_new_str_from_vstr(s) = Returned(s)
<1> DEFINE M == Len(s)
           D == 0..M
           Body(f) == [n \in D |-> IF n = 0 THEN 0 ELSE Due(f[n - 1], s[n])]
           Eq(f) == f = Body(f)
           g == [n \in D |-> 0]
           owed == CHOOSE f : Eq(f)
<1>1. M \in Nat
  BY LenProperties
<1>2. utf8_check(s) <=> owed[M] = 0
  BY DEF utf8_check
<1>3. ASSUME NEW k \in 1..M PROVE Due(0, s[k]) = 0
  <2>1. s[k] \in Int /\ s[k] \notin High
    BY ElementOfSeq DEF Plain
  <2>2. s[k] < 128
    BY <2>1 DEF High
  <2>3. ASSUME NEW c \in Int, c < 128 PROVE Due(0, c) = 0
    <3>1. c \notin 192..223 /\ c \notin 224..239 /\ c \notin 240..247
      BY <2>3
    <3> QED
      BY <2>3, <3>1 DEF Due
  <2> QED
    BY <2>1, <2>2, <2>3
<1> HIDE DEF M
<1>4. \A n \in D : g[n] = 0
  OBVIOUS
<1>5. \A n \in D : n # 0 => n \in 1..M /\ n - 1 \in D
  BY <1>1
<1>6. Eq(g)
  <2>1. \A n \in D : g[n] = IF n = 0 THEN 0 ELSE Due(g[n - 1], s[n])
    <3> HIDE DEF g
    <3> QED
      BY <1>3, <1>4, <1>5
  <2>2. Body(g) = [n \in D |-> g[n]]
    <3> HIDE DEF g
    <3> QED
      BY <2>1
  <2> QED
    BY <2>2
<1>7. Eq(owed)
  <2> HIDE DEF Eq
  <2> QED
    BY <1>6
<1> HIDE DEF owed, g
<1>8. ASSUME NEW n \in D PROVE owed[n] = IF n = 0 THEN 0 ELSE Due(owed[n - 1], s[n])
  <2>1. \A f : Body(f)[n] = IF n = 0 THEN 0 ELSE Due(f[n - 1], s[n])
    OBVIOUS
  <2>2. owed = Body(owed)
    BY <1>7
  <2> HIDE DEF Body
  <2> QED
    BY <2>1, <2>2
<1> HIDE DEF Eq, Body
<1>9. SameSteps(owed, g, M)
  <2>1. owed[0] = g[0]
    BY <1>1, <1>4, <1>8
  <2>2. \A n \in 1..M : n \in D /\ n # 0 /\ n - 1 \in D
    BY <1>1
  <2>3. \A n \in 1..M : owed[n - 1] = g[n - 1] => owed[n] = g[n]
    BY <1>3, <1>4, <1>8, <2>2
  <2> QED
    BY <2>1, <2>3 DEF SameSteps
<1>10. owed[M] = 0
  <2>1. M \in D
    BY <1>1
  <2> QED
    BY <1>1, <1>4, <1>9, <2>1, RunsEqual
<1> QED
  BY <1>2, <1>10 DEF mp_obj_new_str_from_vstr

(* What is written for a character is ASCII, if the safe characters are. *)
LEMMA AsciiChar ==
    ASSUME NEW c \in Octets, NEW safe \in SafeSets, NEW plus
    PROVE  Plain(QuoteChar(c, safe, plus), High)
<1> DEFINE x == QuoteChar(c, safe, plus)
<1>1. Plus \in Int /\ Plus < 128 /\ Percent \in Int /\ Percent < 128 /\ c \in Int
  BY DEF Plus, Percent, Octets
<1>2. ASSUME NEW d \in Int, d < 128, x = <<d>> PROVE Plain(x, High)
  <2> HIDE DEF x
  <2>1. Len(x) = 1 /\ x[1] = d
    BY <1>2
  <2>2. \A k \in 1..Len(x) : k = 1
    BY <2>1
  <2> QED
    BY <1>2, <2>1, <2>2 DEF Plain, High
<1>3. CASE plus /\ c = Space
  <2>1. x = <<Plus>>
    BY <1>3 DEF QuoteChar
  <2> HIDE DEF x
  <2>2. Plain(x, High)
    BY <1>1, <1>2, <2>1
  <2> QED
    BY <2>2 DEF x
<1>4. CASE /\ ~(plus /\ c = Space)
           /\ is_unreserved(c) \/ c \in safe \/ (~plus /\ safe = {} /\ c = SlashC)
  <2>1. x = <<c>>
    BY <1>4 DEF QuoteChar
  <2>2. is_unreserved(c) => c < 128
    BY DEF is_unreserved, Letter, Digit, Octets
  <2>3. c \in safe => c = SlashC \/ c = ColonC
    BY DEF SafeSets
  <2>4. c = SlashC \/ c = ColonC => c < 128
    BY DEF SlashC, ColonC
  <2>5. c < 128
    BY <1>4, <2>2, <2>3, <2>4
  <2> HIDE DEF x
  <2>6. Plain(x, High)
    BY <1>1, <1>2, <2>1, <2>5
  <2> QED
    BY <2>6 DEF x
<1>5. CASE /\ ~(plus /\ c = Space)
           /\ ~(is_unreserved(c) \/ c \in safe \/ (~plus /\ safe = {} /\ c = SlashC))
  <2> DEFINE h == HexDigit(c \div 16)
             l == HexDigit(c % 16)
  <2>1. x = <<Percent, h, l>>
    <3>1. x = vstr_add_pct(c)
      BY <1>5 DEF QuoteChar
    <3> QED
      BY <3>1 DEF vstr_add_pct
  <2>2. ASSUME NEW v \in Int, 0 <= v, v < 16 PROVE HexDigit(v) \in Int /\ HexDigit(v) < 128
    BY <2>2 DEF HexDigit
  <2>3. /\ c \div 16 \in Int /\ 0 <= c \div 16 /\ c \div 16 < 16
        /\ c % 16 \in Int /\ 0 <= c % 16 /\ c % 16 < 16
    BY DEF Octets
  <2>4. h \in Int /\ h < 128 /\ l \in Int /\ l < 128
    BY <2>2, <2>3
  <2> HIDE DEF h, l, x
  <2>5. Len(x) = 3 /\ x[1] = Percent /\ x[2] = h /\ x[3] = l
    BY <1>1, <2>1, <2>4
  <2>6. \A k \in 1..Len(x) : k = 1 \/ k = 2 \/ k = 3
    BY <2>5
  <2>7. Plain(x, High)
    BY <1>1, <2>4, <2>5, <2>6 DEF Plain, High
  <2> QED
    BY <2>7 DEF x
<1> QED
  BY <1>3, <1>4, <1>5

(* quote answers, in ASCII, whatever the bytes are. *)
LEMMA QuoteReturns ==
    ASSUME NEW w \in Seq(Octets), NEW safe \in SafeSets, NEW plus
    PROVE  /\ Plain(Quoted(w, safe, plus), High)
           /\ quote_inner(w, safe, plus) = Returned(Quoted(w, safe, plus))
<1> DEFINE N == Len(w)
           Q == Quoted(w, safe, plus)
<1>1. PICK q : Quoting(w, safe, plus, q) /\ Q = q[N]
  BY QuotedIs
<1>2. N \in Nat
  BY LenProperties
<1> DEFINE T == {i \in Nat : i <= N => q[i] \in Seq(Int) /\ Plain(q[i], High)}
<1>3. 0 \in T
  <2> DEFINE e == q[0]
  <2>1. e = <<>>
    BY <1>1 DEF Quoting
  <2>2. e \in Seq(Int) /\ Len(e) = 0
    BY <2>1, EmptySeq
  <2> HIDE DEF e
  <2>3. Plain(e, High)
    BY <2>2 DEF Plain
  <2> QED
    BY <2>2, <2>3 DEF e
<1>4. ASSUME NEW i \in Nat, i \in T PROVE i + 1 \in T
  <2> SUFFICES ASSUME i + 1 <= N PROVE q[i + 1] \in Seq(Int) /\ Plain(q[i + 1], High)
    OBVIOUS
  <2> DEFINE k == i + 1
             x == q[i]
             y == QuoteChar(w[k], safe, plus)
  <2>1. k = i + 1 /\ i < Len(w) /\ i <= N
    BY <1>2
  <2>2. x \in Seq(Int) /\ Plain(x, High)
    BY <1>4, <2>1
  <2>3. QuotedAt(w, safe, plus, q, i, k)
    BY <1>1, <2>1, QuotedStep
  <2> HIDE DEF k
  <2>4. w[k] \in Octets /\ y \in Seq(Int) /\ q[k] = x \o y
    BY <2>3 DEF QuotedAt
  <2>5. Plain(y, High)
    BY <2>4, AsciiChar
  <2> HIDE DEF x, y
  <2>6. Plain(x \o y, High) /\ x \o y \in Seq(Int)
    BY <2>2, <2>4, <2>5, PlainOn
  <2>7. q[k] \in Seq(Int) /\ Plain(q[k], High)
    BY <2>4, <2>6
  <2> QED
    BY <2>7 DEF k
<1>5. \A i \in Nat : i \in T
  <2> HIDE DEF T
  <2> QED
    BY <1>3, <1>4, SetInduction
<1>6. Q \in Seq(Int) /\ Plain(Q, High)
  BY <1>1, <1>2, <1>5
<1> HIDE DEF Q
<1>7. mp_obj_new_str_from_vstr(Q) = Returned(Q)
  BY <1>6, AsciiPasses
<1> QED
  BY <1>6, <1>7 DEF quote_inner, Q

(* The first of two texts begins their concatenation. *)
LEMMA ConcatBegins ==
    ASSUME NEW u \in Seq(Int), NEW x \in Seq(Int)
    PROVE  Begins(u, u \o x) /\ u \o x \in Seq(Int) /\ Begins(u \o x, u \o x)
<1>1. Len(u) \in Nat /\ Len(x) \in Nat
  BY LenProperties
<1>2. /\ u \o x \in Seq(Int) /\ Len(u \o x) = Len(u) + Len(x)
      /\ \A m \in 1..Len(u) + Len(x) : (u \o x)[m] = IF m <= Len(u) THEN u[m] ELSE x[m - Len(u)]
  BY ConcatProperties
<1>3. Begins(u, u \o x)
  BY <1>1, <1>2 DEF Begins
<1>4. ASSUME NEW y, Len(y) \in Nat PROVE Begins(y, y)
  BY <1>4 DEF Begins
<1>5. Len(u \o x) \in Nat
  BY <1>1, <1>2
<1> QED
  BY <1>2, <1>3, <1>4, <1>5

(* What stands in a text is a piece of it. *)
LEMMA StandsPiece ==
    ASSUME NEW s \in Seq(Int), NEW x \in Seq(Int), NEW m \in Nat, Stands(x, s, m)
    PROVE  SubSeq(s, m + 1, m + Len(x)) = x
<1> DEFINE n == Len(x)
           y == SubSeq(s, m + 1, m + n)
<1>1. n \in Nat /\ m + n <= Len(s)
  BY LenProperties DEF Stands
<1>2. \A k \in 1..n : s[m + k] = x[k]
  BY DEF Stands
<1> HIDE DEF n
<1>3. y \in Seq(Int) /\ Segment(s, m, n, y)
  BY <1>1, PieceIs
<1> HIDE DEF y
<1>4. Len(y) = Len(x) /\ \A k \in 1..Len(y) : y[k] = x[k]
  BY <1>2, <1>3 DEF Segment, n
<1>5. y = x
  BY <1>3, <1>4, SeqEqual
<1> QED
  BY <1>5 DEF y, n

(* What a written pair is read as. *)
PairText(E, k, v, keep) ==
    /\ E \in Seq(Int) /\ Plain(E, {Amp, Semi}) /\ Plain(E, High)
    /\ PairOf(E, keep) = IF v # <<>> \/ keep THEN <<<<k, v>>>> ELSE <<>>

LEMMA PairRead ==
    ASSUME NEW k \in Seq(Octets), k # <<>>, NEW v \in Seq(Octets), NEW keep
    PROVE  PairText(urlencode_pair(<<k, v>>), k, v, keep)
<1> DEFINE x == Quoted(k, {}, TRUE)
           y == Quoted(v, {}, TRUE)
           z == <<Equal>>
           xz == x \o z
           E == xz \o y
           n == Len(x)
           e == n + 1
<1>2. {} \in SafeSets
  BY DEF SafeSets
<1>0. Plain(x, High) /\ Plain(y, High)
  BY <1>2, QuoteReturns
<1>1. urlencode_pair(<<k, v>>) = E
  <2>1. quote_inner(k, {}, TRUE) = Returned(x) /\ quote_inner(v, {}, TRUE) = Returned(y)
    BY <1>2, QuoteReturns
  <2>2. Returned(x).value = x /\ Returned(y).value = y
    BY DEF Returned
  <2>3. urlencode_pair(<<k, v>>) = quote_inner(k, {}, TRUE).value \o z \o quote_inner(v, {}, TRUE).value
    BY DEF urlencode_pair
  <2> HIDE DEF x, y, z
  <2> QED
    BY <2>1, <2>2, <2>3
<1>3. x \in Seq(Int) /\ Plain(x, Separators) /\ x # <<>> /\ Unescaped(x, TRUE) = k
  BY <1>2, QuoteRead, QuotedPlain
<1>4. y \in Seq(Int) /\ Plain(y, Separators) /\ (y # <<>> <=> v # <<>>) /\ Unescaped(y, TRUE) = v
  BY <1>2, QuoteRead, QuotedPlain
<1>5. z \in Seq(Int) /\ Len(z) = 1 /\ z[1] = Equal /\ Equal \notin {Amp, Semi}
  BY DEF Equal, Amp, Semi
<1> HIDE DEF x, y, z
<1>6. n \in Nat /\ e \in Nat /\ e = n + 1 /\ 1 <= e
  BY <1>3, LenProperties
<1>7. Plain(x, {Amp, Semi}) /\ Plain(y, {Amp, Semi}) /\ Plain(z, {Amp, Semi})
  <2>1. {Amp, Semi} \subseteq Separators
    BY DEF Separators
  <2>2. \A j \in 1..Len(z) : j = 1
    BY <1>5
  <2> QED
    BY <1>3, <1>4, <1>5, <2>1, <2>2 DEF Plain
<1>25. Plain(z, High)
  <2>1. Equal \notin High
    BY DEF Equal, High
  <2>2. \A j \in 1..Len(z) : j = 1
    BY <1>5
  <2> QED
    BY <1>5, <2>1, <2>2 DEF Plain
<1>8. xz \in Seq(Int) /\ Plain(xz, {Amp, Semi}) /\ Plain(xz, High) /\ Len(xz) = e
  BY <1>0, <1>3, <1>5, <1>7, <1>25, PlainOn
<1>9. xz[e] = Equal
  <2>1. e \in 1..(Len(x) + Len(z)) /\ ~(e <= Len(x)) /\ e - Len(x) = 1
    BY <1>5, <1>6
  <2>2. \A j \in 1..Len(x) + Len(z) : xz[j] = IF j <= Len(x) THEN x[j] ELSE z[j - Len(x)]
    BY <1>3, <1>5, ConcatProperties
  <2> HIDE DEF e, xz
  <2>3. xz[e] = z[e - Len(x)]
    BY <2>1, <2>2
  <2> QED
    BY <1>5, <2>1, <2>3
<1>10. Begins(x, xz)
  BY <1>3, <1>5, ConcatBegins
<1> HIDE DEF xz, n, e
<1>11. E \in Seq(Int) /\ Plain(E, {Amp, Semi}) /\ Plain(E, High)
  BY <1>0, <1>4, <1>7, <1>8, PlainOn
<1>12. Begins(xz, E) /\ Begins(E, E)
  BY <1>4, <1>8, ConcatBegins
<1>13. Begins(x, E)
  BY <1>3, <1>8, <1>10, <1>11, <1>12, BeginsOn
<1>14. Stands(y, E, e) /\ Len(E) = e + Len(y)
  BY <1>4, <1>8, <1>11, <1>12, WrittenStands
<1> HIDE DEF E
<1>15. E[e] = Equal /\ e <= Len(E)
  <2>1. e \in 1..Len(xz) /\ Len(xz) <= Len(E)
    BY <1>6, <1>8, <1>12 DEF Begins
  <2> QED
    BY <1>8, <1>9, <1>12, <2>1 DEF Begins
<1>16. \A j \in Nat : 1 <= j /\ j < e => E[j] # Equal
  <2> SUFFICES ASSUME NEW j \in Nat, 1 <= j, j < e PROVE E[j] # Equal
    OBVIOUS
  <2>1. j \in 1..Len(x)
    BY <1>6 DEF n
  <2>2. E[j] = x[j] /\ x[j] \notin Separators
    BY <1>3, <1>13, <2>1 DEF Begins, Plain
  <2> QED
    BY <2>2 DEF Separators
<1>17. Len(E) \in Nat
  BY <1>11, LenProperties
<1> DEFINE eq == Find(E, 1, {Equal})
<1>18. FoundAt(E, 1, {Equal}, eq)
  <2> DEFINE o == 1
             chars == {Equal}
  <2>1. o \in Nat /\ o <= Len(E) + 1 /\ E \in Seq(Int)
    BY <1>11, <1>17
  <2> HIDE DEF o, chars
  <2>2. FoundAt(E, o, chars, Find(E, o, chars))
    BY <2>1, FindIs
  <2> QED
    BY <2>2 DEF o, chars
<1> HIDE DEF eq
<1>19. eq = e
  <2>1. eq \in Nat /\ 1 <= eq /\ (eq <= Len(E) => E[eq] = Equal) /\ \A j \in Nat : 1 <= j /\ j < eq => E[j] # Equal
    BY <1>18 DEF FoundAt
  <2>2. ~(e < eq)
    BY <1>6, <1>15, <2>1
  <2>3. ~(eq < e)
    BY <1>6, <1>15, <1>16, <1>17, <2>1
  <2> QED
    BY <1>6, <2>1, <2>2, <2>3
<1>20. SubSeq(E, 1, e - 1) = x
  <2> DEFINE o == 0
  <2>1. o \in Nat /\ Stands(x, E, o) /\ o + 1 = 1 /\ o + Len(x) = e - 1
    <3>1. o + Len(x) = n /\ n = e - 1
      BY <1>6 DEF n
    <3>2. \A j \in 1..Len(x) : o + j = j
      OBVIOUS
    <3>3. Stands(x, E, o)
      BY <1>13, <3>1, <3>2 DEF Stands, Begins, n
    <3> QED
      BY <3>1, <3>3
  <2> HIDE DEF o
  <2>2. SubSeq(E, o + 1, o + Len(x)) = x
    BY <1>3, <1>11, <2>1, StandsPiece
  <2> QED
    BY <2>1, <2>2
<1>21. SubSeq(E, e + 1, Len(E)) = y
  <2>1. SubSeq(E, e + 1, e + Len(y)) = y
    BY <1>4, <1>6, <1>11, <1>14, StandsPiece
  <2> QED
    BY <1>14, <2>1
<1>22. PairOf(E, keep) = IF x # <<>> /\ (y # <<>> \/ keep) THEN <<<<Unescaped(x, TRUE), Unescaped(y, TRUE)>>>> ELSE <<>>
  <2>1. PairOf(E, keep) =
          IF SubSeq(E, 1, eq - 1) # <<>> /\ (SubSeq(E, eq + 1, Len(E)) # <<>> \/ keep)
          THEN <<<<Unescaped(SubSeq(E, 1, eq - 1), TRUE), Unescaped(SubSeq(E, eq + 1, Len(E)), TRUE)>>>>
          ELSE <<>>
    BY DEF PairOf, eq
  <2> QED
    BY <1>19, <1>20, <1>21, <2>1
<1>23. PairOf(E, keep) = IF v # <<>> \/ keep THEN <<<<k, v>>>> ELSE <<>>
  BY <1>3, <1>4, <1>22
<1>24. PairText(E, k, v, keep)
  BY <1>11, <1>23 DEF PairText
<1> QED
  BY <1>1, <1>24

(* The text of three pairs. *)
EncodedAs(a, b, c) ==
    Encoded(<<a, b, c>>) =
        Append(Append(<<>> \o urlencode_pair(a), Amp) \o urlencode_pair(b), Amp) \o urlencode_pair(c)

LEMMA EncodedIs == ASSUME NEW a, NEW b, NEW c PROVE EncodedAs(a, b, c)
<1> DEFINE pairs == <<a, b, c>>
           D == 0..Len(pairs)
           Grow(x, i) == (IF i = 1 THEN <<>> ELSE Append(x, Amp)) \o urlencode_pair(pairs[i])
           Body(f) == [i \in D |-> IF i = 0 THEN <<>> ELSE Grow(f[i - 1], i)]
           Eq(f) == f = Body(f)
           h == Grow(<<>>, 1)
           m == Grow(h, 2)
           w == Grow(m, 3)
           g == [i \in D |-> IF i = 0 THEN <<>> ELSE IF i = 1 THEN h ELSE IF i = 2 THEN m ELSE w]
           encoded == CHOOSE f : Eq(f)
<1>1. Len(pairs) = 3 /\ pairs[1] = a /\ pairs[2] = b /\ pairs[3] = c
  OBVIOUS
<1>2. Encoded(pairs) = encoded[Len(pairs)]
  BY DEF Encoded
<1>3. D = {0, 1, 2, 3}
  BY <1>1
<1>4. /\ h = <<>> \o urlencode_pair(a) /\ m = Append(h, Amp) \o urlencode_pair(b)
      /\ w = Append(m, Amp) \o urlencode_pair(c)
  <2>1. h = <<>> \o urlencode_pair(a)
    BY <1>1
  <2>2. m = Append(h, Amp) \o urlencode_pair(b)
    <3> HIDE DEF h, pairs
    <3> QED
      BY <1>1
  <2>3. w = Append(m, Amp) \o urlencode_pair(c)
    <3> HIDE DEF m, pairs
    <3> QED
      BY <1>1
  <2> QED
    BY <2>1, <2>2, <2>3
<1>20. \A x : Grow(x, 1) = h
  OBVIOUS
<1> HIDE DEF pairs, D, Grow
<1>5. g[0] = <<>> /\ g[1] = h /\ g[2] = m /\ g[3] = w
  <2> HIDE DEF h, m, w
  <2> QED
    BY <1>3
<1>6. ASSUME NEW i \in D PROVE g[i] = IF i = 0 THEN <<>> ELSE Grow(g[i - 1], i)
  <2> HIDE DEF g
  <2>1. CASE i = 0
    BY <1>5, <2>1
  <2>2. CASE i = 1
    <3>1. i - 1 = 0
      BY <2>2
    <3> QED
      BY <1>5, <2>2, <3>1
  <2>3. CASE i = 2
    <3>1. i - 1 = 1
      BY <2>3
    <3> QED
      BY <1>5, <2>3, <3>1
  <2>4. CASE i = 3
    <3>1. i - 1 = 2
      BY <2>4
    <3> QED
      BY <1>5, <2>4, <3>1
  <2> QED
    BY <1>3, <2>1, <2>2, <2>3, <2>4
<1>7. Eq(g)
  <2>1. Body(g) = [i \in D |-> g[i]]
    <3> HIDE DEF g
    <3> QED
      BY <1>6
  <2> HIDE DEF h, m, w
  <2> QED
    BY <2>1
<1>8. Eq(encoded)
  <2> HIDE DEF Eq
  <2> QED
    BY <1>7
<1> HIDE DEF encoded, g
<1>9. \A i \in D : encoded[i] = IF i = 0 THEN <<>> ELSE Grow(encoded[i - 1], i)
  <2>1. \A f : \A i \in D : Body(f)[i] = IF i = 0 THEN <<>> ELSE Grow(f[i - 1], i)
    OBVIOUS
  <2>2. encoded = Body(encoded)
    BY <1>8
  <2> HIDE DEF Body
  <2> QED
    BY <2>1, <2>2
<1> HIDE DEF Eq, Body
<1>10. encoded[1] = h
  <2>1. 1 \in D /\ 1 # 0
    BY <1>3
  <2>2. encoded[1] = Grow(encoded[1 - 1], 1)
    BY <1>9, <2>1
  <2> QED
    BY <1>20, <2>2
<1> HIDE DEF h
<1>11. encoded[2] = m
  <2>1. 2 \in D /\ 2 # 0 /\ 2 - 1 = 1
    BY <1>3
  <2>2. encoded[2] = Grow(encoded[2 - 1], 2)
    BY <1>9, <2>1
  <2> QED
    BY <1>10, <2>1, <2>2
<1> HIDE DEF m
<1>12. encoded[3] = w
  <2>1. 3 \in D /\ 3 # 0 /\ 3 - 1 = 2
    BY <1>3
  <2>2. encoded[3] = Grow(encoded[3 - 1], 3)
    BY <1>9, <2>1
  <2> QED
    BY <1>11, <2>1, <2>2
<1> HIDE DEF w
<1>13. Encoded(pairs) = w
  BY <1>1, <1>2, <1>12
<1> QED
  BY <1>4, <1>13 DEF pairs, EncodedAs

(* A text and the separator after it, from the end of what came before. *)
LEMMA PartAndSep ==
    ASSUME NEW s \in Seq(Int), NEW keep, NEW f, Parsed(s, keep, f), NEW pairs,
           NEW u \in Seq(Int), NEW x \in Seq(Int), Plain(x, {Amp, Semi}),
           Begins(Append(u \o x, Amp), s), ParsedAt(f[Len(u)], pairs, <<>>)
    PROVE  /\ Append(u \o x, Amp) \in Seq(Int)
           /\ ParsedAt(f[Len(Append(u \o x, Amp))], pairs \o PairOf(x, keep), <<>>)
<1> DEFINE ux == u \o x
           t == Append(ux, Amp)
           a == Len(ux)
           b == a + 1
<1>1. ux \in Seq(Int) /\ Begins(ux, ux)
  BY ConcatBegins
<1> HIDE DEF ux
<1>2. Len(u) \in Nat /\ a \in Nat
  BY <1>1, LenProperties
<1>3. Amp \in Int
  BY DEF Amp
<1>4. t \in Seq(Int) /\ Len(t) = b /\ t[b] = Amp /\ \A k \in 1..a : t[k] = ux[k]
  BY <1>1, <1>3, AppendProperties
<1> HIDE DEF t
<1>5. Begins(ux, t)
  BY <1>2, <1>4 DEF Begins
<1>6. Begins(t, s)
  BY DEF t, ux
<1>7. Begins(ux, s)
  BY <1>1, <1>4, <1>5, <1>6, BeginsOn
<1>8. Stands(x, s, Len(u)) /\ a = Len(u) + Len(x)
  BY <1>7, WrittenStands DEF ux
<1>9. ParsedAt(f[a], pairs, x)
  <2>1. ParsedAt(f[Len(u) + Len(x)], pairs, x)
    BY <1>2, <1>8, PartRead
  <2> QED
    BY <1>8, <2>1
<1> HIDE DEF a
<1>10. b = a + 1 /\ b \in Nat /\ b \in 1..Len(t)
  BY <1>2, <1>4
<1> HIDE DEF b
<1>11. s[b] = Amp /\ b <= Len(s)
  BY <1>4, <1>6, <1>10 DEF Begins
<1>12. ParsedAt(f[b], pairs \o PairOf(x, keep), <<>>)
  BY <1>2, <1>9, <1>10, <1>11, SepRead
<1> QED
  BY <1>4, <1>12 DEF t, ux

(* Three parts with separators between them. *)
ReadInParts(x, y, z, keep) ==
    PairsIn(Append(Append(<<>> \o x, Amp) \o y, Amp) \o z, keep)
        = ((<<>> \o PairOf(x, keep)) \o PairOf(y, keep)) \o PairOf(z, keep)

LEMMA ThreeParts ==
    ASSUME NEW x \in Seq(Int), Plain(x, {Amp, Semi}), NEW y \in Seq(Int), Plain(y, {Amp, Semi}),
           NEW z \in Seq(Int), Plain(z, {Amp, Semi}), NEW keep
    PROVE  ReadInParts(x, y, z, keep)
<1> DEFINE e == <<>>
           t1 == Append(e \o x, Amp)
           t2 == Append(t1 \o y, Amp)
           s == t2 \o z
<1>1. e \in Seq(Int) /\ Len(e) = 0 /\ Amp \in Int
  BY EmptySeq DEF Amp
<1> HIDE DEF e
<1>2. ASSUME NEW u \in Seq(Int), NEW v \in Seq(Int)
      PROVE  Append(u \o v, Amp) \in Seq(Int) /\ Begins(u, Append(u \o v, Amp))
  <2> DEFINE uv == u \o v
  <2>1. uv \in Seq(Int) /\ Begins(u, uv)
    BY ConcatBegins
  <2> HIDE DEF uv
  <2>2. /\ Append(uv, Amp) \in Seq(Int) /\ Len(Append(uv, Amp)) = Len(uv) + 1
        /\ \A k \in 1..Len(uv) : Append(uv, Amp)[k] = uv[k]
    BY <1>1, <2>1, AppendProperties
  <2>3. Len(uv) \in Nat
    BY <2>1, LenProperties
  <2>4. Begins(uv, Append(uv, Amp))
    BY <2>2, <2>3 DEF Begins
  <2>5. Begins(u, Append(uv, Amp))
    BY <2>1, <2>2, <2>4, BeginsOn
  <2> QED
    BY <2>2, <2>5 DEF uv
<1>3. t1 \in Seq(Int)
  BY <1>1, <1>2
<1>4. t2 \in Seq(Int) /\ Begins(t1, t2)
  <2> HIDE DEF t1
  <2> QED
    BY <1>2, <1>3
<1>5. s \in Seq(Int) /\ Begins(t2, s) /\ Begins(s, s)
  <2> HIDE DEF t2
  <2> QED
    BY <1>4, ConcatBegins
<1>6. Begins(t1, s)
  <2> HIDE DEF t1, t2, s
  <2> QED
    BY <1>3, <1>4, <1>5, BeginsOn
<1>7. t1 = Append(e \o x, Amp) /\ t2 = Append(t1 \o y, Amp) /\ s = t2 \o z
  OBVIOUS
<1> HIDE DEF s, t1, t2
<1>8. PICK f : Parsed(s, keep, f) /\ PairsIn(s, keep) = f[Len(s)].pairs \o PairOf(f[Len(s)].part, keep)
  BY <1>5, ParsedIs
<1>9. ParsedAt(f[Len(e)], <<>>, <<>>)
  <2>1. 0 \in 0..Len(s)
    BY <1>5, LenProperties
  <2>2. f[0] \in Parsing /\ f[0] = [pairs |-> <<>>, part |-> <<>>]
    BY <1>8, <2>1 DEF Parsed
  <2> QED
    BY <1>1, <2>2 DEF ParsedAt
<1> DEFINE p0 == <<>>
           p1 == p0 \o PairOf(x, keep)
           p2 == p1 \o PairOf(y, keep)
<1>10. ParsedAt(f[Len(e)], p0, <<>>)
  BY <1>9
<1>11. ParsedAt(f[Len(t1)], p1, <<>>)
  <2> HIDE DEF p0
  <2>1. Begins(Append(e \o x, Amp), s)
    BY <1>6, <1>7
  <2>2. ParsedAt(f[Len(Append(e \o x, Amp))], p0 \o PairOf(x, keep), <<>>)
    BY <1>1, <1>5, <1>8, <1>10, <2>1, PartAndSep
  <2> QED
    BY <1>7, <2>2
<1> HIDE DEF p1
<1>12. ParsedAt(f[Len(t2)], p2, <<>>)
  <2>1. Begins(Append(t1 \o y, Amp), s)
    BY <1>5, <1>7
  <2>2. ParsedAt(f[Len(Append(t1 \o y, Amp))], p1 \o PairOf(y, keep), <<>>)
    BY <1>3, <1>5, <1>8, <1>11, <2>1, PartAndSep
  <2> QED
    BY <1>7, <2>2
<1> HIDE DEF p2
<1>13. Stands(z, s, Len(t2)) /\ Len(s) = Len(t2) + Len(z)
  <2>1. Begins(t2 \o z, s)
    BY <1>5, <1>7
  <2>2. Stands(z, s, Len(t2)) /\ Len(t2 \o z) = Len(t2) + Len(z)
    BY <1>4, <1>5, <2>1, WrittenStands
  <2> QED
    BY <1>7, <2>2
<1>14. ParsedAt(f[Len(t2) + Len(z)], p2, z)
  <2>1. Len(t2) \in Nat
    BY <1>4, LenProperties
  <2> QED
    BY <1>5, <1>8, <1>12, <1>13, <2>1, PartRead
<1>15. ParsedAt(f[Len(s)], p2, z)
  BY <1>13, <1>14
<1>16. PairsIn(s, keep) = p2 \o PairOf(z, keep)
  BY <1>8, <1>15 DEF ParsedAt
<1> QED
  BY <1>7, <1>16 DEF p2, p1, p0, e, ReadInParts

(* One after another. *)
LEMMA Singles ==
    ASSUME NEW S, NEW p \in S, NEW q \in S
    PROVE  <<p>> \o <<q>> = <<p, q>> /\ <<p, q>> \o <<p>> = <<p, q, p>>
<1> DEFINE x == <<p>>
           y == <<q>>
           z == <<p, q>>
           w == <<p, q, p>>
<1>1. x \in Seq(S) /\ Len(x) = 1 /\ x[1] = p
  OBVIOUS
<1>2. y \in Seq(S) /\ Len(y) = 1 /\ y[1] = q
  OBVIOUS
<1>3. z \in Seq(S) /\ Len(z) = 2 /\ z[1] = p /\ z[2] = q
  OBVIOUS
<1>4. w \in Seq(S) /\ Len(w) = 3 /\ w[1] = p /\ w[2] = q /\ w[3] = p
  OBVIOUS
<1> HIDE DEF x, y, z, w
<1>5. x \o y = z
  <2> DEFINE t == x \o y
  <2>1. /\ t \in Seq(S) /\ Len(t) = Len(x) + Len(y)
        /\ \A k \in 1..Len(x) + Len(y) : t[k] = IF k <= Len(x) THEN x[k] ELSE y[k - Len(x)]
    BY <1>1, <1>2, ConcatProperties
  <2> HIDE DEF t
  <2>2. Len(t) = 2 /\ t[1] = p /\ t[2] = q
    BY <1>1, <1>2, <2>1
  <2>3. \A k \in 1..Len(t) : k = 1 \/ k = 2
    BY <2>2
  <2>4. t = z
    BY <1>3, <2>1, <2>2, <2>3, SeqEqual
  <2> QED
    BY <2>4 DEF t
<1>6. z \o x = w
  <2> DEFINE t == z \o x
  <2>1. /\ t \in Seq(S) /\ Len(t) = Len(z) + Len(x)
        /\ \A k \in 1..Len(z) + Len(x) : t[k] = IF k <= Len(z) THEN z[k] ELSE x[k - Len(z)]
    BY <1>1, <1>3, ConcatProperties
  <2> HIDE DEF t
  <2>2. Len(t) = 3 /\ t[1] = p /\ t[2] = q /\ t[3] = p
    BY <1>1, <1>3, <2>1
  <2>3. \A k \in 1..Len(t) : k = 1 \/ k = 2 \/ k = 3
    BY <2>2
  <2>4. t = w
    BY <1>4, <2>1, <2>2, <2>3, SeqEqual
  <2> QED
    BY <2>4 DEF t
<1> QED
  BY <1>5, <1>6 DEF x, y, z, w

(* One ASCII character more. *)
LEMMA AsciiGrows ==
    ASSUME NEW x \in Seq(Int), Plain(x, High), NEW c \in Int, c < 128
    PROVE  Append(x, c) \in Seq(Int) /\ Plain(Append(x, c), High)
<1> DEFINE t == Append(x, c)
<1>1. Len(x) \in Nat
  BY LenProperties
<1>2. t \in Seq(Int) /\ Len(t) = Len(x) + 1 /\ t[Len(x) + 1] = c /\ \A k \in 1..Len(x) : t[k] = x[k]
  BY AppendProperties
<1> HIDE DEF t
<1>3. \A k \in 1..Len(t) : k \in 1..Len(x) \/ k = Len(x) + 1
  BY <1>1, <1>2
<1>4. Plain(t, High)
  <2>1. c \notin High
    BY DEF High
  <2>2. \A k \in 1..Len(x) : x[k] \notin High
    BY DEF Plain
  <2>3. \A k \in 1..Len(t) : t[k] \notin High
    BY <1>2, <1>3, <2>1, <2>2
  <2> QED
    BY <2>3 DEF Plain
<1> QED
  BY <1>2, <1>4 DEF t

(* parse_qsl returns the pairs if both parts of each are texts. *)
AllTexts(ps) == \A i \in DOMAIN ps : utf8_check(ps[i][1]) /\ utf8_check(ps[i][2])

LEMMA TextsOf ==
    ASSUME NEW k, NEW v, NEW e, utf8_check(e)
    PROVE  /\ AllTexts(<<<<k, v>>, <<k, e>>, <<k, v>>>>) <=> utf8_check(k) /\ utf8_check(v)
           /\ AllTexts(<<<<k, v>>, <<k, v>>>>) <=> utf8_check(k) /\ utf8_check(v)
           /\ AllTexts(<<>>)
<1>1. <<k, v>>[1] = k /\ <<k, v>>[2] = v /\ <<k, e>>[1] = k /\ <<k, e>>[2] = e
  OBVIOUS
<1>2. ASSUME NEW p, NEW q, p[1] = k, p[2] = v, q[1] = k, q[2] = e
      PROVE  /\ AllTexts(<<p, q, p>>) <=> utf8_check(k) /\ utf8_check(v)
             /\ AllTexts(<<p, p>>) <=> utf8_check(k) /\ utf8_check(v)
  <2>1. DOMAIN <<p, q, p>> = 1..3 /\ <<p, q, p>>[1] = p /\ <<p, q, p>>[2] = q /\ <<p, q, p>>[3] = p
    OBVIOUS
  <2>2. DOMAIN <<p, p>> = 1..2 /\ <<p, p>>[1] = p /\ <<p, p>>[2] = p
    OBVIOUS
  <2>3. \A i \in 1..3 : i = 1 \/ i = 2 \/ i = 3
    OBVIOUS
  <2>4. \A i \in 1..2 : i = 1 \/ i = 2
    OBVIOUS
  <2>5. 1 \in 1..3 /\ 1 \in 1..2
    OBVIOUS
  <2>6. AllTexts(<<p, q, p>>) <=> utf8_check(k) /\ utf8_check(v)
    <3> DEFINE s == <<p, q, p>>
    <3>1. DOMAIN s = 1..3 /\ s[1] = p /\ s[2] = q /\ s[3] = p
      BY <2>1
    <3> HIDE DEF s
    <3>2. AllTexts(s) <=> utf8_check(k) /\ utf8_check(v)
      BY <1>2, <2>3, <2>5, <3>1 DEF AllTexts
    <3> QED
      BY <3>2 DEF s
  <2>7. AllTexts(<<p, p>>) <=> utf8_check(k) /\ utf8_check(v)
    <3> DEFINE s == <<p, p>>
    <3>1. DOMAIN s = 1..2 /\ s[1] = p /\ s[2] = p
      BY <2>2
    <3> HIDE DEF s
    <3>2. AllTexts(s) <=> utf8_check(k) /\ utf8_check(v)
      BY <1>2, <2>4, <2>5, <3>1 DEF AllTexts
    <3> QED
      BY <3>2 DEF s
  <2> QED
    BY <2>6, <2>7
<1>3. AllTexts(<<>>)
  <2>1. DOMAIN <<>> = {}
    OBVIOUS
  <2> QED
    BY <2>1 DEF AllTexts
<1> QED
  BY <1>1, <1>2, <1>3

(* Three pairs written and read again. *)
ReadBack(kv) ==
    LET pairs == <<kv, <<kv[1], <<>>>>, kv>>
        query == urlencode(pairs)
        texts == utf8_check(kv[1]) /\ utf8_check(kv[2])
    IN  /\ ~query.raised
        /\ parse_qsl(query.value, TRUE) =
               IF texts THEN Returned(pairs) ELSE UnicodeError
        /\ parse_qsl(query.value, FALSE) =
               IF kv[2] = <<>> THEN Returned(<<>>)
               ELSE IF texts THEN Returned(<<kv, kv>>) ELSE UnicodeError

LEMMA PairsRead ==
    ASSUME NEW k \in Seq(Octets), k # <<>>, NEW v \in Seq(Octets)
    PROVE  ReadBack(<<k, v>>)
<1> DEFINE kv == <<k, v>>
           ke == <<k, <<>>>>
           pairs == <<kv, ke, kv>>
           x == urlencode_pair(kv)
           y == urlencode_pair(ke)
<1>1. <<>> \in Seq(Octets)
  BY EmptySeq
<1>2. \A keep : PairText(x, k, v, keep)
  BY PairRead
<1>3. \A keep : PairText(y, k, <<>>, keep)
  BY <1>1, PairRead
<1>4. /\ x \in Seq(Int) /\ Plain(x, {Amp, Semi}) /\ Plain(x, High)
      /\ y \in Seq(Int) /\ Plain(y, {Amp, Semi}) /\ Plain(y, High)
  BY <1>2, <1>3 DEF PairText
<1>5. \A keep : PairOf(x, keep) = IF v # <<>> \/ keep THEN <<kv>> ELSE <<>>
  BY <1>2 DEF PairText
<1>6. \A keep : PairOf(y, keep) = IF keep THEN <<ke>> ELSE <<>>
  BY <1>3 DEF PairText
<1> DEFINE t == Append(Append(<<>> \o x, Amp) \o y, Amp) \o x
<1>7. Encoded(pairs) = t
  <2> HIDE DEF kv, ke
  <2>1. EncodedAs(kv, ke, kv)
    BY EncodedIs
  <2> QED
    BY <2>1 DEF EncodedAs
<1> HIDE DEF x, y
<1>8. ASSUME NEW keep
      PROVE  PairsIn(Encoded(pairs), keep)
               = ((<<>> \o PairOf(x, keep)) \o PairOf(y, keep)) \o PairOf(x, keep)
  <2>1. PairsIn(t, keep) = ((<<>> \o PairOf(x, keep)) \o PairOf(y, keep)) \o PairOf(x, keep)
    <3>1. ReadInParts(x, y, x, keep)
      BY <1>4, ThreeParts
    <3> QED
      BY <3>1 DEF ReadInParts
  <2> HIDE DEF t, pairs
  <2> QED
    BY <1>7, <2>1
<1> HIDE DEF t
<1> DEFINE S == {kv, ke}
<1>9. ASSUME NEW p \in S, NEW q \in S
      PROVE  /\ ((<<>> \o <<p>>) \o <<q>>) \o <<p>> = <<p, q, p>>
             /\ ((<<>> \o <<p>>) \o <<>>) \o <<p>> = <<p, p>>
             /\ ((<<>> \o <<>>) \o <<>>) \o <<>> = <<>>
  <2> HIDE DEF S
  <2>1. <<p>> \in Seq(S) /\ <<q>> \in Seq(S) /\ <<>> \in Seq(S)
    BY EmptySeq
  <2>2. <<>> \o <<p>> = <<p>> /\ <<p>> \o <<>> = <<p>>
    BY <2>1, ConcatEmptySeq
  <2>3. <<>> \o <<>> = <<>>
    BY <2>1, ConcatEmptySeq
  <2>4. <<p>> \o <<q>> = <<p, q>> /\ <<p>> \o <<p>> = <<p, p>> /\ <<p, q>> \o <<p>> = <<p, q, p>>
    BY Singles
  <2> QED
    BY <2>2, <2>3, <2>4
<1> HIDE DEF kv, ke, S
<1>10. kv \in S /\ ke \in S
  BY DEF S
<1>11. PairsIn(Encoded(pairs), TRUE) = pairs
  <2>1. PairOf(x, TRUE) = <<kv>> /\ PairOf(y, TRUE) = <<ke>>
    BY <1>5, <1>6
  <2> QED
    BY <1>8, <1>9, <1>10, <2>1
<1>12. PairsIn(Encoded(pairs), FALSE) = IF v = <<>> THEN <<>> ELSE <<kv, kv>>
  <2>1. PairOf(x, FALSE) = (IF v = <<>> THEN <<>> ELSE <<kv>>) /\ PairOf(y, FALSE) = <<>>
    BY <1>5, <1>6
  <2>2. CASE v = <<>>
    BY <1>8, <1>9, <1>10, <2>1, <2>2
  <2>3. CASE v # <<>>
    BY <1>8, <1>9, <1>10, <2>1, <2>3
  <2> QED
    BY <2>2, <2>3
<1>13. kv[1] = k /\ kv[2] = v /\ pairs = <<kv, <<kv[1], <<>>>>, kv>>
  BY DEF kv, ke
<1>14. urlencode(pairs) = Returned(t)
  <2> DEFINE t1 == Append(<<>> \o x, Amp)
             t2 == Append(t1 \o y, Amp)
  <2>1. Amp \in Int /\ Amp < 128 /\ <<>> \in Seq(Int) /\ Plain(<<>>, High)
    <3>1. 1..0 = {} /\ Len(<<>>) = 0
      BY EmptySeq
    <3> QED
      BY <3>1, EmptySeq DEF Amp, Plain
  <2>2. t1 \in Seq(Int) /\ Plain(t1, High)
    <3>1. <<>> \o x = x
      BY <1>4, ConcatEmptySeq
    <3> QED
      BY <1>4, <2>1, <3>1, AsciiGrows
  <2>3. t = t2 \o x
    BY DEF t
  <2> HIDE DEF t1
  <2>4. t2 \in Seq(Int) /\ Plain(t2, High)
    <3> DEFINE u == t1 \o y
    <3>1. u \in Seq(Int) /\ Plain(u, High)
      BY <1>4, <2>2, PlainOn
    <3> HIDE DEF u
    <3>2. Append(u, Amp) \in Seq(Int) /\ Plain(Append(u, Amp), High)
      BY <2>1, <3>1, AsciiGrows
    <3> QED
      BY <3>2 DEF u
  <2> HIDE DEF t2
  <2>5. t \in Seq(Int) /\ Plain(t, High)
    BY <1>4, <2>3, <2>4, PlainOn
  <2>6. mp_obj_new_str_from_vstr(t) = Returned(t)
    BY <2>5, AsciiPasses
  <2> QED
    BY <1>7, <2>6 DEF urlencode
<1>15. utf8_check(<<>>)
  <2>1. <<>> \in Seq(Int) /\ Plain(<<>>, High)
    <3>1. 1..0 = {} /\ Len(<<>>) = 0
      BY EmptySeq
    <3> QED
      BY <3>1, EmptySeq DEF Plain
  <2> QED
    BY <2>1, AsciiPasses
<1> DEFINE texts == utf8_check(k) /\ utf8_check(v)
<1>16. (AllTexts(pairs) <=> texts) /\ (AllTexts(<<kv, kv>>) <=> texts) /\ AllTexts(<<>>)
  BY <1>15, TextsOf DEF pairs, kv, ke
<1>17. \A keep : parse_qsl(t, keep) = IF AllTexts(PairsIn(t, keep)) THEN Returned(PairsIn(t, keep)) ELSE UnicodeError
  BY DEF parse_qsl, AllTexts
<1>18. Returned(t).raised = FALSE /\ Returned(t).value = t
  BY DEF Returned
<1> HIDE DEF texts
<1>19. parse_qsl(t, TRUE) = IF texts THEN Returned(pairs) ELSE UnicodeError
  <2>1. PairsIn(t, TRUE) = pairs
    BY <1>7, <1>11
  <2> QED
    BY <1>16, <1>17, <2>1
<1>20. parse_qsl(t, FALSE) = IF v = <<>> THEN Returned(<<>>)
                             ELSE IF texts THEN Returned(<<kv, kv>>) ELSE UnicodeError
  <2>1. PairsIn(t, FALSE) = IF v = <<>> THEN <<>> ELSE <<kv, kv>>
    BY <1>7, <1>12
  <2>2. CASE v = <<>>
    BY <1>16, <1>17, <2>1, <2>2
  <2>3. CASE v # <<>>
    BY <1>16, <1>17, <2>1, <2>3
  <2> QED
    BY <2>2, <2>3
<1> HIDE DEF pairs, t, kv
<1>21. ReadBack(kv)
  <2>1. texts <=> utf8_check(kv[1]) /\ utf8_check(kv[2])
    BY <1>13 DEF texts
  <2>2. urlencode(<<kv, <<kv[1], <<>>>>, kv>>) = Returned(t)
    BY <1>13, <1>14
  <2> QED
    BY <1>13, <1>18, <1>19, <1>20, <2>1, <2>2 DEF ReadBack
<1> QED
  BY <1>21 DEF kv

(* quote answers for bytes of every kind and every usual safe set, and unquote
   undoes it for the bytes that are a text and raises for the others; it never
   makes a text longer; parse_qsl undoes urlencode in the same way; urlsplit
   loses nothing: for texts of every length. *)
THEOREM UrlsAreRoundTrip == LSpec => []UrlsRoundTrip
<1>1. WordInv => UrlsRoundTrip
  <2> SUFFICES ASSUME WordInv, domain = "url" PROVE UrlsRoundTrip
    BY DEF UrlsRoundTrip
  <2>1. word \in Seq(Octets) /\ word \in Seq(Int) /\ Len(word) \in Nat
    <3>1. word \in Seq(Octets) /\ Octets \subseteq Int
      BY DEF WordInv, Domains, Octets
    <3> QED
      BY <3>1, SeqMonotonic, LenProperties
  <2>2. ASSUME NEW plus \in BOOLEAN, NEW safe \in {{}, {SlashC}, {ColonC, SlashC}}
        PROVE  LET quoted == quote_inner(word, safe, plus)
               IN  /\ ~quoted.raised
                   /\ do_unquote(quoted.value, plus) =
                          IF utf8_check(word) THEN Returned(word) ELSE UnicodeError
    <3> DEFINE Q == Quoted(word, safe, plus)
    <3>1. safe \in SafeSets
      BY <2>2 DEF SafeSets
    <3>2. Unescaped(Q, plus) = word /\ quote_inner(word, safe, plus) = Returned(Q)
      BY <2>1, <3>1, QuoteRead, QuoteReturns
    <3> HIDE DEF Q
    <3>3. Returned(Q).raised = FALSE /\ Returned(Q).value = Q
      BY DEF Returned
    <3>4. do_unquote(Q, plus) = IF utf8_check(word) THEN Returned(word) ELSE UnicodeError
      BY <3>2 DEF do_unquote, mp_obj_new_str_from_vstr
    <3> QED
      BY <3>2, <3>3, <3>4
  <2>3. ASSUME NEW plus \in BOOLEAN PROVE Len(do_unquote(word, plus).value) <= Len(word)
    <3> DEFINE U == Unescaped(word, plus)
    <3>1. Len(U) <= Len(word)
      BY <2>1, NotLonger
    <3>2. Len(<<>>) <= Len(word)
      BY <2>1, EmptySeq
    <3>3. do_unquote(word, plus) = Returned(U) \/ do_unquote(word, plus) = UnicodeError
      BY DEF do_unquote, mp_obj_new_str_from_vstr
    <3> HIDE DEF U
    <3>4. Returned(U).value = U /\ UnicodeError.value = <<>>
      BY DEF Returned, UnicodeError
    <3> QED
      BY <3>1, <3>2, <3>3, <3>4
  <2>4. ASSUME NEW kv \in Cuts PROVE ReadBack(kv)
    <3>1. PICK i \in 1..Len(word) : kv = <<SubSeq(word, 1, i), SubSeq(word, i + 1, Len(word))>>
      BY <2>4 DEF Cuts
    <3> DEFINE k == SubSeq(word, 1, i)
               v == SubSeq(word, i + 1, Len(word))
    <3>2. kv = <<k, v>>
      BY <3>1
    <3>3. k \in Seq(Octets) /\ k # <<>>
      <4>1. i \in Nat /\ i <= Len(word) /\ i > 0
        BY <2>1
      <4>2. k \in Seq(Octets) /\ Len(k) = i
        BY <2>1, <4>1, FrontIs DEF Segment
      <4> HIDE DEF k
      <4> QED
        BY <4>1, <4>2, EmptySeq
    <3>4. v \in Seq(Octets)
      <4> DEFINE n == Len(word) - i
      <4>1. i \in Nat /\ n \in Nat /\ i + n <= Len(word) /\ i + n = Len(word)
        BY <2>1
      <4> HIDE DEF n
      <4>2. SubSeq(word, i + 1, i + n) \in Seq(Octets)
        BY <2>1, <4>1, PieceIs
      <4> QED
        BY <4>1, <4>2
    <3> HIDE DEF k, v
    <3> QED
      BY <3>2, <3>3, <3>4, PairsRead
  <2>5. SplitRight(word)
    BY <2>1, UrlSplitIs
  <2> QED
    BY <2>2, <2>3, <2>4, <2>5 DEF UrlsRoundTrip, SplitRight, ReadBack
<1> QED
  BY <1>1, WordsAreTexts, PTL

-----------------------------------------------------------------------------
(* base64 and base16 *)

(* Six bits. *)
Sixth == {b \in Int : 0 <= b /\ b < 64}
(* The powers of two the code shifts by. *)
LEMMA Shifts == 2^0 = 1 /\ 2^2 = 4 /\ 2^4 = 16 /\ 2^6 = 64 /\ 2^12 = 4096 /\ 2^16 = 65536 /\ 2^18 = 262144
  OBVIOUS
(* The letter of a sextet is read back, and is neither white space nor padding. *)
LEMMA LetterRead ==
    ASSUME NEW v \in Int, 0 <= v, v < 64
    PROVE  /\ b64_alphabet(v) \in Int /\ b64_alphabet(v) \notin Blank /\ b64_alphabet(v) # Pad
           /\ b64_decode_char(b64_alphabet(v)) = v
<1>1. CASE v < 26
  <2>1. b64_alphabet(v) = 65 + v
    BY <1>1 DEF b64_alphabet
  <2> QED
    BY <1>1, <2>1 DEF b64_decode_char, Blank, Pad
<1>2. CASE 26 <= v /\ v <= 51
  <2>1. b64_alphabet(v) = 71 + v
    BY <1>2 DEF b64_alphabet
  <2> QED
    BY <1>2, <2>1 DEF b64_decode_char, Blank, Pad
<1>3. CASE 52 <= v /\ v <= 61
  <2>1. b64_alphabet(v) = v - 4
    BY <1>3 DEF b64_alphabet
  <2> QED
    BY <1>3, <2>1 DEF b64_decode_char, Blank, Pad
<1>4. CASE v = 62
  <2>1. b64_alphabet(v) = 43
    BY <1>4 DEF b64_alphabet
  <2> QED
    BY <1>4, <2>1 DEF b64_decode_char, Blank, Pad
<1>5. CASE v = 63
  <2>1. b64_alphabet(v) = 47
    BY <1>5 DEF b64_alphabet
  <2> QED
    BY <1>5, <2>1 DEF b64_decode_char, Blank, Pad
<1> QED
  BY <1>1, <1>2, <1>3, <1>4, <1>5

(* A quotient is the number the multiple of it says. *)
LEMMA QuotientIs ==
    ASSUME NEW d \in Nat, d > 0, NEW q \in Int, NEW r \in Int, 0 <= r, r < d
    PROVE  (d * q + r) \div d = q /\ (d * q + r) % d = r
  OBVIOUS

(* The two parts of a byte that end up in different sextets. *)
LEMMA OctetParts ==
    ASSUME NEW x \in Octets
    PROVE  /\ x = 4 * (x \div 4) + (x % 4) /\ x \div 4 \in Int /\ 0 <= x \div 4 /\ x \div 4 < 64
           /\ x % 4 \in Int /\ 0 <= x % 4 /\ x % 4 < 4
           /\ x = 16 * (x \div 16) + (x % 16) /\ x \div 16 \in Int /\ 0 <= x \div 16 /\ x \div 16 < 16
           /\ x % 16 \in Int /\ 0 <= x % 16 /\ x % 16 < 16
           /\ x = 64 * (x \div 64) + (x % 64) /\ x \div 64 \in Int /\ 0 <= x \div 64 /\ x \div 64 < 4
           /\ x % 64 \in Int /\ 0 <= x % 64 /\ x % 64 < 64
<1>1. /\ x = 4 * (x \div 4) + (x % 4) /\ x \div 4 \in Int /\ 0 <= x \div 4 /\ x \div 4 < 64
      /\ x % 4 \in Int /\ 0 <= x % 4 /\ x % 4 < 4
  BY DEF Octets
<1>2. /\ x = 16 * (x \div 16) + (x % 16) /\ x \div 16 \in Int /\ 0 <= x \div 16 /\ x \div 16 < 16
      /\ x % 16 \in Int /\ 0 <= x % 16 /\ x % 16 < 16
  BY DEF Octets
<1>3. /\ x = 64 * (x \div 64) + (x % 64) /\ x \div 64 \in Int /\ 0 <= x \div 64 /\ x \div 64 < 4
      /\ x % 64 \in Int /\ 0 <= x % 64 /\ x % 64 < 64
  BY DEF Octets
<1> QED
  BY <1>1, <1>2, <1>3

(* What the decoder computes of the accumulator, and the sextets of a group. *)
Shifted(B, v) == (B * 64 + v) % 65536
Upper(b, d) == (b \div d) % 256
Sextet0(a) == a \div 4
Sextet1(a, b) == 16 * (a % 4) + b \div 16
Sextet2(b, c) == 4 * (b % 16) + c \div 64
Sextet3(c) == c % 64
Byte1(v, w) == 4 * v + w \div 16
Byte2(v, w) == 16 * (v % 16) + w \div 4
Byte3(v, w) == 64 * (v % 4) + w

(* A byte of the data, or the zero in its place. *)
At(s, k) == IF k <= Len(s) THEN s[k] ELSE 0

(* The sextets of three bytes. *)
LEMMA SextetsAre ==
    ASSUME NEW s, NEW g \in Nat, NEW a \in Octets, NEW b \in Octets, NEW c \in Octets,
           a = At(s, 3 * g + 1), b = At(s, 3 * g + 2), c = At(s, 3 * g + 3)
    PROVE  /\ Sextet(s, g, 0) = Sextet0(a) /\ Sextet(s, g, 1) = Sextet1(a, b)
           /\ Sextet(s, g, 2) = Sextet2(b, c) /\ Sextet(s, g, 3) = Sextet3(c)
<1> DEFINE V == a * 65536 + b * 256 + c
<1>1. /\ Sextet(s, g, 0) = (V \div 2^18) % 64
      /\ Sextet(s, g, 1) = (V \div 2^12) % 64
      /\ Sextet(s, g, 2) = (V \div 2^6) % 64
      /\ Sextet(s, g, 3) = (V \div 2^0) % 64
  <2>1. 18 - 6 * 0 = 18 /\ 18 - 6 * 1 = 12 /\ 18 - 6 * 2 = 6 /\ 18 - 6 * 3 = 0
    OBVIOUS
  <2>2. \A j : Sextet(s, g, j) = (V \div 2^(18 - 6 * j)) % 64
    BY DEF Sextet, At
  <2> HIDE DEF V
  <2> QED
    BY <2>1, <2>2
<1>2. /\ (V \div 262144) % 64 = a \div 4
      /\ (V \div 4096) % 64 = 16 * (a % 4) + b \div 16
      /\ (V \div 64) % 64 = 4 * (b % 16) + c \div 64
      /\ (V \div 1) % 64 = c % 64
  <2> DEFINE a1 == a \div 4
             a0 == a % 4
             b1 == b \div 16
             b0 == b % 16
             c1 == c \div 64
             c0 == c % 64
  <2>1. /\ a = 4 * a1 + a0 /\ a1 \in Int /\ 0 <= a1 /\ a1 < 64 /\ a0 \in Int /\ 0 <= a0 /\ a0 < 4
        /\ b = 16 * b1 + b0 /\ b1 \in Int /\ 0 <= b1 /\ b1 < 16 /\ b0 \in Int /\ 0 <= b0 /\ b0 < 16
        /\ c = 64 * c1 + c0 /\ c1 \in Int /\ 0 <= c1 /\ c1 < 4 /\ c0 \in Int /\ 0 <= c0 /\ c0 < 64
    <3>1. a = 4 * a1 + a0 /\ a1 \in Int /\ 0 <= a1 /\ a1 < 64 /\ a0 \in Int /\ 0 <= a0 /\ a0 < 4
      BY OctetParts
    <3>2. b = 16 * b1 + b0 /\ b1 \in Int /\ 0 <= b1 /\ b1 < 16 /\ b0 \in Int /\ 0 <= b0 /\ b0 < 16
      BY OctetParts
    <3>3. c = 64 * c1 + c0 /\ c1 \in Int /\ 0 <= c1 /\ c1 < 4 /\ c0 \in Int /\ 0 <= c0 /\ c0 < 64
      BY OctetParts
    <3> HIDE DEF a1, a0, b1, b0, c1, c0
    <3> QED
      BY <3>1, <3>2, <3>3
  <2> HIDE DEF a1, a0, b1, b0, c1, c0
  <2>2. V = 64 * (4096 * a1 + 1024 * a0 + 64 * b1 + 4 * b0 + c1) + c0
    BY <2>1
  <2> HIDE DEF V
  <2>3. V \div 64 = 4096 * a1 + 1024 * a0 + 64 * b1 + 4 * b0 + c1
    BY <2>1, <2>2, QuotientIs
  <2>4. V \div 4096 = 64 * a1 + 16 * a0 + b1
    <3>1. V = 4096 * (64 * a1 + 16 * a0 + b1) + (256 * b0 + 64 * c1 + c0)
      BY <2>1, <2>2
    <3> QED
      BY <2>1, <3>1, QuotientIs
  <2>5. V \div 262144 = a1
    <3>1. V = 262144 * a1 + (65536 * a0 + 4096 * b1 + 256 * b0 + 64 * c1 + c0)
      BY <2>1, <2>2
    <3> QED
      BY <2>1, <3>1, QuotientIs
  <2>6. V \div 1 = V
    BY <2>1, <2>2
  <2>7. a1 % 64 = a1
    BY <2>1
  <2>8. (64 * a1 + 16 * a0 + b1) % 64 = 16 * a0 + b1
    BY <2>1
  <2>9. (4096 * a1 + 1024 * a0 + 64 * b1 + 4 * b0 + c1) % 64 = 4 * b0 + c1
    BY <2>1
  <2>10. V % 64 = c0
    BY <2>1, <2>2
  <2> QED
    BY <2>3, <2>4, <2>5, <2>6, <2>7, <2>8, <2>9, <2>10 DEF a1, a0, b1, b0, c1, c0
<1> QED
  BY <1>1, <1>2, Shifts DEF Sextet0, Sextet1, Sextet2, Sextet3

(* The bytes that come out of three sextets, whatever was in the accumulator. *)
LEMMA FirstOut ==
    ASSUME NEW B \in Int, NEW v \in Sixth, NEW w \in Sixth,
           NEW m, m = Shifted(B, v), NEW n, n = Shifted(m, w)
    PROVE  Upper(n, 16) = Byte1(v, w)
<1>. v \in Int /\ 0 <= v /\ v < 64 /\ w \in Int /\ 0 <= w /\ w < 64
  BY DEF Sixth
<1> DEFINE q == (B * 64 + v) \div 65536
           w1 == w \div 16
           w0 == w % 16
           h == B - 1024 * q
<1>1. B * 64 + v = 65536 * q + m /\ q \in Int /\ m \in Int /\ 0 <= m /\ m < 65536
  BY DEF Shifted
<1>2. w = 16 * w1 + w0 /\ w1 \in Int /\ 0 <= w1 /\ w1 < 4 /\ w0 \in Int /\ 0 <= w0 /\ w0 < 16
  OBVIOUS
<1> HIDE DEF q, w1, w0
<1>3. h \in Int /\ m = 64 * h + v /\ 0 <= h /\ h < 1024
  BY <1>1
<1> HIDE DEF h
<1> DEFINE h1 == h \div 16
           h0 == h % 16
<1>4. h = 16 * h1 + h0 /\ h1 \in Int /\ h0 \in Int /\ 0 <= h0 /\ h0 < 16
  BY <1>3
<1> HIDE DEF h1, h0
<1>5. m * 64 + w = 65536 * h1 + (4096 * h0 + 64 * v + w)
  BY <1>3, <1>4
<1>6. (m * 64 + w) % 65536 = 4096 * h0 + 64 * v + w
  BY <1>4, <1>5, QuotientIs
<1>7. 4096 * h0 + 64 * v + w = 16 * (256 * h0 + 4 * v + w1) + w0
  BY <1>2, <1>4
<1>8. (4096 * h0 + 64 * v + w) \div 16 = 256 * h0 + 4 * v + w1
  BY <1>2, <1>4, <1>7, QuotientIs
<1>9. (256 * h0 + 4 * v + w1) % 256 = 4 * v + w1
  <2>1. 256 * h0 + 4 * v + w1 = 256 * h0 + (4 * v + w1)
    BY <1>2, <1>4
  <2> QED
    BY <1>2, <1>4, <2>1, QuotientIs
<1> QED
  BY <1>6, <1>8, <1>9 DEF Shifted, Upper, Byte1, w1

(* The second byte. *)
LEMMA SecondOut ==
    ASSUME NEW B \in Int, NEW v \in Sixth, NEW w \in Sixth,
           NEW m, m = Shifted(B, v), NEW n, n = Shifted(m, w)
    PROVE  Upper(n, 4) = Byte2(v, w)
<1>. v \in Int /\ 0 <= v /\ v < 64 /\ w \in Int /\ 0 <= w /\ w < 64
  BY DEF Sixth
<1> DEFINE q == (B * 64 + v) \div 65536
           v1 == v \div 16
           v0 == v % 16
           w1 == w \div 4
           w0 == w % 4
           h == B - 1024 * q
<1>1. B * 64 + v = 65536 * q + m /\ q \in Int /\ m \in Int /\ 0 <= m /\ m < 65536
  BY DEF Shifted
<1>2. w = 4 * w1 + w0 /\ w1 \in Int /\ 0 <= w1 /\ w1 < 16 /\ w0 \in Int /\ 0 <= w0 /\ w0 < 4
  OBVIOUS
<1>0. v = 16 * v1 + v0 /\ v1 \in Int /\ 0 <= v1 /\ v1 < 4 /\ v0 \in Int /\ 0 <= v0 /\ v0 < 16
  OBVIOUS
<1> HIDE DEF q, w1, w0, v1, v0
<1>3. h \in Int /\ m = 64 * h + v /\ 0 <= h /\ h < 1024
  BY <1>1
<1> HIDE DEF h
<1> DEFINE h1 == h \div 16
           h0 == h % 16
<1>4. h = 16 * h1 + h0 /\ h1 \in Int /\ h0 \in Int /\ 0 <= h0 /\ h0 < 16
  BY <1>3
<1> HIDE DEF h1, h0
<1>5. m * 64 + w = 65536 * h1 + (4096 * h0 + 64 * v + w)
  BY <1>3, <1>4
<1>6. (m * 64 + w) % 65536 = 4096 * h0 + 64 * v + w
  BY <1>4, <1>5, QuotientIs
<1>7. 4096 * h0 + 64 * v + w = 4 * (1024 * h0 + 16 * v + w1) + w0
  BY <1>2, <1>4
<1>8. (4096 * h0 + 64 * v + w) \div 4 = 1024 * h0 + 16 * v + w1
  BY <1>2, <1>4, <1>7, QuotientIs
<1>9. (1024 * h0 + 16 * v + w1) % 256 = 16 * v0 + w1
  <2>1. 1024 * h0 + 16 * v + w1 = 256 * (4 * h0 + v1) + (16 * v0 + w1)
    BY <1>0, <1>2, <1>4
  <2>2. 4 * h0 + v1 \in Int /\ 16 * v0 + w1 \in Int /\ 0 <= 16 * v0 + w1 /\ 16 * v0 + w1 < 256
    BY <1>0, <1>2, <1>4
  <2> QED
    BY <2>1, <2>2, QuotientIs
<1> QED
  BY <1>6, <1>8, <1>9 DEF Shifted, Upper, Byte2, w1, v0

(* The third byte. *)
LEMMA ThirdOut ==
    ASSUME NEW B \in Int, NEW v \in Sixth, NEW w \in Sixth,
           NEW m, m = Shifted(B, v), NEW n, n = Shifted(m, w)
    PROVE  Upper(n, 1) = Byte3(v, w)
<1>. v \in Int /\ 0 <= v /\ v < 64 /\ w \in Int /\ 0 <= w /\ w < 64
  BY DEF Sixth
<1> DEFINE q == (B * 64 + v) \div 65536
           v1 == v \div 4
           v0 == v % 4
           h == B - 1024 * q
           p == (m * 64 + w) \div 65536
<1>1. B * 64 + v = 65536 * q + m /\ q \in Int /\ m \in Int /\ 0 <= m /\ m < 65536
  BY DEF Shifted
<1>0. v = 4 * v1 + v0 /\ v1 \in Int /\ 0 <= v1 /\ v1 < 16 /\ v0 \in Int /\ 0 <= v0 /\ v0 < 4
  OBVIOUS
<1> HIDE DEF q, v1, v0
<1>2. m * 64 + w = 65536 * p + n /\ p \in Int /\ n \in Int /\ 0 <= n /\ n < 65536
  BY <1>1 DEF Shifted
<1> HIDE DEF p
<1>3. h \in Int /\ m = 64 * h + v
  BY <1>1
<1> HIDE DEF h
<1>4. n = 256 * (16 * h + v1 - 256 * p) + (64 * v0 + w)
  BY <1>0, <1>2, <1>3
<1>5. 16 * h + v1 - 256 * p \in Int /\ 64 * v0 + w \in Int /\ 0 <= 64 * v0 + w /\ 64 * v0 + w < 256
  BY <1>0, <1>2, <1>3
<1>6. n % 256 = 64 * v0 + w
  <2> DEFINE x == 16 * h + v1 - 256 * p
             y == 64 * v0 + w
  <2>1. n = 256 * x + y /\ x \in Int /\ y \in Int /\ 0 <= y /\ y < 256
    BY <1>4, <1>5
  <2> HIDE DEF x, y
  <2>2. n % 256 = y
    BY <2>1, QuotientIs
  <2> QED
    BY <2>2 DEF y
<1> QED
  <2>1. n \div 1 = n
    BY <1>2
  <2> QED
    BY <1>6, <2>1 DEF Upper, Byte3, v0

(* The sextets of three bytes give the bytes back. *)
LEMMA BytesBack ==
    ASSUME NEW a \in Octets, NEW b \in Octets, NEW c \in Octets
    PROVE  /\ Sextet0(a) \in Sixth /\ Sextet1(a, b) \in Sixth
           /\ Sextet2(b, c) \in Sixth /\ Sextet3(c) \in Sixth
           /\ Byte1(Sextet0(a), Sextet1(a, b)) = a
           /\ Byte2(Sextet1(a, b), Sextet2(b, c)) = b
           /\ Byte3(Sextet2(b, c), Sextet3(c)) = c
<1> DEFINE a1 == a \div 4
           a0 == a % 4
           b1 == b \div 16
           b0 == b % 16
           c1 == c \div 64
           c0 == c % 64
<1>1. a = 4 * a1 + a0 /\ a1 \in Int /\ 0 <= a1 /\ a1 < 64 /\ a0 \in Int /\ 0 <= a0 /\ a0 < 4
  BY OctetParts
<1>2. b = 16 * b1 + b0 /\ b1 \in Int /\ 0 <= b1 /\ b1 < 16 /\ b0 \in Int /\ 0 <= b0 /\ b0 < 16
  BY OctetParts
<1>3. c = 64 * c1 + c0 /\ c1 \in Int /\ 0 <= c1 /\ c1 < 4 /\ c0 \in Int /\ 0 <= c0 /\ c0 < 64
  BY OctetParts
<1> HIDE DEF a1, a0, b1, b0, c1, c0
<1>4. /\ a1 \in Sixth /\ 16 * a0 + b1 \in Sixth /\ 4 * b0 + c1 \in Sixth /\ c0 \in Sixth
  BY <1>1, <1>2, <1>3 DEF Sixth
<1>5. (16 * a0 + b1) \div 16 = a0 /\ (16 * a0 + b1) % 16 = b1
  BY <1>1, <1>2, QuotientIs
<1>6. (4 * b0 + c1) \div 4 = b0 /\ (4 * b0 + c1) % 4 = c1
  BY <1>2, <1>3, QuotientIs
<1>7. 4 * a1 + (16 * a0 + b1) \div 16 = a
  BY <1>1, <1>5
<1>8. 16 * ((16 * a0 + b1) % 16) + (4 * b0 + c1) \div 4 = b
  BY <1>2, <1>5, <1>6
<1>9. 64 * ((4 * b0 + c1) % 4) + c0 = c
  BY <1>3, <1>6
<1> QED
  BY <1>4, <1>7, <1>8, <1>9
  DEF a1, a0, b1, b0, c1, c0, Sextet0, Sextet1, Sextet2, Sextet3, Byte1, Byte2, Byte3

(* The state of the decoder between two characters. *)
Phases == {0, 2, 4, 6}
Decoder == [bits : Int, collected : Phases, out : Seq(Int), stop : BOOLEAN]
Start == [bits |-> 0, collected |-> 0, out |-> <<>>, stop |-> FALSE]

(* What the decoder does with a character, case by case. *)
LEMMA CollectSkips ==
    ASSUME NEW st \in Decoder, NEW c, st.stop \/ c \in Blank
    PROVE  Collect(st, c) = st
  BY DEF Collect

(* The padding ends the text. *)
LEMMA CollectPad ==
    ASSUME NEW st \in Decoder, ~st.stop
    PROVE  Collect(st, Pad) = [st EXCEPT !.stop = TRUE]
<1>1. Pad \notin Blank
  BY DEF Pad, Blank
<1> QED
  BY <1>1 DEF Collect

(* A character outside the alphabet makes the text invalid, and the scan stops. *)
LEMMA CollectInvalid ==
    ASSUME NEW st \in Decoder, ~st.stop, NEW c, c \notin Blank, c # Pad, b64_decode_char(c) < 0
    PROVE  Collect(st, c) = [st EXCEPT !.stop = TRUE, !.out = Invalid]
  BY DEF Collect

(* A character of the alphabet. *)
Moved(st, b, n, o) == [st EXCEPT !.bits = b, !.collected = n, !.out = o]

(* The state after a letter. *)
LEMMA MovedType ==
    ASSUME NEW st \in Decoder, NEW b \in Int, NEW n \in Phases, NEW o \in Seq(Int)
    PROVE  /\ Moved(st, b, n, o) \in Decoder
           /\ Moved(st, b, n, o).bits = b /\ Moved(st, b, n, o).collected = n
           /\ Moved(st, b, n, o).out = o /\ Moved(st, b, n, o).stop = st.stop
  BY DEF Moved, Decoder

(* A letter is collected. *)
LEMMA CollectSextet ==
    ASSUME NEW st \in Decoder, ~st.stop, NEW c, c \notin Blank, c # Pad,
           NEW v \in Int, v = b64_decode_char(c), ~(v < 0)
    PROVE  LET b == Shifted(st.bits, v)
           IN  /\ st.collected = 0 => Collect(st, c) = Moved(st, b, 6, st.out)
               /\ st.collected = 6 => Collect(st, c) = Moved(st, b, 4, Append(st.out, Upper(b, 16)))
               /\ st.collected = 4 => Collect(st, c) = Moved(st, b, 2, Append(st.out, Upper(b, 4)))
               /\ st.collected = 2 => Collect(st, c) = Moved(st, b, 0, Append(st.out, Upper(b, 1)))
<1> DEFINE b == Shifted(st.bits, v)
           have == st.collected + 6
<1>1. Collect(st, c) = IF have < 8 THEN [st EXCEPT !.bits = b, !.collected = have]
                       ELSE [st EXCEPT !.bits = b, !.collected = have - 8,
                                       !.out = Append(@, (b \div 2^(have - 8)) % 256)]
  BY Shifts DEF Collect, Shifted
<1> HIDE DEF b
<1>2. st.collected = 0 => Collect(st, c) = Moved(st, b, 6, st.out)
  <2> SUFFICES ASSUME st.collected = 0 PROVE Collect(st, c) = Moved(st, b, 6, st.out)
    OBVIOUS
  <2>1. have = 6 /\ have < 8
    OBVIOUS
  <2> HIDE DEF have
  <2>2. Collect(st, c) = [st EXCEPT !.bits = b, !.collected = 6]
    BY <1>1, <2>1
  <2> QED
    BY <2>2 DEF Moved, Decoder
<1>3. st.collected = 6 => Collect(st, c) = Moved(st, b, 4, Append(st.out, Upper(b, 16)))
  <2> SUFFICES ASSUME st.collected = 6 PROVE Collect(st, c) = Moved(st, b, 4, Append(st.out, Upper(b, 16)))
    OBVIOUS
  <2>1. have - 8 = 4 /\ ~(have < 8)
    OBVIOUS
  <2>2. 2^(have - 8) = 16
    BY <2>1, Shifts
  <2> HIDE DEF have
  <2>3. Collect(st, c) = [st EXCEPT !.bits = b, !.collected = 4,
                                    !.out = Append(@, (b \div 16) % 256)]
    BY <1>1, <2>1, <2>2
  <2> QED
    BY <2>3 DEF Moved, Upper
<1>4. st.collected = 4 => Collect(st, c) = Moved(st, b, 2, Append(st.out, Upper(b, 4)))
  <2> SUFFICES ASSUME st.collected = 4 PROVE Collect(st, c) = Moved(st, b, 2, Append(st.out, Upper(b, 4)))
    OBVIOUS
  <2>1. have - 8 = 2 /\ ~(have < 8)
    OBVIOUS
  <2>2. 2^(have - 8) = 4
    BY <2>1, Shifts
  <2> HIDE DEF have
  <2>3. Collect(st, c) = [st EXCEPT !.bits = b, !.collected = 2,
                                    !.out = Append(@, (b \div 4) % 256)]
    BY <1>1, <2>1, <2>2
  <2> QED
    BY <2>3 DEF Moved, Upper
<1>5. st.collected = 2 => Collect(st, c) = Moved(st, b, 0, Append(st.out, Upper(b, 1)))
  <2> SUFFICES ASSUME st.collected = 2 PROVE Collect(st, c) = Moved(st, b, 0, Append(st.out, Upper(b, 1)))
    OBVIOUS
  <2>1. have - 8 = 0 /\ ~(have < 8)
    OBVIOUS
  <2>2. 2^(have - 8) = 1
    BY <2>1, Shifts
  <2> HIDE DEF have
  <2>3. Collect(st, c) = [st EXCEPT !.bits = b, !.collected = 0,
                                    !.out = Append(@, (b \div 1) % 256)]
    BY <1>1, <2>1, <2>2
  <2> QED
    BY <2>3 DEF Moved, Upper
<1> QED
  BY <1>2, <1>3, <1>4, <1>5 DEF b

(* The decoder stays a decoder. *)
LEMMA CollectType ==
    ASSUME NEW st \in Decoder, NEW c \in Int
    PROVE  Collect(st, c) \in Decoder
<1> DEFINE v == b64_decode_char(c)
           b == Shifted(st.bits, v)
<1>1. CASE st.stop \/ c \in Blank
  BY <1>1, CollectSkips
<1>2. CASE ~st.stop /\ c \notin Blank /\ c = Pad
  BY <1>2, CollectPad DEF Decoder
<1>3. v \in Int
  BY DEF b64_decode_char
<1>4. CASE ~st.stop /\ c \notin Blank /\ c # Pad /\ v < 0
  <2>1. Invalid \in Seq(Int)
    BY DEF Invalid
  <2> QED
    BY <1>4, <2>1, CollectInvalid DEF Decoder
<1>5. CASE ~st.stop /\ c \notin Blank /\ c # Pad /\ ~(v < 0)
  <2> HIDE DEF v
  <2>0. b \in Int
    BY <1>3 DEF Decoder, Shifted
  <2> HIDE DEF b
  <2>1. b \in Int /\ Upper(b, 16) \in Int /\ Upper(b, 4) \in Int /\ Upper(b, 1) \in Int
    BY <2>0 DEF Upper
  <2>2. \A x \in Int : Append(st.out, x) \in Seq(Int)
    BY DEF Decoder
  <2>3. st.collected \in {0, 2, 4, 6}
    BY DEF Decoder, Phases
  <2>4. /\ st.collected = 0 => Collect(st, c) = Moved(st, b, 6, st.out)
        /\ st.collected = 6 => Collect(st, c) = Moved(st, b, 4, Append(st.out, Upper(b, 16)))
        /\ st.collected = 4 => Collect(st, c) = Moved(st, b, 2, Append(st.out, Upper(b, 4)))
        /\ st.collected = 2 => Collect(st, c) = Moved(st, b, 0, Append(st.out, Upper(b, 1)))
    BY <1>3, <1>5, CollectSextet DEF v, b
  <2>5. CASE st.collected = 0
    <3>1. Moved(st, b, 6, st.out) \in Decoder
      BY <2>1, <2>2, MovedType DEF Decoder, Phases
    <3> QED
      BY <2>4, <2>5, <3>1
  <2>6. CASE st.collected = 6
    <3> DEFINE o == Append(st.out, Upper(b, 16))
    <3>1. o \in Seq(Int)
      BY <2>1, <2>2
    <3> HIDE DEF o
    <3>2. Moved(st, b, 4, o) \in Decoder
      BY <2>1, <3>1, MovedType DEF Phases
    <3> QED
      BY <2>4, <2>6, <3>2 DEF o
  <2>7. CASE st.collected = 4
    <3> DEFINE o == Append(st.out, Upper(b, 4))
    <3>1. o \in Seq(Int)
      BY <2>1, <2>2
    <3> HIDE DEF o
    <3>2. Moved(st, b, 2, o) \in Decoder
      BY <2>1, <3>1, MovedType DEF Phases
    <3> QED
      BY <2>4, <2>7, <3>2 DEF o
  <2>8. CASE st.collected = 2
    <3> DEFINE o == Append(st.out, Upper(b, 1))
    <3>1. o \in Seq(Int)
      BY <2>1, <2>2
    <3> HIDE DEF o
    <3>2. Moved(st, b, 0, o) \in Decoder
      BY <2>1, <3>1, MovedType DEF Phases
    <3> QED
      BY <2>4, <2>8, <3>2 DEF o
  <2> QED
    BY <2>3, <2>5, <2>6, <2>7, <2>8
<1> QED
  BY <1>1, <1>2, <1>4, <1>5

(* The states of the decoder, character by character. *)
Decodes(u, s) ==
    /\ u \in [0..Len(s) -> Decoder]
    /\ u[0] = Start
    /\ \A k \in 1..Len(s) : u[k] = Collect(u[k - 1], s[k])

(* The text decodes to what the last state has put out. *)
LEMMA DecodeIs ==
    ASSUME NEW s \in Seq(Int)
    PROVE  \E u : Decodes(u, s) /\ b64decode(s) = u[Len(s)].out
<1> DEFINE M == Len(s)
           D == 0..M
           Body(f) == [n \in D |-> IF n = 0 THEN Start ELSE Collect(f[n - 1], s[n])]
           Eq(f) == f = Body(f)
           F == [k \in Nat |-> [x \in Decoder |-> IF k \in 1..M THEN Collect(x, s[k]) ELSE x]]
           after == CHOOSE f : Eq(f)
<1>0. M \in Nat /\ \A k \in 1..M : s[k] \in Int
  BY LenProperties, ElementOfSeq
<1>1. b64decode(s) = after[M].out
  BY DEF b64decode, Start
<1> HIDE DEF M
<1>2. PICK g \in [0..M -> Decoder] : Recurs(g, Start, F, M)
  <2>1. F \in [Nat -> [Decoder -> Decoder]]
    BY <1>0, CollectType
  <2>2. Start \in Decoder
    BY DEF Start, Decoder, Phases
  <2> HIDE DEF F
  <2> QED
    BY <1>0, <2>1, <2>2, RecursionExists
<1>3. g[0] = Start /\ \A n \in 1..M : g[n] = Collect(g[n - 1], s[n])
  <2>1. \A n \in 1..M : n \in Nat /\ n - 1 \in 0..M
    BY <1>0
  <2>2. \A k \in 1..M, x \in Decoder : F[k][x] = Collect(x, s[k])
    BY <1>0
  <2> HIDE DEF F
  <2> QED
    BY <1>2, <2>1, <2>2 DEF Recurs
<1>4. Eq(g)
  <2>1. \A n \in D : n # 0 => n \in 1..M
    BY <1>0
  <2> QED
    BY <1>3, <2>1
<1>5. Eq(after)
  <2> HIDE DEF Eq
  <2> QED
    BY <1>4
<1> HIDE DEF after
<1>6. ASSUME NEW n \in D
      PROVE  after[n] = IF n = 0 THEN Start ELSE Collect(after[n - 1], s[n])
  <2>1. \A f : Body(f)[n] = IF n = 0 THEN Start ELSE Collect(f[n - 1], s[n])
    OBVIOUS
  <2>2. after = Body(after)
    BY <1>5
  <2> HIDE DEF Body
  <2> QED
    BY <2>1, <2>2
<1> HIDE DEF Eq, Body
<1>7. \A n \in D : after[n] = g[n]
  <2> DEFINE T == {n \in Nat : n \in D => after[n] = g[n]}
  <2>1. 0 \in T
    BY <1>3, <1>6
  <2>2. ASSUME NEW n \in Nat, n \in T PROVE n + 1 \in T
    <3>1. CASE n + 1 \in D
      <4>1. n \in D /\ n + 1 \in 1..M /\ n + 1 - 1 = n /\ n + 1 # 0
        BY <1>0, <3>1
      <4>2. after[n + 1] = Collect(after[n], s[n + 1]) /\ g[n + 1] = Collect(g[n], s[n + 1])
        BY <1>3, <1>6, <3>1, <4>1
      <4> QED
        BY <2>2, <4>1, <4>2
    <3> QED
      BY <3>1
  <2>3. \A n \in Nat : n \in T
    <3> HIDE DEF T
    <3> QED
      BY <2>1, <2>2, SetInduction
  <2> QED
    BY <2>3
<1>8. after[M] = g[M]
  BY <1>0, <1>7
<1>9. Decodes(g, s)
  BY <1>2, <1>3 DEF Decodes, M
<1> QED
  BY <1>1, <1>8, <1>9 DEF M

(* The decoder has not met the end, and reads the letter of a sextet. *)
Ready(st) == st \in Decoder /\ ~st.stop
Reads(st, v, r) == r = Collect(st, b64_alphabet(v))

(* A letter of the alphabet, in each phase of the decoder. *)
LEMMA LetterCollected ==
    ASSUME NEW st, Ready(st), NEW v \in Sixth, NEW r, Reads(st, v, r)
    PROVE  /\ Ready(r) /\ r.bits = Shifted(st.bits, v)
           /\ st.collected = 0 => r.collected = 6 /\ r.out = st.out
           /\ st.collected = 6 => r.collected = 4 /\ r.out = Append(st.out, Upper(r.bits, 16))
           /\ st.collected = 4 => r.collected = 2 /\ r.out = Append(st.out, Upper(r.bits, 4))
           /\ st.collected = 2 => r.collected = 0 /\ r.out = Append(st.out, Upper(r.bits, 1))
<1> DEFINE c == b64_alphabet(v)
           b == Shifted(st.bits, v)
<1>1. /\ v \in Int /\ 0 <= v /\ v < 64 /\ ~(v < 0)
      /\ c \in Int /\ c \notin Blank /\ c # Pad /\ b64_decode_char(c) = v
  BY LetterRead DEF Sixth
<1>0. r = Collect(st, c)
  BY DEF Reads
<1>. st \in Decoder /\ ~st.stop
  BY DEF Ready
<1> HIDE DEF c
<1>2. /\ st.collected = 0 => r = Moved(st, b, 6, st.out)
      /\ st.collected = 6 => r = Moved(st, b, 4, Append(st.out, Upper(b, 16)))
      /\ st.collected = 4 => r = Moved(st, b, 2, Append(st.out, Upper(b, 4)))
      /\ st.collected = 2 => r = Moved(st, b, 0, Append(st.out, Upper(b, 1)))
  BY <1>0, <1>1, CollectSextet
<1>3. st.collected \in {0, 2, 4, 6} /\ st.out \in Seq(Int) /\ st.bits \in Int
  BY DEF Decoder, Phases
<1>4. b \in Int
  BY <1>1, <1>3 DEF Shifted
<1>5. b = Shifted(st.bits, v)
  OBVIOUS
<1> HIDE DEF b
<1>6. 6 \in Phases /\ 4 \in Phases /\ 2 \in Phases /\ 0 \in Phases /\ Upper(b, 16) \in Int /\ Upper(b, 4) \in Int /\ Upper(b, 1) \in Int
  BY <1>4 DEF Upper, Phases
<1>7. ASSUME NEW n \in Phases, NEW o \in Seq(Int), r = Moved(st, b, n, o)
      PROVE  r \in Decoder /\ ~r.stop /\ r.bits = b /\ r.collected = n /\ r.out = o
  <2>1. /\ r \in Decoder /\ r.bits = b /\ r.collected = n
        /\ r.out = o /\ r.stop = st.stop
    BY <1>4, <1>7, MovedType
  <2> QED
    BY <2>1
<1>8. \A x \in Int : Append(st.out, x) \in Seq(Int)
  BY <1>3
<1>9. CASE st.collected = 0
  <2> DEFINE o == st.out
  <2>1. r = Moved(st, b, 6, o) /\ o \in Seq(Int)
    BY <1>2, <1>3, <1>6, <1>8, <1>9
  <2>2. o = st.out
    OBVIOUS
  <2> HIDE DEF o
  <2>3. r \in Decoder /\ ~r.stop /\ r.bits = b /\ r.collected = 6 /\ r.out = o
    BY <1>6, <1>7, <2>1
  <2> QED
    BY <1>5, <1>9, <2>2, <2>3 DEF Ready
<1>10. CASE st.collected = 6
  <2> DEFINE o == Append(st.out, Upper(b, 16))
  <2>1. r = Moved(st, b, 4, o) /\ o \in Seq(Int)
    BY <1>2, <1>3, <1>6, <1>8, <1>10
  <2>2. o = Append(st.out, Upper(b, 16))
    OBVIOUS
  <2> HIDE DEF o
  <2>3. r \in Decoder /\ ~r.stop /\ r.bits = b /\ r.collected = 4 /\ r.out = o
    BY <1>6, <1>7, <2>1
  <2> QED
    BY <1>5, <1>10, <2>2, <2>3 DEF Ready
<1>11. CASE st.collected = 4
  <2> DEFINE o == Append(st.out, Upper(b, 4))
  <2>1. r = Moved(st, b, 2, o) /\ o \in Seq(Int)
    BY <1>2, <1>3, <1>6, <1>8, <1>11
  <2>2. o = Append(st.out, Upper(b, 4))
    OBVIOUS
  <2> HIDE DEF o
  <2>3. r \in Decoder /\ ~r.stop /\ r.bits = b /\ r.collected = 2 /\ r.out = o
    BY <1>6, <1>7, <2>1
  <2> QED
    BY <1>5, <1>11, <2>2, <2>3 DEF Ready
<1>12. CASE st.collected = 2
  <2> DEFINE o == Append(st.out, Upper(b, 1))
  <2>1. r = Moved(st, b, 0, o) /\ o \in Seq(Int)
    BY <1>2, <1>3, <1>6, <1>8, <1>12
  <2>2. o = Append(st.out, Upper(b, 1))
    OBVIOUS
  <2> HIDE DEF o
  <2>3. r \in Decoder /\ ~r.stop /\ r.bits = b /\ r.collected = 0 /\ r.out = o
    BY <1>6, <1>7, <2>1
  <2> QED
    BY <1>5, <1>12, <2>2, <2>3 DEF Ready
<1> QED
  BY <1>3, <1>9, <1>10, <1>11, <1>12

(* Two, three and four sextets of three bytes. *)
Group(st, a, b, c, r1, r2, r3, r4) ==
    /\ Reads(st, Sextet0(a), r1) /\ Reads(r1, Sextet1(a, b), r2)
    /\ Reads(r2, Sextet2(b, c), r3) /\ Reads(r3, Sextet3(c), r4)

(* What they put out. *)
ThreeOut(st, a, b, c, r2, r3, r4) ==
    /\ Ready(r2) /\ r2.out = Append(st.out, a)
    /\ Ready(r3) /\ r3.out = Append(Append(st.out, a), b)
    /\ Ready(r4) /\ r4.collected = 0
    /\ r4.out = Append(Append(Append(st.out, a), b), c)

(* Four letters are decoded to the three bytes they were made of. *)
LEMMA GroupDecoded ==
    ASSUME NEW st, Ready(st), st.collected = 0,
           NEW a \in Octets, NEW b \in Octets, NEW c \in Octets,
           NEW r1, NEW r2, NEW r3, NEW r4, Group(st, a, b, c, r1, r2, r3, r4)
    PROVE  ThreeOut(st, a, b, c, r2, r3, r4)
<1> DEFINE v0 == Sextet0(a)
           v1 == Sextet1(a, b)
           v2 == Sextet2(b, c)
           v3 == Sextet3(c)
<1>1. /\ v0 \in Sixth /\ v1 \in Sixth /\ v2 \in Sixth /\ v3 \in Sixth
      /\ Byte1(v0, v1) = a
      /\ Byte2(v1, v2) = b
      /\ Byte3(v2, v3) = c
  BY BytesBack
<1>2. /\ Reads(st, v0, r1) /\ Reads(r1, v1, r2)
      /\ Reads(r2, v2, r3) /\ Reads(r3, v3, r4)
  BY DEF Group
<1> HIDE DEF v0, v1, v2, v3
<1>3. /\ Ready(r1) /\ r1.bits = Shifted(st.bits, v0)
      /\ r1.collected = 6 /\ r1.out = st.out
  BY <1>1, <1>2, LetterCollected
<1>4. /\ Ready(r2) /\ r2.bits = Shifted(r1.bits, v1)
      /\ r2.collected = 4 /\ r2.out = Append(r1.out, Upper(r2.bits, 16))
  <2>1. v1 \in Sixth /\ Reads(r1, v1, r2) /\ Ready(r1) /\ r1.collected = 6
    BY <1>1, <1>2, <1>3
  <2> QED
    BY <2>1, LetterCollected
<1>5. /\ Ready(r3) /\ r3.bits = Shifted(r2.bits, v2)
      /\ r3.collected = 2 /\ r3.out = Append(r2.out, Upper(r3.bits, 4))
  <2>1. v2 \in Sixth /\ Reads(r2, v2, r3) /\ Ready(r2) /\ r2.collected = 4
    BY <1>1, <1>2, <1>4
  <2> QED
    BY <2>1, LetterCollected
<1>6. /\ Ready(r4) /\ r4.bits = Shifted(r3.bits, v3)
      /\ r4.collected = 0 /\ r4.out = Append(r3.out, Upper(r4.bits, 1))
  <2>1. v3 \in Sixth /\ Reads(r3, v3, r4) /\ Ready(r3) /\ r3.collected = 2
    BY <1>1, <1>2, <1>5
  <2> QED
    BY <2>1, LetterCollected
<1>8. st.bits \in Int /\ r1.bits \in Int /\ r2.bits \in Int
  BY <1>3, <1>4 DEF Ready, Decoder
<1>9. Upper(r2.bits, 16) = a
  <2>1. Upper(r2.bits, 16) = Byte1(v0, v1)
    BY <1>1, <1>3, <1>4, <1>8, FirstOut
  <2> QED
    BY <1>1, <2>1
<1>10. Upper(r3.bits, 4) = b
  <2>1. Upper(r3.bits, 4) = Byte2(v1, v2)
    BY <1>1, <1>4, <1>5, <1>8, SecondOut
  <2> QED
    BY <1>1, <2>1
<1>11. Upper(r4.bits, 1) = c
  <2>1. Upper(r4.bits, 1) = Byte3(v2, v3)
    BY <1>1, <1>5, <1>6, <1>8, ThirdOut
  <2> QED
    BY <1>1, <2>1
<1>12. r2.out = Append(st.out, a)
  BY <1>3, <1>4, <1>9
<1>13. r3.out = Append(Append(st.out, a), b)
  BY <1>5, <1>10, <1>12
<1>14. r4.out = Append(Append(Append(st.out, a), b), c)
  BY <1>6, <1>11, <1>13
<1> QED
  BY <1>4, <1>5, <1>6, <1>12, <1>13, <1>14 DEF ThreeOut

(* What is encoded is bytes. *)
LEMMA AtByte == ASSUME NEW s \in Seq(Octets), NEW k \in Nat, k > 0 PROVE At(s, k) \in Octets
<1>1. 0 \in Octets
  BY DEF Octets
<1>2. Len(s) \in Nat
  BY LenProperties
<1>3. CASE k <= Len(s)
  <2>1. k \in 1..Len(s)
    BY <1>2, <1>3
  <2> QED
    BY <1>3, <2>1, ElementOfSeq DEF At
<1>4. CASE ~(k <= Len(s))
  BY <1>1, <1>4 DEF At
<1> QED
  BY <1>3, <1>4

(* What is written is characters. *)
LEMMA LettersType ==
    /\ \A v \in Sixth : b64_alphabet(v) \in Int
    /\ Pad \in Int
  BY LetterRead DEF Sixth, Pad

(* What the encoder writes: four characters for each group of three bytes. *)
LEMMA EncodeIs ==
    ASSUME NEW s \in Seq(Octets), NEW q \in Nat, q = (Len(s) + 2) \div 3
    PROVE  /\ b64encode(s) \in Seq(Int) /\ Len(b64encode(s)) = 4 * q
           /\ \A g \in Nat : g < q =>
                /\ b64encode(s)[4 * g + 1] = b64_alphabet(Sextet(s, g, 0))
                /\ b64encode(s)[4 * g + 2] = b64_alphabet(Sextet(s, g, 1))
                /\ b64encode(s)[4 * g + 3] = IF 3 * g + 2 > Len(s) THEN Pad
                                             ELSE b64_alphabet(Sextet(s, g, 2))
                /\ b64encode(s)[4 * g + 4] = IF 3 * g + 3 > Len(s) THEN Pad
                                             ELSE b64_alphabet(Sextet(s, g, 3))
<1> DEFINE e == b64encode(s)
           letter(g, j) == IF 3 * g + j > Len(s) THEN Pad ELSE b64_alphabet(Sextet(s, g, j))
           value(k) == letter((k - 1) \div 4, (k - 1) % 4)
<1>0. Len(s) \in Nat
  BY LenProperties
<1>1. e = [k \in 1..4 * q |-> value(k)]
  BY DEF b64encode
<1>2. ASSUME NEW g \in Nat, g < q
      PROVE  /\ \A j \in {0, 1, 2, 3} : Sextet(s, g, j) \in Sixth
             /\ ~(3 * g + 0 > Len(s)) /\ ~(3 * g + 1 > Len(s))
  <2> DEFINE a == At(s, 3 * g + 1)
             b == At(s, 3 * g + 2)
             c == At(s, 3 * g + 3)
  <2>1. a \in Octets /\ b \in Octets /\ c \in Octets
    BY AtByte
  <2>2. a = At(s, 3 * g + 1) /\ b = At(s, 3 * g + 2) /\ c = At(s, 3 * g + 3)
    OBVIOUS
  <2> HIDE DEF a, b, c
  <2>3. /\ Sextet(s, g, 0) = Sextet0(a) /\ Sextet(s, g, 1) = Sextet1(a, b)
        /\ Sextet(s, g, 2) = Sextet2(b, c) /\ Sextet(s, g, 3) = Sextet3(c)
    BY <2>1, <2>2, SextetsAre
  <2>4. /\ Sextet0(a) \in Sixth /\ Sextet1(a, b) \in Sixth
        /\ Sextet2(b, c) \in Sixth /\ Sextet3(c) \in Sixth
    BY <2>1, BytesBack
  <2>5. 3 * g + 1 <= Len(s)
    BY <1>0, <1>2
  <2> QED
    BY <1>0, <2>3, <2>4, <2>5
<1>3. \A g \in Nat, j \in {0, 1, 2, 3} : g < q => letter(g, j) \in Int
  BY <1>2, LettersType
<1>4. \A k \in 1..4 * q : /\ (k - 1) \div 4 \in Nat /\ (k - 1) \div 4 < q
                          /\ (k - 1) % 4 \in {0, 1, 2, 3}
  OBVIOUS
<1>5. \A g \in Nat : g < q =>
         /\ 4 * g + 1 \in 1..4 * q /\ (4 * g + 1 - 1) \div 4 = g /\ (4 * g + 1 - 1) % 4 = 0
         /\ 4 * g + 2 \in 1..4 * q /\ (4 * g + 2 - 1) \div 4 = g /\ (4 * g + 2 - 1) % 4 = 1
         /\ 4 * g + 3 \in 1..4 * q /\ (4 * g + 3 - 1) \div 4 = g /\ (4 * g + 3 - 1) % 4 = 2
         /\ 4 * g + 4 \in 1..4 * q /\ (4 * g + 4 - 1) \div 4 = g /\ (4 * g + 4 - 1) % 4 = 3
  OBVIOUS
<1>6. \A k \in 1..4 * q : value(k) \in Int
  <2> HIDE DEF letter
  <2> QED
    BY <1>3, <1>4
<1>7. \A g \in Nat : g < q => /\ value(4 * g + 1) = letter(g, 0) /\ value(4 * g + 2) = letter(g, 1)
                              /\ value(4 * g + 3) = letter(g, 2) /\ value(4 * g + 4) = letter(g, 3)
  <2> HIDE DEF letter
  <2>1. \A k, g, j : (k - 1) \div 4 = g /\ (k - 1) % 4 = j => value(k) = letter(g, j)
    OBVIOUS
  <2> HIDE DEF value
  <2>2. ASSUME NEW g \in Nat, g < q
        PROVE  /\ value(4 * g + 1) = letter(g, 0) /\ value(4 * g + 2) = letter(g, 1)
               /\ value(4 * g + 3) = letter(g, 2) /\ value(4 * g + 4) = letter(g, 3)
    <3> DEFINE k1 == 4 * g + 1
               k2 == 4 * g + 2
               k3 == 4 * g + 3
               k4 == 4 * g + 4
    <3>1. /\ (k1 - 1) \div 4 = g /\ (k1 - 1) % 4 = 0 /\ (k2 - 1) \div 4 = g /\ (k2 - 1) % 4 = 1
          /\ (k3 - 1) \div 4 = g /\ (k3 - 1) % 4 = 2 /\ (k4 - 1) \div 4 = g /\ (k4 - 1) % 4 = 3
      BY <1>5, <2>2
    <3> HIDE DEF k1, k2, k3, k4
    <3>2. /\ value(k1) = letter(g, 0) /\ value(k2) = letter(g, 1)
          /\ value(k3) = letter(g, 2) /\ value(k4) = letter(g, 3)
      BY <2>1, <3>1
    <3> QED
      BY <3>2 DEF k1, k2, k3, k4
  <2> QED
    BY <2>2
<1> HIDE DEF value, e
<1>8. e \in Seq(Int) /\ Len(e) = 4 * q
  <2> DEFINE l == 4 * q
  <2>1. l \in Nat
    OBVIOUS
  <2>2. (\A k \in 1..l : value(k) \in Int) /\ e = [k \in 1..l |-> value(k)]
    BY <1>1, <1>6
  <2> HIDE DEF l
  <2>3. e \in Seq(Int) /\ Len(e) = l
    BY <2>1, <2>2
  <2> QED
    BY <2>3 DEF l
<1>9. ASSUME NEW g \in Nat, g < q
      PROVE  /\ e[4 * g + 1] = letter(g, 0) /\ e[4 * g + 2] = letter(g, 1)
             /\ e[4 * g + 3] = letter(g, 2) /\ e[4 * g + 4] = letter(g, 3)
  <2>1. 4 * g + 1 \in 1..4 * q /\ 4 * g + 2 \in 1..4 * q /\ 4 * g + 3 \in 1..4 * q /\ 4 * g + 4 \in 1..4 * q
    BY <1>9
  <2>2. /\ value(4 * g + 1) = letter(g, 0) /\ value(4 * g + 2) = letter(g, 1)
        /\ value(4 * g + 3) = letter(g, 2) /\ value(4 * g + 4) = letter(g, 3)
    BY <1>7, <1>9
  <2> HIDE DEF letter
  <2> QED
    BY <1>1, <2>1, <2>2
<1>10. ASSUME NEW g \in Nat, g < q
       PROVE  letter(g, 0) = b64_alphabet(Sextet(s, g, 0)) /\ letter(g, 1) = b64_alphabet(Sextet(s, g, 1))
  BY <1>2, <1>10
<1> QED
  <2> HIDE DEF e
  <2>1. \A g \in Nat : g < q =>
                /\ e[4 * g + 1] = b64_alphabet(Sextet(s, g, 0))
                /\ e[4 * g + 2] = b64_alphabet(Sextet(s, g, 1))
                /\ e[4 * g + 3] = letter(g, 2)
                /\ e[4 * g + 4] = letter(g, 3)
    <3> HIDE DEF letter
    <3> QED
      BY <1>9, <1>10
  <2> QED
    BY <1>8, <2>1 DEF e

(* The decoder is at the start of a group with data in it. *)
GroupAt(s, u, g) ==
    g \in Nat /\ 3 * g < Len(s) /\ Ready(u[4 * g]) /\ u[4 * g].collected = 0

(* What it does with the characters of this group. *)
GroupPassed(s, u, g) ==
    /\ Ready(u[4 * g + 2])
    /\ u[4 * g + 2].out = Append(u[4 * g].out, At(s, 3 * g + 1))
    /\ u[4 * g + 3] = Collect(u[4 * g + 2], b64encode(s)[4 * g + 3])
    /\ u[4 * g + 4] = Collect(u[4 * g + 3], b64encode(s)[4 * g + 4])
    /\ 3 * g + 2 > Len(s) => b64encode(s)[4 * g + 3] = Pad
    /\ 3 * g + 3 > Len(s) => b64encode(s)[4 * g + 4] = Pad
    /\ 3 * g + 2 <= Len(s) =>
         /\ Ready(u[4 * g + 3])
         /\ u[4 * g + 3].out = Append(Append(u[4 * g].out, At(s, 3 * g + 1)), At(s, 3 * g + 2))
    /\ 3 * g + 3 <= Len(s) =>
         /\ Ready(u[4 * g + 4]) /\ u[4 * g + 4].collected = 0
         /\ u[4 * g + 4].out =
              Append(Append(Append(u[4 * g].out, At(s, 3 * g + 1)), At(s, 3 * g + 2)), At(s, 3 * g + 3))

(* Four characters of the text, as the decoder reads them. *)
LEMMA GroupRead ==
    ASSUME NEW s \in Seq(Octets), NEW u, Decodes(u, b64encode(s)), NEW g, GroupAt(s, u, g)
    PROVE  GroupPassed(s, u, g)
<1>. g \in Nat /\ 3 * g < Len(s) /\ Ready(u[4 * g]) /\ u[4 * g].collected = 0
  BY DEF GroupAt
<1> DEFINE n == Len(s)
           q == (n + 2) \div 3
           e == b64encode(s)
           a == At(s, 3 * g + 1)
           b == At(s, 3 * g + 2)
           c == At(s, 3 * g + 3)
           st == u[4 * g]
           x1 == b64_alphabet(Sextet0(a))
           x2 == b64_alphabet(Sextet1(a, b))
           x3 == b64_alphabet(Sextet2(b, c))
           x4 == b64_alphabet(Sextet3(c))
           r1 == Collect(st, x1)
           r2 == Collect(r1, x2)
           r3 == Collect(r2, x3)
           r4 == Collect(r3, x4)
<1>1. n \in Nat
  BY LenProperties
<1>2. q \in Nat /\ g < q
  BY <1>1
<1>3. a \in Octets /\ b \in Octets /\ c \in Octets
  BY AtByte
<1>4. /\ Sextet(s, g, 0) = Sextet0(a) /\ Sextet(s, g, 1) = Sextet1(a, b)
      /\ Sextet(s, g, 2) = Sextet2(b, c) /\ Sextet(s, g, 3) = Sextet3(c)
  BY <1>3, SextetsAre
<1>5. /\ Len(e) = 4 * q
      /\ e[4 * g + 1] = b64_alphabet(Sextet(s, g, 0))
      /\ e[4 * g + 2] = b64_alphabet(Sextet(s, g, 1))
      /\ e[4 * g + 3] = IF 3 * g + 2 > n THEN Pad ELSE b64_alphabet(Sextet(s, g, 2))
      /\ e[4 * g + 4] = IF 3 * g + 3 > n THEN Pad ELSE b64_alphabet(Sextet(s, g, 3))
  BY <1>2, EncodeIs
<1>6. /\ e[4 * g + 1] = x1 /\ e[4 * g + 2] = x2
      /\ e[4 * g + 3] = IF 3 * g + 2 > n THEN Pad ELSE x3
      /\ e[4 * g + 4] = IF 3 * g + 3 > n THEN Pad ELSE x4
  BY <1>4, <1>5
<1>7. /\ Ready(r2) /\ r2.out = Append(st.out, a)
      /\ Ready(r3) /\ r3.out = Append(Append(st.out, a), b)
      /\ Ready(r4) /\ r4.collected = 0
      /\ r4.out = Append(Append(Append(st.out, a), b), c)
  <2>1. Group(st, a, b, c, r1, r2, r3, r4)
    BY DEF Reads, Group
  <2>2. Ready(st) /\ st.collected = 0
    OBVIOUS
  <2> HIDE DEF a, b, c, r1, r2, r3, r4, st
  <2>3. ThreeOut(st, a, b, c, r2, r3, r4)
    BY <1>3, <2>1, <2>2, GroupDecoded
  <2> QED
    BY <2>3 DEF ThreeOut
<1> HIDE DEF q
<1>8. /\ 4 * g + 1 \in 1..4 * q /\ 4 * g + 2 \in 1..4 * q
      /\ 4 * g + 3 \in 1..4 * q /\ 4 * g + 4 \in 1..4 * q
      /\ 4 * g + 1 - 1 = 4 * g /\ 4 * g + 2 - 1 = 4 * g + 1
      /\ 4 * g + 3 - 1 = 4 * g + 2 /\ 4 * g + 4 - 1 = 4 * g + 3
  BY <1>2
<1> HIDE DEF e, x1, x2, x3, x4
<1>9. \A k \in 1..4 * q : u[k] = Collect(u[k - 1], e[k])
  BY <1>5 DEF Decodes, e
<1> HIDE DEF n, a, b, c
<1>10. /\ u[4 * g + 1] = Collect(st, e[4 * g + 1])
       /\ u[4 * g + 2] = Collect(u[4 * g + 1], e[4 * g + 2])
       /\ u[4 * g + 3] = Collect(u[4 * g + 2], e[4 * g + 3])
       /\ u[4 * g + 4] = Collect(u[4 * g + 3], e[4 * g + 4])
  <2> DEFINE k1 == 4 * g + 1
             k2 == 4 * g + 2
             k3 == 4 * g + 3
             k4 == 4 * g + 4
  <2>1. /\ k1 \in 1..4 * q /\ k2 \in 1..4 * q /\ k3 \in 1..4 * q /\ k4 \in 1..4 * q
        /\ k1 - 1 = 4 * g /\ k2 - 1 = k1 /\ k3 - 1 = k2 /\ k4 - 1 = k3
    <3>1. k1 \in 1..4 * q /\ k2 \in 1..4 * q /\ k3 \in 1..4 * q /\ k4 \in 1..4 * q
      BY <1>8
    <3>2. 4 * g \in Int
      OBVIOUS
    <3>3. k1 - 1 = 4 * g /\ k2 - 1 = k1 /\ k3 - 1 = k2 /\ k4 - 1 = k3
      BY <3>2
    <3> QED
      BY <3>1, <3>3
  <2> HIDE DEF k1, k2, k3, k4
  <2>2. /\ u[k1] = Collect(u[k1 - 1], e[k1]) /\ u[k2] = Collect(u[k2 - 1], e[k2])
        /\ u[k3] = Collect(u[k3 - 1], e[k3]) /\ u[k4] = Collect(u[k4 - 1], e[k4])
    BY <1>9, <2>1
  <2> QED
    BY <2>1, <2>2 DEF k1, k2, k3, k4
<1>11. u[4 * g + 2] = r2
  BY <1>6, <1>10
<1>12. u[4 * g + 3] = Collect(r2, e[4 * g + 3]) /\ u[4 * g + 4] = Collect(u[4 * g + 3], e[4 * g + 4])
  BY <1>10, <1>11
<1> HIDE DEF r1, r2, st
<1>13. 3 * g + 2 <= n => u[4 * g + 3] = r3
  BY <1>1, <1>6, <1>12
<1>14. 3 * g + 3 <= n => u[4 * g + 4] = r4
  BY <1>1, <1>6, <1>12, <1>13
<1> HIDE DEF r3, r4
<1>15. /\ 3 * g + 2 > n => e[4 * g + 3] = Pad
       /\ 3 * g + 3 > n => e[4 * g + 4] = Pad
  BY <1>6
<1> QED
  BY <1>7, <1>11, <1>12, <1>13, <1>14, <1>15 DEF GroupPassed, e, n, a, b, c, st

(* Padding ends the text, and changes nothing else. *)
LEMMA PadRead ==
    ASSUME NEW st \in Decoder
    PROVE  Collect(st, Pad) \in Decoder /\ Collect(st, Pad).out = st.out
<1>1. CASE st.stop
  <2>1. Collect(st, Pad) = st
    BY <1>1, CollectSkips
  <2> QED
    BY <2>1
<1>2. CASE ~st.stop
  <2>1. Collect(st, Pad) = [st EXCEPT !.stop = TRUE]
    BY <1>2, CollectPad
  <2> QED
    BY <2>1 DEF Decoder
<1> QED
  BY <1>1, <1>2

(* After g groups the first 3 * g bytes have come out. *)
LEMMA GroupsRead ==
    ASSUME NEW s \in Seq(Octets), NEW u, Decodes(u, b64encode(s)),
           NEW m \in Nat, 3 * m <= Len(s)
    PROVE  Ready(u[4 * m]) /\ u[4 * m].collected = 0 /\ u[4 * m].out = SubSeq(s, 1, 3 * m)
<1> DEFINE Good(g) == Ready(u[4 * g]) /\ u[4 * g].collected = 0 /\ u[4 * g].out = SubSeq(s, 1, 3 * g)
           T == {g \in Nat : 3 * g <= Len(s) => Good(g)}
<1>0. Len(s) \in Nat
  BY LenProperties
<1>1. 0 \in T
  <2>1. u[0] = Start /\ 4 * 0 = 0 /\ 3 * 0 = 0
    BY DEF Decodes
  <2>2. Start \in Decoder /\ ~Start.stop /\ Start.collected = 0 /\ Start.out = <<>>
    BY DEF Start, Decoder, Phases
  <2>3. SubSeq(s, 1, 0) = <<>>
    BY SubSeqEmpty
  <2> QED
    BY <2>1, <2>2, <2>3 DEF Ready
<1>2. ASSUME NEW g \in Nat, g \in T PROVE g + 1 \in T
  <2> SUFFICES ASSUME 3 * (g + 1) <= Len(s) PROVE Good(g + 1)
    OBVIOUS
  <2>1. /\ 3 * g <= Len(s) /\ 3 * g < Len(s) /\ 3 * g + 3 <= Len(s) /\ 3 * g + 1 < Len(s)
        /\ 3 * g + 2 < Len(s) /\ 3 * g + 1 <= Len(s) /\ 3 * g + 2 <= Len(s)
        /\ 4 * (g + 1) = 4 * g + 4 /\ 3 * (g + 1) = 3 * g + 3
        /\ 3 * g \in Nat /\ 3 * g + 1 \in Nat /\ 3 * g + 2 \in Nat
        /\ 3 * g + 1 + 1 = 3 * g + 2 /\ 3 * g + 2 + 1 = 3 * g + 3
    BY <1>0
  <2>2. Good(g)
    BY <1>2, <2>1
  <2>3. /\ Ready(u[4 * g + 4]) /\ u[4 * g + 4].collected = 0
        /\ u[4 * g + 4].out =
             Append(Append(Append(u[4 * g].out, At(s, 3 * g + 1)), At(s, 3 * g + 2)), At(s, 3 * g + 3))
    <3>1. GroupPassed(s, u, g)
      BY <2>1, <2>2, GroupRead DEF GroupAt
    <3> QED
      BY <2>1, <3>1 DEF GroupPassed
  <2>4. /\ At(s, 3 * g + 1) = s[3 * g + 1] /\ At(s, 3 * g + 2) = s[3 * g + 2]
        /\ At(s, 3 * g + 3) = s[3 * g + 3]
    BY <2>1 DEF At
  <2> DEFINE k == 3 * g
  <2>5. Append(SubSeq(s, 1, 3 * g), s[3 * g + 1]) = SubSeq(s, 1, 3 * g + 1)
    BY <2>1, SubSeqGrows
  <2>6. Append(SubSeq(s, 1, 3 * g + 1), s[3 * g + 2]) = SubSeq(s, 1, 3 * g + 2)
    BY <2>1, SubSeqGrows
  <2>7. Append(SubSeq(s, 1, 3 * g + 2), s[3 * g + 3]) = SubSeq(s, 1, 3 * g + 3)
    BY <2>1, SubSeqGrows
  <2>8. u[4 * g + 4].out = SubSeq(s, 1, 3 * g + 3)
    BY <2>2, <2>3, <2>4, <2>5, <2>6, <2>7
  <2> QED
    BY <2>1, <2>3, <2>8
<1>3. \A g \in Nat : g \in T
  <2> HIDE DEF T
  <2> QED
    BY <1>1, <1>2, SetInduction
<1> QED
  BY <1>3

(* What the encoder wrote decodes to the data, whatever the data's length modulo
   three. *)
LEMMA Decoded ==
    ASSUME NEW s \in Seq(Octets)
    PROVE  b64decode(b64encode(s)) = s
<1> DEFINE n == Len(s)
           e == b64encode(s)
           m == n \div 3
           q == (n + 2) \div 3
<1>1. n \in Nat
  BY LenProperties
<1>2. m \in Nat /\ 3 * m <= n /\ n < 3 * m + 3 /\ q \in Nat
  BY <1>1
<1>3. e \in Seq(Int) /\ Len(e) = 4 * q
  BY <1>2, EncodeIs
<1>4. PICK u : Decodes(u, e) /\ b64decode(e) = u[Len(e)].out
  BY <1>3, DecodeIs
<1>5. Ready(u[4 * m]) /\ u[4 * m].collected = 0 /\ u[4 * m].out = SubSeq(s, 1, 3 * m)
  BY <1>2, <1>4, GroupsRead
<1>6. SubSeq(s, 1, n) = s
  BY SubSeqFull
<1>7. CASE n = 3 * m
  <2>1. q = m
    BY <1>1, <1>2, <1>7
  <2> QED
    BY <1>3, <1>4, <1>5, <1>6, <1>7, <2>1
<1>8. CASE n # 3 * m
  <2>1. /\ q = m + 1 /\ 3 * m < n /\ 4 * q = 4 * m + 4
        /\ 3 * m \in Nat /\ 3 * m + 1 \in Nat /\ 3 * m + 1 + 1 = 3 * m + 2
    BY <1>1, <1>2, <1>8
  <2>2. /\ Ready(u[4 * m + 2])
        /\ u[4 * m + 2].out = Append(u[4 * m].out, At(s, 3 * m + 1))
        /\ u[4 * m + 3] = Collect(u[4 * m + 2], e[4 * m + 3])
        /\ u[4 * m + 4] = Collect(u[4 * m + 3], e[4 * m + 4])
        /\ 3 * m + 2 > n => e[4 * m + 3] = Pad
        /\ 3 * m + 3 > n => e[4 * m + 4] = Pad
        /\ 3 * m + 2 <= n =>
             /\ Ready(u[4 * m + 3])
             /\ u[4 * m + 3].out = Append(Append(u[4 * m].out, At(s, 3 * m + 1)), At(s, 3 * m + 2))
    <3>1. GroupAt(s, u, m)
      BY <1>2, <1>5, <2>1 DEF GroupAt
    <3>2. GroupPassed(s, u, m)
      BY <1>4, <3>1, GroupRead
    <3> HIDE DEF m
    <3> QED
      BY <3>2 DEF GroupPassed
  <2>3. Append(SubSeq(s, 1, 3 * m), s[3 * m + 1]) = SubSeq(s, 1, 3 * m + 1)
    BY <1>1, <1>2, <2>1, SubSeqGrows
  <2>4. At(s, 3 * m + 1) = s[3 * m + 1]
    BY <1>1, <1>2, <2>1 DEF At
  <2>5. u[4 * m + 2] \in Decoder /\ u[4 * m + 2].out = SubSeq(s, 1, 3 * m + 1)
    BY <1>5, <2>2, <2>3, <2>4 DEF Ready
  <2>6. e[4 * m + 4] = Pad
    BY <1>2, <2>2
  <2>7. u[4 * m + 3] \in Decoder /\ u[4 * m + 3].out = s
    <3>1. CASE n = 3 * m + 1
      <4>1. e[4 * m + 3] = Pad
        BY <1>2, <2>2, <3>1
      <4> QED
        BY <1>6, <2>2, <2>5, <3>1, <4>1, PadRead
    <3>2. CASE n # 3 * m + 1
      <4>1. n = 3 * m + 2 /\ 3 * m + 2 <= n /\ 3 * m + 1 < n
        BY <1>1, <1>2, <2>1, <3>2
      <4>2. Append(SubSeq(s, 1, 3 * m + 1), s[3 * m + 2]) = SubSeq(s, 1, 3 * m + 2)
        BY <2>1, <4>1, SubSeqGrows
      <4>3. At(s, 3 * m + 2) = s[3 * m + 2]
        BY <4>1 DEF At
      <4>4. u[4 * m + 3] \in Decoder
        BY <2>2, <4>1 DEF Ready
      <4>5. u[4 * m + 3].out = SubSeq(s, 1, 3 * m + 2)
        BY <1>5, <2>2, <2>3, <2>4, <4>1, <4>2, <4>3
      <4> QED
        BY <1>6, <4>1, <4>4, <4>5
    <3> QED
      BY <3>1, <3>2
  <2>8. u[4 * m + 4].out = s
    BY <2>2, <2>6, <2>7, PadRead
  <2>9. 4 * q = 4 * m + 4
    BY <2>1
  <2> HIDE DEF q, m, e
  <2> QED
    BY <1>3, <1>4, <2>8, <2>9 DEF e
<1> QED
  BY <1>7, <1>8

(* A text with a character inserted. *)
LEMMA InsertIs ==
    ASSUME NEW s \in Seq(Int), NEW i \in 1..Len(s), NEW c \in Int
    PROVE  /\ InsertAt(s, i, c) \in Seq(Int) /\ Len(InsertAt(s, i, c)) = Len(s) + 1
           /\ \A k \in 1..Len(s) + 1 :
                 InsertAt(s, i, c)[k] = IF k < i THEN s[k] ELSE IF k = i THEN c ELSE s[k - 1]
<1> DEFINE n == Len(s)
           x == SubSeq(s, 1, i - 1)
           y == SubSeq(s, i, n)
           t == InsertAt(s, i, c)
<1>1. n \in Nat /\ i \in Int /\ 1 <= i /\ i <= n /\ i - 1 \in Int /\ i - 1 >= 0
  BY LenProperties
<1>2. \A k \in 1..n : s[k] \in Int
  BY ElementOfSeq
<1>3. /\ x \in Seq(Int) /\ Len(x) = i - 1 /\ \A k \in 1..(i - 1) : x[k] = s[k]
  <2>1. /\ x \in Seq(Int) /\ Len(x) = (IF 1 <= i - 1 THEN i - 1 - 1 + 1 ELSE 0)
        /\ \A k \in 1..(i - 1 - 1 + 1) : x[k] = s[1 + k - 1]
    <3>1. \A k \in 1..(i - 1) : s[k] \in Int
      BY <1>1, <1>2
    <3> QED
      BY <1>1, <3>1, SubSeqProperties
  <2>2. \A k \in Int : 1 + k - 1 = k
    OBVIOUS
  <2>3. i - 1 - 1 + 1 = i - 1 /\ (~(1 <= i - 1) => i - 1 = 0)
    BY <1>1
  <2> HIDE DEF x
  <2> QED
    BY <1>1, <2>1, <2>2, <2>3
<1>4. /\ y \in Seq(Int) /\ Len(y) = n - i + 1 /\ \A k \in 1..(n - i + 1) : y[k] = s[i + k - 1]
  <2>1. \A k \in i..n : s[k] \in Int
    BY <1>1, <1>2
  <2> QED
    BY <1>1, <2>1, SubSeqProperties
<1>5. t = (x \o <<c>>) \o y
  BY DEF InsertAt
<1> HIDE DEF x, y, t
<1>6. <<c>> \in Seq(Int) /\ Len(<<c>>) = 1 /\ <<c>>[1] = c
  OBVIOUS
<1> DEFINE z == <<c>>
           v == x \o z
<1>7. z \in Seq(Int) /\ Len(z) = 1 /\ z[1] = c
  BY <1>6
<1> HIDE DEF z
<1>8. /\ v \in Seq(Int) /\ Len(v) = i
      /\ \A k \in 1..i : v[k] = IF k <= i - 1 THEN x[k] ELSE z[k - (i - 1)]
  <2>1. /\ v \in Seq(Int) /\ Len(v) = Len(x) + Len(z)
        /\ \A k \in 1..Len(x) + Len(z) : v[k] = IF k <= Len(x) THEN x[k] ELSE z[k - Len(x)]
    BY <1>3, <1>7, ConcatProperties
  <2>2. i - 1 + 1 = i
    BY <1>1
  <2> HIDE DEF v
  <2> QED
    BY <1>3, <1>7, <2>1, <2>2
<1>9. t = v \o y
  BY <1>5 DEF z
<1> HIDE DEF v
<1>10. /\ t \in Seq(Int) /\ Len(t) = n + 1
       /\ \A k \in 1..(n + 1) : t[k] = IF k <= i THEN v[k] ELSE y[k - i]
  <2>1. /\ t \in Seq(Int) /\ Len(t) = Len(v) + Len(y)
        /\ \A k \in 1..Len(v) + Len(y) : t[k] = IF k <= Len(v) THEN v[k] ELSE y[k - Len(v)]
    BY <1>4, <1>8, <1>9, ConcatProperties
  <2>2. i + (n - i + 1) = n + 1
    BY <1>1
  <2> QED
    BY <1>4, <1>8, <2>1, <2>2
<1>11. ASSUME NEW k \in 1..(n + 1)
       PROVE  t[k] = IF k < i THEN s[k] ELSE IF k = i THEN c ELSE s[k - 1]
  <2>1. CASE k < i
    <3>1. k \in 1..i /\ k <= i - 1 /\ k <= i /\ k \in 1..(i - 1)
      BY <1>1, <2>1
    <3> QED
      BY <1>3, <1>8, <1>10, <2>1, <3>1
  <2>2. CASE k = i
    <3>1. k \in 1..i /\ ~(k <= i - 1) /\ k <= i /\ k - (i - 1) = 1 /\ ~(k < i)
      BY <1>1, <2>2
    <3> QED
      BY <1>7, <1>8, <1>10, <2>2, <3>1
  <2>3. CASE k > i
    <3>1. k - i \in 1..(n - i + 1) /\ ~(k <= i) /\ i + (k - i) - 1 = k - 1 /\ ~(k < i) /\ k # i
      BY <1>1, <2>3
    <3> QED
      BY <1>4, <1>10, <3>1
  <2> QED
    BY <1>1, <2>1, <2>2, <2>3
<1> HIDE DEF n
<1>12. \A k \in 1..(n + 1) : t[k] = IF k < i THEN s[k] ELSE IF k = i THEN c ELSE s[k - 1]
  BY <1>11
<1> QED
  BY <1>10, <1>12 DEF t, n

(* White space anywhere in the text is passed over. *)
LEMMA BlankPassed ==
    ASSUME NEW s \in Seq(Int), NEW i \in 1..Len(s), NEW c \in Int, c \in Blank
    PROVE  b64decode(InsertAt(s, i, c)) = b64decode(s)
<1> DEFINE n == Len(s)
           t == InsertAt(s, i, c)
<1>1. n \in Nat /\ i \in Int /\ 1 <= i /\ i <= n
  BY LenProperties
<1>2. /\ t \in Seq(Int) /\ Len(t) = n + 1
      /\ \A k \in 1..(n + 1) : t[k] = IF k < i THEN s[k] ELSE IF k = i THEN c ELSE s[k - 1]
  BY InsertIs
<1> HIDE DEF t
<1>3. PICK u : Decodes(u, s) /\ b64decode(s) = u[n].out
  BY DecodeIs
<1>4. PICK w : Decodes(w, t) /\ b64decode(t) = w[n + 1].out
  BY <1>2, DecodeIs
<1>5. /\ u \in [0..n -> Decoder] /\ u[0] = Start
      /\ \A k \in 1..n : u[k] = Collect(u[k - 1], s[k])
  BY <1>3 DEF Decodes
<1>6. w[0] = Start /\ \A k \in 1..(n + 1) : w[k] = Collect(w[k - 1], t[k])
  BY <1>2, <1>4 DEF Decodes
<1> HIDE DEF n
<1> DEFINE Same(k) == w[k] = IF k < i THEN u[k] ELSE u[k - 1]
           T == {k \in Nat : k <= n + 1 => Same(k)}
<1>7. 0 \in T
  BY <1>1, <1>5, <1>6
<1>8. ASSUME NEW k \in Nat, k \in T PROVE k + 1 \in T
  <2> SUFFICES ASSUME k + 1 <= n + 1 PROVE Same(k + 1)
    OBVIOUS
  <2>1. k <= n + 1 /\ k + 1 \in 1..(n + 1) /\ k + 1 - 1 = k
    BY <1>1
  <2>2. Same(k) /\ w[k + 1] = Collect(w[k], t[k + 1])
    BY <1>6, <1>8, <2>1
  <2>3. CASE k + 1 < i
    <3>1. k < i /\ k + 1 \in 1..n
      BY <1>1, <2>3
    <3>2. t[k + 1] = s[k + 1] /\ u[k + 1] = Collect(u[k], s[k + 1])
      BY <1>2, <1>5, <2>1, <2>3, <3>1
    <3> QED
      BY <2>2, <2>3, <3>1, <3>2
  <2>4. CASE k + 1 = i
    <3>1. k < i /\ ~(k + 1 < i) /\ k \in 0..n
      BY <1>1, <2>4
    <3>2. t[k + 1] = c /\ w[k] = u[k] /\ u[k] \in Decoder
      BY <1>2, <1>5, <2>1, <2>2, <2>4, <3>1
    <3>3. Collect(u[k], c) = u[k]
      BY <3>2, CollectSkips
    <3> QED
      BY <2>1, <2>2, <3>1, <3>2, <3>3
  <2>5. CASE k + 1 > i
    <3>1. ~(k < i) /\ ~(k + 1 < i) /\ k + 1 # i /\ k \in 1..n
      BY <1>1, <2>5
    <3>2. u[k] = Collect(u[k - 1], s[k])
      BY <1>5, <3>1
    <3>3. w[k] = u[k - 1]
      BY <2>2, <3>1
    <3>4. t[k + 1] = s[k]
      <4> DEFINE j == k + 1
      <4>1. j \in 1..(n + 1) /\ ~(j < i) /\ j # i /\ j - 1 = k
        BY <2>1, <3>1
      <4> HIDE DEF j
      <4>2. t[j] = s[j - 1]
        BY <1>2, <4>1
      <4> QED
        BY <4>1, <4>2 DEF j
    <3> QED
      BY <2>1, <2>2, <3>1, <3>2, <3>3, <3>4
  <2>6. k + 1 \in Int /\ i \in Int
    BY <1>1
  <2>7. k + 1 < i \/ k + 1 = i \/ k + 1 > i
    BY <2>6
  <2> HIDE DEF Same
  <2> QED
    BY <2>3, <2>4, <2>5, <2>7
<1>9. \A k \in Nat : k \in T
  <2> HIDE DEF T
  <2> QED
    BY <1>7, <1>8, SetInduction
<1>10. w[n + 1] = u[n]
  <2> DEFINE k == n + 1
  <2>2. k \in Nat /\ k <= n + 1 /\ ~(k < i) /\ k - 1 = n
    BY <1>1
  <2> HIDE DEF k
  <2>3. w[k] = u[k - 1]
    BY <1>9, <2>2
  <2> QED
    BY <2>2, <2>3 DEF k
<1> QED
  BY <1>3, <1>4, <1>10 DEF t

(* A hexadecimal digit is read back, as a small letter too. *)
LEMMA HexRead ==
    ASSUME NEW v \in Int, 0 <= v, v < 16
    PROVE  /\ hex(v) \in Int
           /\ hex_digit(hex(v)) = v
           /\ hex(v) >= 65 => hex_digit(hex(v) + 32) = v
<1>1. CASE v < 10
  <2>1. hex(v) = 48 + v
    BY <1>1 DEF hex
  <2> QED
    BY <1>1, <2>1 DEF hex_digit
<1>2. CASE ~(v < 10)
  <2>1. hex(v) = 55 + v
    BY <1>2 DEF hex
  <2>2. hex_digit(55 + v) = v
    BY <1>2 DEF hex_digit
  <2>3. hex_digit(55 + v + 32) = v
    BY <1>2 DEF hex_digit
  <2> QED
    BY <2>1, <2>2, <2>3
<1> QED
  BY <1>1, <1>2

(* A text whose digits are those of the data decodes to it. *)
LEMMA DigitsRead ==
    ASSUME NEW s \in Seq(Octets), NEW t, Len(t) = 2 * Len(s),
           \A k \in 1..Len(s) : /\ hex_digit(t[2 * k - 1]) = s[k] \div 16
                                /\ hex_digit(t[2 * k]) = s[k] % 16
    PROVE  b16decode(t) = s
<1> DEFINE n == Len(s)
<1>1. n \in Nat /\ \A k \in 1..n : s[k] \in Octets
  BY LenProperties, ElementOfSeq
<1>2. \A k \in 1..n : /\ s[k] \in Nat /\ s[k] \div 16 \in Nat /\ s[k] % 16 \in Nat
                      /\ 16 * (s[k] \div 16) + (s[k] % 16) = s[k]
  BY <1>1, OctetParts DEF Octets
<1> HIDE DEF n
<1>3. Len(t) = 2 * n /\ (2 * n) % 2 = 0 /\ (2 * n) \div 2 = n
  BY <1>1 DEF n
<1>4. ASSUME NEW j \in 1..(2 * n) PROVE ~(hex_digit(t[j]) < 0)
  <2>1. \E k \in 1..n : j = 2 * k - 1 \/ j = 2 * k
    <3>1. j % 2 = 1 => (j + 1) \div 2 \in 1..n /\ j = 2 * ((j + 1) \div 2) - 1
      BY <1>1
    <3>2. j % 2 # 1 => j \div 2 \in 1..n /\ j = 2 * (j \div 2)
      BY <1>1
    <3> QED
      BY <3>1, <3>2
  <2>2. PICK k \in 1..n : j = 2 * k - 1 \/ j = 2 * k
    BY <2>1
  <2>3. hex_digit(t[2 * k - 1]) \in Nat /\ hex_digit(t[2 * k]) \in Nat
    BY <1>2 DEF n
  <2>4. hex_digit(t[j]) \in Nat
    <3>1. CASE j = 2 * k - 1
      BY <2>3, <3>1
    <3>2. CASE j = 2 * k
      BY <2>3, <3>2
    <3> QED
      BY <2>2, <3>1, <3>2
  <2>5. \A x \in Nat : ~(x < 0)
    OBVIOUS
  <2> QED
    BY <2>4, <2>5
<1>5. b16decode(t) = [k \in 1..n |-> 16 * hex_digit(t[2 * k - 1]) + hex_digit(t[2 * k])]
  <2>1. ~(Len(t) % 2 = 1) /\ Len(t) \div 2 = n
    BY <1>3
  <2>2. ~(\E k \in 1..Len(t) : hex_digit(t[k]) < 0)
    BY <1>3, <1>4
  <2> QED
    BY <2>1, <2>2 DEF b16decode
<1>6. \A k \in 1..n : 16 * hex_digit(t[2 * k - 1]) + hex_digit(t[2 * k]) = s[k]
  BY <1>2 DEF n
<1>7. s = [k \in 1..n |-> s[k]]
  BY LenProperties DEF n
<1> QED
  BY <1>5, <1>6, <1>7

(* Both ways to write the digits are read back. *)
LEMMA Base16Read ==
    ASSUME NEW s \in Seq(Octets)
    PROVE  LET h == b16encode(s)
           IN  /\ b16decode(h) = s
               /\ b16decode([k \in DOMAIN h |-> IF h[k] >= 65 THEN h[k] + 32 ELSE h[k]]) = s
<1> DEFINE n == Len(s)
           h == b16encode(s)
           t == [k \in DOMAIN h |-> IF h[k] >= 65 THEN h[k] + 32 ELSE h[k]]
<1>1. n \in Nat /\ \A k \in 1..n : s[k] \in Octets
  BY LenProperties, ElementOfSeq
<1>2. h = [k \in 1..2 * n |-> LET c == s[(k + 1) \div 2] IN hex(IF k % 2 = 1 THEN c \div 16 ELSE c % 16)]
  BY DEF b16encode
<1> HIDE DEF n, h
<1>3. \A k \in 1..n : /\ 2 * k - 1 \in 1..2 * n /\ (2 * k - 1 + 1) \div 2 = k /\ (2 * k - 1) % 2 = 1
                      /\ 2 * k \in 1..2 * n /\ (2 * k + 1) \div 2 = k /\ (2 * k) % 2 # 1
  BY <1>1
<1>4. ASSUME NEW k \in 1..n
      PROVE  h[2 * k - 1] = hex(s[k] \div 16) /\ h[2 * k] = hex(s[k] % 16)
  <2> DEFINE a == 2 * k - 1
             b == 2 * k
  <2>1. /\ a \in 1..2 * n /\ (a + 1) \div 2 = k /\ a % 2 = 1
        /\ b \in 1..2 * n /\ (b + 1) \div 2 = k /\ b % 2 # 1
    BY <1>3
  <2> HIDE DEF a, b
  <2>2. h[a] = hex(s[k] \div 16)
    BY <1>2, <2>1
  <2>3. h[b] = hex(s[k] % 16)
    BY <1>2, <2>1
  <2> QED
    BY <2>2, <2>3 DEF a, b
<1>5. /\ Len(h) = 2 * n /\ DOMAIN h = 1..2 * n
  <2>1. 2 * n \in Nat
    BY <1>1
  <2> QED
    BY <1>2, <2>1
<1>6. \A k \in 1..n : /\ s[k] \div 16 \in Int /\ 0 <= s[k] \div 16 /\ s[k] \div 16 < 16
                      /\ s[k] % 16 \in Int /\ 0 <= s[k] % 16 /\ s[k] % 16 < 16
  BY <1>1, OctetParts
<1>7. b16decode(h) = s
  <2>1. \A k \in 1..n : hex_digit(h[2 * k - 1]) = s[k] \div 16 /\ hex_digit(h[2 * k]) = s[k] % 16
    BY <1>4, <1>6, HexRead
  <2> QED
    BY <1>5, <2>1, DigitsRead DEF n
<1>8. ASSUME NEW v \in Int, 0 <= v, v < 16
      PROVE  hex_digit(IF hex(v) >= 65 THEN hex(v) + 32 ELSE hex(v)) = v
  BY <1>8, HexRead
<1>9. ASSUME NEW k \in 1..n
      PROVE  hex_digit(t[2 * k - 1]) = s[k] \div 16 /\ hex_digit(t[2 * k]) = s[k] % 16
  <2> DEFINE f(c) == IF c >= 65 THEN c + 32 ELSE c
             a == 2 * k - 1
             b == 2 * k
  <2>1. a \in DOMAIN h /\ b \in DOMAIN h
    BY <1>3, <1>5
  <2>2. h[a] = hex(s[k] \div 16) /\ h[b] = hex(s[k] % 16)
    BY <1>4
  <2>3. hex_digit(f(hex(s[k] \div 16))) = s[k] \div 16 /\ hex_digit(f(hex(s[k] % 16))) = s[k] % 16
    BY <1>6, <1>8
  <2>4. t = [j \in DOMAIN h |-> f(h[j])]
    OBVIOUS
  <2> HIDE DEF a, b, f, t
  <2>5. t[a] = f(h[a]) /\ t[b] = f(h[b])
    BY <2>1, <2>4
  <2> QED
    BY <2>2, <2>3, <2>5 DEF a, b
<1>10. Len(t) = 2 * n
  <2>1. 2 * n \in Nat
    BY <1>1
  <2> QED
    BY <1>5, <2>1
<1> HIDE DEF t
<1>11. b16decode(t) = s
  <2>1. \A k \in 1..n : hex_digit(t[2 * k - 1]) = s[k] \div 16 /\ hex_digit(t[2 * k]) = s[k] % 16
    BY <1>9
  <2> QED
    BY <1>10, <2>1, DigitsRead DEF n
<1> QED
  BY <1>7, <1>11 DEF h, t

(* b64decode undoes b64encode for data of every length and content, with white
   space anywhere in the text; b16decode undoes b16encode and takes small letters
   as well. *)
THEOREM EncodingsRoundTrip == LSpec => []EncodingRoundTrip
<1>1. WordInv => EncodingRoundTrip
  <2> SUFFICES ASSUME WordInv, domain = "data" PROVE EncodingRoundTrip
    BY DEF EncodingRoundTrip
  <2>1. word \in Seq(Octets)
    BY DEF WordInv, Domains
  <2> DEFINE e == b64encode(word)
  <2>2. b64decode(e) = word
    BY <2>1, Decoded
  <2>3. e \in Seq(Int)
    <3>1. (Len(word) + 2) \div 3 \in Nat
      BY <2>1, LenProperties
    <3> QED
      BY <2>1, <3>1, EncodeIs
  <2> HIDE DEF e
  <2>4. \A i \in 1..Len(e) : b64decode(InsertAt(e, i, 10)) = word
    <3>1. 10 \in Int /\ 10 \in Blank
      BY DEF Blank
    <3> QED
      BY <2>2, <2>3, <3>1, BlankPassed
  <2> QED
    BY <2>1, <2>2, <2>4, Base16Read DEF EncodingRoundTrip, e
<1> QED
  BY <1>1, WordsAreTexts, PTL
=============================================================================
