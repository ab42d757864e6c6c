------------------------------ MODULE SshCrypto ------------------------------
(***************************************************************************)
(* The crypto backend libssh2 is linked with (port/libssh2_axtls.c): the   *)
(* big number that carries the Curve25519 secret, the Ed25519 entry points *)
(* and what they allocate, and the AES contexts of the two directions.     *)
(* The primitives of axtls and TweetNaCl are external: a keystream byte is *)
(* named by the key, the counter block and its place in the block, and a   *)
(* byte of data carries the set of keystream bytes it is combined with.    *)
(***************************************************************************)
EXTENDS Integers, Sequences, SequencesExt, FiniteSetsExt

CONSTANTS
    NumberBytes,    \* the byte values numbers are made of
    NumberLen,      \* bound on the length of a number, and the size of a word
    BlockLen,       \* bytes of a cipher block (16)
    CounterLen,     \* digits of the counter (16)
    CounterBase,    \* values of a counter digit (256)
    StreamLen,      \* bound on the bytes sent under one key
    Keys            \* keys negotiated one after the other, 1..n

VARIABLES
    heap,           \* live buffers and contexts, by what they hold
    owned,          \* those libssh2 holds a pointer to
    bn,             \* the _bn_impl: data (cap bytes, len of them used), or NULL
    worth,          \* the number the last successful call stored (history)
    key,            \* number of the key in use
    enc, dec,       \* the cipher contexts that send and receive
    wire,           \* segments encrypted and not yet decrypted
    used,           \* keystream bytes used under this key (history)
    sent, got       \* bytes encrypted; what the receiver made of them

kexvars == <<bn, worth>>
heapvars == <<heap, owned>>
ciphervars == <<key, enc, dec, wire, used, sent, got>>
cvars == <<kexvars, heapvars, ciphervars>>

NULL == [null |-> TRUE]

(* How many counters of n digits there are. *)
Period[n \in 0..CounterLen] == IF n = 0 THEN 1 ELSE CounterBase * Period[n - 1]

ASSUME CryptoAssumption ==
    /\ NumberBytes \subseteq 0..255
    /\ {NumberLen, BlockLen, CounterLen, StreamLen, Keys} \subseteq Nat \ {0}
    /\ CounterBase \in Nat \ {0, 1}
    \* no key is used for longer than its counter runs
    /\ StreamLen <= BlockLen * (Period[CounterLen] - 1)

CryptoInit ==
    /\ heap = {} /\ owned = {}
    /\ bn = NULL /\ worth = 0
    /\ key = 0 /\ enc = NULL /\ dec = NULL
    /\ wire = <<>> /\ used = {} /\ sent = 0 /\ got = <<>>

-----------------------------------------------------------------------------
(* The big number *)

Numbers == UNION {[1..n -> NumberBytes] : n \in 0..NumberLen}

(* Fault form: a leading zero is kept. *)
StripKeepsOne(s) ==
    LET k == SelectInSeq(s, LAMBDA b : b # 0)
    IN  IF k <= 1 THEN s ELSE SubSeq(s, k - 1, Len(s))

(* The payload is big-endian without leading zeros. *)
Strip(s) ==
    LET k == SelectInSeq(s, LAMBDA b : b # 0)
    IN  IF k = 0 THEN <<>> ELSE SubSeq(s, k, Len(s))

(* _bn_ensure replaces the buffer only when it is too small, by one of just
   the size needed; memcpy then fills its beginning. *)
Stored(b, s) ==
    [len |-> Len(s),
     data |-> IF Len(b.data) >= Len(s)
              THEN s \o SubSeq(b.data, Len(s) + 1, Len(b.data))
              ELSE s]

Ensured(b, s, ok) == Len(b.data) >= Len(s) \/ ok

bn_to_bin(b) == SubSeq(b.data, 1, b.len)

PowerOfTwo[n \in 0..8 * NumberLen] == IF n = 0 THEN 1 ELSE 2 * PowerOfTwo[n - 1]

bn_bits(b) ==
    IF b.len = 0 THEN 0
    ELSE 8 * (b.len - 1) + Min({n \in 0..8 : b.data[1] < PowerOfTwo[n]})

Value(s) ==
    LET upto[k \in 0..Len(s)] == IF k = 0 THEN 0 ELSE 256 * upto[k - 1] + s[k]
    IN  upto[Len(s)]

bn_init ==
    /\ bn = NULL
    /\ \E ok \in BOOLEAN : bn' = IF ok THEN [len |-> 0, data |-> <<>>] ELSE NULL
    /\ worth' = 0
    /\ UNCHANGED <<heapvars, ciphervars>>

bn_free ==
    /\ bn # NULL
    /\ bn' = NULL /\ worth' = 0
    /\ UNCHANGED <<heapvars, ciphervars>>

(* A word has NumberLen bytes; without memory the number becomes zero. *)
bn_set_word ==
    /\ bn # NULL
    /\ \E w \in [1..NumberLen -> NumberBytes], ok \in BOOLEAN :
          LET s == Strip(w)
          IN  /\ bn' = IF Ensured(bn, s, ok) THEN Stored(bn, s) ELSE [bn EXCEPT !.len = 0]
              /\ worth' = IF Ensured(bn, s, ok) THEN Value(w) ELSE 0
    /\ UNCHANGED <<heapvars, ciphervars>>

(* Without memory the number stays as it was, and the caller is told. *)
bn_from_bin(s) ==
    \E ok \in BOOLEAN :
        IF Ensured(bn, Strip(s), ok)
        THEN bn' = Stored(bn, Strip(s)) /\ worth' = Value(s)
        ELSE UNCHANGED kexvars

bn_load ==
    /\ bn # NULL
    /\ \E s \in Numbers : bn_from_bin(s)
    /\ UNCHANGED <<heapvars, ciphervars>>

(* The shared secret has a fixed length and may begin with zeros; with a public
   key of small order it is zero. *)
curve25519_gen_k ==
    /\ bn # NULL
    /\ \E secret \in [1..NumberLen -> NumberBytes] : bn_from_bin(secret)
    /\ UNCHANGED <<heapvars, ciphervars>>

(* What libssh2 sends and hashes of the secret (external): a zero byte is put
   before it when bits is a multiple of eight; to_bin without bytes is an
   error. *)
Mpint(b) ==
    IF b.len = 0 THEN <<>>
    ELSE IF bn_bits(b) % 8 # 0 THEN bn_to_bin(b) ELSE <<0>> \o bn_to_bin(b)

-----------------------------------------------------------------------------
(* Key buffers and Ed25519 identities *)

(* A step of a call that may fail: what it allocates when it succeeds, what its
   failing branch frees. *)
Step(gets, frees) == [gets |-> gets, frees |-> frees]

(* Runs the steps up to the first that fails; when none does the call frees
   done and hands out to its caller. *)
Call(steps, done, out) ==
    \E n \in 0..Len(steps) :
        LET live == heap \cup UNION {steps[i].gets : i \in 1..n}
        IN  IF n < Len(steps)
            THEN heap' = live \ steps[n + 1].frees /\ UNCHANGED owned
            ELSE heap' = live \ done /\ owned' = owned \cup out

(* The text libssh2's PEM reader allocates; then key type, public and private
   part are tested in turn. *)
ed25519_parse_priv ==
    <<Step({"text"}, {}), Step({}, {"text"}), Step({}, {"text"}), Step({}, {"text"})>>

(* The key must have 32 bytes. *)
ed25519_new_public ==
    "ctx" \notin owned /\ Call(<<Step({}, {}), Step({"ctx"}, {})>>, {}, {"ctx"})

(* The signature must have 64 bytes; both copies are freed whatever the
   verdict. *)
ed25519_verify ==
    "ctx" \in owned /\
    Call(<<Step({}, {}), Step({"sm"}, {}), Step({"out"}, {"sm"})>>, {"sm", "out"}, {})

ed25519_new_private_frommemory ==
    "ctx" \notin owned /\
    Call(ed25519_parse_priv \o <<Step({"ctx"}, {"text"})>>, {"text"}, {"ctx"})

(* Fault form: without memory for the signature only the call fails. *)
ed25519_sign_keeps_message ==
    "ctx" \in owned /\ "sig" \notin owned /\
    Call(<<Step({}, {}), Step({"sm"}, {}), Step({}, {"sm"}), Step({"sig"}, {})>>, {"sm"}, {"sig"})

(* The context must hold a private key; crypto_sign may refuse. *)
ed25519_sign ==
    "ctx" \in owned /\ "sig" \notin owned /\
    Call(<<Step({}, {}), Step({"sm"}, {}), Step({}, {"sm"}), Step({"sig"}, {"sm"})>>, {"sm"}, {"sig"})

pub_priv_keyfilememory ==
    {"method", "blob"} \cap owned = {} /\
    Call(ed25519_parse_priv
             \o <<Step({"method"}, {"text"}), Step({"blob"}, {"method", "text"})>>,
         {"text"}, {"method", "blob"})

(* Both buffers are asked for before either is tested; the branch frees the one
   that was given. *)
curve25519_new ==
    /\ {"priv", "pub"} \cap owned = {}
    /\ \E a, b \in BOOLEAN :
          LET live == (IF a THEN {"priv"} ELSE {}) \cup (IF b THEN {"pub"} ELSE {})
          IN  IF a /\ b
              THEN heap' = heap \cup live /\ owned' = owned \cup live
              ELSE heap' = (heap \cup live) \ live /\ UNCHANGED owned

ed25519_free ==
    /\ "ctx" \in owned
    /\ heap' = heap \ {"ctx"} /\ owned' = owned \ {"ctx"}

(* libssh2 gives back what it was handed and no longer needs. *)
LibsshFree ==
    \E x \in owned \ {"ctx"} : heap' = heap \ {x} /\ owned' = owned \ {x}

KeyCall ==
    /\ \/ ed25519_new_public \/ ed25519_verify \/ ed25519_sign \/ ed25519_free
       \/ ed25519_new_private_frommemory \/ pub_priv_keyfilememory
       \/ curve25519_new \/ LibsshFree
    /\ UNCHANGED <<kexvars, ciphervars>>

-----------------------------------------------------------------------------
(* AES in both directions *)

Algorithms == 1..13
Supported == {1, 3, 4, 6}
Ctr == {4, 5, 6}

Counters == [1..CounterLen -> 0..CounterBase - 1]

(* cipher_init of a supported algorithm.  The inverse key schedule is for CBC
   decryption only: CTR encrypts the counter in both directions.  chain stands
   for the IV axtls keeps inside the AES context. *)
CipherContext(algo, k, iv, encrypt) ==
    [key |-> k, is_ctr |-> algo \in Ctr, ctr_iv |-> iv, chain |-> 0,
     schedule |-> IF ~encrypt /\ algo \notin Ctr THEN "inverse" ELSE "forward"]

(* After a key exchange the old contexts are cleared and both directions start
   with the new key; an algorithm the backend refuses ends the session. *)
cipher_init ==
    /\ key < Keys /\ wire = <<>>
    /\ key' = key + 1
    /\ \E algo \in Algorithms, iv \in Counters :
          IF algo \in Supported
          THEN enc' = CipherContext(algo, key', iv, TRUE) /\ dec' = CipherContext(algo, key', iv, FALSE)
          ELSE enc' = NULL /\ dec' = NULL
    /\ used' = {} /\ sent' = 0 /\ got' = <<>>
    /\ UNCHANGED <<wire, kexvars, heapvars>>

(* Fault form: the carry is lost. *)
IncrementDigit(c) == [c EXCEPT ![CounterLen] = (@ + 1) % CounterBase]

(* The counter is big-endian: digits turn to zero from the last one on until
   one does not. *)
Increment(c) ==
    LET k == Max({0} \cup {j \in 1..CounterLen : c[j] # CounterBase - 1})
    IN  [j \in 1..CounterLen |-> IF j > k THEN 0 ELSE IF j = k THEN c[j] + 1 ELSE c[j]]

(* The counter before block i (from 0) of a call that starts with c, the counter
   stepping once per block, a last block that is not full included. *)
CounterAt(c, i) ==
    LET at[n \in 0..i] == IF n = 0 THEN c ELSE Increment(at[n - 1])
    IN  at[i]

Blocks(n) == (n + BlockLen - 1) \div BlockLen

(* The keystream byte for byte p (from 0) of a call.  AES_cbc_encrypt and
   AES_cbc_decrypt undo each other under the schedule each one needs. *)
Keystream(ctx, p, encrypt) ==
    LET i == p \div BlockLen
        j == p % BlockLen
    IN  IF ctx.is_ctr
        THEN <<ctx.key, "ctr", ctx.schedule, CounterAt(ctx.ctr_iv, i), j>>
        ELSE <<ctx.key, "cbc",
               IF ctx.schedule = (IF encrypt THEN "forward" ELSE "inverse") THEN "aes" ELSE ctx.schedule,
               ctx.chain + i, j>>

(* A byte combined twice with the same keystream byte is itself again. *)
Xor(byte, k) == [byte EXCEPT !.with = SymDiff(@, {k})]

cipher_crypt(ctx, bytes, encrypt) ==
    [k \in DOMAIN bytes |-> Xor(bytes[k], Keystream(ctx, k - 1, encrypt))]

(* The context after a call on n bytes. *)
Advanced(ctx, n) ==
    IF ctx.is_ctr THEN [ctx EXCEPT !.ctr_iv = CounterAt(ctx.ctr_iv, Blocks(n))]
                  ELSE [ctx EXCEPT !.chain = @ + Blocks(n)]

(* libssh2 encrypts whole blocks; the end of a segment may be shorter in CTR. *)
Encrypt ==
    /\ enc # NULL
    /\ \E n \in 1..StreamLen - sent :
          LET plain == [k \in 1..n |-> [byte |-> sent + k, with |-> {}]]
          IN  /\ n % BlockLen = 0 \/ (enc.is_ctr /\ sent % BlockLen = 0)
              /\ wire' = Append(wire, cipher_crypt(enc, plain, TRUE))
              /\ used' = used \cup {Keystream(enc, k - 1, TRUE) : k \in 1..n}
              /\ sent' = sent + n
              /\ enc' = Advanced(enc, n)
    /\ UNCHANGED <<key, dec, got, kexvars, heapvars>>

(* The receiver takes a segment at once or some whole blocks of it. *)
Decrypt ==
    /\ wire # <<>>
    /\ \E n \in 1..Len(Head(wire)) :
          LET whole == n = Len(Head(wire))
              rest == SubSeq(Head(wire), n + 1, Len(Head(wire)))
          IN  /\ n % BlockLen = 0 \/ whole
              /\ got' = got \o cipher_crypt(dec, SubSeq(Head(wire), 1, n), FALSE)
              /\ wire' = IF whole THEN Tail(wire) ELSE <<rest>> \o Tail(wire)
              /\ dec' = Advanced(dec, n)
    /\ UNCHANGED <<key, enc, used, sent, kexvars, heapvars>>

-----------------------------------------------------------------------------
KexNext == bn_init \/ bn_free \/ bn_set_word \/ bn_load \/ curve25519_gen_k
CipherNext == cipher_init \/ Encrypt \/ Decrypt

(* Whatever was stored before, in whatever buffer, and whichever allocations
   failed, the number is the one of the last call that succeeded, bits is its
   length in bits, and what libssh2 makes of it is the shortest encoding of that
   number that is not negative; a zero secret is refused. *)
SecretExact ==
    bn # NULL =>
        LET m == Mpint(bn)
        IN  /\ Value(bn_to_bin(bn)) = worth
            /\ worth < PowerOfTwo[bn_bits(bn)]
            /\ worth > 0 => worth >= PowerOfTwo[bn_bits(bn) - 1]
            /\ (worth = 0) <=> (m = <<>>)
            /\ m # <<>> => /\ Value(m) = worth /\ m[1] < 128
                           /\ (m[1] = 0 => m[2] >= 128)

(* Whatever allocation or test fails in whatever order of calls, nothing is left
   allocated that libssh2 does not hold, and nothing it holds was freed. *)
NothingLeaks == heap = owned

(* However both ends cut the stream into calls, across counter carries and wraps
   and through a change of keys, the receiver has exactly the first bytes that
   were sent, and no keystream byte was used for two of them. *)
CipherStreamExact ==
    /\ \A k \in DOMAIN got : got[k] = [byte |-> k, with |-> {}]
    /\ Cardinality(used) = sent
=============================================================================
