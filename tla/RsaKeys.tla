------------------------------ MODULE RsaKeys ------------------------------
(***************************************************************************)
(* asymmetric/rsa.py: generate_rsa_keypair(), with the primality test of   *)
(* Primality run step by step on every number that is drawn, then one use  *)
(* of the key: encryption or signature, the way of the result to the other *)
(* side, and decryption or verification there.                             *)
(*                                                                         *)
(* The lengths are scaled: a byte is of Width bits, and the hash, the salt *)
(* and the padding are as long as the constants say.  There is one hash    *)
(* function.  An exception is an answer.                                   *)
(***************************************************************************)
EXTENDS Primality, ByteStrings

CONSTANTS
    Width,          \* bits of a byte (8)
    MinModulus,     \* the smallest modulus_bits (2048)
    Moduli,         \* values of modulus_bits
    Exponents,      \* values of public_exponent
    MinPadding,     \* of PKCS #1 v1.5 (8)
    DigestInfo,     \* what is put before a hash (19 bytes)
    Hash(_),        \* sha256()
    HashLen,        \* 32
    SaltLen,        \* salt_len
    Trailer,        \* 0xBC
    Texts           \* messages and labels

ASSUME RsaAssumption ==
    /\ Width \in Nat \ {0} /\ Base = 2 ^ Width
    /\ Moduli \subseteq Nat /\ Exponents \subseteq Nat
    /\ {MinModulus, MinPadding, HashLen, SaltLen} \subseteq Nat
    /\ DigestInfo \in Seq(Byte) /\ Trailer \in Byte
    /\ Texts \subseteq Seq(Byte) /\ <<>> \in Texts

VARIABLES
    modulusBits, e, \* the call of generate_rsa_keypair()
    stage,          \* where the call, or the use of the key, has come to
    p,              \* the first prime, 0 before it is found
    key,            \* the RSAKeyPair
    op,             \* the kind of use, the text, and the label or <<>>
    sent, got,      \* the result, and what arrives of it
    asked,          \* the text to verify, or the label to decrypt with
    answer          \* what the other side returns

keygen == <<modulusBits, e, p, key>>
use    == <<op, sent, got, asked, answer>>
rsaVars == <<vars, keygen, stage, use>>

None == [n |-> 0]

-----------------------------------------------------------------------------
(* _egcd() and _invmod(): a coefficient of a in gcd(a, b).                 *)
Bezout[a \in Nat, b \in Nat, x0 \in Int, x1 \in Int] ==
    IF b = 0 THEN [gcd |-> a, x |-> x0]
    ELSE Bezout[b, a % b, x1, x0 - (a \div b) * x1]

Invertible(a, m) == Bezout[a, m, 1, 0].gcd = 1

InvMod(a, m) == Bezout[a, m, 1, 0].x % m

BitLength(k) == Len(Bits[k])

(* p |= (1 << (bits - 1)); p |= 1: what _gen_prime() draws.  What a small  *)
(* prime divides is drawn again at once.                                   *)
Drawn(length) ==
    {k \in 2 ^ (length - 1) .. 2 ^ length - 1 :
        /\ k % 2 = 1
        /\ \A s \in SmallPrimes : k % s = 0 => k = s}

HalfBits == modulusBits \div 2

BadCall == modulusBits < MinModulus \/ e % 2 = 0 \/ e <= 2

RsaInit ==
    /\ Called
    /\ \/ stage = "test" /\ n \in Candidates /\ modulusBits = 0 /\ e = 0
       \/ /\ modulusBits \in Moduli /\ e \in Exponents
          /\ IF BadCall THEN stage = "raised" /\ n = 0
             ELSE stage = "p" /\ n \in Drawn(HalfBits)
    /\ p = 0 /\ key = None
    /\ op = <<>> /\ sent = <<>> /\ got = <<>> /\ asked = <<>> /\ answer = <<>>

(* One step of the test that is under way.                                 *)
TestStep ==
    /\ stage \in {"test", "p", "q"}
    /\ Next
    /\ UNCHANGED <<keygen, stage, use>>

Call(k) ==
    /\ n' = k
    /\ pc' = "sieve"
    /\ x' = 0 /\ todo' = 0
    /\ D' = 5 /\ d' = 0 /\ bits' = <<>> /\ chain' = Start /\ done' = 0

(* The loop of _gen_prime(), and the call for q after p.                   *)
DrawAgain ==
    /\ stage \in {"p", "q"} /\ pc = "composite"
    /\ \E k \in Drawn(HalfBits) : Call(k)
    /\ UNCHANGED <<keygen, stage, use>>

FoundP ==
    /\ stage = "p" /\ pc = "prime"
    /\ p' = n
    /\ stage' = "q"
    /\ \E k \in Drawn(HalfBits) : Call(k)
    /\ UNCHANGED <<modulusBits, e, key, use>>

Phi(r, s) == (r - 1) * (s - 1)

Usable(r, s) == r # s /\ Phi(r, s) % e # 0 /\ Invertible(e, Phi(r, s))

KeyPair(r, s) ==
    LET f == InvMod(e, Phi(r, s))
    IN  [n |-> r * s, e |-> e, d |-> f, p |-> r, q |-> s,
         dp |-> f % (r - 1), dq |-> f % (s - 1), qInv |-> InvMod(s, r)]

(* Either the key is made or both primes are drawn anew.                   *)
FoundQ ==
    /\ stage = "q" /\ pc = "prime"
    /\ IF Usable(p, n)
       THEN /\ key' = KeyPair(p, n)
            /\ stage' = "ready"
            /\ UNCHANGED <<vars, p>>
       ELSE /\ p' = 0 /\ stage' = "p"
            /\ \E k \in Drawn(HalfBits) : Call(k)
            /\ UNCHANGED key
    /\ UNCHANGED <<modulusBits, e, use>>

-----------------------------------------------------------------------------
Size   == (BitLength(key.n) + Width - 1) \div Width
EmBits == BitLength(key.n) - 1

(* Fault: the length of a PSS block is rounded down.                       *)
EmLen_Down == EmBits \div Width

EmLen == (EmBits + Width - 1) \div Width

(* _mgf1_sha256(): hashes of the seed and a counter.                       *)
Mgf(seed, length) ==
    SubSeq(FlattenSeq([c \in 1 .. length |-> Hash(Append(seed, c - 1))]), 1, length)

(* Nonzero bytes, as many as the text leaves room for.                     *)
Paddings(text) == [1 .. Size - Len(text) - 3 -> 1 .. Base - 1]

Pkcs1(type, padding, data) == <<0, type>> \o padding \o <<0>> \o data

DataBlock(text, label, length) ==
    LET head == Hash(label)
        rest == Append(Zeros(length - Len(head) - Len(text) - 1), 1) \o text
    IN  head \o rest

Oaep(text, label, seed) ==
    LET length == Size - HashLen - 1
        db     == Xor(DataBlock(text, label, length), Mgf(seed, length))
    IN  <<0>> \o Xor(seed, Mgf(db, HashLen)) \o db

(* The bits of the first byte that lie above EmBits.                       *)
Cleared(s) == <<Head(s) % 2 ^ (Width - (Width * EmLen - EmBits))>> \o Tail(s)

SaltedHash(text, salt) == Hash(Zeros(8) \o Hash(text) \o salt)

PssRoom == EmLen - HashLen - SaltLen - 2

Pss(text, salt) ==
    LET h  == SaltedHash(text, salt)
        db == Append(Zeros(PssRoom), 1) \o salt
    IN  Append(Cleared(Xor(db, Mgf(h, Len(db)))) \o h, Trailer)

Public(em)     == ToBytes(Pow(ToNumber(em), key.e, key.n), Size)
PrivateKey(em) == ToBytes(Pow(ToNumber(em), key.d, key.n), Size)

Fits(kind, text) ==
    CASE kind = "v15"  -> Len(text) <= Size - 3 - MinPadding
      [] kind = "oaep" -> Len(text) <= Size - 2 * HashLen - 2
      [] kind = "sign" -> Len(DigestInfo) + HashLen <= Size - 3 - MinPadding
      [] kind = "pss"  -> PssRoom >= 0

Strings(length) == [1 .. length -> Byte]

(* What encrypt(), encrypt_oaep(), sign() and sign_pss() may return.       *)
Results(kind, text, label) ==
    CASE kind = "v15"  -> {Public(Pkcs1(2, r, text)) : r \in Paddings(text)}
      [] kind = "oaep" -> {Public(Oaep(text, label, s)) : s \in Strings(HashLen)}
      [] kind = "sign" ->
            LET info    == DigestInfo \o Hash(text)
                padding == [j \in 1 .. Size - Len(info) - 3 |-> Base - 1]
            IN  {PrivateKey(Pkcs1(1, padding, info))}
      [] kind = "pss"  -> {PrivateKey(Pss(text, s)) : s \in Strings(SaltLen)}

Use ==
    /\ stage = "ready"
    /\ \E kind \in {"v15", "oaep", "sign", "pss"}, text \in Texts :
       \E label \in IF kind = "oaep" THEN Texts ELSE {<<>>} :
          /\ op' = [kind |-> kind, text |-> text, label |-> label]
          /\ IF Fits(kind, text)
             THEN stage' = "sent" /\ sent' \in Results(kind, text, label)
             ELSE stage' = "raised" /\ UNCHANGED sent
    /\ UNCHANGED <<vars, keygen, got, asked, answer>>

(* The result arrives as it is, cut, or with a byte changed; the other     *)
(* side has some text in mind, or some label.                              *)
Arrive ==
    /\ stage = "sent"
    /\ got' \in {sent, Front(sent)}
                \cup {[sent EXCEPT ![j] = b] : j \in 1 .. Len(sent), b \in Byte}
    /\ asked' \in CASE op.kind = "v15"  -> {<<>>}
                    [] op.kind = "oaep" -> {op.label, <<>>}
                    [] OTHER            -> {op.text, <<>>}
    /\ stage' = "arrived"
    /\ UNCHANGED <<vars, keygen, op, sent, answer>>

-----------------------------------------------------------------------------
Raised      == <<"raised">>
Data(s)     == <<"data", s>>
Verdict(b)  == <<"verdict", b>>

(* Decryption by the Chinese remainder theorem.                            *)
Crt(c) ==
    LET m1 == Pow(c, key.dp, key.p)
        m2 == Pow(c, key.dq, key.q)
    IN  m2 + ((key.qInv * (m1 - m2)) % key.p) * key.q

(* Fault: the last zero is taken for the separator.                        *)
Pkcs1Decode_Last(em) ==
    LET zeros == {j \in 3 .. Len(em) : em[j] = 0}
    IN  IF em[1] # 0 \/ em[2] # 2 \/ zeros = {} THEN Raised
        ELSE LET sep == CHOOSE j \in zeros : \A k \in zeros : k <= j
             IN  IF sep - 3 < MinPadding THEN Raised
                 ELSE Data(SubSeq(em, sep + 1, Len(em)))

(* _pkcs1_v1_5_decode(): the text is what follows the first zero.          *)
Pkcs1Decode(em) ==
    LET zeros == {j \in 3 .. Len(em) : em[j] = 0}
    IN  IF em[1] # 0 \/ em[2] # 2 \/ zeros = {} THEN Raised
        ELSE LET sep == CHOOSE j \in zeros : \A k \in zeros : j <= k
             IN  IF sep - 3 < MinPadding THEN Raised
                 ELSE Data(SubSeq(em, sep + 1, Len(em)))

(* _oaep_decode(): the text is what follows the 1 after zeros.             *)
OaepDecode(em, label) ==
    LET masked == SubSeq(em, HashLen + 2, Len(em))
        seed   == Xor(SubSeq(em, 2, HashLen + 1), Mgf(masked, HashLen))
        db     == Xor(masked, Mgf(seed, Len(masked)))
        filled == {j \in HashLen + 1 .. Len(db) : db[j] # 0}
        first  == CHOOSE j \in filled : \A k \in filled : j <= k
    IN  IF \/ em[1] # 0
           \/ SubSeq(db, 1, HashLen) # Hash(label)
           \/ filled = {} \/ db[first] # 1
        THEN Raised
        ELSE Data(SubSeq(db, first + 1, Len(db)))

(* _pss_verify()                                                           *)
PssVerifies(text, em) ==
    LET masked == SubSeq(em, 1, EmLen - HashLen - 1)
        h      == SubSeq(em, EmLen - HashLen, EmLen - 1)
        db     == Cleared(Xor(masked, Mgf(h, Len(masked))))
    IN  /\ PssRoom >= 0
        /\ Last(em) = Trailer
        /\ Cleared(masked) = masked
        /\ SubSeq(db, 1, PssRoom + 1) = Append(Zeros(PssRoom), 1)
        /\ h = SaltedHash(text, SubSeq(db, PssRoom + 2, Len(db)))

Verify(text, signature) ==
    Public(signature) =
        LET info == DigestInfo \o Hash(text)
        IN  Pkcs1(1, [j \in 1 .. Size - Len(info) - 3 |-> Base - 1], info)

(* A signature that opens to a number too large for a block of EmLen bytes *)
(* makes _i2osp() raise in verify_pss().                                   *)
VerifyPss(text, signature) ==
    LET m == Pow(ToNumber(signature), key.e, key.n)
    IN  IF m >= Power[EmLen] THEN Raised
        ELSE Verdict(PssVerifies(text, ToBytes(m, EmLen)))

Receive ==
    /\ stage = "arrived"
    /\ answer' =
         LET whole == Len(got) = Size
             em    == ToBytes(Crt(ToNumber(got)), Size)
         IN  CASE op.kind = "v15"  -> IF whole THEN Pkcs1Decode(em) ELSE Raised
               [] op.kind = "oaep" -> IF whole THEN OaepDecode(em, asked) ELSE Raised
               [] op.kind = "sign" -> Verdict(whole /\ Verify(asked, got))
               [] op.kind = "pss"  -> IF whole THEN VerifyPss(asked, got)
                                      ELSE Verdict(FALSE)
    /\ stage' = "answered"
    /\ UNCHANGED <<vars, keygen, op, sent, got, asked>>

RsaNext ==
    \/ TestStep
    \/ DrawAgain \/ FoundP \/ FoundQ
    \/ Use \/ Arrive \/ Receive

RsaSpec == RsaInit /\ [][RsaNext]_rsaVars

-----------------------------------------------------------------------------
(* What arrives as it was sent, with the label or text of the sender, is   *)
(* decrypted to the text or verified, for every text that was not refused, *)
(* whatever zeros and ones it begins with.                                 *)
RsaRoundTrip ==
    stage = "answered" /\ got = sent =>
        CASE op.kind = "v15"  -> answer = Data(op.text)
          [] op.kind = "oaep" -> asked = op.label => answer = Data(op.text)
          [] OTHER            -> asked = op.text => answer = Verdict(TRUE)

(* verify() and verify_pss() answer for any signature.  The exception is   *)
(* verify_pss() with a modulus of 8k + 1 bits, whose blocks are a byte     *)
(* shorter than the modulus: there a damaged signature may raise.          *)
VerifyAnswers ==
    answer = Raised /\ op.kind \in {"sign", "pss"} =>
        /\ op.kind = "pss" /\ got # sent
        /\ BitLength(key.n) % Width = 1 % Width
=============================================================================
