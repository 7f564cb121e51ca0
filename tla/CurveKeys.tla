------------------------------ MODULE CurveKeys ------------------------------
(***************************************************************************)
(* The keys on elliptic curves: ECDSA and ECDH (asymmetric/                *)
(* nist_curves.py), Ed25519 (asymmetric/ed25519.py) and X25519             *)
(* (asymmetric/x25519.py).  A key pair is made and used once: it signs, or *)
(* somebody else makes a signature, what arrives is verified; or two       *)
(* parties agree on a secret.  Points are added and multiplied alone, too. *)
(*                                                                         *)
(* Hashes are ideal: a message is what it hashes to, and the numbers that  *)
(* RFC 6979 and RFC 8032 derive from hashes may be any in their range.     *)
(***************************************************************************)
EXTENDS CurveArithmetic

CONSTANTS
    PrivateKeys,    \* d of ECDSA, and those of Ed25519 and X25519
    Hashes,         \* hash_fn(message), as numbers
    MaxCandidate,   \* the largest number of _deterministic_k (2 ** 256 - 1)
    Challenges,     \* values of _hint(R + A + message)
    UBase,          \* 9, the base point of X25519
    Scalars,        \* factors that are tried
    ThirdPoints     \* of Ed25519: what is added to any two points

ASSUME KeyAssumption ==
    /\ PrivateKeys \cup Hashes \cup Challenges \cup Scalars \subseteq Nat
    /\ MaxCandidate \in Nat /\ UBase \in 0 .. P - 1

VARIABLES
    stage,
    curve,          \* of ECDSA and ECDH, or the one of Ed25519 or X25519
    key,            \* the private key, in the range the code gives it
    public,         \* Q, the encoding of A, or u
    hash,           \* of the message; with EdDSA the challenge of the signature
    sent,           \* the signature, or <<>>
    received,       \* what verify() gets: message or challenge, and signature
    answer,
    points          \* the arguments of arithmetic that is tried alone

vars == <<stage, curve, key, public, hash, sent, received, answer, points>>

Edwards    == [form |-> "edwards"]
Montgomery == [form |-> "montgomery"]

IsWeierstrass == curve \in Curves

OnCurve(c, p) == p = None \/ (p[2] * p[2] - p[1] * p[1] * p[1] - c.a * p[1] - c.b) % c.p = 0

OnEdwards(p) == (p[2] * p[2] - p[1] * p[1] - 1 - D * ((p[1] * p[1] * p[2]) % P) * p[2]) % P = 0

WeierstrassPoints(c) == {None} \cup {p \in (0 .. c.p - 1) \X (0 .. c.p - 1) : OnCurve(c, p)}

EdwardsPoints == {p \in (0 .. P - 1) \X (0 .. P - 1) : OnEdwards(p)}

(* ECDSAPrivateKey(), ed25519_keygen() and x25519_keygen().                *)
KeyPair ==
    \/ /\ IsWeierstrass /\ key \in PrivateKeys \cap 1 .. curve.n - 1
       /\ public = PointMul(curve, key, curve.g)
    \/ /\ curve = Edwards /\ key \in {Clamped(k) : k \in PrivateKeys}
       /\ public = Compress(EdwardsMul(B, key))
    \/ /\ curve = Montgomery /\ key \in PrivateKeys
       /\ public = X25519(key, UBase)

Init ==
    /\ curve \in Curves \cup {Edwards, Montgomery}
    /\ hash = 0 /\ sent = <<>> /\ received = <<>> /\ answer = <<>>
    /\ \/ stage = "made" /\ KeyPair /\ points = <<>>
       \/ /\ stage = "points" /\ key = 0 /\ public = 0
          /\ points \in IF IsWeierstrass THEN [1 .. 3 -> WeierstrassPoints(curve)]
                        ELSE IF curve = Edwards THEN EdwardsPoints \X EdwardsPoints \X ThirdPoints
                        ELSE {}

-----------------------------------------------------------------------------
(* _deterministic_k(): what an HMAC gives and is in range; to_bytes()      *)
(* raises when the hash is longer than a scalar.                           *)
Nonces == IF hash' < Power[ByteLength(curve.n)]
          THEN (1 .. curve.n - 1) \cap (0 .. MaxCandidate) ELSE {}

(* ECDSAPrivateKey.sign()                                                  *)
EcdsaSign ==
    /\ stage = "made" /\ IsWeierstrass
    /\ hash' \in Hashes
    /\ \/ \E k \in Nonces :
             LET z == hash' % curve.n
                 point == PointMul(curve, k, curve.g)
                 r == point[1] % curve.n
                 s == (ModInv(k, curve.n) * (z + r * key)) % curve.n
             IN  IF point = None \/ r = 0 \/ s = 0 THEN stage' = "raised" /\ UNCHANGED sent
                 ELSE stage' = "signed" /\ sent' = EncodeSignature(r, s)
       \/ Nonces = {} /\ stage' = "raised" /\ UNCHANGED sent
    /\ UNCHANGED <<curve, key, public, received, answer, points>>

(* Fault: s is not reduced.                                                *)
EdResponse_Long(r, k) == r + k * key

EdResponse(r, k) == (r + k * key) % L

(* ed25519_sign()                                                          *)
EdSign ==
    /\ stage = "made" /\ curve = Edwards
    /\ hash' \in Challenges
    /\ \E r \in 0 .. L - 1 : sent' = <<Compress(EdwardsMul(B, r)), EdResponse(r, hash')>>
    /\ stage' = "signed"
    /\ UNCHANGED <<curve, key, public, received, answer, points>>

(* The signature arrives as it was sent, or damaged: one byte of another   *)
(* value, cut off, or longer.                                              *)
Damaged(sig) ==
    {[sig EXCEPT ![j] = (@ + d) % Base] : j \in DOMAIN sig, d \in {1, Base - 1}}
      \cup {SubSeq(sig, 1, length) : length \in 0 .. Len(sig) - 1}
      \cup {Append(sig, IntTag)}

Deliver ==
    /\ stage = "signed"
    /\ \/ received' = [hash |-> hash, sig |-> sent]
       \/ IsWeierstrass /\ \E sig \in Damaged(sent) : received' = [hash |-> hash, sig |-> sig]
    /\ stage' = "delivered"
    /\ UNCHANGED <<curve, key, public, hash, sent, answer, points>>

(* What somebody else made up, in numbers of any size that fits.           *)
Foreign ==
    /\ stage = "made"
    /\ \/ /\ IsWeierstrass
          /\ \E z \in Hashes, r, s \in 0 .. curve.n + 1 :
                received' = [hash |-> z, sig |-> EncodeSignature(r, s)]
       \/ /\ curve = Edwards
          /\ \E k \in Challenges, r \in 0 .. 2 ^ (PBits + 1) - 1, s \in {0, 1, L - 1, L, L + 1} :
                received' = [hash |-> k, sig |-> <<r, s>>]
    /\ stage' = "delivered"
    /\ UNCHANGED <<curve, key, public, hash, sent, answer, points>>

(* Fault: r is not compared with the order.                                *)
InRange_S(r, s) == s \in 1 .. curve.n - 1

InRange(r, s) == r \in 1 .. curve.n - 1 /\ s \in 1 .. curve.n - 1

(* ECDSAPublicKey.verify(); every exception is caught.                     *)
EcdsaAnswer(z, sig) ==
    LET rs == DecodeSignature(sig)
        w == ModInv(rs[2], curve.n)
        u1 == (z * w) % curve.n
        u2 == (rs[1] * w) % curve.n
        point == PointAdd(curve, PointMul(curve, u1, curve.g), PointMul(curve, u2, public))
    IN  /\ rs # <<>> /\ InRange(rs[1], rs[2])
        /\ point # None /\ point[1] % curve.n = rs[1]

(* ed25519_verify()                                                        *)
EdAnswer(k, sig) ==
    /\ sig[2] < L
    /\ EdwardsMul(B, sig[2])
         = EdwardsAdd(Decompress(sig[1]), EdwardsMul(Decompress(public), k))

Verify ==
    /\ stage = "delivered"
    /\ answer' = IF IsWeierstrass THEN EcdsaAnswer(received.hash % curve.n, received.sig)
                 ELSE EdAnswer(received.hash, received.sig)
    /\ stage' = "verified"
    /\ UNCHANGED <<curve, key, public, hash, sent, received, points>>

(* ecdh(), on both sides.  The other side's curve may be another one.      *)
Ecdh ==
    /\ stage = "made" /\ IsWeierstrass
    /\ \/ \E d \in PrivateKeys \cap 1 .. curve.n - 1 :
             LET other == PointMul(curve, d, curve.g)
                 Secret(k, q) == LET p == PointMul(curve, k, q)
                                 IN  IF p = None THEN None ELSE ToBytes(p[1], ByteLength(curve.p))
             IN  /\ answer' = <<Secret(key, other), Secret(d, public)>>
                 /\ stage' = "agreed"
       \/ Curves # {curve} /\ stage' = "raised" /\ UNCHANGED answer
    /\ UNCHANGED <<curve, key, public, hash, sent, received, points>>

(* x25519(), on both sides.                                                *)
X25519Agree ==
    /\ stage = "made" /\ curve = Montgomery
    /\ \E k \in PrivateKeys :
          answer' = <<X25519(key, X25519(k, UBase)), X25519(k, public)>>
    /\ stage' = "agreed"
    /\ UNCHANGED <<curve, key, public, hash, sent, received, points>>

(* A point, or any u, is multiplied.                                       *)
Multiply ==
    /\ stage = "made"
    /\ \/ /\ IsWeierstrass
          /\ \E k \in Scalars : points' = <<k>> /\ answer' = PointMul(curve, k, public)
       \/ /\ curve = Edwards
          /\ \E k \in Scalars : points' = <<k>> /\ answer' = EdwardsMul(Decompress(public), k)
       \/ /\ curve = Montgomery
          /\ \E u \in 0 .. 2 ^ (PBits + 1) - 1 : points' = <<u>> /\ answer' = X25519(key, u)
    /\ stage' = "multiplied"
    /\ UNCHANGED <<curve, key, public, hash, sent, received>>

Next ==
    \/ EcdsaSign \/ EdSign \/ Deliver \/ Foreign \/ Verify
    \/ Ecdh \/ X25519Agree \/ Multiply

Spec == Init /\ [][Next]_vars

-----------------------------------------------------------------------------
(* References: the sum of k times the same point, for a curve in           *)
(* Montgomery's form with the textbook's addition on it or its twist.      *)
SumOf(Add(_, _), neutral, k, p) ==
    LET sum[j \in Nat] == IF j = 0 THEN neutral ELSE IF j = 1 THEN p
                          ELSE Add(sum[j \div 2], sum[j - (j \div 2)])
    IN  sum[k]

Times(c, k, p) == SumOf(LAMBDA a, b : PointAdd(c, a, b), None, k, p)

EdwardsTimes(k, p) == SumOf(EdwardsAdd, Origin, k, p)

(* b * y^2 = x^3 + A * x^2 + x, with A = 4 * A24 + 2.                      *)
MontgomeryAdd(b, p, q) ==
    IF p = None THEN q ELSE IF q = None THEN p
    ELSE IF p[1] = q[1] /\ (p[2] + q[2]) % P = 0 THEN None
    ELSE LET a == 4 * A24 + 2
             s == IF p[1] = q[1]
                  THEN ((3 * p[1] * p[1] + 2 * a * p[1] + 1) * ModInv(2 * b * p[2], P)) % P
                  ELSE ((q[2] - p[2]) * ModInv(q[1] - p[1], P)) % P
             x == (b * ((s * s) % P) - a - p[1] - q[1]) % P
         IN  <<x, (s * (p[1] - x) - p[2]) % P>>

(* x of k times a point with x = u; 2 is not a square.                     *)
MontgomeryTimes(k, u) ==
    LET by == CHOOSE by \in {1, 2} \X (0 .. P - 1) :
                (by[1] * by[2] * by[2] - ((u * u + (4 * A24 + 2) * u + 1) % P) * u) % P = 0
        p == SumOf(LAMBDA a, b : MontgomeryAdd(by[1], a, b), None, k, <<u, by[2]>>)
    IN  IF p = None THEN 0 ELSE p[1]

(* _point_add(), _point_double() and _edwards_add() are the addition of a  *)
(* commutative group, whatever the points: equal, opposite or neutral.     *)
GroupLaw ==
    stage = "points" =>
        LET p == points[1]  q == points[2]  r == points[3]
            Add(a, b) == IF IsWeierstrass THEN PointAdd(curve, a, b) ELSE EdwardsAdd(a, b)
            pq == Add(p, q)
        IN  /\ IF IsWeierstrass THEN OnCurve(curve, pq) ELSE OnEdwards(pq)
            /\ pq = Add(q, p)
            /\ Add(pq, r) = Add(p, Add(q, r))

(* _point_mul(), _edwards_scalarmult() and _x25519_scalarmult(): double-   *)
(* and-add from either end and the ladder with its swaps give the multiple *)
(* that the sum gives, also for factors above the order, and for u that    *)
(* lies on the twist, is not reduced, or of low order.  So the two sides   *)
(* of ecdh() and of x25519() have the same secret, and have one.  All bits *)
(* of u count, as in the code: also the topmost of its last byte, which    *)
(* RFC 7748 (section 5) would mask.                                        *)
LoopsMultiply ==
    /\ stage = "multiplied" =>
          answer = IF IsWeierstrass THEN Times(curve, points[1], public)
                   ELSE IF curve = Edwards THEN EdwardsTimes(points[1], Decompress(public))
                   ELSE MontgomeryTimes(Clamped(key), points[1] % P)
    /\ stage = "agreed" => answer[1] = answer[2] /\ (IsWeierstrass => answer[1] # None)

(* What sign() makes and nobody damages, verify() accepts, through DER and *)
(* point compression.                                                      *)
SignaturesVerify ==
    stage = "verified" /\ received = [hash |-> hash, sig |-> sent] => answer

(* verify() and ed25519_verify() accept what the signer makes, and nothing *)
(* but the solutions of the equation of the scheme, with s below the       *)
(* order: found here by looking at every point of the curve.  R must be on *)
(* the curve, although _point_decompress() does not check it.  Nor does it *)
(* check that y is less than P, or the sign of x = 0; and                  *)
(* _decode_signature() reads no length of the sequence, takes numbers that *)
(* are cut short or begin with zeros, and leaves what follows alone.       *)
(* Encodings that a strict reader would refuse are accepted, as the        *)
(* formula says, if they solve it.                                         *)
AcceptsExactly ==
    /\ SignaturesVerify
    /\ stage = "verified" =>
           LET sig == received.sig
               rs == DecodeSignature(sig)
           IN  IF IsWeierstrass
               THEN answer <=>
                   /\ rs # <<>> /\ rs[1] < curve.n /\ rs[2] \in 1 .. curve.n - 1
                   /\ \E p \in WeierstrassPoints(curve) \ {None} :
                         /\ p[1] % curve.n = rs[1] /\ rs[1] # 0
                         /\ Times(curve, rs[2], p)
                              = PointAdd(curve, Times(curve, received.hash % curve.n, curve.g),
                                                Times(curve, rs[1], public))
               ELSE answer <=>
                   /\ sig[2] < L
                   /\ \E p \in EdwardsPoints :
                         /\ p[2] = (sig[1] % 2 ^ PBits) % P
                         /\ p[1] = 0 \/ p[1] % 2 = sig[1] \div 2 ^ PBits
                         /\ EdwardsTimes(sig[2], B)
                              = EdwardsAdd(p, EdwardsTimes(received.hash, EdwardsTimes(key, B)))
=============================================================================
