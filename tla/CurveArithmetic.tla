-------------------------- MODULE CurveArithmetic --------------------------
(***************************************************************************)
(* The arithmetic of the elliptic curves: P-256 and P-384                  *)
(* (asymmetric/nist_curves.py), Ed25519 (asymmetric/ed25519.py) and the    *)
(* ladder of X25519 (asymmetric/x25519.py), over any fields, and the       *)
(* encodings of points and signatures.                                     *)
(***************************************************************************)
EXTENDS ByteStrings

CONSTANTS
    Curves,         \* [p, a, b, g, n] of _Curve
    P, D, L, B,     \* _P, _D, _L and _B of Ed25519; P of X25519, too
    PBits,          \* length of P in bits (255)
    A24,            \* of X25519
    SeqTag, IntTag  \* 0x30 and 0x02

ASSUME CurveAssumption ==
    /\ \A c \in Curves : {c.p, c.n} \subseteq Nat \ {0, 1} /\ {c.a, c.b} \subseteq 0 .. c.p - 1
    /\ {P, L} \subseteq Nat \ {0, 1} /\ P % 8 = 5 /\ D \in 0 .. P - 1
    /\ PBits \in Nat /\ P < 2 ^ PBits /\ L <= P
    /\ B \in (0 .. P - 1) \X (0 .. P - 1)
    /\ A24 \in Nat
    /\ SeqTag \in Byte /\ IntTag \in Byte

Bit(k, j) == (k \div 2 ^ j) % 2

(* k.bit_length()                                                          *)
BitLength(k) == CHOOSE j \in 0 .. k : k < 2 ^ j /\ (j = 0 \/ k >= 2 ^ (j - 1))

PowMod(a, e, m) == FoldLeft(LAMBDA x, j : (x * a) % m, 1 % m, [j \in 1 .. e |-> j])

(* _modinv(), _modp_inv(): by Fermat; 0 has the inverse 0.                 *)
Inverses == [m \in {P} \cup UNION {{c.p, c.n} : c \in Curves} |->
                [a \in 0 .. m - 1 |-> PowMod(a, m - 2, m)]]

ModInv(a, m) == Inverses[m][a % m]

-----------------------------------------------------------------------------
(* Points of a Weierstrass curve; None is infinity.                        *)
None == <<>>

PointDouble(c, p) ==
    IF p[2] = 0 THEN None
    ELSE LET s == ((3 * p[1] * p[1] + c.a) * ModInv(2 * p[2], c.p)) % c.p
             x == (s * s - 2 * p[1]) % c.p
         IN  <<x, (s * (p[1] - x) - p[2]) % c.p>>

(* Fault: a point is never doubled.                                        *)
PointAdd_NoDouble(c, p, q) ==
    IF p = None THEN q ELSE IF q = None THEN p
    ELSE IF p[1] = q[1] THEN None
    ELSE LET s == ((q[2] - p[2]) * ModInv(q[1] - p[1], c.p)) % c.p
             x == (s * s - p[1] - q[1]) % c.p
         IN  <<x, (s * (p[1] - x) - p[2]) % c.p>>

PointAdd(c, p, q) ==
    IF p = None THEN q ELSE IF q = None THEN p
    ELSE IF p[1] = q[1]
         THEN IF p[2] = q[2] THEN PointDouble(c, p) ELSE None
    ELSE LET s == ((q[2] - p[2]) * ModInv(q[1] - p[1], c.p)) % c.p
             x == (s * s - p[1] - q[1]) % c.p
         IN  <<x, (s * (p[1] - x) - p[2]) % c.p>>

(* Double-and-add, from the lowest bit.                                    *)
PointMul(c, k, p) ==
    FoldLeft(LAMBDA acc, j :
                [result |-> IF Bit(k, j - 1) = 1
                            THEN PointAdd(c, acc.result, acc.addend) ELSE acc.result,
                 addend |-> IF acc.addend = None THEN None ELSE PointDouble(c, acc.addend)],
             [result |-> None, addend |-> p],
             [j \in 1 .. BitLength(k) |-> j]).result

-----------------------------------------------------------------------------
(* x of a point with the given y; no error when there is none.             *)
XRecover(y) ==
    LET xx == ((y * y - 1) * ModInv(D * y * y + 1, P)) % P
        root == PowMod(xx, (P + 3) \div 8, P)
        x == IF (root * root - xx) % P = 0 THEN root
             ELSE (root * PowMod(2, (P - 1) \div 4, P)) % P
    IN  IF x % 2 = 1 THEN P - x ELSE x

EdwardsAdd(p, q) ==
    LET t == (D * ((p[1] * q[1] * p[2]) % P) * q[2]) % P
    IN  <<((p[1] * q[2] + q[1] * p[2]) * ModInv(1 + t, P)) % P,
          ((p[2] * q[2] + p[1] * q[1]) * ModInv(1 - t, P)) % P>>

Origin == <<0, 1>>

(* From the highest of 256 bits, which are those of P and one more.        *)
EdwardsMul(p, e) ==
    FoldRight(LAMBDA j, q : LET qq == EdwardsAdd(q, q)
                            IN  IF Bit(e, j - 1) = 1 THEN EdwardsAdd(qq, p) ELSE qq,
              [j \in 1 .. PBits + 1 |-> j], Origin)

(* Points are encoded as numbers of PBits + 1 bits.                        *)
Compress(p) == p[2] + (p[1] % 2) * 2 ^ PBits

Decompress(s) ==
    LET y == s % 2 ^ PBits
        x == XRecover(y)
    IN  <<IF x % 2 = s \div 2 ^ PBits THEN x ELSE P - x, y>>

-----------------------------------------------------------------------------
(* The bits that a private key keeps; the highest is set.                  *)
Clamped(k) == (k % 2 ^ (PBits - 1)) - (k % 8) + 2 ^ (PBits - 1)

CSwap(swap, r) == IF swap = 1 THEN [x2 |-> r.x3, z2 |-> r.z3, x3 |-> r.x2, z3 |-> r.z2] ELSE r

(* Fault: what was swapped before stays swapped.                           *)
Swap_Bit(last, bit) == bit

(* swap ^= k_t                                                             *)
Swap(last, bit) == (last + bit) % 2

LadderStep(x1, r) ==
    LET a == r.x2 + r.z2    aa == (a * a) % P
        b == r.x2 - r.z2    bb == (b * b) % P
        e == (aa - bb) % P
        da == ((r.x3 - r.z3) * a) % P
        cb == ((r.x3 + r.z3) * b) % P
        diff == (da - cb) % P
    IN  [x3 |-> ((da + cb) * (da + cb)) % P,
         z3 |-> (x1 * ((diff * diff) % P)) % P,
         x2 |-> (aa * bb) % P,
         z2 |-> (e * ((aa + A24 * e) % P)) % P]

(* _x25519_scalarmult(): k is a private key, u any number of 256 bits.     *)
X25519(k, u) ==
    LET scalar == Clamped(k)
        x1 == u % P
        last == FoldRight(LAMBDA j, acc :
                    LET bit == Bit(scalar, j - 1)
                    IN  [swap |-> bit, r |-> LadderStep(x1, CSwap(Swap(acc.swap, bit), acc.r))],
                    [j \in 1 .. PBits |-> j],
                    [swap |-> 0, r |-> [x2 |-> 1, z2 |-> 0, x3 |-> x1, z3 |-> 1]])
        end == CSwap(last.swap, last.r)
    IN  (end.x2 * ModInv(end.z2, P)) % P

-----------------------------------------------------------------------------
(* The bytes that a number up to k takes.                                  *)
ByteLength(k) == CHOOSE j \in 0 .. k : k < Power[j] /\ (j = 0 \/ k >= Power[j - 1])

(* A number in DER, which is signed.                                       *)
EncodeInt(x) ==
    LET b == IF x = 0 THEN <<0>> ELSE ToBytes(x, ByteLength(x))
        signed == IF b[1] >= Base \div 2 THEN <<0>> \o b ELSE b
    IN  <<IntTag, Len(signed)>> \o signed

EncodeSignature(r, s) ==
    LET seq == EncodeInt(r) \o EncodeInt(s)
    IN  <<SeqTag, Len(seq)>> \o seq

(* r and s; <<>> when an index or a tag is wrong, and it raises.  The      *)
(* length of the sequence is not read, a number may be cut short, and what *)
(* follows s is left alone.                                                *)
DecodeSignature(sig) ==
    LET rEnd == 4 + sig[4]
        sEnd == rEnd + 2 + sig[rEnd + 2]
    IN  IF /\ Len(sig) >= 4 /\ sig[1] = SeqTag /\ sig[3] = IntTag
           /\ Len(sig) >= rEnd + 2 /\ sig[rEnd + 1] = IntTag
        THEN <<ToNumber(SubSeq(sig, 5, rEnd)),
               ToNumber(SubSeq(sig, rEnd + 3, Least(sEnd, Len(sig))))>>
        ELSE <<>>
=============================================================================
