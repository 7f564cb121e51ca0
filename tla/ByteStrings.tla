---------------------------- MODULE ByteStrings ----------------------------
(***************************************************************************)
(* Byte strings as sequences of numbers, and what the ciphers and RSA do   *)
(* with them: int.to_bytes, int.from_bytes and the xor of two strings.     *)
(***************************************************************************)
EXTENDS Integers, SequencesExt

CONSTANTS
    Base,           \* number of values of a byte (256)
    XorByte         \* ^ on bytes

Byte == 0 .. Base - 1

ASSUME BytesAssumption ==
    /\ Base \in Nat \ {0, 1}
    /\ XorByte \in [Byte \X Byte -> Byte]
    /\ \A a, b \in Byte : XorByte[XorByte[a, b], b] = a /\ XorByte[a, b] = XorByte[b, a]

Zeros(length) == [j \in 1 .. length |-> 0]

Least(a, b) == IF a < b THEN a ELSE b

(* zip() stops at the end of the shorter string.                           *)
Xor(a, b) == [j \in 1 .. Least(Len(a), Len(b)) |-> XorByte[<<a[j], b[j]>>]]

(* Base^n, the number of strings of n bytes.                               *)
Power[n \in Nat] == IF n = 0 THEN 1 ELSE Base * Power[n - 1]

(* k.to_bytes(length, "big"); what does not fit is cut off at the left.    *)
ToBytes(k, length) == [j \in 1 .. length |-> (k \div Power[length - j]) % Base]

(* int.from_bytes(s, "big")                                                *)
ToNumber(s) ==
    LET value[n \in 0 .. Len(s)] == IF n = 0 THEN 0 ELSE Base * value[n - 1] + s[n]
    IN  value[Len(s)]
=============================================================================
