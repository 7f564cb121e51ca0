------------------------------ MODULE MCBytes ------------------------------
(***************************************************************************)
(* Bytes of two and of four bits for TLC.                                  *)
(***************************************************************************)
EXTENDS Integers

BitOf(b, k) == (b \div k) % 2

SmallXor == [ab \in (0 .. 3) \X (0 .. 3) |->
    LET At(k) == k * ((BitOf(ab[1], k) + BitOf(ab[2], k)) % 2) IN At(1) + At(2)]

HalfByteXor == [ab \in (0 .. 15) \X (0 .. 15) |->
    LET At(k) == k * ((BitOf(ab[1], k) + BitOf(ab[2], k)) % 2)
    IN  At(1) + At(2) + At(4) + At(8)]
=============================================================================
