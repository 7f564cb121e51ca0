------------------------------ MODULE MCModes ------------------------------
(***************************************************************************)
(* SymmetricCalls for TLC: bytes of two bits and blocks of two bytes, so   *)
(* that each half of a block is one byte and counts to 3; AES has its      *)
(* sixteen bytes, its key sizes and rounds, over the field of 4 elements,  *)
(* and the words of TEA and RED PIKE are of four bits.                     *)
(***************************************************************************)
EXTENDS SymmetricCalls, MCBytes

SmallBlock == [1 .. 2 -> 0 .. 3]

(* Some permutation that is not linear.                                    *)
Table == <<11, 4, 14, 7, 1, 8, 13, 2, 5, 15, 0, 10, 6, 12, 3, 9>>
Permuted == [b \in SmallBlock |->
    LET v == Table[4 * b[1] + b[2] + 1] IN <<v \div 4, v % 4>>]

(* Multiplication by x in the field of 16 elements, with x^4 = x + 1.      *)
TimesX == [b \in SmallBlock |->
    LET v == 2 * (4 * b[1] + b[2])
        w == IF v < 16 THEN v
             ELSE LET u == v - 16 IN IF u % 4 = 0 THEN u + 3 ELSE u - 1
    IN  <<w \div 4, w % 4>>]

SmallStream == [input \in {<<<<3>>>>, <<<<1>>>>} \X (0 .. 3) |->
    Permuted[<<input[1][1][1], input[2]>>]]

Bytes(S) == {<<a>> : a \in S}
Pairs(S) == {<<a, b>> : a \in S, b \in S}

(* Up to two and a half blocks, of a few values of a byte.                 *)
SmallMessages ==
    {<<>>}
    \cup {<<p>> : p \in Bytes({0, 2}) \cup Pairs({0, 1, 2})}
    \cup {<<p, q>> : p \in Pairs({1, 2}), q \in Bytes({1}) \cup Pairs({1, 2})}
    \cup {<<<<1, 2>>, p, q>> : p \in Pairs({0, 1}), q \in Bytes({3}) \cup Pairs({1})}

SmallAads == {<<>>, <<<<0>>>>, <<<<0, 0>>>>, <<<<1, 2>>, <<3>>>>}

SmallIvs == [m \in Modes |->
    CASE m = "cbc"    -> {<<0, 1>>, <<3, 2>>}
      [] m = "ctr"    -> {<<0, 1>>, <<3, 2>>}
      [] m = "ige"    -> {<<<<0, 1>>, <<3, 2>>>>, <<<<2, 2>>, <<2, 2>>>>}
      [] m = "gcm"    -> {<<<<0>>>>, <<<<2>>>>, <<<<1, 3>>>>, <<<<1, 3>>, <<2>>>>}
      [] m = "chacha" -> {<<<<3>>>>, <<<<1>>>>}]

SmallSBox == [b \in 0 .. 3 |-> <<2, 0, 3, 1>>[b + 1]]

(* Keys of every size, and of none that is allowed.                        *)
SmallKeys == [c \in Cipher |->
    CASE c = "aes"     -> {[j \in 1 .. nk |-> [r \in 1 .. 4 |-> (a * j + r) % 4]] :
                              nk \in {3, 4, 6, 8}, a \in {0, 1}}
      [] c = "tea"     -> {<<1, 2, 3, 4>>, <<0, 15, 9, 6>>, <<1, 2>>}
      [] c = "redpike" -> {<<5, 12>>, <<0, 7>>, <<3>>}]

SmallCipherBlocks == [c \in Cipher |->
    IF c = "aes" THEN {[rc \in Cells |-> 0], [rc \in Cells |-> (rc[1] * rc[2] + rc[1]) % 4]}
    ELSE (0 .. 15) \X (0 .. 15)]
=============================================================================
