------------------------ MODULE SymmetricCalls_proofs ------------------------
(***************************************************************************)
(* Proofs that the modes of operation decrypt what they encrypted, and how *)
(* far a changed piece reaches in those without a tag, for any block       *)
(* cipher, key stream, block length and message; and that decryption       *)
(* undoes encryption round by round, for AES under each key size, TEA and  *)
(* RED PIKE with any number of rounds, whatever the width of bytes and     *)
(* words, the S-box and the keys.                                          *)
(***************************************************************************)
EXTENDS SymmetricCalls, Recursion_proofs, TLAPS

-----------------------------------------------------------------------------
(* Numbers.                                                                *)
LEMMA Numbers ==
    /\ Base \in Nat /\ Base > 1 /\ 0 \in Byte /\ Byte \subseteq Nat
    /\ BlockLen \in Nat /\ BlockLen > 0 /\ BlockLen < Base
    /\ NonceLen \in Nat /\ NonceLen > 0 /\ NonceLen < BlockLen
    /\ CounterMod \in Nat /\ CounterMod > 0
    /\ Half \in Nat /\ Half <= BlockLen
<1>1. Base \in Nat \ {0, 1} BY BytesAssumption
<1>2. /\ BlockLen \in Nat \ {0} /\ BlockLen < Base
      /\ NonceLen \in 1 .. BlockLen - 1 /\ CounterMod \in Nat \ {0}
  BY ModesAssumption
<1> QED BY <1>1, <1>2 DEF Byte, Half

(* Remainders of whole blocks, and of blocks and some bytes.               *)
LEMMA Divided ==
    ASSUME NEW b \in Nat, b > 0, NEW m \in Nat, NEW l \in 0 .. b - 1
    PROVE  (b * m + l) % b = l /\ (b * m + b) % b = 0 /\ (b * m) % b = 0
  OBVIOUS

-----------------------------------------------------------------------------
(* Strings: a string is known by its length and its bytes.                 *)
LEMMA BlockString ==
    ASSUME NEW b \in Block
    PROVE  b \in Seq(Byte) /\ Len(b) = BlockLen /\ b \in Piece
<1>1. BlockLen \in Nat /\ BlockLen > 0 BY Numbers
<1>2. b \in [1 .. BlockLen -> Byte] BY DEF Block
<1>3. b \in Seq(Byte) /\ Len(b) = BlockLen BY <1>1, <1>2, StringLength
<1>4. b \in Piece BY <1>1, <1>2 DEF Piece
<1> QED BY <1>3, <1>4

LEMMA PieceString ==
    ASSUME NEW p \in Piece
    PROVE  /\ p \in Seq(Byte) /\ Len(p) \in 1 .. BlockLen
           /\ p \in [1 .. Len(p) -> Byte]
           /\ Len(p) = BlockLen => p \in Block
<1>0. BlockLen \in Nat BY Numbers
<1>1. PICK k \in 1 .. BlockLen : p \in [1 .. k -> Byte] BY DEF Piece
<1>2. p \in Seq(Byte) /\ Len(p) = k BY <1>0, <1>1, StringLength
<1> QED BY <1>1, <1>2 DEF Block

(* The powers of the base are what they are defined to be.                 *)
LEMMA PowerDefined ==
    Powers(Base, Power) /\ \A n \in Nat : Power[n] \in Nat /\ Power[n] > 0
<1>1. Base \in Nat /\ Base > 1 BY Numbers
<1>2. \E P : Powers(Base, P) /\ P = [n \in Nat |-> IF n = 0 THEN 1 ELSE Base * P[n - 1]]
  BY <1>1, PowersExist
<1>3. Power = CHOOSE P : P = [n \in Nat |-> IF n = 0 THEN 1 ELSE Base * P[n - 1]]
  BY DEF Power
<1>4. Power = [n \in Nat |-> IF n = 0 THEN 1 ELSE Base * Power[n - 1]]
  BY <1>2, <1>3
<1>5. Powers(Base, Power) BY ONLY <1>1, <1>4, PowersKnown
<1> QED BY <1>1, <1>5, PowersPositive

LEMMA ToBytesType ==
    ASSUME NEW k \in Nat, NEW n \in Nat
    PROVE  /\ ToBytes(k, n) \in [1 .. n -> Byte]
           /\ ToBytes(k, n) \in Seq(Byte) /\ Len(ToBytes(k, n)) = n
<1>1. Base \in Nat /\ Base > 1 BY Numbers
<1>2. \A j \in 1 .. n : (k \div Power[n - j]) % Base \in Byte
  <2> TAKE j \in 1 .. n
  <2>1. n - j \in Nat BY <1>1
  <2>2. Power[n - j] \in Nat /\ Power[n - j] > 0 BY <2>1, PowerDefined
  <2> DEFINE p == Power[n - j]
  <2>3. p \in Nat /\ p > 0 BY <2>2
  <2> HIDE DEF p
  <2>4. k \div p \in Int BY <2>3
  <2>5. (k \div p) % Base \in 0 .. Base - 1 BY <1>1, <2>4
  <2> QED BY <2>5 DEF p, Byte
<1>3. ToBytes(k, n) \in [1 .. n -> Byte] BY <1>2 DEF ToBytes
<1> QED BY <1>3, StringLength

(* Two strings of which the lengths add up to that of a block.             *)
LEMMA Joined ==
    ASSUME NEW s \in Seq(Byte), NEW t \in Seq(Byte), Len(s) + Len(t) = BlockLen
    PROVE  s \o t \in Block
<1>1. s \o t \in Seq(Byte) /\ Len(s \o t) = BlockLen BY ConcatProperties
<1> QED BY <1>1, LenProperties DEF Block

-----------------------------------------------------------------------------
LEMMA XorByteUndone ==
    ASSUME NEW a \in Byte, NEW b \in Byte
    PROVE  XorByte[a, b] \in Byte /\ XorByte[XorByte[a, b], b] = a
  BY BytesAssumption

LEMMA ShorterFirst ==
    ASSUME NEW m \in Nat, NEW n \in Nat, m <= n
    PROVE  Least(m, n) = m
  BY DEF Least

(* The xor of a string with a block has the length of the string, and      *)
(* taken twice it gives the string.                                        *)
LEMMA XorUndone ==
    ASSUME NEW s \in Piece, NEW b \in Block
    PROVE  /\ Xor(s, b) \in Piece /\ Len(Xor(s, b)) = Len(s)
           /\ Xor(Xor(s, b), b) = s
<1>0. BlockLen \in Nat /\ BlockLen > 0 BY Numbers
<1>1. /\ s \in Seq(Byte) /\ Len(s) \in 1 .. BlockLen
      /\ s \in [1 .. Len(s) -> Byte]
  BY PieceString
<1>2. b \in [1 .. BlockLen -> Byte] /\ Len(b) = BlockLen BY BlockString DEF Block
<1>3. Least(Len(s), Len(b)) = Len(s) BY <1>0, <1>1, <1>2, ShorterFirst
<1>4. Xor(s, b) = [j \in 1 .. Len(s) |-> XorByte[<<s[j], b[j]>>]] BY <1>3 DEF Xor
<1>5. \A j \in 1 .. Len(s) :
          /\ XorByte[<<s[j], b[j]>>] \in Byte
          /\ XorByte[<<XorByte[<<s[j], b[j]>>], b[j]>>] = s[j]
  <2> TAKE j \in 1 .. Len(s)
  <2>1. s[j] \in Byte /\ b[j] \in Byte BY <1>0, <1>1, <1>2
  <2> QED BY <2>1, XorByteUndone
<1>6. Xor(s, b) \in [1 .. Len(s) -> Byte] BY <1>4, <1>5
<1>7. Len(Xor(s, b)) = Len(s) BY <1>1, <1>6, StringLength
<1>8. Xor(s, b) \in Piece BY <1>1, <1>6 DEF Piece
<1>9. Xor(Xor(s, b), b) = [j \in 1 .. Len(s) |-> XorByte[<<Xor(s, b)[j], b[j]>>]]
  BY <1>3, <1>7 DEF Xor
<1>10. \A j \in 1 .. Len(s) : XorByte[<<Xor(s, b)[j], b[j]>>] = s[j] BY <1>4, <1>5
<1>11. Xor(Xor(s, b), b) = [j \in 1 .. Len(s) |-> s[j]] BY <1>9, <1>10
<1>12. [j \in 1 .. Len(s) |-> s[j]] = s BY <1>1
<1> QED BY <1>7, <1>8, <1>11, <1>12

LEMMA XorBlocks ==
    ASSUME NEW a \in Block, NEW b \in Block
    PROVE  Xor(a, b) \in Block /\ Xor(Xor(a, b), b) = a
<1>1. a \in Piece /\ Len(a) = BlockLen BY BlockString
<1>2. Xor(a, b) \in Piece /\ Len(Xor(a, b)) = BlockLen /\ Xor(Xor(a, b), b) = a
  BY <1>1, XorUndone
<1> QED BY <1>2, PieceString

(* decrypt_block() is the inverse of encrypt_block().                      *)
LEMMA BlockUndone ==
    ASSUME NEW b \in Block
    PROVE  EncryptBlock[b] \in Block /\ DecryptBlock[EncryptBlock[b]] = b
<1>1. EncryptBlock \in [Block -> Block] BY ModesAssumption
<1>2. EncryptBlock[b] \in Block BY <1>1
<1>3. \A a \in Block : EncryptBlock[a] = EncryptBlock[b] => a = b BY ModesAssumption
<1>4. DecryptBlock[EncryptBlock[b]] = CHOOSE a \in Block : EncryptBlock[a] = EncryptBlock[b]
  BY <1>2 DEF DecryptBlock
<1>5. (CHOOSE a \in Block : EncryptBlock[a] = EncryptBlock[b]) = b BY <1>3
<1> QED BY <1>2, <1>4, <1>5

-----------------------------------------------------------------------------
(* Data: only the last piece may be shorter than a block.                  *)
LEMMA DataPieces ==
    ASSUME NEW s, IsData(s)
    PROVE  /\ s \in Seq(Piece) /\ Len(s) \in Nat
           /\ \A j \in 1 .. Len(s) : s[j] \in Piece /\ Len(s[j]) \in 1 .. BlockLen
           /\ \A j \in 1 .. Len(s) - 1 : Len(s[j]) = BlockLen /\ s[j] \in Block
<1>1. s \in Seq(Piece) BY DEF IsData
<1>2. Len(s) \in Nat BY <1>1, LenProperties
<1>3. \A j \in 1 .. Len(s) : s[j] \in Piece BY <1>1, ElementOfSeq
<1>4. \A j \in 1 .. Len(s) : Len(s[j]) \in 1 .. BlockLen BY <1>3, PieceString
<1>5. \A j \in 1 .. Len(s) - 1 : Len(s[j]) = BlockLen BY DEF IsData
<1>6. \A j \in 1 .. Len(s) - 1 : s[j] \in Block BY <1>2, <1>3, <1>5, PieceString
<1> QED BY <1>1, <1>2, <1>3, <1>4, <1>5, <1>6

(* The size modulo the block length is that of the last piece.             *)
LEMMA SizeOfData ==
    ASSUME NEW s, IsData(s), Len(s) > 0
    PROVE  /\ Last(s) \in Piece /\ Last(s) = s[Len(s)] /\ Len(Last(s)) \in 1 .. BlockLen
           /\ Size(s) % BlockLen = IF Len(Last(s)) = BlockLen THEN 0 ELSE Len(Last(s))
<1>0. BlockLen \in Nat /\ BlockLen > 0 BY Numbers
<1>1. /\ s \in Seq(Piece) /\ Len(s) \in Nat
      /\ s[Len(s)] \in Piece /\ Len(s[Len(s)]) \in 1 .. BlockLen
  <2>1. /\ s \in Seq(Piece) /\ Len(s) \in Nat
        /\ \A j \in 1 .. Len(s) : s[j] \in Piece /\ Len(s[j]) \in 1 .. BlockLen
    BY DataPieces
  <2> QED BY <2>1
<1>2. s # <<>> BY <1>1, EmptySeq
<1>3. Last(s) = s[Len(s)] BY DEF Last
<1>4. Size(s) = BlockLen * (Len(s) - 1) + Len(Last(s)) BY <1>2 DEF Size
<1>5. PICK m \in Nat : m = Len(s) - 1 BY <1>1
<1>6. PICK l \in 1 .. BlockLen : l = Len(Last(s)) BY <1>1, <1>3
<1>7. (BlockLen * m + l) % BlockLen = IF l = BlockLen THEN 0 ELSE l
  <2>1. CASE l = BlockLen BY ONLY <1>0, <2>1, Divided, m \in Nat
  <2>2. CASE l # BlockLen
    <3>1. l \in 0 .. BlockLen - 1 BY <2>2, <1>0, <1>6
    <3>2. (BlockLen * m + l) % BlockLen = l BY ONLY <1>0, <3>1, Divided, m \in Nat
    <3> QED BY <2>2, <3>2
  <2> QED BY <2>1, <2>2
<1>8. Size(s) % BlockLen = (BlockLen * m + l) % BlockLen BY <1>4, <1>5, <1>6
<1> QED BY <1>1, <1>3, <1>6, <1>7, <1>8

LEMMA NoData ==
    ASSUME NEW s, s = <<>>
    PROVE  Size(s) = 0 /\ Size(s) % BlockLen = 0 /\ Len(s) = 0
<1>1. BlockLen \in Nat /\ BlockLen > 0 BY Numbers
<1>2. Size(s) = 0 BY DEF Size
<1>3. 0 % BlockLen = 0 BY <1>1
<1> QED BY <1>2, <1>3

(* Data of whole blocks.                                                   *)
LEMMA WholeBlocks ==
    ASSUME NEW s, IsData(s)
    PROVE  Size(s) % BlockLen = 0 <=> \A j \in 1 .. Len(s) : s[j] \in Block
<1>0. BlockLen \in Nat /\ BlockLen > 0 BY Numbers
<1>1. Len(s) \in Nat /\ \A j \in 1 .. Len(s) - 1 : s[j] \in Block BY DataPieces
<1>2. CASE Len(s) = 0
  <2>1. s = <<>> BY <1>2, EmptySeq DEF IsData
  <2> QED BY <1>2, <2>1, NoData
<1>3. CASE Len(s) > 0
  <2>1. /\ Last(s) \in Piece /\ Last(s) = s[Len(s)] /\ Len(Last(s)) \in 1 .. BlockLen
        /\ Size(s) % BlockLen = IF Len(Last(s)) = BlockLen THEN 0 ELSE Len(Last(s))
    BY <1>3, SizeOfData
  <2>2. Size(s) % BlockLen = 0 <=> Len(s[Len(s)]) = BlockLen BY <1>0, <2>1
  <2>3. Len(s[Len(s)]) = BlockLen <=> s[Len(s)] \in Block
    BY <2>1, PieceString, BlockString
  <2>4. (\A j \in 1 .. Len(s) : s[j] \in Block) <=> s[Len(s)] \in Block BY <1>1, <1>3
  <2> QED BY <2>2, <2>3, <2>4
<1> QED BY <1>1, <1>2, <1>3

-----------------------------------------------------------------------------
(* Front and last element of a sequence.                                   *)
LEMMA FrontOfAppend ==
    ASSUME NEW S, NEW s \in Seq(S), NEW e \in S
    PROVE  Front(Append(s, e)) = s /\ Last(Append(s, e)) = e
<1>1. /\ Append(s, e) \in Seq(S) /\ Len(Append(s, e)) = Len(s) + 1
      /\ \A j \in 1 .. Len(s) : Append(s, e)[j] = s[j]
      /\ Append(s, e)[Len(s) + 1] = e
  BY AppendProperties
<1>2. Len(s) \in Nat BY LenProperties
<1>3. \A j \in 1 .. Len(s) : Append(s, e)[j] \in S BY <1>1, <1>2, ElementOfSeq
<1>4. /\ SubSeq(Append(s, e), 1, Len(s)) \in Seq(S)
      /\ Len(SubSeq(Append(s, e), 1, Len(s))) = IF 1 <= Len(s) THEN Len(s) - 1 + 1 ELSE 0
      /\ \A j \in 1 .. Len(s) - 1 + 1 :
            SubSeq(Append(s, e), 1, Len(s))[j] = Append(s, e)[1 + j - 1]
  BY <1>2, <1>3, SubSeqProperties
<1>5. SubSeq(Append(s, e), 1, Len(s)) = s
  <2> DEFINE t == SubSeq(Append(s, e), 1, Len(s))
  <2>1. t \in Seq(S) BY <1>4
  <2>2. Len(t) = Len(s) BY <1>2, <1>4
  <2>3. \A j \in 1 .. Len(t) : t[j] = s[j] BY <1>1, <1>2, <1>4, <2>2
  <2> HIDE DEF t
  <2>4. t = s BY <2>1, <2>2, <2>3, SeqEqual
  <2> QED BY <2>4 DEF t
<1>6. Front(Append(s, e)) = SubSeq(Append(s, e), 1, Len(s)) BY <1>1, <1>2 DEF Front
<1> QED BY <1>1, <1>5, <1>6 DEF Last

LEMMA FrontAndLast ==
    ASSUME NEW S, NEW s \in Seq(S), Len(s) > 0
    PROVE  /\ Front(s) \in Seq(S) /\ Len(Front(s)) = Len(s) - 1
           /\ \A j \in 1 .. Len(s) - 1 : Front(s)[j] = s[j]
           /\ Append(Front(s), Last(s)) = s
<1>1. s # <<>> BY EmptySeq
<1>2. PICK t \in Seq(S), e \in S : s = Append(t, e) BY <1>1, SequenceEmptyOrAppend
<1>3. Front(s) = t /\ Last(s) = e BY <1>2, FrontOfAppend
<1>4. Len(s) = Len(t) + 1 /\ (\A j \in 1 .. Len(t) : s[j] = t[j]) /\ Len(t) \in Nat
  BY <1>2, AppendProperties, LenProperties
<1> QED BY <1>2, <1>3, <1>4

-----------------------------------------------------------------------------
(* _pad_pkcs7() makes whole blocks, one at least, and _unpad_pkcs7() takes *)
(* away what it added: a block of padding behind a text of whole blocks.   *)
LEMMA PadWhole ==
    ASSUME NEW s, IsData(s), Size(s) % BlockLen = 0
    PROVE  /\ Pad(s) \in Seq(Block) /\ Len(Pad(s)) = Len(s) + 1
           /\ GoodPadding(Pad(s)) /\ Unpad(Pad(s)) = s
<1>0. BlockLen \in Nat /\ BlockLen > 0 /\ BlockLen \in Byte BY Numbers DEF Byte
<1> DEFINE padding == [j \in 1 .. BlockLen |-> BlockLen]
<1>1. BlockLen - (Size(s) % BlockLen) = BlockLen BY <1>0
<1>2. padding \in Block BY <1>0 DEF Block
<1>3. Pad(s) = Append(s, padding) BY <1>1 DEF Pad
<1>4. s \in Seq(Block)
  <2>1. \A j \in 1 .. Len(s) : s[j] \in Block BY WholeBlocks
  <2>2. s \in [1 .. Len(s) -> Piece] /\ Len(s) \in Nat BY LenProperties DEF IsData
  <2>3. s \in [1 .. Len(s) -> Block] BY <2>1, <2>2
  <2> QED BY <2>2, <2>3, StringLength
<1>5. Len(padding) = BlockLen BY <1>2, BlockString
<1>6. padding[Len(padding)] = BlockLen BY <1>0, <1>5
<1>7. \A j \in 1 .. BlockLen : padding[j] = BlockLen OBVIOUS
<1> HIDE DEF padding
<1>8. /\ Pad(s) \in Seq(Block) /\ Len(Pad(s)) = Len(s) + 1
      /\ Front(Pad(s)) = s /\ Last(Pad(s)) = padding
  BY <1>2, <1>3, <1>4, AppendProperties, FrontOfAppend
<1>9. Last(Last(Pad(s))) = BlockLen BY <1>6, <1>8 DEF Last
<1>10. GoodPadding(Pad(s)) BY <1>0, <1>7, <1>8, <1>9 DEF GoodPadding
<1>11. Unpad(Pad(s)) = s BY <1>8, <1>9 DEF Unpad
<1> QED BY <1>8, <1>10, <1>11

LEMMA PadPartial ==
    ASSUME NEW s, IsData(s), Size(s) % BlockLen # 0
    PROVE  /\ Pad(s) \in Seq(Block) /\ Len(Pad(s)) = Len(s) /\ Len(s) > 0
           /\ GoodPadding(Pad(s)) /\ Unpad(Pad(s)) = s
<1>0. BlockLen \in Nat /\ BlockLen > 0 BY Numbers
<1>1. Len(s) > 0
  <2>1. s # <<>> BY NoData
  <2> QED BY <2>1, EmptySeq DEF IsData
<1>2. PICK p \in Piece : p = Last(s) /\ Len(p) \in 1 .. BlockLen BY <1>1, SizeOfData
<1>3. Size(s) % BlockLen = Len(p) /\ Len(p) # BlockLen BY <1>1, <1>2, SizeOfData
<1>4. PICK n \in 1 .. BlockLen - 1 : n = BlockLen - Len(p) BY <1>0, <1>2, <1>3
<1>5. PICK padding \in [1 .. n -> Byte] : padding = [j \in 1 .. n |-> n]
  <2>1. n \in Byte BY <1>0, <1>4, Numbers DEF Byte
  <2> QED BY <2>1
<1>6. padding \in Seq(Byte) /\ Len(padding) = n BY <1>0, <1>4, StringLength
<1>7. p \in Seq(Byte) BY PieceString
<1>8. PICK q \in Block : q = p \o padding
  <2>1. Len(p) + Len(padding) = BlockLen BY <1>0, <1>2, <1>4, <1>6
  <2>2. p \o padding \in Block BY <1>6, <1>7, <2>1, Joined
  <2> QED BY <2>2
<1>9. Pad(s) = Append(Front(s), q) BY <1>0, <1>2, <1>3, <1>4, <1>5, <1>8 DEF Pad
<1>10. /\ Front(s) \in Seq(Piece) /\ Len(Front(s)) = Len(s) - 1
       /\ \A j \in 1 .. Len(s) - 1 : Front(s)[j] = s[j]
       /\ Append(Front(s), p) = s
  BY <1>1, <1>2, FrontAndLast DEF IsData
<1>11. Front(s) \in Seq(Block)
  <2>1. \A j \in 1 .. Len(s) - 1 : s[j] \in Block BY DataPieces
  <2>2. Front(s) \in [1 .. Len(Front(s)) -> Piece] /\ Len(Front(s)) \in Nat
    BY <1>10, LenProperties
  <2>3. Front(s) \in [1 .. Len(Front(s)) -> Block] BY <1>10, <2>1, <2>2
  <2> QED BY <2>2, <2>3, StringLength
<1>12. /\ Pad(s) \in Seq(Block) /\ Len(Pad(s)) = Len(Front(s)) + 1
       /\ Front(Pad(s)) = Front(s) /\ Last(Pad(s)) = q
  BY <1>9, <1>11, AppendProperties, FrontOfAppend
<1>13. /\ Len(q) = BlockLen
       /\ \A j \in 1 .. BlockLen : q[j] = IF j <= Len(p) THEN p[j] ELSE padding[j - Len(p)]
  <2>1. Len(q) = BlockLen BY BlockString
  <2>2. \A j \in 1 .. Len(p) + Len(padding) :
            (p \o padding)[j] = IF j <= Len(p) THEN p[j] ELSE padding[j - Len(p)]
    BY <1>6, <1>7, ConcatProperties
  <2>3. Len(p) + Len(padding) = BlockLen BY <1>0, <1>2, <1>4, <1>6
  <2> QED BY <1>8, <2>1, <2>2, <2>3
<1>14. \A j \in BlockLen - n + 1 .. BlockLen : q[j] = n
  <2> TAKE j \in BlockLen - n + 1 .. BlockLen
  <2>1. j \in 1 .. BlockLen /\ ~(j <= Len(p)) /\ j - Len(p) \in 1 .. n
    BY <1>0, <1>2, <1>4
  <2>2. q[j] = padding[j - Len(p)] BY <1>13, <2>1
  <2> QED BY <1>5, <2>1, <2>2
<1>15. Last(Last(Pad(s))) = n
  <2>1. BlockLen \in BlockLen - n + 1 .. BlockLen BY <1>0, <1>4
  <2> QED BY <1>12, <1>13, <1>14, <2>1 DEF Last
<1>16. GoodPadding(Pad(s)) BY <1>0, <1>4, <1>12, <1>14, <1>15 DEF GoodPadding
<1>17. SubSeq(q, 1, BlockLen - n) = p
  <2>1. BlockLen - n = Len(p) /\ Len(p) \in Nat BY <1>0, <1>2, <1>4
  <2>2. \A j \in 1 .. Len(p) : q[j] = p[j] BY <1>0, <1>2, <1>13
  <2>3. \A j \in 1 .. Len(p) : q[j] \in Byte BY <2>2, <1>7, ElementOfSeq
  <2>4. /\ SubSeq(q, 1, Len(p)) \in Seq(Byte)
        /\ Len(SubSeq(q, 1, Len(p))) = IF 1 <= Len(p) THEN Len(p) - 1 + 1 ELSE 0
        /\ \A j \in 1 .. Len(p) - 1 + 1 : SubSeq(q, 1, Len(p))[j] = q[1 + j - 1]
    BY <2>1, <2>3, SubSeqProperties
  <2>5. PICK t \in Seq(Byte) : t = SubSeq(q, 1, Len(p)) BY <2>4
  <2>6. Len(t) = Len(p) /\ \A j \in 1 .. Len(t) : t[j] = p[j]
    BY <2>1, <2>2, <2>4, <2>5
  <2>7. t = p BY <1>7, <2>6, SeqEqual
  <2> QED BY <2>1, <2>5, <2>7
<1>18. Unpad(Pad(s)) = s
  <2>1. n # BlockLen BY <1>0, <1>4
  <2> QED BY <1>10, <1>12, <1>15, <1>17, <2>1 DEF Unpad
<1>19. Len(Pad(s)) = Len(s)
  <2>1. Len(s) \in Nat BY LenProperties DEF IsData
  <2> QED BY <1>10, <1>12, <2>1
<1> QED BY <1>1, <1>12, <1>16, <1>18, <1>19

-----------------------------------------------------------------------------
(* The value of _ghash() is a block.                                       *)
LEMMA ChainOfBlocks ==
    ASSUME NEW t \in Seq(Block)
    PROVE  FoldLeft(LAMBDA X, b : MulH[Xor(X, b)], Zeros(BlockLen), t) \in Block
<1> DEFINE n == Len(t)
           x == Zeros(BlockLen)
           IsIter(h) == h = [s \in SUBSET (DOMAIN t) |->
                                IF s = {} THEN x ELSE MulH[Xor(h[s \ {Max(s)}], t[Max(s)])]]
           iter == CHOOSE h : IsIter(h)
<1>1. n \in Nat /\ DOMAIN t = 1 .. n BY LenProperties
<1>2. \A j \in 1 .. n : t[j] \in Block BY ElementOfSeq
<1>3. x \in Block
  <2>1. 0 \in Byte /\ BlockLen \in Nat BY Numbers
  <2> QED BY <2>1 DEF Zeros, Block
<1>4. \A a, b \in Block : MulH[Xor(a, b)] \in Block
  <2> TAKE a \in Block, b \in Block
  <2>1. Xor(a, b) \in Block BY XorBlocks
  <2>2. MulH \in [Block -> Block] BY ModesAssumption
  <2> QED BY <2>1, <2>2
<1> HIDE DEF n, x
<1>5. \E g : g \in [SUBSET (1 .. n) -> Block] /\ IsIter(g)
  <2> DEFINE Step(k, v) == IF k \in 1 .. n THEN MulH[Xor(v, t[k])] ELSE v
             next == [k \in Nat |-> [v \in Block |-> Step(k, v)]]
  <2>1. ASSUME NEW k \in Nat, NEW v \in Block PROVE Step(k, v) \in Block
    <3>1. CASE k \in 1 .. n
      <4>1. t[k] \in Block BY <1>2, <3>1
      <4>2. MulH[Xor(v, t[k])] \in Block BY <1>4, <4>1
      <4> QED BY <3>1, <4>2
    <3>2. CASE k \notin 1 .. n BY <3>2
    <3> QED BY <3>1, <3>2
  <2>2. next \in [Nat -> [Block -> Block]] /\ \A k \in Nat, v \in Block : next[k][v] = Step(k, v)
    <3> HIDE DEF Step
    <3> QED BY <2>1
  <2> HIDE DEF next
  <2>3. PICK g \in [SUBSET (1 .. n) -> Block] : Folds(g, n, x, next)
    BY <1>1, <1>3, <2>2, FoldsExist
  <2>4. ASSUME NEW s \in SUBSET (1 .. n)
        PROVE  g[s] = IF s = {} THEN x ELSE MulH[Xor(g[s \ {Max(s)}], t[Max(s)])]
    <3>1. CASE s = {} BY <2>3, <3>1 DEF Folds
    <3>2. CASE s # {}
      <4>0. n \in Nat /\ s \in SUBSET (1 .. n) BY <1>1
      <4>1. Max(s) \in s BY ONLY <3>2, <4>0, MaxInside
      <4>4. \A j \in s : j \in 1 .. n /\ j \in Nat BY <4>0
      <4>5. Max(s) \in 1 .. n /\ Max(s) \in Nat BY ONLY <4>1, <4>4
      <4>2. g[s] = next[Max(s)][g[s \ {Max(s)}]] BY <2>3, <3>2 DEF Folds
      <4>3. g[s \ {Max(s)}] \in Block BY <2>3
      <4> QED BY <2>2, <3>2, <4>2, <4>3, <4>5
    <3> QED BY <3>1, <3>2
  <2>5. g = [s \in SUBSET (1 .. n) |-> g[s]] BY <2>3
  <2>6. g = [s \in SUBSET (1 .. n) |->
                IF s = {} THEN x ELSE MulH[Xor(g[s \ {Max(s)}], t[Max(s)])]]
    BY <2>4, <2>5
  <2>7. IsIter(g) BY ONLY <1>1, <2>6
  <2> QED BY <2>3, <2>7
<1>6. IsIter(iter)
  <2> HIDE DEF IsIter
  <2> QED BY <1>5
<1>7. FoldLeft(LAMBDA X, b : MulH[Xor(X, b)], Zeros(BlockLen), t) = iter[DOMAIN t]
  BY Zenon DEF FoldLeft, MapThenFoldSet, x
<1> HIDE DEF iter
<1>8. \A s \in SUBSET (1 .. n) :
          iter[s] = IF s = {} THEN x ELSE MulH[Xor(iter[s \ {Max(s)}], t[Max(s)])]
  BY <1>1, <1>6
<1> HIDE DEF IsIter
<1> DEFINE T == {k \in Nat : k <= n => iter[1 .. k] \in Block}
<1>9. 0 \in T
  <2>1. 1 .. 0 = {} /\ 1 .. 0 \in SUBSET (1 .. n) OBVIOUS
  <2>2. iter[1 .. 0] = x BY <1>8, <2>1
  <2> QED BY <1>3, <2>2
<1>10. \A k \in T : k + 1 \in T
  <2> SUFFICES ASSUME NEW k \in T, k + 1 <= n PROVE iter[1 .. k + 1] \in Block OBVIOUS
  <2>1. k \in Nat /\ k < n /\ iter[1 .. k] \in Block BY <1>1
  <2>2. /\ 1 .. k + 1 \in SUBSET (1 .. n) /\ 1 .. k + 1 \in SUBSET (1 .. k + 1)
        /\ k + 1 \in 1 .. k + 1 /\ k + 1 \in 1 .. n /\ 1 .. k + 1 # {}
    <3>1. k + 1 \in 1 .. k + 1 /\ k + 1 \in 1 .. n BY <1>1, <2>1
    <3>2. \A j \in 1 .. k + 1 : j \in 1 .. n BY <1>1, <2>1
    <3> QED BY <3>1, <3>2
  <2>3. Max(1 .. k + 1) = k + 1 BY <2>1, <2>2, MaxOf
  <2>4. (1 .. k + 1) \ {k + 1} = 1 .. k BY <2>1
  <2>5. iter[1 .. k + 1] = MulH[Xor(iter[(1 .. k + 1) \ {Max(1 .. k + 1)}], t[Max(1 .. k + 1)])]
    BY <1>8, <2>2
  <2>6. iter[1 .. k + 1] = MulH[Xor(iter[1 .. k], t[k + 1])] BY <2>3, <2>4, <2>5
  <2> QED BY <1>2, <1>4, <2>1, <2>2, <2>6
<1> HIDE DEF T
<1>11. T \in SUBSET Nat BY DEF T
<1>12. T = Nat BY <1>9, <1>10, <1>11, Induction
<1>13. iter[1 .. n] \in Block BY <1>1, <1>12 DEF T
<1> QED BY <1>1, <1>7, <1>13

-----------------------------------------------------------------------------
(* _pad16(): each piece is followed by what was there, and by zeros.       *)
Padded(l, unit) == l + ((-l) % unit)

LEMMA ZeroPadParts ==
    ASSUME NEW s, IsData(s), NEW unit \in Nat, unit > 0
    PROVE  /\ ZeroPad(s, unit) \in Seq(Seq(Byte)) /\ Len(ZeroPad(s, unit)) = Len(s)
           /\ \A j \in 1 .. Len(s) :
                 /\ Len(ZeroPad(s, unit)[j]) =
                       IF j < Len(s) THEN BlockLen ELSE Padded(Len(s[j]), unit)
                 /\ \A x \in 1 .. Len(s[j]) : ZeroPad(s, unit)[j][x] = s[j][x]
<1>1. /\ s \in Seq(Piece) /\ Len(s) \in Nat
      /\ \A j \in 1 .. Len(s) : s[j] \in Piece /\ Len(s[j]) \in 1 .. BlockLen
      /\ \A j \in 1 .. Len(s) - 1 : Len(s[j]) = BlockLen
  BY DataPieces
<1>2. \A p \in Piece : p \in Seq(Byte) BY PieceString
<1>3. s \in Seq(Seq(Byte)) BY <1>1, <1>2, SeqMonotonic
<1>4. CASE s = <<>>
  <2>1. ZeroPad(s, unit) = s /\ Len(s) = 0 BY <1>4, EmptySeq DEF ZeroPad
  <2> QED BY <1>3, <2>1
<1>5. CASE s # <<>>
  <2> DEFINE n == Len(s)
             f == Front(s)
             p == Last(s)
             z == Zeros((-Len(p)) % unit)
             q == p \o z
             Q == Seq(Byte)
             t == Append(f, q)
  <2>1. n \in Nat /\ n > 0 BY <1>1, <1>5, EmptySeq
  <2>2. p = s[n] /\ p \in Piece /\ Len(p) \in 1 .. BlockLen BY <2>1, SizeOfData
  <2>3. (-Len(p)) % unit \in Nat
    <3>1. Len(p) \in Nat BY <2>2
    <3> QED BY <3>1
  <2>4. z \in Q /\ Len(z) = (-Len(p)) % unit
    <3> DEFINE k == (-Len(p)) % unit
    <3>1. k \in Nat BY <2>3
    <3> HIDE DEF k
    <3>2. Zeros(k) \in [1 .. k -> Byte] BY Numbers DEF Zeros
    <3>3. Zeros(k) \in Q /\ Len(Zeros(k)) = k BY <3>1, <3>2, StringLength
    <3> QED BY <3>3 DEF k
  <2>5. q \in Q /\ IsConcat(q, p, z) BY <1>2, <2>2, <2>4, ConcatParts
  <2>6. Len(q) = Padded(Len(p), unit) /\ \A x \in 1 .. Len(p) : q[x] = p[x]
    BY <2>4, <2>5 DEF IsConcat, Padded
  <2>7. s \in Seq(Q) BY <1>3
  <2> HIDE DEF Q, q, z
  <2>8. f \in Seq(Q) /\ Len(f) = n - 1 /\ \A j \in 1 .. n - 1 : f[j] = s[j]
    BY ONLY <2>1, <2>7, FrontAndLast
  <2>9. ZeroPad(s, unit) = t BY <1>5 DEF ZeroPad, q, z
  <2> HIDE DEF f, p
  <2>10. /\ t \in Seq(Q) /\ Len(t) = n
         /\ t[n] = q /\ \A j \in 1 .. n - 1 : t[j] = f[j]
    <3>1. /\ t \in Seq(Q) /\ Len(t) = Len(f) + 1
          /\ \A j \in 1 .. Len(f) : t[j] = f[j]
          /\ t[Len(f) + 1] = q
      BY ONLY <2>5, <2>8, AppendProperties
    <3>2. (n - 1) + 1 = n BY <2>1
    <3> QED BY ONLY <2>8, <3>1, <3>2
  <2> HIDE DEF t
  <2>11. ASSUME NEW j \in 1 .. n
         PROVE  /\ Len(t[j]) = IF j < n THEN BlockLen ELSE Padded(Len(s[j]), unit)
                /\ \A x \in 1 .. Len(s[j]) : t[j][x] = s[j][x]
    <3>1. CASE j = n BY <2>2, <2>6, <2>10, <3>1
    <3>2. CASE j # n
      <4>1. j \in 1 .. n - 1 /\ j < n BY <2>1, <3>2
      <4>2. t[j] = s[j] BY <2>8, <2>10, <4>1
      <4>3. Len(s[j]) = BlockLen BY <1>1, <4>1
      <4> QED BY <4>1, <4>2, <4>3
    <3> QED BY <3>1, <3>2
  <2> QED BY <2>9, <2>10, <2>11 DEF Q
<1> QED BY <1>4, <1>5

(* Up to whole blocks.                                                     *)
LEMMA ZeroPadBlocks ==
    ASSUME NEW s, IsData(s)
    PROVE  ZeroPad(s, BlockLen) \in Seq(Block) /\ IsData(ZeroPad(s, BlockLen))
<1>0. BlockLen \in Nat /\ BlockLen > 0 BY Numbers
<1> DEFINE t == ZeroPad(s, BlockLen)
           n == Len(s)
<1>1. n \in Nat /\ \A j \in 1 .. n : Len(s[j]) \in 1 .. BlockLen BY DataPieces
<1>2. /\ t \in Seq(Seq(Byte)) /\ Len(t) = n
      /\ \A j \in 1 .. n : Len(t[j]) = IF j < n THEN BlockLen ELSE Padded(Len(s[j]), BlockLen)
  BY <1>0, ZeroPadParts
<1> HIDE DEF t, n
<1>3. \A l \in 1 .. BlockLen : Padded(l, BlockLen) = BlockLen
  <2> TAKE l \in 1 .. BlockLen
  <2>1. (-l) % BlockLen = BlockLen - l
    <3>1. CASE l = BlockLen
      <4>1. -BlockLen = BlockLen * (-1) + 0 BY <1>0
      <4>2. (-BlockLen) % BlockLen = 0 BY <1>0, <4>1, DivisionUnique
      <4> QED BY <3>1, <4>2
    <3>2. CASE l # BlockLen
      <4> DEFINE r == BlockLen - l
      <4>1. r \in 0 .. BlockLen - 1 /\ -l = BlockLen * (-1) + r BY <1>0, <3>2
      <4>2. (BlockLen * (-1) + r) % BlockLen = r BY ONLY <1>0, <4>1, -1 \in Int, DivisionUnique
      <4> QED BY ONLY <4>1, <4>2 DEF r
    <3> QED BY <3>1, <3>2
  <2> QED BY <1>0, <2>1 DEF Padded
<1>4. \A j \in 1 .. n : t[j] \in Block
  <2> TAKE j \in 1 .. n
  <2>1. Len(t[j]) = BlockLen BY <1>1, <1>2, <1>3
  <2>2. t[j] \in Seq(Byte) BY <1>2, ElementOfSeq
  <2> QED BY <2>1, <2>2, LenProperties DEF Block
<1>5. t \in Seq(Block)
  <2>1. t \in [1 .. n -> Seq(Byte)] BY <1>2, LenProperties
  <2>2. t \in [1 .. n -> Block] BY <1>4, <2>1
  <2> QED BY <1>1, <2>2, StringLength
<1>6. IsData(t)
  <2>1. t \in Seq(Piece) BY <1>5, BlockString, SeqMonotonic
  <2>2. \A j \in 1 .. Len(t) - 1 : Len(t[j]) = BlockLen
    BY <1>1, <1>2, <1>4, BlockString
  <2> QED BY <2>1, <2>2 DEF IsData
<1> QED BY <1>5, <1>6 DEF t

(* The number of bytes of a byte string that is kept in blocks.            *)
LEMMA SizeType ==
    ASSUME NEW s, IsData(s)
    PROVE  Size(s) \in Nat
<1>0. BlockLen \in Nat /\ BlockLen > 0 BY Numbers
<1>1. CASE s = <<>> BY <1>1, NoData
<1>2. CASE s # <<>>
  <2>1. Len(s) \in Nat /\ Len(s) > 0 BY <1>2, DataPieces, EmptySeq
  <2>2. Len(Last(s)) \in Nat BY <2>1, SizeOfData
  <2>3. BlockLen * (Len(s) - 1) \in Nat
    <3>1. \A k \in Nat : BlockLen * k \in Nat BY <1>0
    <3>2. Len(s) - 1 \in Nat BY <2>1
    <3> QED BY <3>1, <3>2
  <2> QED BY <1>2, <2>2, <2>3 DEF Size
<1> QED BY <1>1, <1>2

(* The block of lengths is a block.                                        *)
LEMMA LengthBlockType ==
    ASSUME NEW m \in Nat, NEW n \in Nat
    PROVE  LengthBlock(m, n) \in Block
<1>0. BlockLen \in Nat /\ Half \in Nat /\ BlockLen - Half \in Nat BY Numbers
<1>1. ToBytes(m, Half) \in Seq(Byte) /\ Len(ToBytes(m, Half)) = Half BY <1>0, ToBytesType
<1>2. /\ ToBytes(n, BlockLen - Half) \in Seq(Byte)
      /\ Len(ToBytes(n, BlockLen - Half)) = BlockLen - Half
  BY <1>0, ToBytesType
<1>3. Half + (BlockLen - Half) = BlockLen BY <1>0
<1> QED BY <1>1, <1>2, <1>3, Joined DEF LengthBlock

(* A nonce of any length makes a block.                                    *)
LEMMA HashedNonce ==
    ASSUME NEW v, IsData(v)
    PROVE  Ghash(Append(ZeroPad(v, BlockLen), LengthBlock(0, Size(v)))) \in Block
<1> DEFINE z == ZeroPad(v, BlockLen)
           l == LengthBlock(0, Size(v))
           s == Append(z, l)
           y == ZeroPad(s, BlockLen)
           k == LengthBlock(Size(<<>>), Size(s))
           t == MacInput(<<>>, s, BlockLen)
<1>1. z \in Seq(Block) /\ IsData(z) BY ZeroPadBlocks
<1>2. l \in Block BY SizeType, LengthBlockType
<1> HIDE DEF z, l
<1>3. s \in Seq(Block) BY <1>1, <1>2, AppendProperties
<1>4. IsData(s)
  <2>1. s \in Seq(Piece) /\ Len(s) \in Nat BY <1>3, BlockString, SeqMonotonic, LenProperties
  <2>2. \A j \in 1 .. Len(s) - 1 : Len(s[j]) = BlockLen
    <3> TAKE j \in 1 .. Len(s) - 1
    <3>1. j \in 1 .. Len(s) BY <2>1
    <3>2. s[j] \in Block BY <1>3, <3>1, ElementOfSeq
    <3> QED BY <3>2, BlockString
  <2> QED BY <2>1, <2>2 DEF IsData
<1> HIDE DEF s
<1>5. y \in Seq(Block) BY <1>4, ZeroPadBlocks
<1>6. k \in Block
  <2>1. Size(<<>>) = 0 BY NoData
  <2> QED BY <1>4, <2>1, SizeType, LengthBlockType
<1> HIDE DEF y, k
<1>7. t = (<<>> \o y) \o <<k>> BY DEF MacInput, ZeroPad, y, k
<1>8. <<>> \o y = y BY <1>5, ConcatEmptySeq
<1>9. <<k>> \in Seq(Block) BY <1>6
<1>10. t \in Seq(Block) BY <1>5, <1>7, <1>8, <1>9, ConcatProperties
<1>11. Ghash(s) \in Block BY <1>10, ChainOfBlocks DEF Ghash
<1> QED BY <1>11 DEF s, z, l

-----------------------------------------------------------------------------
(* Two strings in one, of which the first, or the second, have one length. *)
LEMMA SameParts ==
    ASSUME NEW S, NEW s \in Seq(S), NEW t \in Seq(S), NEW x \in Seq(S), NEW y \in Seq(S),
           s \o x = t \o y, Len(s) = Len(t) \/ Len(x) = Len(y)
    PROVE  s = t /\ x = y
<1> DEFINE w == s \o x
           v == t \o y
<1>1. IsConcat(w, s, x) BY ConcatParts
<1>2. IsConcat(v, t, y) BY ConcatParts
<1>3. w = v OBVIOUS
<1> HIDE DEF w, v
<1>4. Len(s) = Len(t) /\ Len(x) = Len(y) BY <1>1, <1>2, <1>3 DEF IsConcat
<1>5. \A j \in 1 .. Len(s) : s[j] = t[j] BY <1>1, <1>2, <1>3, <1>4 DEF IsConcat
<1>6. \A j \in 1 .. Len(x) : x[j] = y[j] BY <1>1, <1>2, <1>3, <1>4 DEF IsConcat
<1> QED BY <1>4, <1>5, <1>6, SeqEqual

(* A number that fits is told from its bytes.                              *)
LEMMA ToBytesInjective ==
    ASSUME NEW n \in Nat, NEW k \in Nat, NEW l \in Nat, k < Power[n], l < Power[n],
           ToBytes(k, n) = ToBytes(l, n)
    PROVE  k = l
<1>0. Base \in Nat /\ Base > 0 /\ Powers(Base, Power) /\ Power[n] \in Nat /\ Power[n] > 0
  BY Numbers, PowerDefined
<1>1. ASSUME NEW m \in Nat, m < n
      PROVE  (k \div Power[m]) % Base = (l \div Power[m]) % Base
  <2>1. n - m \in 1 .. n /\ n - (n - m) = m BY <1>1
  <2>2. ToBytes(k, n)[n - m] = (k \div Power[n - (n - m)]) % Base BY <2>1 DEF ToBytes
  <2>3. ToBytes(l, n)[n - m] = (l \div Power[n - (n - m)]) % Base BY <2>1 DEF ToBytes
  <2> QED BY <2>1, <2>2, <2>3
<1>2. k % Power[n] = l % Power[n] BY <1>0, <1>1, DigitsAgree
<1> DEFINE p == Power[n]
<1>3. p \in Nat /\ p > 0 /\ k < p /\ l < p /\ k % p = l % p BY <1>0, <1>2
<1> HIDE DEF p
<1>4. k \in 0 .. p - 1 /\ l \in 0 .. p - 1 BY <1>3
<1>5. k % p = k /\ l % p = l BY <1>3, <1>4
<1> QED BY <1>3, <1>5

(* The block of lengths tells the lengths, when they fit into it.          *)
LEMMA LengthsTold ==
    ASSUME NEW m \in Nat, NEW n \in Nat, NEW k \in Nat, NEW l \in Nat,
           m < Power[Half], k < Power[Half],
           n < Power[BlockLen - Half], l < Power[BlockLen - Half],
           LengthBlock(m, n) = LengthBlock(k, l)
    PROVE  m = k /\ n = l
<1>0. Half \in Nat /\ BlockLen - Half \in Nat BY Numbers
<1>1. /\ ToBytes(m, Half) \in Seq(Byte) /\ Len(ToBytes(m, Half)) = Half
      /\ ToBytes(k, Half) \in Seq(Byte) /\ Len(ToBytes(k, Half)) = Half
      /\ ToBytes(n, BlockLen - Half) \in Seq(Byte) /\ ToBytes(l, BlockLen - Half) \in Seq(Byte)
  BY <1>0, ToBytesType
<1>2. ToBytes(m, Half) \o ToBytes(n, BlockLen - Half)
          = ToBytes(k, Half) \o ToBytes(l, BlockLen - Half)
  BY DEF LengthBlock
<1>3. Len(ToBytes(m, Half)) = Len(ToBytes(k, Half)) BY <1>1
<1> DEFINE a == ToBytes(m, Half)
           b == ToBytes(k, Half)
           c == ToBytes(n, BlockLen - Half)
           d == ToBytes(l, BlockLen - Half)
<1>4. /\ a \in Seq(Byte) /\ b \in Seq(Byte) /\ c \in Seq(Byte) /\ d \in Seq(Byte)
      /\ a \o c = b \o d /\ Len(a) = Len(b)
  BY ONLY <1>1, <1>2, <1>3
<1> HIDE DEF a, b, c, d
<1>5. a = b /\ c = d BY ONLY <1>4, SameParts
<1>6. /\ ToBytes(m, Half) = ToBytes(k, Half)
      /\ ToBytes(n, BlockLen - Half) = ToBytes(l, BlockLen - Half)
  BY <1>5 DEF a, b, c, d
<1>7. m = k BY <1>0, <1>6, ToBytesInjective
<1>8. n = l BY <1>0, <1>6, ToBytesInjective
<1> QED BY <1>7, <1>8

(* Data of one size is cut into pieces in one way.                         *)
LEMMA SizeShape ==
    ASSUME NEW s, NEW t, IsData(s), IsData(t), Size(s) = Size(t)
    PROVE  Len(s) = Len(t) /\ \A j \in 1 .. Len(s) : Len(s[j]) = Len(t[j])
<1>0. BlockLen \in Nat /\ BlockLen > 0 BY Numbers
<1>1. \A u : IsData(u) /\ Len(u) > 0 =>
          /\ Len(u) - 1 \in Nat /\ Len(u[Len(u)]) \in 1 .. BlockLen
          /\ Size(u) = BlockLen * (Len(u) - 1) + Len(u[Len(u)]) /\ Size(u) > 0
  <2> SUFFICES ASSUME NEW u, IsData(u), Len(u) > 0
               PROVE  /\ Len(u) - 1 \in Nat /\ Len(u[Len(u)]) \in 1 .. BlockLen
                      /\ Size(u) = BlockLen * (Len(u) - 1) + Len(u[Len(u)]) /\ Size(u) > 0
    OBVIOUS
  <2>1. Len(u) \in Nat /\ u # <<>> BY DataPieces, EmptySeq
  <2>2. Last(u) = u[Len(u)] /\ Len(Last(u)) \in 1 .. BlockLen BY SizeOfData
  <2>3. Size(u) = BlockLen * (Len(u) - 1) + Len(u[Len(u)]) BY <2>1, <2>2 DEF Size
  <2>4. Len(u) - 1 \in Nat BY <2>1
  <2>5. \A k \in Nat, l \in 1 .. BlockLen : BlockLen * k + l > 0
    <3> TAKE k \in Nat, l \in 1 .. BlockLen
    <3>1. BlockLen * k \in Nat BY <1>0
    <3> QED BY <3>1
  <2> QED BY <2>2, <2>3, <2>4, <2>5
<1>2. \A u : IsData(u) /\ ~(Len(u) > 0) => u = <<>> /\ Size(u) = 0 /\ Len(u) = 0
  BY DataPieces, EmptySeq, NoData
<1>3. CASE ~(Len(s) > 0)
  <2>1. Size(t) = 0 /\ Len(s) = 0 BY <1>2, <1>3
  <2>2. ~(Len(t) > 0) BY <1>1, <2>1
  <2> QED BY <1>2, <2>1, <2>2
<1>4. CASE Len(s) > 0
  <2>1. Len(t) > 0 BY <1>1, <1>2, <1>4
  <2> DEFINE m == Len(s) - 1
             n == Len(t) - 1
             k == Len(s[Len(s)])
             l == Len(t[Len(t)])
  <2>2. m \in Nat /\ n \in Nat /\ k \in 1 .. BlockLen /\ l \in 1 .. BlockLen
    BY <1>1, <1>4, <2>1
  <2>3. BlockLen * m + k = BlockLen * n + l BY <1>1, <1>4, <2>1
  <2> HIDE DEF m, n, k, l
  <2>4. m = n /\ k = l
    <3>0. \A z \in 1 .. BlockLen : z - 1 \in 0 .. BlockLen - 1 BY <1>0
    <3>1. k - 1 \in 0 .. BlockLen - 1 /\ l - 1 \in 0 .. BlockLen - 1 BY ONLY <2>2, <3>0
    <3>2. BlockLen * m + (k - 1) = BlockLen * n + (l - 1)
      <4>1. BlockLen * m \in Nat /\ BlockLen * n \in Nat BY <1>0, <2>2
      <4> QED BY <2>2, <2>3, <4>1
    <3>3. (BlockLen * m + (k - 1)) \div BlockLen = m /\ (BlockLen * m + (k - 1)) % BlockLen = k - 1
      BY ONLY <1>0, <2>2, <3>1, DivisionUnique, m \in Int
    <3>4. (BlockLen * n + (l - 1)) \div BlockLen = n /\ (BlockLen * n + (l - 1)) % BlockLen = l - 1
      BY ONLY <1>0, <2>2, <3>1, DivisionUnique, n \in Int
    <3>5. m = n /\ k - 1 = l - 1 BY ONLY <3>2, <3>3, <3>4
    <3> QED BY <2>2, <3>5
  <2>5. Len(s) = Len(t)
    <3>1. Len(s) \in Nat /\ Len(t) \in Nat BY DataPieces
    <3> QED BY <2>4, <3>1 DEF m, n
  <2>6. ASSUME NEW j \in 1 .. Len(s) PROVE Len(s[j]) = Len(t[j])
    <3>1. CASE j = Len(s) BY <2>4, <2>5, <3>1 DEF k, l
    <3>2. CASE j # Len(s)
      <4>1. j \in 1 .. Len(s) - 1 /\ j \in 1 .. Len(t) - 1 BY <2>5, <3>2, DataPieces
      <4> QED BY <4>1, DataPieces
    <3> QED BY <3>1, <3>2
  <2> QED BY <2>5, <2>6
<1> QED BY <1>3, <1>4

(* What the tag is computed from, as one string.                           *)
IsMac(w, p, q, l) ==
    /\ p \in Seq(Seq(Byte)) /\ q \in Seq(Seq(Byte)) /\ p \o q \in Seq(Seq(Byte))
    /\ l \in Seq(Byte) /\ Len(l) = BlockLen
    /\ FlattenSeq(p \o q) \in Seq(Byte)
    /\ w = FlattenSeq(p \o q) \o l

(* What is hashed for a MAC, part by part.                                 *)
LEMMA MacParts ==
    ASSUME NEW a, NEW c, IsData(a), IsData(c), NEW unit \in Nat, unit > 0
    PROVE  IsMac(FlattenSeq(MacInput(a, c, unit)), ZeroPad(a, unit), ZeroPad(c, unit),
                 LengthBlock(Size(a), Size(c)))
<1> DEFINE p == ZeroPad(a, unit)
           q == ZeroPad(c, unit)
           l == LengthBlock(Size(a), Size(c))
           Q == Seq(Byte)
           x == p \o q
<1>1. p \in Seq(Q) /\ q \in Seq(Q) BY ZeroPadParts
<1>2. l \in Q /\ Len(l) = BlockLen
  <2>1. Size(a) \in Nat /\ Size(c) \in Nat BY SizeType
  <2>2. l \in Block BY <2>1, LengthBlockType
  <2> QED BY <2>2, BlockString
<1> HIDE DEF Q, p, q, l
<1>3. x \in Seq(Q) BY ONLY <1>1, ConcatProperties
<1>4. MacInput(a, c, unit) = x \o <<l>> BY DEF MacInput, p, q, l
<1> HIDE DEF x
<1>5. MacInput(a, c, unit) = Append(x, l) BY ONLY <1>2, <1>3, <1>4, AppendIsConcat
<1>6. FlattenSeq(x) \in Seq(Byte) /\ FlattenSeq(Append(x, l)) = FlattenSeq(x) \o l
  <2>1. x \in Seq(Seq(Byte)) /\ l \in Seq(Byte) BY <1>2, <1>3 DEF Q
  <2> QED BY ONLY <2>1, FlattenAppend
<1>7. p \in Seq(Seq(Byte)) /\ q \in Seq(Seq(Byte)) /\ x \in Seq(Seq(Byte)) /\ l \in Seq(Byte)
  BY ONLY <1>1, <1>2, <1>3 DEF Q
<1>8. IsMac(FlattenSeq(MacInput(a, c, unit)), p, q, l)
  BY ONLY <1>2, <1>5, <1>6, <1>7 DEF x, IsMac
<1> QED BY <1>8 DEF p, q, l

(* Data is told from what it is padded to, if its lengths are known.       *)
LEMMA ZeroPadInjective ==
    ASSUME NEW s, NEW t, IsData(s), IsData(t), Size(s) = Size(t), NEW unit \in Nat, unit > 0,
           ZeroPad(s, unit) = ZeroPad(t, unit)
    PROVE  s = t
<1>1. Len(s) = Len(t) /\ \A j \in 1 .. Len(s) : Len(s[j]) = Len(t[j]) BY SizeShape
<1>2. \A j \in 1 .. Len(s) : \A x \in 1 .. Len(s[j]) : ZeroPad(s, unit)[j][x] = s[j][x]
  BY ZeroPadParts
<1>3. \A j \in 1 .. Len(t) : \A x \in 1 .. Len(t[j]) : ZeroPad(t, unit)[j][x] = t[j][x]
  BY ZeroPadParts
<1>4. ASSUME NEW j \in 1 .. Len(s) PROVE s[j] = t[j]
  <2>1. s[j] \in Piece /\ t[j] \in Piece BY <1>1, DataPieces
  <2>2. s[j] \in Seq(Byte) /\ t[j] \in Seq(Byte) BY <2>1, PieceString
  <2>3. \A x \in 1 .. Len(s[j]) : s[j][x] = t[j][x] BY <1>1, <1>2, <1>3
  <2> QED BY <1>1, <2>2, <2>3, SeqEqual
<1>5. s \in Seq(Piece) /\ t \in Seq(Piece) BY DataPieces
<1> QED BY <1>1, <1>4, <1>5, SeqEqual

(* Equal inputs of a MAC are made of equal data, nonce and ciphertext.     *)
LEMMA MacInputInjective ==
    ASSUME NEW a, NEW c, NEW b, NEW d, IsData(a), IsData(c), IsData(b), IsData(d),
           NEW unit \in Nat, unit > 0,
           Size(a) < Power[Half], Size(b) < Power[Half],
           Size(c) < Power[BlockLen - Half], Size(d) < Power[BlockLen - Half],
           FlattenSeq(MacInput(a, c, unit)) = FlattenSeq(MacInput(b, d, unit))
    PROVE  a = b /\ c = d
<1>1. PICK p, q, l : /\ p = ZeroPad(a, unit) /\ q = ZeroPad(c, unit)
                     /\ l = LengthBlock(Size(a), Size(c))
  OBVIOUS
<1>2. PICK r, s, k : /\ r = ZeroPad(b, unit) /\ s = ZeroPad(d, unit)
                     /\ k = LengthBlock(Size(b), Size(d))
  OBVIOUS
<1>3. IsMac(FlattenSeq(MacInput(a, c, unit)), p, q, l) BY <1>1, MacParts
<1>4. IsMac(FlattenSeq(MacInput(b, d, unit)), r, s, k) BY <1>2, MacParts
<1>5. FlattenSeq(p \o q) = FlattenSeq(r \o s) /\ l = k
  <2> DEFINE x == FlattenSeq(p \o q)
             y == FlattenSeq(r \o s)
  <2>1. /\ x \in Seq(Byte) /\ y \in Seq(Byte) /\ l \in Seq(Byte) /\ k \in Seq(Byte)
        /\ x \o l = y \o k /\ Len(l) = Len(k)
    BY <1>3, <1>4 DEF IsMac
  <2> HIDE DEF x, y
  <2>2. x = y /\ l = k BY ONLY <2>1, SameParts
  <2> QED BY <2>2 DEF x, y
<1>6. Size(a) = Size(b) /\ Size(c) = Size(d)
  <2>1. Size(a) \in Nat /\ Size(b) \in Nat /\ Size(c) \in Nat /\ Size(d) \in Nat BY SizeType
  <2>2. LengthBlock(Size(a), Size(c)) = LengthBlock(Size(b), Size(d)) BY <1>1, <1>2, <1>5
  <2> QED BY <2>1, <2>2, LengthsTold
<1>7. /\ Len(p) = Len(r) /\ Len(q) = Len(s)
      /\ \A j \in 1 .. Len(p) : Len(p[j]) = Len(r[j])
      /\ \A j \in 1 .. Len(q) : Len(q[j]) = Len(s[j])
  <2>1. \A x, y : IsData(x) /\ IsData(y) /\ Size(x) = Size(y) =>
            /\ Len(ZeroPad(x, unit)) = Len(ZeroPad(y, unit))
            /\ \A j \in 1 .. Len(ZeroPad(x, unit)) :
                  Len(ZeroPad(x, unit)[j]) = Len(ZeroPad(y, unit)[j])
    <3> SUFFICES ASSUME NEW x, NEW y, IsData(x), IsData(y), Size(x) = Size(y)
                 PROVE  /\ Len(ZeroPad(x, unit)) = Len(ZeroPad(y, unit))
                        /\ \A j \in 1 .. Len(ZeroPad(x, unit)) :
                              Len(ZeroPad(x, unit)[j]) = Len(ZeroPad(y, unit)[j])
      OBVIOUS
    <3>1. Len(x) = Len(y) /\ \A j \in 1 .. Len(x) : Len(x[j]) = Len(y[j]) BY SizeShape
    <3>2. /\ Len(ZeroPad(x, unit)) = Len(x)
          /\ \A j \in 1 .. Len(x) : Len(ZeroPad(x, unit)[j]) =
                IF j < Len(x) THEN BlockLen ELSE Padded(Len(x[j]), unit)
      BY ZeroPadParts
    <3>3. /\ Len(ZeroPad(y, unit)) = Len(y)
          /\ \A j \in 1 .. Len(y) : Len(ZeroPad(y, unit)[j]) =
                IF j < Len(y) THEN BlockLen ELSE Padded(Len(y[j]), unit)
      BY ZeroPadParts
    <3> QED BY <3>1, <3>2, <3>3
  <2>2. Len(p) = Len(r) /\ \A j \in 1 .. Len(p) : Len(p[j]) = Len(r[j])
    BY <1>1, <1>2, <1>6, <2>1
  <2>3. Len(q) = Len(s) /\ \A j \in 1 .. Len(q) : Len(q[j]) = Len(s[j])
    BY <1>1, <1>2, <1>6, <2>1
  <2> QED BY <2>2, <2>3
<1> DEFINE Q == Seq(Byte)
<1>8. /\ p \in Seq(Q) /\ q \in Seq(Q) /\ r \in Seq(Q) /\ s \in Seq(Q) BY <1>3, <1>4 DEF IsMac
<1> HIDE DEF Q
<1>9. p \o q = r \o s
  <2> DEFINE x == p \o q
             y == r \o s
  <2>1. IsConcat(x, p, q) /\ x \in Seq(Q) BY ONLY <1>8, ConcatParts
  <2>2. IsConcat(y, r, s) /\ y \in Seq(Q) BY ONLY <1>8, ConcatParts
  <2>3. x \in Seq(Seq(Byte)) /\ y \in Seq(Seq(Byte)) /\ FlattenSeq(x) = FlattenSeq(y)
    BY <1>3, <1>4, <1>5 DEF IsMac
  <2> HIDE DEF x, y
  <2>4. Len(x) = Len(y) BY <1>7, <2>1, <2>2 DEF IsConcat
  <2>5. ASSUME NEW j \in 1 .. Len(x) PROVE Len(x[j]) = Len(y[j])
    <3>1. CASE j \in 1 .. Len(p) BY <1>7, <2>1, <2>2, <3>1 DEF IsConcat
    <3>2. CASE j \notin 1 .. Len(p)
      <4>1. Len(p) \in Nat /\ Len(q) \in Nat /\ Len(x) = Len(p) + Len(q)
        BY <2>1 DEF IsConcat
      <4>2. j - Len(p) \in 1 .. Len(q) /\ Len(p) + (j - Len(p)) = j BY <3>2, <4>1
      <4>3. x[j] = q[j - Len(p)] BY <2>1, <4>2 DEF IsConcat
      <4>4. y[j] = s[j - Len(p)] BY <1>7, <2>2, <4>2 DEF IsConcat
      <4> QED BY <1>7, <4>2, <4>3, <4>4
    <3> QED BY <3>1, <3>2
  <2>6. x = y BY ONLY <2>3, <2>4, <2>5, FlattenInjective
  <2> QED BY <2>6 DEF x, y
<1>10. p = r /\ q = s BY ONLY <1>7, <1>8, <1>9, SameParts
<1> QED BY <1>1, <1>2, <1>6, <1>10, ZeroPadInjective

-----------------------------------------------------------------------------
(* A nonce of the usual length is one piece.                               *)
LEMMA UsualNonce ==
    ASSUME NEW v, IsData(v), Size(v) = NonceLen
    PROVE  /\ v \in Seq(Piece) /\ Len(v) = 1 /\ Head(v) = v[1]
           /\ v[1] \in Seq(Byte) /\ Len(v[1]) = NonceLen
<1>0. BlockLen \in Nat /\ NonceLen \in Nat /\ NonceLen > 0 /\ NonceLen < BlockLen BY Numbers
<1>1. v # <<>> BY <1>0, NoData
<1>2. v \in Seq(Piece) /\ Len(v) \in Nat /\ Len(v) > 0 BY <1>1, DataPieces, EmptySeq
<1>3. Last(v) = v[Len(v)] /\ Len(Last(v)) \in 1 .. BlockLen BY <1>2, SizeOfData
<1>4. NonceLen = BlockLen * (Len(v) - 1) + Len(Last(v)) BY <1>1 DEF Size
<1>5. Len(v) = 1
  <2>1. PICK n \in Nat : n = Len(v) - 1 BY <1>2
  <2>2. PICK l \in 1 .. BlockLen : l = Len(Last(v)) BY <1>3
  <2>3. NonceLen = BlockLen * n + l BY <1>4, <2>1, <2>2
  <2>4. n = 0
    <3>1. SUFFICES ASSUME n # 0 PROVE FALSE OBVIOUS
    <3>2. PICK k \in Nat : n = k + 1
      <4>1. n - 1 \in Nat /\ n = (n - 1) + 1 BY <3>1
      <4> QED BY <4>1
    <3>3. BlockLen * n = BlockLen * k + BlockLen /\ BlockLen * k \in Nat BY <1>0, <3>2
    <3> QED BY <1>0, <2>3, <3>3
  <2> QED BY <1>2, <2>1, <2>4
<1>6. Len(Last(v)) = NonceLen BY <1>0, <1>3, <1>4, <1>5
<1>7. v[1] \in Piece
  <2>1. 1 \in 1 .. Len(v) BY <1>2
  <2> QED BY <2>1, DataPieces
<1>8. Head(v) = v[1] BY <1>2
<1> QED BY <1>2, <1>3, <1>5, <1>6, <1>7, <1>8, PieceString

(* Data as a string: each piece begins where those before it end.          *)
LEMMA DataString ==
    ASSUME NEW s, IsData(s)
    PROVE  s \in Seq(Seq(Byte)) /\ FlattenSeq(s) \in Seq(Byte)
<1>1. s \in Seq(Piece) BY DataPieces
<1>2. \A p \in Piece : p \in Seq(Byte) BY PieceString
<1>3. s \in Seq(Seq(Byte)) BY <1>1, <1>2, SeqMonotonic
<1> QED BY <1>3, FlattenType

(* The bytes of data, block by block: where each block starts, ...         *)
LEMMA DataStarts ==
    ASSUME NEW s, IsData(s), NEW k \in Nat, k < Len(s)
    PROVE  Len(FlattenSeq(SubSeq(s, 1, k))) = BlockLen * k
<1> DEFINE Before(n) == Len(FlattenSeq(SubSeq(s, 1, n)))
           T == {n \in Nat : n < Len(s) => Before(n) = BlockLen * n}
<1>0. BlockLen \in Nat BY Numbers
<1>1. s \in Seq(Seq(Byte)) BY DataString
<1>2. 0 \in T
  <2>1. Before(0) = 0 /\ BlockLen * 0 = 0 BY <1>0, <1>1, FlattenWhole
  <2> HIDE DEF Before
  <2> QED BY <2>1
<1>3. \A n \in T : n + 1 \in T
  <2> SUFFICES ASSUME NEW n \in T, n + 1 < Len(s) PROVE Before(n + 1) = BlockLen * (n + 1)
    OBVIOUS
  <2>1. Len(s) \in Nat BY DataPieces
  <2>2. n \in Nat /\ n < Len(s) /\ n + 1 \in 1 .. Len(s) - 1 BY <2>1
  <2>3. Before(n) = BlockLen * n BY <2>2
  <2>4. PICK u : u = FlattenSeq(SubSeq(s, 1, n)) OBVIOUS
  <2>5. Before(n + 1) = Len(u) + Len(s[n + 1]) BY <1>1, <2>2, <2>4, FlattenAt
  <2>6. Len(s[n + 1]) = BlockLen BY <2>2, DataPieces
  <2>7. Len(u) = BlockLen * n BY <2>3, <2>4
  <2>8. BlockLen * (n + 1) = BlockLen * n + BlockLen BY <1>0, <2>2
  <2> HIDE DEF Before
  <2> QED BY ONLY <2>5, <2>6, <2>7, <2>8
<1> HIDE DEF T
<1>4. T \in SUBSET Nat BY DEF T
<1>5. T = Nat BY <1>2, <1>3, <1>4, Induction
<1> QED BY <1>5 DEF T

(* ... which bytes there are, ...                                          *)
LEMMA DataBytes ==
    ASSUME NEW s, IsData(s), NEW w, w = FlattenSeq(s)
    PROVE  /\ w \in Seq(Byte) /\ Len(w) = Size(s)
           /\ \A k \in 1 .. Len(s) : Placed(w, BlockLen * (k - 1), s[k])
<1>1. s \in Seq(Seq(Byte)) /\ w \in Seq(Byte) BY DataString
<1>2. Len(s) \in Nat BY DataPieces
<1>3. ASSUME NEW k \in 1 .. Len(s) PROVE Placed(w, BlockLen * (k - 1), s[k])
  <2> DEFINE n == k - 1
  <2>1. n \in Nat /\ n < Len(s) /\ n + 1 = k BY <1>2
  <2> HIDE DEF n
  <2>2. PICK u : u = FlattenSeq(SubSeq(s, 1, n)) OBVIOUS
  <2>3. Placed(FlattenSeq(s), Len(u), s[n + 1]) BY <1>1, <2>1, <2>2, FlattenAt
  <2>4. Len(u) = BlockLen * n BY <2>1, <2>2, DataStarts
  <2> QED BY <2>1, <2>3, <2>4 DEF n
<1>4. Len(w) = Size(s)
  <2>1. CASE s = <<>>
    <3>1. Size(s) = 0 BY <2>1, NoData
    <3> QED BY <2>1, <3>1, FlattenNothing, EmptySeq
  <2>2. CASE s # <<>>
    <3> DEFINE n == Len(s) - 1
    <3>1. Len(s) > 0 BY <1>2, <2>2, DataPieces, EmptySeq
    <3>2. n \in Nat /\ n < Len(s) /\ n + 1 = Len(s) BY <1>2, <3>1
    <3>3. PICK u : u = FlattenSeq(SubSeq(s, 1, n)) OBVIOUS
    <3> HIDE DEF n
    <3>4. Len(FlattenSeq(SubSeq(s, 1, n + 1))) = Len(u) + Len(s[n + 1])
      BY <1>1, <3>2, <3>3, FlattenAt
    <3>5. SubSeq(s, 1, n + 1) = s BY <1>1, <3>2, FlattenWhole
    <3>6. Len(u) = BlockLen * n BY <3>2, <3>3, DataStarts
    <3>7. Last(s) = s[n + 1] BY <3>1, <3>2, SizeOfData
    <3>8. Size(s) = BlockLen * n + Len(s[n + 1]) BY <2>2, <3>7 DEF Size, n
    <3> QED BY <3>4, <3>5, <3>6, <3>8
  <2> QED BY <2>1, <2>2
<1> QED BY <1>1, <1>3, <1>4

(* A string is cut into data.                                              *)
IsCut(s, w) ==
    /\ Len(s) = (Len(w) + BlockLen - 1) \div BlockLen
    /\ \A k \in 1 .. Len(s) :
          /\ s[k] \in Seq(Byte)
          /\ Len(s[k]) = Least(BlockLen * k, Len(w)) - BlockLen * (k - 1)
          /\ Placed(w, BlockLen * (k - 1), s[k])

(* ... and into how many pieces they are cut again.                        *)
LEMMA PieceCount ==
    ASSUME NEW n \in Nat, NEW m, m = (n + BlockLen - 1) \div BlockLen
    PROVE  m \in Nat /\ n <= BlockLen * m /\ \A k \in 1 .. m : BlockLen * (k - 1) < n
<1>0. BlockLen \in Nat /\ BlockLen > 0 BY Numbers
<1> DEFINE x == n + BlockLen - 1
           r == x % BlockLen
<1>1. x \in Nat BY <1>0
<1> HIDE DEF x
<1>2. m = x \div BlockLen BY DEF x
<1>3. m \in Nat /\ r \in 0 .. BlockLen - 1 /\ x = BlockLen * m + r
  BY ONLY <1>0, <1>1, <1>2, Division
<1> HIDE DEF r
<1>4. BlockLen * m \in Nat BY <1>0, <1>3
<1>5. n <= BlockLen * m BY <1>0, <1>3, <1>4 DEF x
<1>6. ASSUME NEW k \in 1 .. m PROVE BlockLen * (k - 1) < n
  <2>1. m - k \in Nat BY <1>3
  <2>2. BlockLen * m = BlockLen * (k - 1) + BlockLen + BlockLen * (m - k) BY <1>0, <1>3
  <2>3. BlockLen * (m - k) \in Nat BY <1>0, <2>1
  <2>4. k - 1 \in Nat BY <1>3
  <2>5. BlockLen * (k - 1) \in Nat BY <1>0, <2>4
  <2> QED BY <1>0, <1>3, <1>4, <2>2, <2>3, <2>5 DEF x
<1> QED BY <1>3, <1>5, <1>6

(* Pieces are strings of bytes.                                            *)
LEMMA PiecesType ==
    ASSUME NEW w \in Seq(Byte)
    PROVE  IsCut(Pieces(w), w) /\ IsData(Pieces(w))
<1>0. BlockLen \in Nat /\ BlockLen > 0 /\ Len(w) \in Nat BY Numbers, LenProperties
<1> DEFINE n == Len(w)
           m == (n + BlockLen - 1) \div BlockLen
           s == Pieces(w)
<1>1. m \in Nat /\ n <= BlockLen * m /\ \A k \in 1 .. m : BlockLen * (k - 1) < n
  BY <1>0, PieceCount
<1>2. s = [k \in 1 .. m |-> SubSeq(w, BlockLen * (k - 1) + 1, Least(BlockLen * k, n))]
  BY DEF Pieces
<1> HIDE DEF n, m, s
<1>3. ASSUME NEW k \in 1 .. m
      PROVE  /\ s[k] \in Piece /\ Len(s[k]) = Least(BlockLen * k, n) - BlockLen * (k - 1)
             /\ Placed(w, BlockLen * (k - 1), s[k])
             /\ k < m => Len(s[k]) = BlockLen
  <2> DEFINE b == BlockLen * (k - 1)
             e == Least(BlockLen * k, n)
             l == e - b
  <2>1. k - 1 \in Nat /\ k \in Nat BY <1>1
  <2>2. b \in Nat /\ BlockLen * k = b + BlockLen /\ BlockLen * k \in Nat
    <3>1. \A x \in Nat : BlockLen * x \in Nat BY <1>0
    <3>2. BlockLen * k = BlockLen * (k - 1) + BlockLen BY <1>0, <2>1
    <3> QED BY <2>1, <3>1, <3>2
  <2>3. b < n BY <1>1
  <2>4. n \in Nat BY <1>0 DEF n
  <2> HIDE DEF b
  <2>5. e \in {b + BlockLen, n} /\ e <= n /\ e <= b + BlockLen
    BY <2>2, <2>4 DEF Least
  <2> HIDE DEF e
  <2>6. l \in 1 .. BlockLen BY <1>0, <2>2, <2>3, <2>4, <2>5
  <2>7. b + l <= Len(w) /\ e = b + l BY <1>0, <2>2, <2>4, <2>5 DEF n
  <2> HIDE DEF l
  <2>8. s[k] = SubSeq(w, b + 1, e) BY <1>2 DEF b, e
  <2>9. /\ SubSeq(w, b + 1, e) \in Seq(Byte) /\ Len(SubSeq(w, b + 1, e)) = l
        /\ \A x \in 1 .. l : SubSeq(w, b + 1, e)[x] = w[b + x]
    <3>1. l \in Nat BY <1>0, <2>6
    <3> QED BY <2>2, <2>7, <3>1, PieceOf
  <2>10. s[k] \in Seq(Byte) /\ Len(s[k]) = l /\ \A x \in 1 .. l : s[k][x] = w[b + x]
    BY <2>8, <2>9
  <2>11. s[k] \in Piece BY <2>6, <2>10, LenProperties DEF Piece
  <2>12. Placed(w, b, s[k]) BY <2>10 DEF Placed
  <2>13. ASSUME k < m PROVE l = BlockLen
    <3>1. k + 1 \in 1 .. m /\ (k + 1) - 1 = k BY <1>1, <2>13
    <3>2. BlockLen * k < n BY <1>1, <3>1
    <3>3. e = b + BlockLen BY <2>2, <2>4, <3>2 DEF e, Least
    <3> QED BY <1>0, <2>2, <3>3 DEF l
  <2> QED BY <2>10, <2>11, <2>12, <2>13 DEF b, e, l
<1>4. s \in Seq(Piece) /\ Len(s) = m
  <2>1. \A k \in 1 .. m : s[k] \in Piece BY <1>3
  <2>2. s = [k \in 1 .. m |-> s[k]] BY <1>2
  <2>3. s \in [1 .. m -> Piece] BY <2>1, <2>2
  <2> QED BY <1>1, <2>3, StringLength
<1>5. IsData(s)
  <2>1. \A k \in 1 .. Len(s) - 1 : k \in 1 .. m /\ k < m BY <1>1, <1>4
  <2> QED BY <1>3, <1>4, <2>1 DEF IsData
<1>6. IsCut(s, w)
  <2>1. \A k \in 1 .. m : s[k] \in Seq(Byte) BY <1>3, PieceString
  <2> QED BY <1>3, <1>4, <2>1 DEF IsCut, n, m
<1> QED BY <1>5, <1>6 DEF s

(* A blob is the nonce and the text in one.  Cut behind a nonce of the     *)
(* usual length it gives both.                                             *)
CutAt(w, v, c) ==
    /\ <<SubSeq(w, 1, Least(NonceLen, Len(w)))>> = v
    /\ Pieces(SubSeq(w, NonceLen + 1, Len(w))) = c

(* Data that is written as one string is read back in the same blocks.     *)
LEMMA PiecesOfData ==
    ASSUME NEW c, IsData(c), NEW w, w = FlattenSeq(c)
    PROVE  Pieces(w) = c
<1>0. BlockLen \in Nat /\ BlockLen > 0 BY Numbers
<1>1. /\ w \in Seq(Byte) /\ Len(w) = Size(c) /\ Len(w) \in Nat
      /\ \A k \in 1 .. Len(c) : Placed(w, BlockLen * (k - 1), c[k])
  BY DataBytes, LenProperties
<1>2. PICK s : s = Pieces(w) OBVIOUS
<1>3. IsCut(s, w) /\ IsData(s) BY <1>1, <1>2, PiecesType
<1>4. PICK m : m = Len(s) OBVIOUS
<1>5. m \in Nat /\ Len(w) <= BlockLen * m BY <1>1, <1>3, <1>4, PieceCount DEF IsCut
<1>6. Size(s) = Len(w)
  <2>1. CASE m = 0
    <3>1. s = <<>> BY <1>3, <1>4, <2>1, EmptySeq DEF IsData
    <3>2. Len(w) <= 0 BY <1>0, <1>5, <2>1
    <3> QED BY <1>1, <3>1, <3>2, NoData
  <2>2. CASE m # 0
    <3>1. Len(s) > 0 /\ m \in 1 .. Len(s) /\ s # <<>> BY <1>4, <1>5, <2>2, EmptySeq
    <3>2. Last(s) = s[m] BY <1>3, <1>4, <3>1, SizeOfData
    <3>3. Len(s[m]) = Least(BlockLen * m, Len(w)) - BlockLen * (m - 1)
      BY <1>3, <3>1 DEF IsCut
    <3>4. Least(BlockLen * m, Len(w)) = Len(w)
      <4> DEFINE x == BlockLen * m
      <4>1. x \in Nat /\ Len(w) <= x BY <1>0, <1>5
      <4> HIDE DEF x
      <4> QED BY <1>1, <4>1 DEF Least, x
    <3>5. Size(s) = BlockLen * (m - 1) + Len(s[m]) BY <1>4, <3>1, <3>2 DEF Size
    <3>6. BlockLen * (m - 1) \in Int BY <1>0, <1>5
    <3> QED BY <1>1, <3>3, <3>4, <3>5, <3>6
  <2> QED BY <2>1, <2>2
<1>7. Len(s) = Len(c) /\ \A j \in 1 .. Len(s) : Len(s[j]) = Len(c[j])
  BY <1>1, <1>3, <1>6, SizeShape
<1>8. ASSUME NEW j \in 1 .. Len(s) PROVE s[j] = c[j]
  <2>1. s[j] \in Seq(Byte) /\ c[j] \in Seq(Byte)
    <3>1. s[j] \in Piece /\ c[j] \in Piece BY <1>3, <1>7, DataPieces
    <3> QED BY <3>1, PieceString
  <2>2. Placed(w, BlockLen * (j - 1), s[j]) /\ Placed(w, BlockLen * (j - 1), c[j])
    BY <1>1, <1>3, <1>7 DEF IsCut
  <2>3. \A x \in 1 .. Len(s[j]) : s[j][x] = c[j][x] BY <1>7, <2>2 DEF Placed
  <2> QED BY <1>7, <2>1, <2>3, SeqEqual
<1>9. s \in Seq(Piece) /\ c \in Seq(Piece) BY <1>3 DEF IsData
<1> QED BY <1>2, <1>7, <1>8, <1>9, SeqEqual

(* A blob is cut where nonce, ciphertext and tag were put together.        *)
LEMMA BlobCut ==
    ASSUME NEW v, NEW c, IsData(v), Size(v) = NonceLen, IsData(c),
           NEW w, w = FlattenSeq(v) \o FlattenSeq(c)
    PROVE  CutAt(w, v, c)
<1>0. BlockLen \in Nat /\ NonceLen \in Nat /\ NonceLen > 0 BY Numbers
<1>1. PICK x : x = FlattenSeq(v) OBVIOUS
<1>2. PICK y : y = FlattenSeq(c) OBVIOUS
<1>3. /\ v \in Seq(Piece) /\ Len(v) = 1 /\ v[1] \in Seq(Byte) /\ Len(v[1]) = NonceLen
  BY UsualNonce
<1>4. /\ x \in Seq(Byte) /\ Len(x) = NonceLen
      /\ \A k \in 1 .. Len(v) : Placed(x, BlockLen * (k - 1), v[k])
  BY <1>1, DataBytes
<1>5. y \in Seq(Byte) /\ Len(y) \in Nat BY <1>2, DataBytes, LenProperties
<1>6. x = v[1]
  <2>1. 1 \in 1 .. Len(v) /\ BlockLen * (1 - 1) = 0 BY <1>0, <1>3
  <2>2. Placed(x, 0, v[1]) BY <1>4, <2>1
  <2>3. \A j \in 1 .. Len(v[1]) : x[j] = v[1][j] BY <1>0, <1>3, <2>2 DEF Placed
  <2> QED BY <1>3, <1>4, <2>3, SeqEqual
<1>7. <<x>> = v
  <2> DEFINE u == <<x>>
  <2>1. x \in Piece
    <3>1. 1 \in 1 .. Len(v) BY <1>3
    <3> QED BY <1>3, <1>6, <3>1, ElementOfSeq
  <2>2. u \in Seq(Piece) /\ Len(u) = 1 /\ u[1] = x BY <2>1
  <2> HIDE DEF u
  <2>3. \A j \in 1 .. Len(u) : u[j] = v[j] BY <1>6, <2>2
  <2> QED BY <1>3, <2>2, <2>3, SeqEqual DEF u
<1>8. w \in Seq(Byte) /\ IsConcat(w, x, y) BY <1>1, <1>2, <1>4, <1>5, ConcatParts
<1>9. Len(w) = NonceLen + Len(y) BY <1>4, <1>8 DEF IsConcat
<1>10. Least(NonceLen, Len(w)) = NonceLen BY <1>0, <1>5, <1>9, ShorterFirst
<1>11. SubSeq(w, 1, NonceLen) = x
  <2>1. 0 + NonceLen <= Len(w) /\ 0 \in Nat /\ 1 = 0 + 1 /\ NonceLen = 0 + NonceLen
    BY <1>0, <1>5, <1>9
  <2>2. PICK b : b = SubSeq(w, 1, NonceLen) OBVIOUS
  <2>3. /\ b \in Seq(Byte) /\ Len(b) = NonceLen
        /\ \A j \in 1 .. NonceLen : b[j] = w[0 + j]
    BY ONLY <1>0, <1>8, <2>1, <2>2, PieceOf
  <2>4. \A j \in 1 .. NonceLen : b[j] = w[j]
    <3>1. \A j \in 1 .. NonceLen : 0 + j = j BY <1>0
    <3> QED BY ONLY <2>3, <3>1
  <2>5. \A j \in 1 .. NonceLen : w[j] = x[j] BY <1>4, <1>8 DEF IsConcat
  <2>6. \A j \in 1 .. Len(b) : b[j] = x[j] BY ONLY <2>3, <2>4, <2>5
  <2>7. b = x BY ONLY <1>4, <2>3, <2>6, SeqEqual
  <2> QED BY <2>2, <2>7
<1>12. SubSeq(w, NonceLen + 1, Len(w)) = y
  <2>1. PICK d, e, k : d = NonceLen + 1 /\ e = Len(w) /\ k = Len(y) OBVIOUS
  <2>2. PICK b : b = SubSeq(w, d, e) OBVIOUS
  <2>3. k \in Nat /\ NonceLen \in Nat /\ NonceLen + k <= Len(w) /\ d = NonceLen + 1
        /\ e = NonceLen + k /\ w \in Seq(Byte)
    BY <1>0, <1>5, <1>8, <1>9, <2>1
  <2>4. /\ b \in Seq(Byte) /\ Len(b) = k
        /\ \A j \in 1 .. k : b[j] = w[NonceLen + j]
    BY ONLY <2>2, <2>3, PieceOf
  <2>5. \A j \in 1 .. Len(b) : b[j] = y[j] BY <1>4, <1>8, <2>1, <2>4 DEF IsConcat
  <2>6. b = y BY <1>5, <2>1, <2>5, <2>4, SeqEqual
  <2> QED BY <2>1, <2>2, <2>6
<1>13. Pieces(y) = c BY <1>2, PiecesOfData
<1> QED BY <1>7, <1>10, <1>11, <1>12, <1>13 DEF CutAt

-----------------------------------------------------------------------------
(* Counters and chaining values as functions of what was done so far, for  *)
(* mode m and vector v: c is the ciphertext, p the plaintext, and u the    *)
(* inputs of the key stream.                                               *)
Streams == {"ctr", "gcm", "chacha"}
Chains  == {"cbc", "ige"}

Input == Block \cup (Ivs["chacha"] \X (0 .. CounterMod - 1))

IsCounter(m, k) == IF m = "gcm" THEN k \in Block ELSE k \in Nat

InputAt(m, v, k) ==
    CASE m = "ctr"    -> SubSeq(v, 1, Half) \o ToBytes(k, BlockLen - Half)
      [] m = "gcm"    -> k
      [] m = "chacha" -> <<v, k % CounterMod>>

StreamAt(m, input) == IF m = "chacha" THEN ChaChaBlock[input] ELSE EncryptBlock[input]

CounterAfter(m, v, u, n) ==
    IF m # "gcm" THEN FirstCounter(m, v) + n
    ELSE IF n = 0 THEN FirstCounter(m, v) ELSE Inc(u[n])

ChainAfter(m, v, c, p, n) ==
    [c |-> IF n # 0 THEN c[n] ELSE IF m = "cbc" THEN v ELSE v[1],
     p |-> IF m = "cbc" THEN v ELSE IF n # 0 THEN p[n] ELSE v[2]]

CipherAt(m, v, c, p, u, n) ==
    CASE m = "cbc" -> EncryptBlock[Xor(p[n], ChainAfter(m, v, c, p, n - 1).c)]
      [] m = "ige" -> Xor(EncryptBlock[Xor(p[n], ChainAfter(m, v, c, p, n - 1).c)],
                          ChainAfter(m, v, c, p, n - 1).p)
      [] OTHER     -> Xor(p[n], StreamAt(m, u[n]))

(* A call, and what it has made of its text so far.                        *)
IsCall(m, v, p) ==
    /\ m \in Modes /\ v \in Ivs[m]
    /\ p \in Seq(Piece)
    /\ m \in Chains => p \in Seq(Block)

StreamMade(m, v, c, u) ==
    /\ u \in Seq(Input) /\ Len(u) = Len(c)
    /\ \A n \in 0 .. Len(u) : IsCounter(m, CounterAfter(m, v, u, n))
    /\ \A n \in 1 .. Len(u) : u[n] = InputAt(m, v, CounterAfter(m, v, u, n - 1))

Made(m, v, c, p, u) ==
    /\ c \in Seq(Piece) /\ Len(c) <= Len(p)
    /\ m \in Chains => c \in Seq(Block)
    /\ m \in Streams => StreamMade(m, v, c, u)
    /\ \A n \in 1 .. Len(c) : c[n] = CipherAt(m, v, c, p, u, n)

-----------------------------------------------------------------------------
(* The key stream is made of blocks.                                       *)
LEMMA IncType ==
    ASSUME NEW b \in Block
    PROVE  Inc(b) \in Block
<1>0. Base \in Nat /\ Base > 1 BY Numbers
<1>1. \A j \in 1 .. BlockLen : b[j] \in 0 .. Base - 1 BY DEF Block, Byte
<1>2. \A j \in 1 .. BlockLen : (b[j] + 1) % Base \in 0 .. Base - 1 BY <1>0, <1>1
<1> QED BY <1>1, <1>2 DEF Inc, Block, Byte

(* The bytes behind the nonce are those of a number.                       *)
CountLen == BlockLen - NonceLen

CountsTo(b, k) ==
    /\ b \in Block
    /\ \A m \in Nat : m < CountLen => b[BlockLen - m] = (k \div Power[m]) % Base

(* A counter is some number, written in bytes behind the nonce.            *)
LEMMA SomeCount ==
    ASSUME NEW b \in Block
    PROVE  \E k \in Nat : CountsTo(b, k)
<1>0. /\ Base \in Nat /\ Base > 0 /\ BlockLen \in Nat /\ CountLen \in Nat /\ CountLen < BlockLen
      /\ Powers(Base, Power)
  BY Numbers, PowerDefined DEF CountLen
<1> DEFINE d == [m \in Nat |-> IF m < CountLen THEN b[BlockLen - m] ELSE 0]
<1>1. \A m \in Nat : m < CountLen => d[m] = b[BlockLen - m] OBVIOUS
<1>2. d \in [Nat -> 0 .. Base - 1]
  <2>1. ASSUME NEW m \in Nat
        PROVE  (IF m < CountLen THEN b[BlockLen - m] ELSE 0) \in 0 .. Base - 1
    <3>1. CASE m < CountLen
      <4>1. BlockLen - m \in 1 .. BlockLen BY <1>0, <3>1
      <4>2. b[BlockLen - m] \in Byte BY <4>1 DEF Block
      <4> QED BY <3>1, <4>2 DEF Byte
    <3>2. CASE ~(m < CountLen) BY <1>0, <3>2
    <3> QED BY <3>1, <3>2
  <2> QED BY <2>1
<1> HIDE DEF d
<1>3. \E k \in Nat : Writes(Base, Power, k, d, CountLen) BY ONLY <1>0, <1>2, DigitsExist
<1>4. PICK k \in Nat : \A m \in Nat : m < CountLen => (k \div Power[m]) % Base = d[m]
  BY <1>3 DEF Writes
<1>5. CountsTo(b, k) BY <1>1, <1>4 DEF CountsTo
<1> QED BY <1>5

(* Inc() adds one to that number.                                          *)
LEMMA IncCounts ==
    ASSUME NEW b, NEW k \in Nat, CountsTo(b, k)
    PROVE  CountsTo(Inc(b), k + 1)
<1>0. /\ Base \in Nat /\ Base > 0 /\ BlockLen \in Nat /\ NonceLen \in Nat /\ NonceLen < BlockLen
      /\ CountLen \in Nat /\ CountLen = BlockLen - NonceLen
      /\ Powers(Base, Power)
  BY Numbers, PowerDefined DEF CountLen
<1>1. /\ b \in Block
      /\ \A m \in Nat : m < CountLen => b[BlockLen - m] = (k \div Power[m]) % Base
  BY DEF CountsTo
<1>2. Inc(b) \in Block BY <1>1, IncType
<1>3. ASSUME NEW m \in Nat, m < CountLen
      PROVE  Inc(b)[BlockLen - m] = ((k + 1) \div Power[m]) % Base
  <2> DEFINE Below == \A x \in BlockLen - m + 1 .. BlockLen : b[x] = Base - 1
             All == \A h \in Nat : h < m => (k \div Power[h]) % Base = Base - 1
  <2>1. BlockLen - m \in 1 .. BlockLen /\ BlockLen - m > NonceLen BY <1>0, <1>3
  <2>2. Inc(b)[BlockLen - m] = IF Below THEN (b[BlockLen - m] + 1) % Base ELSE b[BlockLen - m]
    BY <2>1 DEF Inc
  <2>3. Below <=> All
    <3>1. ASSUME Below, NEW h \in Nat, h < m PROVE (k \div Power[h]) % Base = Base - 1
      <4>1. BlockLen - h \in BlockLen - m + 1 .. BlockLen BY <1>0, <1>3, <3>1
      <4>2. b[BlockLen - h] = Base - 1 BY <3>1, <4>1
      <4>3. h < CountLen BY <1>0, <1>3, <3>1
      <4> QED BY <1>1, <4>2, <4>3
    <3>2. ASSUME All, NEW x \in BlockLen - m + 1 .. BlockLen PROVE b[x] = Base - 1
      <4>1. BlockLen - x \in Nat /\ BlockLen - x < m /\ BlockLen - x < CountLen
            /\ BlockLen - (BlockLen - x) = x
        BY <1>0, <1>3
      <4>2. (k \div Power[BlockLen - x]) % Base = Base - 1 BY <3>2, <4>1
      <4>3. b[BlockLen - (BlockLen - x)] = (k \div Power[BlockLen - x]) % Base BY <1>1, <4>1
      <4> QED BY <4>1, <4>2, <4>3
    <3> QED BY <3>1, <3>2
  <2>4. ((k + 1) \div Power[m]) % Base =
            IF All THEN (((k \div Power[m]) % Base) + 1) % Base ELSE (k \div Power[m]) % Base
    BY <1>0, NextDigit
  <2>5. b[BlockLen - m] = (k \div Power[m]) % Base BY <1>1, <1>3
  <2> HIDE DEF Below, All
  <2> QED BY <2>2, <2>3, <2>4, <2>5
<1> QED BY <1>2, <1>3 DEF CountsTo

(* Counters that are less than a whole round apart are different.          *)
LEMMA RoundApart ==
    ASSUME NEW p \in Nat, p > 0, NEW k \in Nat, NEW m \in Nat, NEW n \in Nat,
           m < p, n < p, (k + m) % p = (k + n) % p
    PROVE  m = n
<1> DEFINE a == k + m
           b == k + n
           q == a \div p
           r == b \div p
           s == a % p
<1>0. a \in Nat /\ b \in Nat /\ a % p = b % p OBVIOUS
<1> HIDE DEF a, b
<1>1. q \in Nat /\ a = p * q + s BY ONLY <1>0, p \in Nat, p > 0, Division
<1>2. r \in Nat /\ b = p * r + s
  <2>1. r \in Nat /\ b = p * r + (b % p) BY ONLY <1>0, p \in Nat, p > 0, Division
  <2> QED BY ONLY <1>0, <2>1
<1>3. s \in 0 .. p - 1 BY <1>0
<1> HIDE DEF q, r, s
<1>4. a - b < p /\ b - a < p BY DEF a, b
<1>5. ~(q > r)
  <2> SUFFICES ASSUME q > r PROVE FALSE OBVIOUS
  <2>1. PICK d \in Nat : q = r + 1 + d
    <3>1. q - r - 1 \in Nat /\ q = r + 1 + (q - r - 1) BY <1>1, <1>2
    <3> QED BY <3>1
  <2>2. p * q = p * r + p + p * d BY <1>2, <2>1
  <2>3. p * d \in Nat /\ p * r \in Nat BY <1>2, <2>1
  <2> QED BY <1>1, <1>2, <1>3, <1>4, <2>2, <2>3
<1>6. ~(r > q)
  <2> SUFFICES ASSUME r > q PROVE FALSE OBVIOUS
  <2>1. PICK d \in Nat : r = q + 1 + d
    <3>1. r - q - 1 \in Nat /\ r = q + 1 + (r - q - 1) BY <1>1, <1>2
    <3> QED BY <3>1
  <2>2. p * r = p * q + p + p * d BY <1>1, <2>1
  <2>3. p * d \in Nat /\ p * q \in Nat BY <1>1, <2>1
  <2> QED BY <1>1, <1>2, <1>3, <1>4, <2>2, <2>3
<1>7. q = r BY <1>1, <1>2, <1>5, <1>6
<1>8. a = b BY <1>1, <1>2, <1>7
<1> QED BY <1>8 DEF a, b

(* Numbers less than a whole round apart are written differently.          *)
LEMMA CountsApart ==
    ASSUME NEW b, NEW k \in Nat, NEW m \in Nat, NEW n \in Nat,
           m < Power[CountLen], n < Power[CountLen], CountsTo(b, k + m), CountsTo(b, k + n)
    PROVE  m = n
<1>0. /\ Base \in Nat /\ Base > 0 /\ CountLen \in Nat /\ Powers(Base, Power)
      /\ Power[CountLen] \in Nat /\ Power[CountLen] > 0
  BY Numbers, PowerDefined DEF CountLen
<1> DEFINE x == k + m
           y == k + n
<1>1. x \in Nat /\ y \in Nat OBVIOUS
<1>2. \A h \in Nat : h < CountLen => (x \div Power[h]) % Base = (y \div Power[h]) % Base
  BY DEF CountsTo
<1> HIDE DEF x, y
<1>3. x % Power[CountLen] = y % Power[CountLen] BY ONLY <1>0, <1>1, <1>2, DigitsAgree
<1> DEFINE p == Power[CountLen]
<1>4. p \in Nat /\ p > 0 /\ m < p /\ n < p /\ (k + m) % p = (k + n) % p BY <1>0, <1>3 DEF x, y
<1> HIDE DEF p
<1> QED BY <1>4, RoundApart

(* j0 is a block, whatever the length of the nonce.                        *)
LEMMA FirstBlockType ==
    ASSUME NEW v \in Ivs["gcm"]
    PROVE  J0(v) \in Block
<1>0. /\ BlockLen \in Nat /\ NonceLen \in Nat /\ NonceLen > 0 /\ NonceLen < BlockLen
      /\ 1 \in Nat /\ BlockLen - NonceLen \in Nat
  BY Numbers
<1>1. IsData(v) BY ModesAssumption
<1>2. CASE Size(v) = NonceLen
  <2>1. PICK h \in Seq(Byte) : h = Head(v) /\ Len(h) = NonceLen BY <1>1, <1>2, UsualNonce
  <2>2. PICK t \in Seq(Byte) :
            t = ToBytes(1, BlockLen - NonceLen) /\ Len(t) = BlockLen - NonceLen
    BY <1>0, ToBytesType
  <2>3. NonceLen + (BlockLen - NonceLen) = BlockLen BY <1>0
  <2>4. Len(h) + Len(t) = BlockLen BY ONLY <2>1, <2>2, <2>3
  <2>5. h \o t \in Block BY <2>4, Joined
  <2> QED BY <1>2, <2>1, <2>2, <2>5 DEF J0
<1>3. CASE Size(v) # NonceLen BY <1>1, <1>3, HashedNonce DEF J0
<1> QED BY <1>2, <1>3

(* The counter of the first block is one, ...                              *)
LEMMA CounterStarts ==
    ASSUME NEW m \in Streams, NEW v \in Ivs[m]
    PROVE  IsCounter(m, FirstCounter(m, v))
<1>1. CASE m = "gcm"
  <2>1. Inc(J0(v)) \in Block BY <1>1, FirstBlockType, IncType
  <2> QED BY <1>1, <2>1 DEF IsCounter, FirstCounter
<1>2. CASE m # "gcm" BY <1>2 DEF Streams, IsCounter, FirstCounter
<1> QED BY <1>1, <1>2

(* ... a block of the stream is made of it, ...                            *)
LEMMA StreamType ==
    ASSUME NEW m \in Streams, NEW v \in Ivs[m], NEW k, IsCounter(m, k)
    PROVE  InputAt(m, v, k) \in Input /\ StreamAt(m, InputAt(m, v, k)) \in Block
<1>0. BlockLen \in Nat /\ Half \in Nat /\ Half <= BlockLen BY Numbers
<1>1. CASE m = "ctr"
  <2>1. v \in Block BY <1>1, ModesAssumption
  <2>2. \A j \in 1 .. Half : v[j] \in Byte BY <1>0, <2>1 DEF Block
  <2>3. SubSeq(v, 1, Half) \in Seq(Byte) /\ Len(SubSeq(v, 1, Half)) = Half
    BY <1>0, <2>2, SubSeqProperties
  <2>4. k \in Nat /\ BlockLen - Half \in Nat BY <1>0, <1>1 DEF IsCounter
  <2>5. /\ ToBytes(k, BlockLen - Half) \in Seq(Byte)
        /\ Len(ToBytes(k, BlockLen - Half)) = BlockLen - Half
    BY <2>4, ToBytesType
  <2>6. Len(SubSeq(v, 1, Half)) + Len(ToBytes(k, BlockLen - Half)) = BlockLen
    BY <1>0, <2>3, <2>5
  <2>7. SubSeq(v, 1, Half) \o ToBytes(k, BlockLen - Half) \in Block
    BY <2>3, <2>5, <2>6, Joined
  <2>8. InputAt(m, v, k) \in Block BY <1>1, <2>7 DEF InputAt
  <2> QED BY <1>1, <2>8, BlockUndone DEF Input, StreamAt
<1>2. CASE m = "gcm"
  <2>1. InputAt(m, v, k) \in Block BY <1>2 DEF InputAt, IsCounter
  <2> QED BY <1>2, <2>1, BlockUndone DEF Input, StreamAt
<1>3. CASE m = "chacha"
  <2>1. InputAt(m, v, k) = <<v, k % CounterMod>> BY <1>3 DEF InputAt
  <2>2. k \in Nat /\ CounterMod \in Nat /\ CounterMod > 0 BY <1>3, Numbers DEF IsCounter
  <2>3. k % CounterMod \in 0 .. CounterMod - 1 BY <2>2
  <2>4. ChaChaBlock[<<v, k % CounterMod>>] \in Block BY <1>3, <2>3, ModesAssumption
  <2> QED BY <1>3, <2>1, <2>3, <2>4 DEF Input, StreamAt
<1> QED BY <1>1, <1>2, <1>3 DEF Streams

(* ... and the next one is a counter again.                                *)
LEMMA CounterGoesOn ==
    ASSUME NEW m \in Streams, NEW v \in Ivs[m], NEW k, IsCounter(m, k)
    PROVE  IsCounter(m, IF m = "gcm" THEN Inc(k) ELSE k + 1)
<1>1. CASE m = "gcm" BY <1>1, IncType DEF IsCounter
<1>2. CASE m # "gcm" BY <1>2 DEF IsCounter
<1> QED BY <1>1, <1>2

-----------------------------------------------------------------------------
(* One more piece of a chained mode: the chaining values are blocks, and   *)
(* what is appended does not change what came before.                      *)
LEMMA ChainType ==
    ASSUME NEW m \in Chains, NEW v, NEW p, NEW c, NEW u,
           IsCall(m, v, p), Made(m, v, c, p, u),
           NEW n \in 0 .. Len(c)
    PROVE  /\ ChainAfter(m, v, c, p, n).c \in Block
           /\ m = "ige" => ChainAfter(m, v, c, p, n).p \in Block
<1>1. /\ c \in Seq(Block) /\ p \in Seq(Block) /\ Len(c) \in Nat /\ Len(p) \in Nat
      /\ Len(c) <= Len(p)
  BY LenProperties DEF IsCall, Made
<1>2. n # 0 => c[n] \in Block /\ p[n] \in Block BY <1>1, ElementOfSeq
<1>3. IF m = "cbc" THEN v \in Block ELSE v \in Block \X Block
  BY ModesAssumption DEF IsCall, Chains
<1> QED BY <1>2, <1>3 DEF ChainAfter, Chains

(* One block more of CBC, IGE and the like.                                *)
LEMMA ChainGrows ==
    ASSUME NEW m \in Chains, NEW v, NEW p, NEW c, NEW u,
           IsCall(m, v, p), Made(m, v, c, p, u), Len(c) < Len(p),
           NEW b, b = CipherAt(m, v, c, p, u, Len(c) + 1)
    PROVE  b \in Block /\ Made(m, v, Append(c, b), p, u)
<1>1. /\ c \in Seq(Piece) /\ c \in Seq(Block) /\ p \in Seq(Block)
      /\ Len(c) \in Nat /\ Len(p) \in Nat
  BY LenProperties DEF IsCall, Made
<1>2. PICK n \in Nat : n = Len(c) BY <1>1
<1>3. PICK x : x = ChainAfter(m, v, c, p, n) OBVIOUS
<1>4. x.c \in Block /\ (m = "ige" => x.p \in Block) BY <1>1, <1>2, <1>3, ChainType
<1>5. p[n + 1] \in Block BY <1>1, <1>2, ElementOfSeq
<1>6. Xor(p[n + 1], x.c) \in Block BY <1>4, <1>5, XorBlocks
<1>7. EncryptBlock[Xor(p[n + 1], x.c)] \in Block BY <1>6, BlockUndone
<1>8. b = IF m = "cbc" THEN EncryptBlock[Xor(p[n + 1], x.c)]
          ELSE Xor(EncryptBlock[Xor(p[n + 1], x.c)], x.p)
  BY <1>2, <1>3 DEF CipherAt, Chains
<1>9. b \in Block BY <1>4, <1>7, <1>8, XorBlocks DEF Chains
<1>10. b \in Piece BY <1>9, BlockString
<1>11. PICK d \in Seq(Block) :
           /\ d = Append(c, b) /\ d \in Seq(Piece) /\ Len(d) = n + 1
           /\ \A j \in 1 .. n : d[j] = c[j]
           /\ d[n + 1] = b
  BY <1>1, <1>2, <1>9, <1>10, AppendProperties
<1>12. \A j \in 0 .. n : ChainAfter(m, v, d, p, j) = ChainAfter(m, v, c, p, j)
  BY <1>11 DEF ChainAfter
<1>13. \A j \in 1 .. n + 1 : CipherAt(m, v, d, p, u, j) = CipherAt(m, v, c, p, u, j)
  BY <1>12 DEF CipherAt, Chains
<1>14. \A j \in 1 .. n : c[j] = CipherAt(m, v, c, p, u, j) BY <1>2 DEF Made
<1>15. \A j \in 1 .. Len(d) : d[j] = CipherAt(m, v, d, p, u, j)
  <2> TAKE j \in 1 .. Len(d)
  <2>1. CASE j = n + 1 BY <2>1, <1>2, <1>11, <1>13
  <2>2. CASE j # n + 1
    <3>1. j \in 1 .. n BY <2>2, <1>11
    <3> QED BY <3>1, <1>11, <1>13, <1>14
  <2> QED BY <2>1, <2>2
<1>16. Len(d) <= Len(p) BY <1>1, <1>2, <1>11
<1>17. m \notin Streams BY DEF Chains, Streams
<1> QED BY <1>9, <1>11, <1>15, <1>16, <1>17 DEF Made

(* What the receiver makes of it, with the chaining values of the sender.  *)
LEMMA ChainUndone ==
    ASSUME NEW m \in Chains, NEW v, NEW p, NEW c, NEW u,
           IsCall(m, v, p), Made(m, v, c, p, u),
           NEW n \in 1 .. Len(c),
           NEW x, x = ChainAfter(m, v, c, p, n - 1)
    PROVE  /\ p[n] \in Block /\ c[n] \in Block
           /\ m = "cbc" => Xor(DecryptBlock[c[n]], x.c) = p[n]
           /\ m = "ige" => Xor(DecryptBlock[Xor(c[n], x.p)], x.c) = p[n]
<1>1. /\ c \in Seq(Block) /\ p \in Seq(Block) /\ Len(c) \in Nat /\ Len(p) \in Nat
      /\ Len(c) <= Len(p)
  BY LenProperties DEF IsCall, Made
<1>2. p[n] \in Block /\ c[n] \in Block BY <1>1, ElementOfSeq
<1>3. n - 1 \in 0 .. Len(c) BY <1>1
<1>4. x.c \in Block /\ (m = "ige" => x.p \in Block) BY <1>3, ChainType
<1>5. PICK y \in Block : y = Xor(p[n], x.c) /\ Xor(y, x.c) = p[n] BY <1>2, <1>4, XorBlocks
<1>6. PICK z \in Block : z = EncryptBlock[y] /\ DecryptBlock[z] = y BY BlockUndone
<1>7. c[n] = CipherAt(m, v, c, p, u, n) BY DEF Made
<1>8. m = "cbc" => c[n] = z BY <1>5, <1>6, <1>7 DEF CipherAt
<1>9. ASSUME m = "ige" PROVE Xor(c[n], x.p) = z
  <2>1. c[n] = Xor(z, x.p) BY <1>5, <1>6, <1>7, <1>9 DEF CipherAt
  <2> QED BY <1>4, <1>9, <2>1, XorBlocks
<1> QED BY <1>2, <1>5, <1>6, <1>8, <1>9

-----------------------------------------------------------------------------
(* One more piece of a stream.                                             *)
LEMMA NothingMade ==
    ASSUME NEW m, NEW v, NEW p, IsCall(m, v, p)
    PROVE  Made(m, v, <<>>, p, <<>>)
<1>1. /\ <<>> \in Seq(Piece) /\ <<>> \in Seq(Block) /\ <<>> \in Seq(Input)
      /\ Len(<<>>) = 0
  BY EmptySeq
<1>2. Len(p) \in Nat BY LenProperties DEF IsCall
<1>3. ASSUME m \in Streams PROVE StreamMade(m, v, <<>>, <<>>)
  <2>1. v \in Ivs[m] BY DEF IsCall
  <2>2. IsCounter(m, FirstCounter(m, v)) BY <1>3, <2>1, CounterStarts
  <2>3. CounterAfter(m, v, <<>>, 0) = FirstCounter(m, v)
    <3>1. CASE m = "gcm" BY <3>1 DEF CounterAfter
    <3>2. CASE m # "gcm"
      <4>1. FirstCounter(m, v) \in Nat BY <2>2, <3>2 DEF IsCounter
      <4> QED BY <3>2, <4>1 DEF CounterAfter
    <3> QED BY <3>1, <3>2
  <2> QED BY <1>1, <2>2, <2>3 DEF StreamMade
<1> QED BY <1>1, <1>2, <1>3 DEF Made

(* One block more of a key stream.                                         *)
LEMMA StreamGrows ==
    ASSUME NEW m \in Streams, NEW v, NEW p, NEW c, NEW u,
           IsCall(m, v, p), Made(m, v, c, p, u), Len(c) < Len(p),
           NEW k, k = CounterAfter(m, v, u, Len(c)),
           NEW w, w = InputAt(m, v, k)
    PROVE  /\ Made(m, v, Append(c, Xor(p[Len(c) + 1], StreamAt(m, w))), p, Append(u, w))
           /\ CounterAfter(m, v, Append(u, w), Len(c) + 1) = IF m = "gcm" THEN Inc(k) ELSE k + 1
<1>1. /\ c \in Seq(Piece) /\ p \in Seq(Piece) /\ Len(c) \in Nat /\ Len(p) \in Nat
      /\ v \in Ivs[m] /\ StreamMade(m, v, c, u)
  BY LenProperties DEF IsCall, Made
<1>2. PICK n \in Nat : n = Len(c) BY <1>1
<1>3. /\ u \in Seq(Input) /\ Len(u) = n
      /\ \A j \in 0 .. n : IsCounter(m, CounterAfter(m, v, u, j))
      /\ \A j \in 1 .. n : u[j] = InputAt(m, v, CounterAfter(m, v, u, j - 1))
  BY <1>1, <1>2 DEF StreamMade
<1>4. k = CounterAfter(m, v, u, n) /\ IsCounter(m, k) BY <1>2, <1>3
<1>5. w \in Input /\ StreamAt(m, w) \in Block BY <1>1, <1>4, StreamType
<1>6. p[n + 1] \in Piece BY <1>1, <1>2, ElementOfSeq
<1>7. PICK b \in Piece : b = Xor(p[n + 1], StreamAt(m, w)) BY <1>5, <1>6, XorUndone
<1>8. PICK d \in Seq(Piece) :
          /\ d = Append(c, b) /\ Len(d) = n + 1 /\ d[n + 1] = b
          /\ \A j \in 1 .. n : d[j] = c[j]
  <2>1. /\ Append(c, b) \in Seq(Piece) /\ Len(Append(c, b)) = Len(c) + 1
        /\ \A j \in 1 .. Len(c) : Append(c, b)[j] = c[j]
        /\ Append(c, b)[Len(c) + 1] = b
    BY <1>1, AppendProperties
  <2> QED BY <2>1, <1>2
<1>9. PICK t \in Seq(Input) :
          /\ t = Append(u, w) /\ Len(t) = n + 1 /\ t[n + 1] = w
          /\ \A j \in 1 .. n : t[j] = u[j]
  <2>1. /\ Append(u, w) \in Seq(Input) /\ Len(Append(u, w)) = Len(u) + 1
        /\ \A j \in 1 .. Len(u) : Append(u, w)[j] = u[j]
        /\ Append(u, w)[Len(u) + 1] = w
    BY <1>3, <1>5, AppendProperties
  <2> QED BY <2>1, <1>3
<1>10. \A j \in 0 .. n : CounterAfter(m, v, t, j) = CounterAfter(m, v, u, j)
  BY <1>9 DEF CounterAfter
<1>11. CounterAfter(m, v, t, n + 1) = IF m = "gcm" THEN Inc(k) ELSE k + 1
  <2>1. CASE m = "gcm"
    <3>1. w = k BY <2>1 DEF InputAt
    <3>2. n + 1 # 0 OBVIOUS
    <3> QED BY <1>9, <2>1, <3>1, <3>2 DEF CounterAfter
  <2>2. CASE m # "gcm"
    <3>1. FirstCounter(m, v) \in Nat BY <2>2 DEF FirstCounter, Streams
    <3>2. k = FirstCounter(m, v) + n BY <1>4, <2>2 DEF CounterAfter
    <3>3. CounterAfter(m, v, t, n + 1) = FirstCounter(m, v) + (n + 1)
      BY <2>2 DEF CounterAfter
    <3> QED BY <2>2, <3>1, <3>2, <3>3
  <2> QED BY <2>1, <2>2
<1>12. IsCounter(m, CounterAfter(m, v, t, n + 1))
  BY ONLY <1>1, <1>4, <1>11, CounterGoesOn, m \in Streams
<1>13. \A j \in 0 .. Len(t) : IsCounter(m, CounterAfter(m, v, t, j))
  <2> TAKE j \in 0 .. Len(t)
  <2>1. CASE j = n + 1 BY <2>1, <1>12
  <2>2. CASE j # n + 1
    <3>1. j \in 0 .. n BY <2>2, <1>9
    <3> QED BY <3>1, <1>3, <1>10
  <2> QED BY <2>1, <2>2
<1>14. \A j \in 1 .. Len(t) : t[j] = InputAt(m, v, CounterAfter(m, v, t, j - 1))
  <2> TAKE j \in 1 .. Len(t)
  <2>1. j - 1 \in 0 .. n BY <1>9
  <2>2. CounterAfter(m, v, t, j - 1) = CounterAfter(m, v, u, j - 1) BY <2>1, <1>10
  <2>3. CASE j = n + 1
    <3>1. j - 1 = n BY <2>3
    <3> QED BY <2>2, <2>3, <3>1, <1>4, <1>9
  <2>4. CASE j # n + 1
    <3>1. j \in 1 .. n BY <2>4, <1>9
    <3> QED BY <2>2, <3>1, <1>3, <1>9
  <2> QED BY <2>3, <2>4
<1>15. StreamMade(m, v, d, t) BY <1>8, <1>9, <1>13, <1>14 DEF StreamMade
<1>16. \A j \in 1 .. Len(d) : d[j] = CipherAt(m, v, d, p, t, j)
  <2> TAKE j \in 1 .. Len(d)
  <2>1. CipherAt(m, v, d, p, t, j) = Xor(p[j], StreamAt(m, t[j]))
    BY DEF CipherAt, Streams
  <2>2. CASE j = n + 1 BY <2>1, <2>2, <1>7, <1>8, <1>9
  <2>3. CASE j # n + 1
    <3>1. j \in 1 .. n BY <2>3, <1>8
    <3>2. c[j] = CipherAt(m, v, c, p, u, j) BY <3>1, <1>2 DEF Made
    <3>3. CipherAt(m, v, c, p, u, j) = Xor(p[j], StreamAt(m, u[j]))
      BY DEF CipherAt, Streams
    <3> QED BY <2>1, <3>1, <3>2, <3>3, <1>8, <1>9
  <2> QED BY <2>2, <2>3
<1>17. Len(d) <= Len(p) BY <1>1, <1>2, <1>8
<1>18. m \notin Chains BY DEF Chains, Streams
<1>19. Made(m, v, d, p, t) BY <1>15, <1>16, <1>17, <1>18 DEF Made
<1> QED BY <1>2, <1>7, <1>8, <1>9, <1>11, <1>19

(* The receiver, with the counter of the sender.                           *)
LEMMA StreamUndone ==
    ASSUME NEW m \in Streams, NEW v, NEW p, NEW c, NEW u,
           IsCall(m, v, p), Made(m, v, c, p, u),
           NEW n \in 1 .. Len(c),
           NEW k, k = CounterAfter(m, v, u, n - 1)
    PROVE  /\ p[n] \in Piece
           /\ Xor(c[n], StreamAt(m, InputAt(m, v, k))) = p[n]
           /\ CounterAfter(m, v, u, n) = IF m = "gcm" THEN Inc(k) ELSE k + 1
<1>1. /\ p \in Seq(Piece) /\ Len(c) \in Nat /\ Len(p) \in Nat /\ Len(c) <= Len(p)
      /\ v \in Ivs[m] /\ StreamMade(m, v, c, u)
  BY LenProperties DEF IsCall, Made
<1>2. /\ IsCounter(m, k)
      /\ u[n] = InputAt(m, v, k)
  <2>1. n - 1 \in 0 .. Len(u) /\ n \in 1 .. Len(u) BY <1>1 DEF StreamMade
  <2> QED BY <1>1, <2>1 DEF StreamMade
<1>3. p[n] \in Piece BY <1>1, ElementOfSeq
<1>4. StreamAt(m, u[n]) \in Block BY <1>1, <1>2, StreamType
<1>5. c[n] = Xor(p[n], StreamAt(m, u[n])) BY DEF Made, CipherAt, Streams
<1>6. Xor(c[n], StreamAt(m, u[n])) = p[n] BY <1>3, <1>4, <1>5, XorUndone
<1>7. CounterAfter(m, v, u, n) = IF m = "gcm" THEN Inc(k) ELSE k + 1
  <2>1. CASE m = "gcm"
    <3>1. u[n] = k BY <1>2, <2>1 DEF InputAt
    <3>2. n # 0 BY <1>1
    <3> QED BY <2>1, <3>1, <3>2 DEF CounterAfter
  <2>2. CASE m # "gcm"
    <3>1. FirstCounter(m, v) \in Nat BY <2>2 DEF FirstCounter, Streams
    <3>2. k = FirstCounter(m, v) + (n - 1) BY <2>2 DEF CounterAfter
    <3>3. CounterAfter(m, v, u, n) = FirstCounter(m, v) + n BY <2>2 DEF CounterAfter
    <3> QED BY <1>1, <2>2, <3>1, <3>2, <3>3
  <2> QED BY <2>1, <2>2
<1> QED BY <1>2, <1>3, <1>6, <1>7

-----------------------------------------------------------------------------
(* The invariant.  The sender has made the beginning of the ciphertext,    *)
(* and the receiver of an unchanged one, with the same chaining values and *)
(* counters, the beginning of the plaintext.                               *)
Position ==
    IF mode \in Chains
    THEN prev = ChainAfter(mode, iv, ct, Plain, i)
    ELSE counter = CounterAfter(mode, iv, used, i)

Same == rct = ct /\ raad = aad /\ riv = iv /\ (blob => Size(iv) = NonceLen)

Sending ==
    /\ mode \in Modes /\ iv \in Ivs[mode] /\ IsData(msg)
    /\ pc \in {"encrypt", "sent", "arrived", "decrypt", "done", "refused"}
    /\ blob => mode \in Aead
    /\ mode \in Chains => used = <<>>
    /\ ~Refused => Made(mode, iv, ct, Plain, used)
    /\ pc = "encrypt" /\ ~Refused => i = Len(ct) /\ Position
    /\ pc \in {"sent", "arrived", "decrypt", "done"} =>
          /\ ~Refused /\ Len(ct) = Len(Plain)
          /\ mode \in Aead => tag = Tag(iv, aad, ct)

Receiving ==
    /\ pc \in {"encrypt", "sent", "arrived"} => out = <<>>
    /\ blob /\ pc = "arrived" /\ Size(iv) = NonceLen => riv = iv /\ rct \in Changed
    /\ Same =>
          /\ pc = "decrypt" =>
                /\ out \in Seq(Piece) /\ Len(out) = i /\ i <= Len(Plain)
                /\ \A j \in 1 .. i : out[j] = Plain[j]
                /\ Position
          /\ pc = "done" => out = msg
          /\ pc = "refused" => Refused

ModesInv == Sending /\ Receiving

(* What the loops run over is fit for their mode.                          *)
LEMMA PlainFits ==
    ASSUME mode \in Modes, iv \in Ivs[mode], IsData(msg), ~Refused
    PROVE  /\ IsCall(mode, iv, Plain) /\ IsData(Plain) /\ Len(Plain) \in Nat
           /\ mode = "cbc" => /\ Plain = Pad(msg) /\ Len(Plain) > 0
                              /\ GoodPadding(Plain) /\ Unpad(Plain) = msg
           /\ mode # "cbc" => Plain = msg
<1>0. BlockLen \in Nat /\ BlockLen > 0 BY Numbers
<1>1. Block \subseteq Piece BY BlockString
<1>2. CASE mode = "cbc"
  <2>1. Plain = Pad(msg) BY <1>2 DEF Plain
  <2>2. /\ Plain \in Seq(Block) /\ Len(Plain) > 0
        /\ GoodPadding(Plain) /\ Unpad(Plain) = msg
    <3>1. CASE Size(msg) % BlockLen = 0
      <4>1. Len(msg) \in Nat BY DataPieces
      <4> QED BY <2>1, <3>1, <4>1, PadWhole
    <3>2. CASE Size(msg) % BlockLen # 0 BY <2>1, <3>2, PadPartial
    <3> QED BY <3>1, <3>2
  <2>3. Plain \in Seq(Piece) BY <1>1, <2>2, SeqMonotonic
  <2>4. \A j \in 1 .. Len(Plain) : Plain[j] \in Block BY <2>2, ElementOfSeq
  <2>5. Len(Plain) \in Nat BY <2>2, LenProperties
  <2>6. IsData(Plain) BY <2>3, <2>4, <2>5, BlockString DEF IsData
  <2> QED BY <1>2, <2>1, <2>2, <2>3, <2>5, <2>6 DEF IsCall
<1>3. CASE mode # "cbc"
  <2>1. Plain = msg BY <1>3 DEF Plain
  <2>2. msg \in Seq(Piece) /\ Len(msg) \in Nat BY DataPieces
  <2>3. ASSUME mode = "ige" PROVE msg \in Seq(Block)
    <3>1. Size(msg) % BlockLen = 0 BY <2>3 DEF Refused
    <3>2. \A j \in 1 .. Len(msg) : msg[j] \in Block BY <3>1, WholeBlocks
    <3>3. msg \in [1 .. Len(msg) -> Piece] BY <2>2, LenProperties
    <3>4. msg \in [1 .. Len(msg) -> Block] BY <3>2, <3>3
    <3> QED BY <2>2, <3>4, StringLength
  <2> QED BY <1>3, <2>1, <2>2, <2>3 DEF IsCall, Chains
<1> QED BY <1>2, <1>3

(* A ciphertext is cut into pieces as its plaintext is.                    *)
LEMMA SameShape ==
    ASSUME NEW m, NEW v, NEW p, NEW c, NEW u,
           IsCall(m, v, p), Made(m, v, c, p, u), Len(c) = Len(p), m \in Chains
    PROVE  Size(c) % BlockLen = 0
<1>1. c \in Seq(Block) /\ c \in Seq(Piece) /\ Len(c) \in Nat
  BY LenProperties DEF Made
<1>2. \A j \in 1 .. Len(c) : c[j] \in Block BY <1>1, ElementOfSeq
<1>3. IsData(c) BY <1>1, <1>2, BlockString DEF IsData
<1> QED BY <1>2, <1>3, WholeBlocks

(* Both sides start with the vector, or with the first counter.            *)
LEMMA StartPosition ==
    ASSUME NEW c, NEW p, NEW u, mode \in Modes
    PROVE  /\ mode \in Chains => FirstPrev = ChainAfter(mode, iv, c, p, 0)
           /\ mode \in Streams => FirstCounter(mode, iv) = CounterAfter(mode, iv, u, 0)
           /\ mode \in Chains <=> mode \notin Streams
<1>1. mode \in Chains => FirstPrev = ChainAfter(mode, iv, c, p, 0)
  BY DEF FirstPrev, ChainAfter, Chains
<1>2. ASSUME mode \in Streams
      PROVE  FirstCounter(mode, iv) = CounterAfter(mode, iv, u, 0)
  <2>1. CASE mode = "gcm" BY <2>1 DEF CounterAfter
  <2>2. CASE mode # "gcm"
    <3>1. FirstCounter(mode, iv) \in Nat BY <1>2, <2>2 DEF FirstCounter, Streams
    <3>2. CounterAfter(mode, iv, u, 0) = FirstCounter(mode, iv) + 0
      BY <2>2 DEF CounterAfter
    <3> QED BY <3>1, <3>2
  <2> QED BY <2>1, <2>2
<1>3. mode \in Chains <=> mode \notin Streams BY DEF Modes, Chains, Streams
<1> QED BY <1>1, <1>2, <1>3

LEMMA InitInv ==
    ASSUME Init
    PROVE  ModesInv
<1>1. /\ mode \in Modes /\ iv \in Ivs[mode] /\ msg \in Messages /\ pc = "encrypt"
      /\ i = 0 /\ ct = <<>> /\ used = <<>> /\ out = <<>>
      /\ prev = (IF Chained THEN FirstPrev ELSE <<>>)
      /\ counter = FirstCounter(mode, iv)
  BY DEF Init
<1>2. IsData(msg) BY <1>1, ModesAssumption
<1>3. ~Refused => Made(mode, iv, ct, Plain, used) BY <1>1, <1>2, PlainFits, NothingMade
<1>4. Position
  <2>1. CASE mode \in Chains
    <3>1. prev = ChainAfter(mode, iv, ct, Plain, 0)
      BY <1>1, <2>1, StartPosition DEF Chained, Chains
    <3> QED BY <1>1, <2>1, <3>1 DEF Position
  <2>2. CASE mode \notin Chains
    <3>1. counter = CounterAfter(mode, iv, used, 0) BY <1>1, <2>2, StartPosition
    <3> QED BY <1>1, <2>2, <3>1 DEF Position
  <2> QED BY <2>1, <2>2
<1>5. i = Len(ct) BY <1>1, EmptySeq
<1>6. blob => mode \in Aead BY DEF Init
<1>7. Sending BY <1>1, <1>2, <1>3, <1>4, <1>5, <1>6 DEF Sending
<1>8. Receiving BY <1>1 DEF Receiving
<1> QED BY <1>7, <1>8 DEF ModesInv

-----------------------------------------------------------------------------
(* The steps of the sender.                                                *)
LEMMA CallStays ==
    ASSUME UNCHANGED call
    PROVE  /\ mode' = mode /\ msg' = msg /\ iv' = iv /\ aad' = aad /\ blob' = blob
           /\ Plain' = Plain /\ Refused' = Refused
<1>1. mode' = mode /\ msg' = msg /\ iv' = iv /\ aad' = aad /\ blob' = blob BY DEF call
<1> QED BY <1>1 DEF Plain, Refused

LEMMA RefuseCallInv ==
    ASSUME ModesInv, RefuseCall
    PROVE  ModesInv'
<1>1. Refused /\ pc' = "refused" /\ UNCHANGED <<call, used>> BY DEF RefuseCall
<1>2. /\ mode' = mode /\ msg' = msg /\ iv' = iv /\ blob' = blob /\ used' = used
      /\ Plain' = Plain /\ Refused' = Refused
  BY <1>1, CallStays
<1>3. Sending' BY <1>1, <1>2 DEF ModesInv, Sending
<1>4. Receiving' BY <1>1, <1>2 DEF Receiving
<1> QED BY <1>3, <1>4 DEF ModesInv

(* What the sender has before another piece.                               *)
LEMMA BeforePiece ==
    ASSUME ModesInv, Encrypt
    PROVE  /\ mode \in Modes /\ iv \in Ivs[mode] /\ IsData(msg) /\ pc = "encrypt" /\ ~Refused
           /\ i = Len(ct) /\ i \in Nat /\ Len(ct) < Len(Plain) /\ Position
           /\ IsCall(mode, iv, Plain) /\ Made(mode, iv, ct, Plain, used)
<1>1. pc = "encrypt" /\ ~Refused /\ i < Len(Plain) BY DEF Encrypt
<1>2. /\ mode \in Modes /\ iv \in Ivs[mode] /\ IsData(msg)
      /\ i = Len(ct) /\ Position /\ Made(mode, iv, ct, Plain, used)
  BY <1>1 DEF ModesInv, Sending
<1>3. IsCall(mode, iv, Plain) BY <1>1, <1>2, PlainFits
<1>4. Len(ct) \in Nat BY <1>2, LenProperties DEF Made
<1> QED BY <1>1, <1>2, <1>3, <1>4

(* A block of a chained mode, and of a key stream, undone.                 *)
LEMMA ChainPiece ==
    ASSUME ModesInv, Encrypt, mode \in Chains
    PROVE  /\ Made(mode, iv, ct', Plain, used') /\ Len(ct') = i + 1
           /\ prev' = ChainAfter(mode, iv, ct', Plain, i + 1) /\ used' = used
<1>1. /\ i = Len(ct) /\ i \in Nat /\ Len(ct) < Len(Plain) /\ Position
      /\ IsCall(mode, iv, Plain) /\ Made(mode, iv, ct, Plain, used)
  BY BeforePiece
<1>2. PICK x : x = ChainAfter(mode, iv, ct, Plain, i) OBVIOUS
<1>3. prev = x BY <1>1, <1>2 DEF Position
<1>4. PICK b : b = CipherAt(mode, iv, ct, Plain, used, i + 1) OBVIOUS
<1>5. b \in Block /\ Made(mode, iv, Append(ct, b), Plain, used) BY <1>1, <1>4, ChainGrows
<1>6. ct \in Seq(Piece) /\ b \in Piece BY <1>1, <1>5, BlockString DEF Made
<1>7. Len(Append(ct, b)) = i + 1 /\ Append(ct, b)[i + 1] = b BY <1>1, <1>6, AppendProperties
<1>8. (i + 1) - 1 = i /\ i + 1 # 0 BY <1>1
<1>9. ~EncryptStream BY DEF EncryptStream, Chained, Chains
<1>10. CASE mode = "cbc"
  <2>1. EncryptCbc BY <1>9, <1>10 DEF Encrypt, EncryptIge
  <2>2. b = EncryptBlock[Xor(Plain[i + 1], x.c)] BY <1>2, <1>4, <1>8, <1>10 DEF CipherAt
  <2>3. ct' = Append(ct, b) /\ prev' = [prev EXCEPT !.c = b] /\ used' = used
    BY <1>3, <2>1, <2>2 DEF EncryptCbc
  <2>4. prev' = [c |-> b, p |-> iv] BY <1>2, <1>3, <1>10, <2>3 DEF ChainAfter
  <2>5. ChainAfter(mode, iv, Append(ct, b), Plain, i + 1) = [c |-> b, p |-> iv]
    BY <1>7, <1>8, <1>10 DEF ChainAfter
  <2> QED BY <1>5, <1>7, <2>3, <2>4, <2>5
<1>11. CASE mode = "ige"
  <2>1. EncryptIge BY <1>9, <1>11 DEF Encrypt, EncryptCbc
  <2>2. b = Xor(EncryptBlock[Xor(Plain[i + 1], x.c)], x.p)
    BY <1>2, <1>4, <1>8, <1>11 DEF CipherAt
  <2>3. ct' = Append(ct, b) /\ prev' = [c |-> b, p |-> Plain[i + 1]] /\ used' = used
    BY <1>3, <2>1, <2>2 DEF EncryptIge
  <2>4. ChainAfter(mode, iv, Append(ct, b), Plain, i + 1) = [c |-> b, p |-> Plain[i + 1]]
    BY <1>7, <1>8, <1>11 DEF ChainAfter
  <2> QED BY <1>5, <1>7, <2>3, <2>4
<1> QED BY <1>10, <1>11 DEF Chains

LEMMA StreamPiece ==
    ASSUME ModesInv, Encrypt, mode \in Streams
    PROVE  Made(mode, iv, ct', Plain, used') /\ Len(ct') = i + 1
           /\ counter' = CounterAfter(mode, iv, used', i + 1)
<1>1. /\ i = Len(ct) /\ i \in Nat /\ Len(ct) < Len(Plain) /\ Position /\ mode \in Modes
      /\ IsCall(mode, iv, Plain) /\ Made(mode, iv, ct, Plain, used)
  BY BeforePiece
<1>2. EncryptStream BY DEF Encrypt, EncryptCbc, EncryptIge, Streams
<1>3. counter = CounterAfter(mode, iv, used, i) BY <1>1, StartPosition DEF Position
<1>4. PICK w : w = InputAt(mode, iv, counter) OBVIOUS
<1>5. KeyInput(iv) = w BY <1>4 DEF KeyInput, InputAt, Streams
<1>6. KeyStream(w) = StreamAt(mode, w) BY DEF KeyStream, StreamAt
<1>7. PICK b : b = Xor(Plain[i + 1], StreamAt(mode, w)) OBVIOUS
<1>8. /\ ct' = Append(ct, b) /\ used' = Append(used, w)
      /\ counter' = IF mode = "gcm" THEN Inc(counter) ELSE counter + 1
  BY <1>2, <1>5, <1>6, <1>7 DEF EncryptStream, NextCounter
<1>9. /\ Made(mode, iv, Append(ct, b), Plain, Append(used, w))
      /\ CounterAfter(mode, iv, Append(used, w), i + 1)
            = IF mode = "gcm" THEN Inc(counter) ELSE counter + 1
  BY <1>1, <1>3, <1>4, <1>7, StreamGrows
<1>10. Len(ct') = i + 1
  <2>1. /\ ct \in Seq(Piece) /\ Plain \in Seq(Piece) /\ iv \in Ivs[mode]
    BY <1>1 DEF Made, IsCall
  <2>2. Append(ct, b) \in Seq(Piece) BY <1>9 DEF Made
  <2>3. StreamMade(mode, iv, ct, used) BY <1>1 DEF Made
  <2>4. i \in 0 .. Len(used) BY <1>1, <2>3 DEF StreamMade
  <2>5. IsCounter(mode, counter) BY <1>3, <2>3, <2>4 DEF StreamMade
  <2>6. StreamAt(mode, w) \in Block BY <1>4, <2>1, <2>5, StreamType
  <2>7. Plain[i + 1] \in Piece
    <3>1. i + 1 \in 1 .. Len(Plain) BY <1>1, <2>1, LenProperties
    <3> QED BY <2>1, <3>1, ElementOfSeq
  <2>8. b \in Piece BY <1>7, <2>6, <2>7, XorUndone
  <2> QED BY <1>1, <1>8, <2>1, <2>8, AppendProperties
<1> QED BY <1>8, <1>9, <1>10

LEMMA EncryptInv ==
    ASSUME ModesInv, Encrypt
    PROVE  ModesInv'
<1>1. /\ pc' = pc /\ i' = i + 1 /\ UNCHANGED <<call, tag, received, out>> BY DEF Encrypt
<1>2. /\ mode' = mode /\ msg' = msg /\ iv' = iv /\ blob' = blob
      /\ Plain' = Plain /\ Refused' = Refused
  BY <1>1, CallStays
<1>3. /\ mode \in Modes /\ iv \in Ivs[mode] /\ IsData(msg) /\ pc = "encrypt" /\ ~Refused
      /\ (blob => mode \in Aead) /\ (mode \in Chains => used = <<>>)
  BY BeforePiece DEF ModesInv, Sending
<1>4. /\ Made(mode, iv, ct', Plain, used') /\ Len(ct') = i + 1 /\ Position'
      /\ mode \in Chains => used' = <<>>
  <2>1. CASE mode \in Chains BY <1>1, <1>2, <1>3, <2>1, ChainPiece DEF Position
  <2>2. CASE mode \notin Chains
    <3>1. mode \in Streams BY <1>3, <2>2, StartPosition
    <3> QED BY <1>1, <1>2, <2>2, <3>1, StreamPiece DEF Position
  <2> QED BY <2>1, <2>2
<1>5. Sending' BY <1>1, <1>2, <1>3, <1>4 DEF Sending
<1>6. Receiving' BY <1>1, <1>3 DEF ModesInv, Receiving
<1> QED BY <1>5, <1>6 DEF ModesInv

LEMMA SealInv ==
    ASSUME ModesInv, Seal
    PROVE  ModesInv'
<1>1. /\ pc = "encrypt" /\ ~Refused /\ i = Len(Plain) /\ pc' = "sent"
      /\ tag' = (IF mode \in Aead THEN Tag(iv, aad, ct) ELSE <<>>)
      /\ UNCHANGED <<call, prev, counter, i, ct, received, out, used>>
  BY DEF Seal
<1>2. /\ mode' = mode /\ msg' = msg /\ iv' = iv /\ aad' = aad /\ blob' = blob
      /\ Plain' = Plain /\ Refused' = Refused /\ ct' = ct /\ used' = used
  BY <1>1, CallStays
<1>3. mode' \in Aead => tag' = Tag(iv, aad, ct)' BY <1>1, <1>2 DEF Tag, MaskInput
<1>4. Sending' BY <1>1, <1>2, <1>3 DEF ModesInv, Sending
<1>5. Receiving' BY <1>1 DEF ModesInv, Receiving
<1> QED BY <1>4, <1>5 DEF ModesInv

-----------------------------------------------------------------------------
(* The steps of the receiver.                                              *)
LEMMA ArriveInv ==
    ASSUME ModesInv, Arrive
    PROVE  ModesInv'
<1>1. /\ pc = "sent" /\ pc' = "arrived"
      /\ UNCHANGED <<call, prev, counter, i, ct, tag, out, used>>
  BY DEF Arrive
<1>2. /\ mode' = mode /\ msg' = msg /\ iv' = iv /\ aad' = aad /\ blob' = blob
      /\ Plain' = Plain /\ Refused' = Refused /\ ct' = ct /\ used' = used
  BY <1>1, CallStays
<1>3. Tag(iv, aad, ct)' = Tag(iv, aad, ct) BY <1>2 DEF Tag, MaskInput
<1>4. Sending' BY <1>1, <1>2, <1>3 DEF ModesInv, Sending
<1>5. ASSUME blob, Size(iv) = NonceLen PROVE riv' = iv /\ rct' \in Changed
  <2>1. PICK c \in Changed : IsData(c) /\ Cut(FlattenSeq(iv) \o FlattenSeq(c))
    BY <1>5 DEF Arrive
  <2>2. IsData(iv) BY <1>5, ModesAssumption DEF ModesInv, Sending, Aead
  <2>3. PICK w : w = FlattenSeq(iv) \o FlattenSeq(c) OBVIOUS
  <2>4. CutAt(w, iv, c) BY <1>5, <2>1, <2>2, <2>3, BlobCut
  <2> QED BY <2>1, <2>3, <2>4 DEF Cut, CutAt
<1>6. Changed' = Changed BY <1>2 DEF Changed
<1>7. Receiving' BY <1>1, <1>2, <1>5, <1>6 DEF ModesInv, Receiving
<1> QED BY <1>4, <1>7 DEF ModesInv

(* A step of the receiver leaves what the sender made.                     *)
LEMMA SenderStays ==
    ASSUME Sending, pc \in {"arrived", "decrypt"}, pc' \in {"decrypt", "done", "refused"},
           UNCHANGED <<call, ct, tag, received, used>>
    PROVE  /\ Sending' /\ (Same' <=> Same)
           /\ mode' = mode /\ iv' = iv /\ blob' = blob /\ msg' = msg
           /\ Plain' = Plain /\ Refused' = Refused /\ ct' = ct /\ used' = used
<1>1. /\ mode' = mode /\ msg' = msg /\ iv' = iv /\ aad' = aad /\ blob' = blob
      /\ Plain' = Plain /\ Refused' = Refused
  BY CallStays
<1>2. ct' = ct /\ tag' = tag /\ used' = used /\ rct' = rct /\ raad' = raad /\ riv' = riv
  BY DEF received
<1>3. Tag(iv, aad, ct)' = Tag(iv, aad, ct) BY <1>1, <1>2 DEF Tag, MaskInput
<1>4. Sending' BY <1>1, <1>2, <1>3 DEF Sending
<1>5. Same' <=> Same BY <1>1, <1>2 DEF Same
<1> QED BY <1>1, <1>2, <1>4, <1>5

LEMMA GenuineAccepted ==
    ASSUME ModesInv, pc = "arrived", Same
    PROVE  Accepted
<1>1. /\ mode \in Modes /\ iv \in Ivs[mode] /\ IsData(msg) /\ ~Refused
      /\ Len(ct) = Len(Plain) /\ Made(mode, iv, ct, Plain, used)
      /\ mode \in Aead => tag = Tag(iv, aad, ct)
  BY DEF ModesInv, Sending
<1>2. IsCall(mode, iv, Plain) /\ (mode = "cbc" => Len(Plain) > 0) BY <1>1, PlainFits
<1>3. mode = "cbc" => rct # <<>> BY <1>1, <1>2, EmptySeq DEF Same
<1>4. Chained => Size(rct) % BlockLen = 0
  BY <1>1, <1>2, SameShape DEF Same, Chained, Chains
<1>5. mode \in Aead => Tag(riv, raad, rct) = tag BY <1>1 DEF Same
<1>6. blob => Size(riv) = NonceLen BY DEF Same
<1> QED BY <1>3, <1>4, <1>5, <1>6 DEF Accepted

LEMMA OpenInv ==
    ASSUME ModesInv, Open
    PROVE  ModesInv'
<1>1. pc = "arrived" /\ UNCHANGED <<call, ct, tag, received, out, used>> /\ out = <<>>
  BY DEF Open, ModesInv, Receiving
<1>2. pc' = IF Accepted THEN "decrypt" ELSE "refused" BY DEF Open
<1>3. /\ Sending' /\ (Same' <=> Same)
      /\ mode' = mode /\ iv' = iv /\ blob' = blob /\ msg' = msg
      /\ Plain' = Plain /\ Refused' = Refused /\ ct' = ct /\ used' = used
  BY <1>1, <1>2, SenderStays DEF ModesInv
<1>4. ASSUME Same
      PROVE  pc' = "decrypt" /\ i' = 0 /\ Position'
  <2>1. Accepted BY <1>1, <1>4, GenuineAccepted
  <2>2. /\ prev' = (IF Chained THEN FirstPrev ELSE <<>>)
        /\ counter' = FirstCounter(mode, iv) /\ i' = 0
    BY <1>4, <2>1 DEF Open, Same
  <2>3. mode \in Modes BY DEF ModesInv, Sending
  <2>4. CASE mode \in Chains
    <3>1. prev' = ChainAfter(mode, iv, ct, Plain, 0)
      BY <2>2, <2>3, <2>4, StartPosition DEF Chained, Chains
    <3> QED BY <1>2, <1>3, <2>1, <2>2, <2>4, <3>1 DEF Position
  <2>5. CASE mode \notin Chains
    <3>1. counter' = CounterAfter(mode, iv, used, 0) BY <2>2, <2>3, <2>5, StartPosition
    <3> QED BY <1>2, <1>3, <2>1, <2>2, <2>5, <3>1 DEF Position
  <2> QED BY <2>4, <2>5
<1>5. out' = <<>> /\ out' \in Seq(Piece) /\ Len(out') = 0 BY <1>1, EmptySeq
<1>6. Len(Plain) \in Nat
  <2>1. mode \in Modes /\ iv \in Ivs[mode] /\ IsData(msg) /\ ~Refused
    BY <1>1 DEF ModesInv, Sending
  <2> QED BY <2>1, PlainFits
<1>7. Receiving' BY <1>2, <1>3, <1>4, <1>5, <1>6 DEF Receiving
<1> QED BY <1>3, <1>7 DEF ModesInv

(* One more piece of the plaintext.                                        *)
LEMMA DecryptPiece ==
    ASSUME ModesInv, Decrypt, Same
    PROVE  /\ i \in Nat /\ i + 1 \in 1 .. Len(Plain) /\ Plain[i + 1] \in Piece
           /\ out' = Append(out, Plain[i + 1])
           /\ mode \in Chains => prev' = ChainAfter(mode, iv, ct, Plain, i + 1)
           /\ mode \notin Chains => counter' = CounterAfter(mode, iv, used, i + 1)
<1>1. pc = "decrypt" /\ i < Len(rct) BY DEF Decrypt
<1>2. /\ mode \in Modes /\ iv \in Ivs[mode] /\ IsData(msg) /\ ~Refused
      /\ Len(ct) = Len(Plain) /\ Made(mode, iv, ct, Plain, used)
      /\ out \in Seq(Piece) /\ Len(out) = i /\ Position
  BY <1>1 DEF ModesInv, Sending, Receiving
<1>3. IsCall(mode, iv, Plain) /\ Len(Plain) \in Nat BY <1>2, PlainFits
<1>4. i \in Nat BY <1>2, LenProperties
<1>5. rct = ct /\ riv = iv BY DEF Same
<1>6. PICK n \in 1 .. Len(ct) : n = i + 1 /\ n - 1 = i /\ n # 0
  <2>1. i + 1 \in 1 .. Len(ct) /\ (i + 1) - 1 = i /\ i + 1 # 0
    BY <1>1, <1>2, <1>3, <1>4, <1>5
  <2> QED BY <2>1
<1>7. CASE mode \in Chains
  <2>1. PICK x : x = ChainAfter(mode, iv, ct, Plain, i) OBVIOUS
  <2>2. prev = x BY <1>2, <1>7, <2>1 DEF Position
  <2>3. /\ Plain[n] \in Block
        /\ mode = "cbc" => Xor(DecryptBlock[ct[n]], x.c) = Plain[n]
        /\ mode = "ige" => Xor(DecryptBlock[Xor(ct[n], x.p)], x.c) = Plain[n]
    BY <1>2, <1>3, <1>6, <1>7, <2>1, ChainUndone
  <2>4. Plain[n] \in Piece BY <2>3, BlockString
  <2>5. ~DecryptStream BY <1>7 DEF DecryptStream, Chained, Chains
  <2>6. CASE mode = "cbc"
    <3>1. DecryptCbc BY <2>5, <2>6 DEF Decrypt, DecryptIge
    <3>2. out' = Append(out, Plain[n]) /\ prev' = [prev EXCEPT !.c = ct[n]]
      BY <1>5, <1>6, <2>2, <2>3, <2>6, <3>1 DEF DecryptCbc
    <3>3. prev' = [c |-> ct[n], p |-> iv] BY <2>1, <2>2, <2>6, <3>2 DEF ChainAfter
    <3>4. ChainAfter(mode, iv, ct, Plain, n) = [c |-> ct[n], p |-> iv]
      BY <1>6, <2>6 DEF ChainAfter
    <3> QED BY <1>2, <1>4, <1>6, <1>7, <2>4, <3>2, <3>3, <3>4
  <2>7. CASE mode = "ige"
    <3>1. DecryptIge BY <2>5, <2>7 DEF Decrypt, DecryptCbc
    <3>2. out' = Append(out, Plain[n]) /\ prev' = [c |-> ct[n], p |-> Plain[n]]
      BY <1>5, <1>6, <2>2, <2>3, <2>7, <3>1 DEF DecryptIge
    <3>3. ChainAfter(mode, iv, ct, Plain, n) = [c |-> ct[n], p |-> Plain[n]]
      BY <1>6, <2>7 DEF ChainAfter
    <3> QED BY <1>2, <1>4, <1>6, <1>7, <2>4, <3>2, <3>3
  <2> QED BY <1>7, <2>6, <2>7 DEF Chains
<1>8. CASE mode \notin Chains
  <2>1. mode \in Streams BY <1>2, <1>8, StartPosition
  <2>2. PICK k : k = CounterAfter(mode, iv, used, i) OBVIOUS
  <2>3. counter = k BY <1>2, <1>8, <2>2 DEF Position
  <2>4. /\ Plain[n] \in Piece
        /\ Xor(ct[n], StreamAt(mode, InputAt(mode, iv, k))) = Plain[n]
        /\ CounterAfter(mode, iv, used, n) = IF mode = "gcm" THEN Inc(k) ELSE k + 1
    BY <1>2, <1>3, <1>6, <2>1, <2>2, StreamUndone
  <2>5. DecryptStream BY <2>1 DEF Decrypt, DecryptCbc, DecryptIge, Streams
  <2>6. KeyInput(iv) = InputAt(mode, iv, k) BY <2>1, <2>3 DEF KeyInput, InputAt, Streams
  <2>7. KeyStream(KeyInput(iv)) = StreamAt(mode, InputAt(mode, iv, k))
    BY <2>6 DEF KeyStream, StreamAt
  <2>8. out' = Append(out, Plain[n]) BY <1>5, <1>6, <2>4, <2>5, <2>7 DEF DecryptStream
  <2>9. counter' = IF mode = "gcm" THEN Inc(k) ELSE k + 1
    BY <2>3, <2>5 DEF DecryptStream, NextCounter
  <2> QED BY <1>2, <1>4, <1>6, <1>8, <2>4, <2>8, <2>9
<1> QED BY <1>7, <1>8

LEMMA DecryptInv ==
    ASSUME ModesInv, Decrypt
    PROVE  ModesInv'
<1>1. /\ pc = "decrypt" /\ pc' = pc /\ i' = i + 1
      /\ UNCHANGED <<call, ct, tag, received, used>>
  BY DEF Decrypt
<1>2. /\ Sending' /\ (Same' <=> Same)
      /\ mode' = mode /\ iv' = iv /\ blob' = blob /\ msg' = msg
      /\ Plain' = Plain /\ Refused' = Refused /\ ct' = ct /\ used' = used
  BY <1>1, SenderStays DEF ModesInv
<1>3. ASSUME Same
      PROVE  /\ out' \in Seq(Piece) /\ Len(out') = i + 1 /\ i + 1 <= Len(Plain)
             /\ \A j \in 1 .. i + 1 : out'[j] = Plain[j]
             /\ Position'
  <2>1. /\ i \in Nat /\ i + 1 \in 1 .. Len(Plain) /\ Plain[i + 1] \in Piece
        /\ out' = Append(out, Plain[i + 1])
        /\ mode \in Chains => prev' = ChainAfter(mode, iv, ct, Plain, i + 1)
        /\ mode \notin Chains => counter' = CounterAfter(mode, iv, used, i + 1)
    BY <1>3, DecryptPiece
  <2>2. out \in Seq(Piece) /\ Len(out) = i /\ \A j \in 1 .. i : out[j] = Plain[j]
    BY <1>1, <1>3 DEF ModesInv, Receiving
  <2>3. /\ out' \in Seq(Piece) /\ Len(out') = i + 1
        /\ \A j \in 1 .. i : out'[j] = out[j]
        /\ out'[i + 1] = Plain[i + 1]
    BY <2>1, <2>2, AppendProperties
  <2>4. \A j \in 1 .. i + 1 : out'[j] = Plain[j]
    <3> TAKE j \in 1 .. i + 1
    <3>1. CASE j = i + 1 BY <2>3, <3>1
    <3>2. CASE j # i + 1
      <4>1. j \in 1 .. i BY <2>1, <3>2
      <4> QED BY <2>2, <2>3, <4>1
    <3> QED BY <3>1, <3>2
  <2>5. Position' BY <1>1, <1>2, <2>1 DEF Position
  <2>6. i + 1 <= Len(Plain) BY <2>1
  <2> QED BY <2>3, <2>4, <2>5, <2>6
<1>4. Receiving' BY <1>1, <1>2, <1>3 DEF Receiving
<1> QED BY <1>2, <1>4 DEF ModesInv

LEMMA FinishInv ==
    ASSUME ModesInv, Finish
    PROVE  ModesInv'
<1>1. /\ pc = "decrypt" /\ i = Len(rct) /\ pc' \in {"done", "refused"}
      /\ UNCHANGED <<call, ct, tag, received, used>>
  BY DEF Finish
<1>2. /\ Sending' /\ (Same' <=> Same)
      /\ mode' = mode /\ iv' = iv /\ blob' = blob /\ msg' = msg
      /\ Plain' = Plain /\ Refused' = Refused /\ ct' = ct /\ used' = used
  BY <1>1, SenderStays DEF ModesInv
<1>3. ASSUME Same
      PROVE  pc' = "done" /\ out' = msg
  <2>1. /\ mode \in Modes /\ iv \in Ivs[mode] /\ IsData(msg) /\ ~Refused
        /\ Len(ct) = Len(Plain)
        /\ out \in Seq(Piece) /\ Len(out) = i /\ \A j \in 1 .. i : out[j] = Plain[j]
    BY <1>1, <1>3 DEF ModesInv, Sending, Receiving
  <2>2. /\ Plain \in Seq(Piece)
        /\ mode = "cbc" => GoodPadding(Plain) /\ Unpad(Plain) = msg
        /\ mode # "cbc" => Plain = msg
    BY <2>1, PlainFits DEF IsCall
  <2>3. Len(out) = Len(Plain) BY <1>1, <1>3, <2>1 DEF Same
  <2>4. out = Plain BY <2>1, <2>2, <2>3, SeqEqual
  <2> QED BY <2>2, <2>4 DEF Finish
<1>4. Receiving' BY <1>1, <1>2, <1>3 DEF Receiving
<1> QED BY <1>2, <1>4 DEF ModesInv

LEMMA StutterInv ==
    ASSUME ModesInv, UNCHANGED vars
    PROVE  ModesInv'
<1>1. /\ UNCHANGED call /\ pc' = pc /\ prev' = prev /\ counter' = counter /\ i' = i
      /\ ct' = ct /\ tag' = tag /\ rct' = rct /\ raad' = raad /\ riv' = riv
      /\ out' = out /\ used' = used
  BY DEF vars, received
<1>2. /\ mode' = mode /\ msg' = msg /\ iv' = iv /\ aad' = aad /\ blob' = blob
      /\ Plain' = Plain /\ Refused' = Refused
  BY <1>1, CallStays
<1>3. Tag(iv, aad, ct)' = Tag(iv, aad, ct) BY <1>1, <1>2 DEF Tag, MaskInput
<1>4. Position' = Position BY <1>1, <1>2 DEF Position
<1>5. Sending' BY <1>1, <1>2, <1>3, <1>4 DEF ModesInv, Sending
<1>6. Changed' = Changed BY <1>1 DEF Changed
<1>7. Receiving' BY <1>1, <1>2, <1>4, <1>6 DEF ModesInv, Receiving, Same
<1> QED BY <1>5, <1>7 DEF ModesInv

LEMMA StepInv ==
    ASSUME ModesInv, [Next]_vars
    PROVE  ModesInv'
<1>1. ASSUME Next PROVE ModesInv'
  BY <1>1, RefuseCallInv, EncryptInv, SealInv, ArriveInv, OpenInv, DecryptInv, FinishInv
  DEF Next
<1> QED BY <1>1, StutterInv

(* Nobody changes the call.                                                *)
LEMMA CallKept ==
    ASSUME [Next]_vars
    PROVE  UNCHANGED call
<1>1. CASE Next
  BY <1>1 DEF Next, RefuseCall, Encrypt, Seal, Arrive, Open, Decrypt, Finish
<1>2. CASE UNCHANGED vars BY <1>2 DEF vars
<1> QED BY <1>1, <1>2

-----------------------------------------------------------------------------
(* Whatever the permutation, the key stream, the lengths of a block, of    *)
(* the messages and of the nonces: what arrives as it was sent is accepted *)
(* and is the message, and a blob with a nonce of the usual length is cut  *)
(* where the nonce ends (aes.py, aes_ige.py, aes_gcm.py, chacha20.py).     *)
THEOREM RoundTripAlways ==
    Spec => []RoundTrip
<1>1. Init => ModesInv BY InitInv
<1>2. ModesInv /\ [Next]_vars => ModesInv' BY StepInv
<1>3. ModesInv => RoundTrip
  <2> SUFFICES ASSUME ModesInv PROVE RoundTrip OBVIOUS
  <2>1. Same => (pc = "done" => out = msg) /\ (pc = "refused" => Refused)
    BY DEF ModesInv, Receiving
  <2>2. blob /\ pc = "arrived" /\ Size(iv) = NonceLen => riv = iv /\ rct \in Changed
    BY DEF ModesInv, Receiving
  <2> QED BY <2>1, <2>2 DEF Same, RoundTrip
<1> QED BY <1>1, <1>2, <1>3, PTL DEF Spec

-----------------------------------------------------------------------------
(* What was used of the key stream.                                        *)
LEMMA UsedSoFar ==
    ASSUME ModesInv, mode \in Streams
    PROVE  /\ iv \in Ivs[mode] /\ DOMAIN used = 1 .. Len(used)
           /\ Len(used) \in Nat /\ Len(Plain) \in Nat /\ Len(used) <= Len(Plain)
           /\ \A n \in 1 .. Len(used) :
                 used[n] = InputAt(mode, iv, CounterAfter(mode, iv, used, n - 1))
<1>1. /\ iv \in Ivs[mode] /\ ~Refused /\ IsData(msg) /\ mode \in Modes
      /\ Made(mode, iv, ct, Plain, used)
  BY DEF ModesInv, Sending, Refused, Streams
<1>2. StreamMade(mode, iv, ct, used) /\ Len(ct) <= Len(Plain) BY <1>1 DEF Made
<1>3. Len(Plain) \in Nat BY <1>1, PlainFits
<1>4. used \in Seq(Input) /\ Len(used) = Len(ct) BY <1>2 DEF StreamMade
<1>5. DOMAIN used = 1 .. Len(used) /\ Len(used) \in Nat BY <1>4, LenProperties
<1> QED BY <1>1, <1>2, <1>3, <1>4, <1>5 DEF StreamMade

(* CTR writes its counter into the other half of each block.               *)
LEMMA CtrInputs ==
    ASSUME ModesInv, mode = "ctr", Len(Plain) <= Power[BlockLen - Half]
    PROVE  KeyStreamFresh
<1>0. /\ BlockLen \in Nat /\ Half \in Nat /\ Half <= BlockLen /\ BlockLen - Half \in Nat
      /\ Power[BlockLen - Half] \in Nat
  BY Numbers, PowerDefined
<1>1. /\ iv \in Ivs["ctr"] /\ DOMAIN used = 1 .. Len(used)
      /\ Len(used) \in Nat /\ Len(Plain) \in Nat /\ Len(used) <= Len(Plain)
      /\ \A n \in 1 .. Len(used) :
            used[n] = InputAt(mode, iv, CounterAfter(mode, iv, used, n - 1))
  BY UsedSoFar DEF Streams
<1>2. PICK h \in Seq(Byte) : h = SubSeq(iv, 1, Half)
  <2>1. iv \in Block BY <1>1, ModesAssumption
  <2>2. \A j \in 1 .. Half : iv[j] \in Byte BY <1>0, <2>1 DEF Block
  <2>3. SubSeq(iv, 1, Half) \in Seq(Byte) BY <1>0, <2>2, SubSeqProperties
  <2> QED BY <2>3
<1>3. \A n \in 1 .. Len(used) : used[n] = h \o ToBytes(n - 1, BlockLen - Half)
  <2> TAKE n \in 1 .. Len(used)
  <2>1. CounterAfter(mode, iv, used, n - 1) = n - 1 BY <1>1 DEF CounterAfter, FirstCounter
  <2> QED BY <1>1, <1>2, <2>1 DEF InputAt
<1>4. ASSUME NEW m \in 1 .. Len(used), NEW n \in 1 .. Len(used), used[m] = used[n]
      PROVE  m = n
  <2>1. /\ m - 1 \in Nat /\ n - 1 \in Nat
        /\ m - 1 < Power[BlockLen - Half] /\ n - 1 < Power[BlockLen - Half]
    BY <1>0, <1>1
  <2>2. PICK x \in Seq(Byte) : x = ToBytes(m - 1, BlockLen - Half)
    BY <1>0, <2>1, ToBytesType
  <2>3. PICK y \in Seq(Byte) : y = ToBytes(n - 1, BlockLen - Half)
    BY <1>0, <2>1, ToBytesType
  <2>4. h \o x = h \o y BY <1>3, <1>4, <2>2, <2>3
  <2>5. x = y BY <2>4, SameParts
  <2>6. m - 1 = n - 1 BY <1>0, <2>1, <2>2, <2>3, <2>5, ToBytesInjective
  <2> QED BY <2>6
<1>5. IsInjective(used) BY <1>1, <1>4 DEF IsInjective
<1> QED BY <1>5 DEF KeyStreamFresh, Aead

(* GCM counts on from j0 in the bytes behind the nonce.                    *)
LEMMA GcmInputs ==
    ASSUME ModesInv, mode = "gcm", Len(Plain) < Power[CountLen]
    PROVE  KeyStreamFresh
<1>0. CountLen \in Nat /\ Power[CountLen] \in Nat BY Numbers, PowerDefined DEF CountLen
<1>1. /\ iv \in Ivs["gcm"] /\ DOMAIN used = 1 .. Len(used)
      /\ Len(used) \in Nat /\ Len(Plain) \in Nat /\ Len(used) <= Len(Plain)
      /\ \A n \in 1 .. Len(used) :
            used[n] = InputAt(mode, iv, CounterAfter(mode, iv, used, n - 1))
  BY UsedSoFar DEF Streams
<1>2. PICK b \in Block : b = J0(iv) BY <1>1, FirstBlockType
<1>3. PICK k \in Nat : CountsTo(b, k) BY SomeCount
<1>4. \A n \in 1 .. Len(used) : used[n] = IF n = 1 THEN Inc(b) ELSE Inc(used[n - 1])
  <2> TAKE n \in 1 .. Len(used)
  <2>1. used[n] = CounterAfter(mode, iv, used, n - 1) BY <1>1 DEF InputAt
  <2>2. n - 1 = 0 <=> n = 1 BY <1>1
  <2> QED BY <1>2, <2>1, <2>2 DEF CounterAfter, FirstCounter
<1> DEFINE Has(n) == n <= Len(used) => CountsTo(IF n = 0 THEN b ELSE used[n], k + n)
           T == {n \in Nat : Has(n)}
<1>5. 0 \in T
  <2>1. k + 0 = k OBVIOUS
  <2> QED BY <1>3, <2>1
<1>6. \A n \in T : n + 1 \in T
  <2> HIDE DEF Has
  <2> SUFFICES ASSUME NEW n \in T PROVE Has(n + 1) OBVIOUS
  <2>1. n \in Nat /\ Has(n) OBVIOUS
  <2>2. ASSUME n + 1 <= Len(used) PROVE CountsTo(used[n + 1], k + (n + 1))
    <3>1. n + 1 \in 1 .. Len(used) /\ (n + 1) - 1 = n /\ (n + 1 = 1 <=> n = 0)
      BY <1>1, <2>1, <2>2
    <3>2. PICK c : c = IF n = 0 THEN b ELSE used[n] OBVIOUS
    <3>3. used[n + 1] = Inc(c) BY <1>4, <3>1, <3>2
    <3>4. CountsTo(c, k + n) BY <1>1, <2>1, <3>1, <3>2 DEF Has
    <3>5. k + n \in Nat /\ (k + n) + 1 = k + (n + 1) BY <2>1
    <3>6. CountsTo(Inc(c), (k + n) + 1) BY <3>4, <3>5, IncCounts
    <3> QED BY <3>3, <3>5, <3>6
  <2>3. n + 1 # 0 BY <2>1
  <2> QED BY <2>2, <2>3 DEF Has
<1> HIDE DEF Has
<1>7. T = Nat
  <2> HIDE DEF T
  <2>1. T \in SUBSET Nat BY DEF T
  <2> QED BY <1>5, <1>6, <2>1, Induction
<1>8. \A n \in 1 .. Len(used) : CountsTo(used[n], k + n) /\ n \in Nat /\ n < Power[CountLen]
  <2> TAKE n \in 1 .. Len(used)
  <2>1. n \in Nat /\ n # 0 /\ n <= Len(used) /\ n < Power[CountLen] BY <1>0, <1>1
  <2>2. Has(n) BY <1>7, <2>1
  <2> QED BY <2>1, <2>2 DEF Has
<1>9. ASSUME NEW m \in 1 .. Len(used), NEW n \in 1 .. Len(used), used[m] = used[n]
      PROVE  m = n
  <2>1. PICK c : c = used[m] /\ c = used[n] BY <1>9
  <2>2. /\ m \in Nat /\ n \in Nat /\ m < Power[CountLen] /\ n < Power[CountLen]
        /\ CountsTo(c, k + m) /\ CountsTo(c, k + n)
    BY <1>8, <2>1
  <2> QED BY ONLY <2>2, k \in Nat, CountsApart
<1>10. ASSUME NEW n \in 1 .. Len(used) PROVE used[n] # b
  <2> SUFFICES ASSUME used[n] = b PROVE FALSE OBVIOUS
  <2>1. k + 0 = k /\ 0 \in Nat OBVIOUS
  <2>2. n \in Nat /\ n < Power[CountLen] /\ 0 < Power[CountLen] BY <1>0, <1>8
  <2>3. CountsTo(b, k + n) /\ CountsTo(b, k + 0) BY <1>3, <1>8, <2>1
  <2>4. n = 0 BY ONLY <2>1, <2>2, <2>3, k \in Nat, CountsApart
  <2> QED BY <1>1, <2>4
<1>11. IsInjective(used) BY <1>1, <1>9 DEF IsInjective
<1>12. MaskInput(iv) \notin Range(used) BY <1>1, <1>2, <1>10 DEF MaskInput, Range
<1> QED BY <1>11, <1>12 DEF KeyStreamFresh

(* ChaCha20 takes its counters one by one.                                 *)
LEMMA ChaChaInputs ==
    ASSUME ModesInv, mode = "chacha", Len(Plain) < CounterMod
    PROVE  KeyStreamFresh
<1>1. /\ iv \in Ivs["chacha"] /\ DOMAIN used = 1 .. Len(used)
      /\ Len(used) \in Nat /\ Len(Plain) \in Nat /\ Len(used) <= Len(Plain)
      /\ \A n \in 1 .. Len(used) :
            used[n] = InputAt(mode, iv, CounterAfter(mode, iv, used, n - 1))
  BY UsedSoFar DEF Streams
<1>2. \A n \in 1 .. Len(used) : used[n] = <<iv, n>>
  <2> TAKE n \in 1 .. Len(used)
  <2>1. CounterAfter(mode, iv, used, n - 1) = 1 + (n - 1)
    BY DEF CounterAfter, FirstCounter
  <2>2. 1 + (n - 1) = n /\ n % CounterMod = n
    <3>1. n \in 0 .. CounterMod - 1 /\ CounterMod \in Nat BY <1>1, Numbers
    <3> QED BY <3>1
  <2> QED BY <1>1, <2>1, <2>2 DEF InputAt
<1>3. IsInjective(used)
  <2>1. \A m, n \in 1 .. Len(used) : used[m] = used[n] => m = n BY <1>2
  <2> QED BY <1>1, <2>1 DEF IsInjective
<1>4. MaskInput(iv) \notin Range(used)
  <2>1. MaskInput(iv) = <<iv, 0>> BY DEF MaskInput
  <2>2. \A n \in 1 .. Len(used) : used[n] # <<iv, 0>> BY <1>1, <1>2
  <2> QED BY <1>1, <2>1, <2>2 DEF Range
<1> QED BY <1>3, <1>4 DEF KeyStreamFresh

(* The message has no more pieces than the counter of its mode has values, *)
(* one of which masks the tag in GCM and ChaCha20-Poly1305.                *)
CountersSuffice ==
    /\ mode = "ctr" => Len(Plain) <= Power[BlockLen - Half]
    /\ mode = "gcm" => Len(Plain) < Power[CountLen]
    /\ mode = "chacha" => Len(Plain) < CounterMod

(* No piece of key stream serves twice within such a message, and none     *)
(* masks its tag, whatever the nonce and the block at which GCM starts to  *)
(* count.  A longer one, which nothing in _gctr() or chacha20_encrypt()    *)
(* refuses, comes back to where it started (aes.py, aes_gcm.py,            *)
(* chacha20.py).                                                           *)
THEOREM KeyStreamAlwaysFresh ==
    Spec => [](CountersSuffice => KeyStreamFresh)
<1>1. Init => ModesInv BY InitInv
<1>2. ModesInv /\ [Next]_vars => ModesInv' BY StepInv
<1>3. ModesInv => (CountersSuffice => KeyStreamFresh)
  <2> SUFFICES ASSUME ModesInv, CountersSuffice PROVE KeyStreamFresh OBVIOUS
  <2>1. CASE mode \in Streams
    BY <2>1, CtrInputs, GcmInputs, ChaChaInputs DEF CountersSuffice, Streams
  <2>2. CASE mode \notin Streams
    <3>1. used = <<>> /\ mode \notin Aead
      BY <2>2 DEF ModesInv, Sending, Modes, Chains, Streams, Aead
    <3>2. DOMAIN used = {} BY <3>1
    <3> QED BY <3>1, <3>2 DEF KeyStreamFresh, IsInjective
  <2> QED BY <2>1, <2>2
<1> QED BY <1>1, <1>2, <1>3, PTL DEF Spec

-----------------------------------------------------------------------------
(* What is authentic: the parts of what was sent and of what arrived are   *)
(* data, and what is decrypted has the tag that was sent.                  *)
Authentic ==
    mode \in Aead =>
        /\ IsData(aad) /\ IsData(iv)
        /\ pc \in {"sent", "arrived", "decrypt", "done"} => IsData(ct)
        /\ pc \in {"arrived", "decrypt", "done"} => IsData(rct) /\ IsData(raad)
        /\ pc \in {"decrypt", "done"} => Tag(riv, raad, rct) = tag

(* The pieces of a ciphertext are as long as those of its text.            *)
LEMMA StreamShape ==
    ASSUME NEW m \in Streams, NEW v, NEW p, NEW c, NEW u,
           IsCall(m, v, p), IsData(p), Made(m, v, c, p, u)
    PROVE  IsData(c)
<1>1. /\ c \in Seq(Piece) /\ p \in Seq(Piece) /\ Len(c) \in Nat /\ Len(p) \in Nat
      /\ Len(c) <= Len(p) /\ v \in Ivs[m] /\ StreamMade(m, v, c, u)
      /\ \A n \in 1 .. Len(c) : c[n] = CipherAt(m, v, c, p, u, n)
  BY LenProperties DEF IsCall, Made
<1>2. ASSUME NEW n \in 1 .. Len(c) - 1 PROVE Len(c[n]) = BlockLen
  <2>1. n \in 1 .. Len(p) - 1 /\ n \in 1 .. Len(p) /\ n \in 1 .. Len(c) BY <1>1
  <2>2. p[n] \in Piece /\ Len(p[n]) = BlockLen BY <2>1, DataPieces
  <2>3. c[n] = Xor(p[n], StreamAt(m, u[n])) BY <1>1, <2>1 DEF CipherAt, Streams
  <2>4. StreamAt(m, u[n]) \in Block
    <3>1. n - 1 \in 0 .. Len(u) /\ n \in 1 .. Len(u) BY <1>1, <2>1 DEF StreamMade
    <3>2. PICK k : k = CounterAfter(m, v, u, n - 1) OBVIOUS
    <3>3. IsCounter(m, k) /\ u[n] = InputAt(m, v, k) BY <1>1, <3>1, <3>2 DEF StreamMade
    <3> QED BY <1>1, <3>3, StreamType
  <2> QED BY <2>2, <2>3, <2>4, XorUndone
<1> QED BY <1>1, <1>2 DEF IsData

(* The invariant of authentication holds at first, and every step keeps    *)
(* it.                                                                     *)
LEMMA AuthenticInit ==
    ASSUME Init
    PROVE  Authentic
<1>1. mode \in Aead => IsData(aad) /\ IsData(iv)
  BY ModesAssumption DEF Init, Aead
<1> QED BY <1>1 DEF Init, Authentic

(* What has arrived is data, wherever a blob was cut.                      *)
LEMMA ArriveAuthentic ==
    ASSUME ModesInv, Authentic, Arrive
    PROVE  Authentic'
<1>1. /\ pc = "sent" /\ pc' = "arrived" /\ UNCHANGED <<call, ct, tag>> BY DEF Arrive
<1>2. mode' = mode /\ iv' = iv /\ aad' = aad /\ ct' = ct BY <1>1, CallStays
<1>3. ASSUME mode \in Aead
      PROVE  IsData(aad) /\ IsData(iv) /\ IsData(ct) /\ IsData(rct') /\ IsData(raad')
  <2>1. IsData(aad) /\ IsData(iv) /\ IsData(ct) BY <1>1, <1>3 DEF Authentic
  <2>2. raad' \in Aads BY <1>3 DEF Arrive
  <2>3. PICK c \in Changed :
            /\ IsData(c)
            /\ \/ Cut(FlattenSeq(iv) \o FlattenSeq(c))
               \/ rct' = c
    BY DEF Arrive
  <2>4. CASE Cut(FlattenSeq(iv) \o FlattenSeq(c))
    <3>1. PICK w : w = FlattenSeq(iv) \o FlattenSeq(c) OBVIOUS
    <3>2. w \in Seq(Byte)
      <4>1. FlattenSeq(iv) \in Seq(Byte) /\ FlattenSeq(c) \in Seq(Byte) BY <2>1, <2>3, DataString
      <4> QED BY <3>1, <4>1, ConcatParts
    <3>3. PICK y : y = SubSeq(w, NonceLen + 1, Len(w)) OBVIOUS
    <3>4. y \in Seq(Byte)
      <4>1. NonceLen \in Nat /\ Len(w) \in Nat BY <3>2, Numbers, LenProperties
      <4>2. \A j \in NonceLen + 1 .. Len(w) : w[j] \in Byte BY <3>2, <4>1, ElementOfSeq
      <4> QED BY <3>3, <4>1, <4>2, SubSeqProperties
    <3>5. IsData(Pieces(y)) BY <3>4, PiecesType
    <3>6. rct' = Pieces(y) BY <2>4, <3>1, <3>3 DEF Cut
    <3> QED BY <2>1, <2>2, <3>5, <3>6, ModesAssumption
  <2>5. CASE rct' = c BY <2>1, <2>2, <2>3, <2>5, ModesAssumption
  <2> QED BY <2>3, <2>4, <2>5
<1> QED BY <1>1, <1>2, <1>3 DEF Authentic

LEMMA AuthenticStep ==
    ASSUME ModesInv, Authentic, [Next]_vars
    PROVE  Authentic'
<1>1. mode' = mode /\ iv' = iv /\ aad' = aad BY CallKept, CallStays
<1>2. CASE RefuseCall BY <1>1, <1>2 DEF RefuseCall, Authentic
<1>3. CASE Encrypt
  <2>1. pc' = "encrypt" BY <1>3 DEF Encrypt
  <2> QED BY <1>1, <2>1 DEF Authentic
<1>4. CASE Seal
  <2>1. pc = "encrypt" /\ ~Refused /\ pc' = "sent" /\ ct' = ct BY <1>4 DEF Seal
  <2>2. ASSUME mode \in Aead PROVE IsData(ct)
    <3>1. /\ mode \in Modes /\ iv \in Ivs[mode] /\ IsData(msg)
          /\ Made(mode, iv, ct, Plain, used)
      BY <2>1 DEF ModesInv, Sending
    <3>2. IsCall(mode, iv, Plain) /\ IsData(Plain) BY <2>1, <3>1, PlainFits
    <3>3. mode \in Streams BY <2>2 DEF Aead, Streams
    <3> QED BY <3>1, <3>2, <3>3, StreamShape
  <2> QED BY <1>1, <2>1, <2>2 DEF Authentic
<1>5. CASE Arrive BY <1>5, ArriveAuthentic
<1>6. CASE Open
  <2>1. /\ pc = "arrived" /\ ct' = ct /\ tag' = tag
        /\ rct' = rct /\ raad' = raad /\ riv' = riv
        /\ pc' = (IF Accepted THEN "decrypt" ELSE "refused")
    BY <1>6 DEF Open, received
  <2>2. Tag(riv, raad, rct)' = Tag(riv, raad, rct) BY <1>1, <2>1 DEF Tag, MaskInput, J0
  <2>3. mode \in Aead /\ pc' = "decrypt" => Tag(riv, raad, rct) = tag
    BY <2>1 DEF Accepted
  <2> QED BY <1>1, <2>1, <2>2, <2>3 DEF Authentic
<1>7. CASE Decrypt \/ Finish \/ UNCHANGED vars
  <2>1. /\ ct' = ct /\ tag' = tag /\ rct' = rct /\ raad' = raad /\ riv' = riv
        /\ pc' = pc \/ (pc = "decrypt" /\ pc' \in {"done", "refused"})
    BY <1>7 DEF Decrypt, Finish, vars, received
  <2>2. Tag(riv, raad, rct)' = Tag(riv, raad, rct) BY <1>1, <2>1 DEF Tag, MaskInput, J0
  <2> QED BY <1>1, <2>1, <2>2 DEF Authentic
<1> QED BY <1>2, <1>3, <1>4, <1>5, <1>6, <1>7 DEF Next

(* Each length fits into its half of the last block.  In the code that is  *)
(* a condition of every call: to_bytes(8) raises OverflowError otherwise.  *)
LengthsFit ==
    mode \in Aead =>
        /\ Size(aad) < Power[Half] /\ Size(raad) < Power[Half]
        /\ Size(ct) < Power[BlockLen - Half] /\ Size(rct) < Power[BlockLen - Half]

(* A tag tells what it was computed from: the lengths at its end tell the  *)
(* pieces and their padding apart.  Whatever the lengths of a block, of    *)
(* the padding, the nonces and the texts, and wherever a blob was cut:     *)
(* nothing is decrypted but the text that was sent, with the additional    *)
(* data it was sent with (AESGCM.decrypt, ChaCha20Poly1305.decrypt).       *)
THEOREM AlwaysAuthentic ==
    Spec => [](LengthsFit => AuthenticBeforeDecrypt)
<1> DEFINE Inv == ModesInv /\ Authentic
<1>1. Init => Inv BY InitInv, AuthenticInit
<1>2. Inv /\ [Next]_vars => Inv' BY StepInv, AuthenticStep
<1>3. Inv => (LengthsFit => AuthenticBeforeDecrypt)
  <2> SUFFICES ASSUME Inv, LengthsFit, mode \in Aead, pc \in {"decrypt", "done"}
               PROVE  rct = ct /\ raad = aad
    BY DEF AuthenticBeforeDecrypt
  <2>1. PICK unit : unit = IF mode = "gcm" THEN BlockLen ELSE PolyLen OBVIOUS
  <2>2. unit \in Nat /\ unit > 0
    <3>1. BlockLen \in Nat /\ BlockLen > 0 /\ PolyLen \in Nat /\ PolyLen > 0
      BY ModesAssumption
    <3> QED BY <2>1, <3>1
  <2>3. IsData(aad) /\ IsData(ct) /\ IsData(raad) /\ IsData(rct) BY DEF Authentic
  <2>4. Tag(riv, raad, rct) = Tag(iv, aad, ct) BY DEF ModesInv, Sending, Authentic
  <2>5. FlattenSeq(MacInput(raad, rct, unit)) = FlattenSeq(MacInput(aad, ct, unit))
    <3> DEFINE F(a, c) == FlattenSeq(MacInput(a, c, unit))
    <3>1. <<MaskInput(riv), F(raad, rct)>> = <<MaskInput(iv), F(aad, ct)>>
      BY <2>1, <2>4 DEF Tag
    <3> HIDE DEF F
    <3>2. F(raad, rct) = F(aad, ct) BY <3>1
    <3> QED BY <3>2 DEF F
  <2> QED BY <2>2, <2>3, <2>5, MacInputInjective DEF LengthsFit
<1> HIDE DEF Inv
<1> QED BY <1>1, <1>2, <1>3, PTL DEF Spec

-----------------------------------------------------------------------------
(* Different pieces stay different under xor and under the cipher.         *)
LEMMA XorInjective ==
    ASSUME NEW s \in Piece, NEW t \in Piece, NEW b \in Block, Xor(s, b) = Xor(t, b)
    PROVE  s = t
<1>1. Xor(Xor(s, b), b) = s /\ Xor(Xor(t, b), b) = t BY XorUndone
<1> QED BY <1>1

LEMMA XorSwapped ==
    ASSUME NEW a \in Block, NEW b \in Block
    PROVE  Xor(a, b) = Xor(b, a)
<1>1. Len(a) = BlockLen /\ Len(b) = BlockLen BY BlockString
<1>2. \A j \in 1 .. BlockLen : a[j] \in Byte /\ b[j] \in Byte BY DEF Block
<1>3. BlockLen \in Nat /\ Least(BlockLen, BlockLen) = BlockLen BY Numbers DEF Least
<1>4. /\ Xor(a, b) = [j \in 1 .. BlockLen |-> XorByte[<<a[j], b[j]>>]]
      /\ Xor(b, a) = [j \in 1 .. BlockLen |-> XorByte[<<b[j], a[j]>>]]
  BY <1>1, <1>3 DEF Xor
<1>5. \A j \in 1 .. BlockLen : XorByte[<<a[j], b[j]>>] = XorByte[<<b[j], a[j]>>]
  <2> TAKE j \in 1 .. BlockLen
  <2>1. a[j] \in Byte /\ b[j] \in Byte BY <1>2
  <2> QED BY <2>1, BytesAssumption
<1> QED BY <1>4, <1>5

LEMMA XorInjectiveRight ==
    ASSUME NEW e \in Block, NEW a \in Block, NEW b \in Block, Xor(e, a) = Xor(e, b)
    PROVE  a = b
<1>1. Xor(a, e) = Xor(b, e) BY XorSwapped
<1>2. a \in Piece /\ b \in Piece BY BlockString
<1> QED BY <1>1, <1>2, XorInjective

LEMMA DecryptInjective ==
    ASSUME NEW a \in Block
    PROVE  /\ DecryptBlock[a] \in Block
           /\ EncryptBlock[DecryptBlock[a]] = a
<1>1. \E b \in Block : EncryptBlock[b] = a BY ModesAssumption
<1>2. DecryptBlock[a] = CHOOSE b \in Block : EncryptBlock[b] = a BY DEF DecryptBlock
<1> QED BY <1>1, <1>2

-----------------------------------------------------------------------------
(* The receiver.  d is what has arrived, q what is made of it.             *)
Bare == {"cbc", "ctr", "ige"}

DecryptedAt(m, v, d, q, n) ==
    LET x == ChainAfter(m, v, d, q, n - 1)
    IN  CASE m = "cbc" -> Xor(DecryptBlock[d[n]], x.c)
          [] m = "ige" -> Xor(DecryptBlock[Xor(d[n], x.p)], x.c)
          [] m = "ctr" -> Xor(d[n], StreamAt(m, InputAt(m, v, n - 1)))

(* What was sent is a case of it.                                          *)
LEMMA SentIsDecrypted ==
    ASSUME NEW m \in Bare, NEW v, NEW p, NEW c, NEW u,
           IsCall(m, v, p), Made(m, v, c, p, u),
           NEW n \in 1 .. Len(c)
    PROVE  p[n] = DecryptedAt(m, v, c, p, n)
<1>1. CASE m \in Chains
  <2>1. PICK x : x = ChainAfter(m, v, c, p, n - 1) OBVIOUS
  <2>2. /\ m = "cbc" => Xor(DecryptBlock[c[n]], x.c) = p[n]
        /\ m = "ige" => Xor(DecryptBlock[Xor(c[n], x.p)], x.c) = p[n]
    BY <1>1, <2>1, ChainUndone
  <2> QED BY <1>1, <2>1, <2>2 DEF Chains, DecryptedAt
<1>2. CASE m = "ctr"
  <2>1. m \in Streams BY <1>2 DEF Streams
  <2>2. PICK k : k = CounterAfter(m, v, u, n - 1) OBVIOUS
  <2>3. Xor(c[n], StreamAt(m, InputAt(m, v, k))) = p[n] BY <2>1, <2>2, StreamUndone
  <2>4. n \in Nat
    <3>1. Len(c) \in Nat BY LenProperties DEF Made
    <3> QED BY <3>1
  <2>5. k = n - 1
    <3>1. k = FirstCounter(m, v) + (n - 1) BY <1>2, <2>2 DEF CounterAfter
    <3>2. FirstCounter(m, v) = 0 BY <1>2 DEF FirstCounter
    <3> QED BY <2>4, <3>1, <3>2
  <2> QED BY <1>2, <2>3, <2>5 DEF DecryptedAt
<1> QED BY <1>1, <1>2 DEF Bare, Chains

(* Of the same piece and the same chaining values the same is made, and of *)
(* another piece, something else.                                          *)
LEMMA SameMade ==
    ASSUME NEW m \in Bare, NEW v, NEW p, NEW c, NEW d, NEW q, NEW n,
           d[n] = c[n],
           m \in Chains => ChainAfter(m, v, d, q, n - 1) = ChainAfter(m, v, c, p, n - 1)
    PROVE  DecryptedAt(m, v, d, q, n) = DecryptedAt(m, v, c, p, n)
  BY DEF DecryptedAt, Bare, Chains

LEMMA OtherMade ==
    ASSUME NEW m \in Bare, NEW v, NEW p, NEW c, NEW u, NEW d, NEW q,
           IsCall(m, v, p), Made(m, v, c, p, u),
           NEW n \in 1 .. Len(c), d[n] # c[n], d[n] \in Piece,
           m \in Chains => /\ d[n] \in Block
                           /\ ChainAfter(m, v, d, q, n - 1) = ChainAfter(m, v, c, p, n - 1)
    PROVE  DecryptedAt(m, v, d, q, n) # DecryptedAt(m, v, c, p, n)
<1>0. c \in Seq(Piece) /\ Len(c) \in Nat /\ n \in Nat /\ c[n] \in Piece
  BY LenProperties, ElementOfSeq DEF Made
<1>1. CASE m \in Chains
  <2>1. PICK x : x = ChainAfter(m, v, c, p, n - 1) OBVIOUS
  <2>2. x.c \in Block /\ (m = "ige" => x.p \in Block)
    <3>1. n - 1 \in 0 .. Len(c) BY <1>0
    <3> QED BY <1>1, <2>1, <3>1, ChainType
  <2>3. c[n] \in Block /\ d[n] \in Block BY <1>1, ElementOfSeq DEF Made
  <2>4. CASE m = "cbc"
    <3>1. DecryptBlock[d[n]] \in Block /\ DecryptBlock[c[n]] \in Block BY <2>3, DecryptInjective
    <3>2. DecryptBlock[d[n]] # DecryptBlock[c[n]] BY <2>3, DecryptInjective
    <3>3. Xor(DecryptBlock[d[n]], x.c) # Xor(DecryptBlock[c[n]], x.c)
      BY <2>2, <3>1, <3>2, XorInjective, BlockString
    <3> QED BY <1>1, <2>1, <2>4, <3>3 DEF DecryptedAt
  <2>5. CASE m = "ige"
    <3>1. PICK a \in Block : a = Xor(d[n], x.p) BY <2>2, <2>3, <2>5, XorBlocks
    <3>2. PICK b \in Block : b = Xor(c[n], x.p) BY <2>2, <2>3, <2>5, XorBlocks
    <3>3. a # b BY <1>0, <2>2, <2>5, <3>1, <3>2, XorInjective
    <3>4. DecryptBlock[a] \in Block /\ DecryptBlock[b] \in Block BY DecryptInjective
    <3>5. DecryptBlock[a] # DecryptBlock[b] BY <3>3, DecryptInjective
    <3>6. Xor(DecryptBlock[a], x.c) # Xor(DecryptBlock[b], x.c)
      BY <2>2, <3>4, <3>5, XorInjective, BlockString
    <3> QED BY <1>1, <2>1, <2>5, <3>1, <3>2, <3>6 DEF DecryptedAt
  <2> QED BY <1>1, <2>4, <2>5 DEF Chains
<1>2. CASE m = "ctr"
  <2>1. m \in Streams /\ v \in Ivs[m] BY <1>2 DEF Streams, IsCall
  <2>2. n - 1 \in Nat BY <1>0
  <2>3. StreamAt(m, InputAt(m, v, n - 1)) \in Block
    BY <1>2, <2>1, <2>2, StreamType DEF IsCounter
  <2>4. Xor(d[n], StreamAt(m, InputAt(m, v, n - 1))) # Xor(c[n], StreamAt(m, InputAt(m, v, n - 1)))
    BY <1>0, <2>3, XorInjective
  <2> QED BY <1>2, <2>4 DEF DecryptedAt
<1> QED BY <1>1, <1>2 DEF Bare, Chains

-----------------------------------------------------------------------------
(* The invariant: what has arrived differs from what was sent in one       *)
(* piece, or lacks the last; each piece of the plaintext is what is made   *)
(* of the pieces that have arrived, and right as long as those are.        *)
HitAt(k) ==
    /\ k \in 1 .. Len(ct)
    /\ k > Len(rct) \/ rct[k] # ct[k]
    /\ \A j \in 1 .. Len(rct) : j # k => rct[j] = ct[j]

Arrived ==
    /\ riv = iv /\ IsData(rct)
    /\ Len(rct) \in {Len(ct), Len(ct) - 1}
    /\ rct # ct => \E k : HitAt(k)

Retraced ==
    /\ out \in Seq(Piece) /\ Len(out) = i /\ i <= Len(rct)
    /\ mode \in Chains => /\ rct \in Seq(Block) /\ out \in Seq(Block)
                          /\ prev = ChainAfter(mode, iv, rct, out, i)
    /\ mode = "ctr" => counter = i
    /\ \A n \in 1 .. i : out[n] = DecryptedAt(mode, iv, rct, out, n)
    /\ \A n \in 1 .. i : (\A l \in 1 .. n : rct[l] = ct[l]) => out[n] = Plain[n]

DamageInv ==
    /\ ModesInv /\ mode \in Bare /\ ~blob
    /\ pc \in {"arrived", "decrypt"} => Arrived
    /\ pc = "decrypt" => Retraced

LEMMA SenderDone ==
    ASSUME ModesInv, pc \in {"sent", "arrived", "decrypt"}
    PROVE  /\ mode \in Modes /\ iv \in Ivs[mode] /\ ~Refused
           /\ IsCall(mode, iv, Plain) /\ Made(mode, iv, ct, Plain, used)
           /\ Len(ct) = Len(Plain) /\ Len(ct) \in Nat
           /\ ct \in Seq(Piece) /\ (mode \in Chains => ct \in Seq(Block))
<1>1. /\ mode \in Modes /\ iv \in Ivs[mode] /\ IsData(msg) /\ ~Refused
      /\ Made(mode, iv, ct, Plain, used) /\ Len(ct) = Len(Plain)
  BY DEF ModesInv, Sending
<1>2. IsCall(mode, iv, Plain) BY <1>1, PlainFits
<1>3. ct \in Seq(Piece) /\ (mode \in Chains => ct \in Seq(Block)) BY <1>1 DEF Made
<1> QED BY <1>1, <1>2, <1>3, LenProperties

(* The first piece that is hit is the only one.                            *)
LEMMA HitIsFirst ==
    ASSUME Len(ct) \in Nat, Len(rct) \in {Len(ct), Len(ct) - 1}, NEW k, HitAt(k)
    PROVE  FirstHit = k
<1> DEFINE First(f) == /\ f > Len(rct) \/ rct[f] # ct[f]
                       /\ \A j \in 1 .. f - 1 : rct[j] = ct[j]
<1>1. /\ k \in 1 .. Len(ct) /\ (k > Len(rct) \/ rct[k] # ct[k])
      /\ \A j \in 1 .. Len(rct) : j # k => rct[j] = ct[j]
  BY DEF HitAt
<1>2. First(k)
  <2>1. \A j \in 1 .. k - 1 : j \in 1 .. Len(rct) /\ j # k BY <1>1
  <2> QED BY <1>1, <2>1
<1>3. FirstHit = CHOOSE f \in 1 .. Len(ct) : First(f) BY DEF FirstHit
<1> HIDE DEF First
<1>4. PICK f \in 1 .. Len(ct) : f = FirstHit /\ First(f) BY <1>1, <1>2, <1>3
<1>5. ~(f < k)
  <2>1. ASSUME f < k PROVE FALSE
    <3>1. f \in 1 .. Len(rct) /\ f # k BY <1>1, <2>1
    <3>2. rct[f] = ct[f] /\ ~(f > Len(rct)) BY <1>1, <3>1
    <3> QED BY <1>4, <3>2 DEF First
  <2> QED BY <2>1
<1>6. ~(k < f)
  <2>1. ASSUME k < f PROVE FALSE
    <3>1. k \in 1 .. f - 1 /\ ~(k > Len(rct)) BY <1>1, <2>1
    <3>2. rct[k] = ct[k] BY <1>4, <3>1 DEF First
    <3> QED BY <1>1, <3>1, <3>2
  <2> QED BY <2>1
<1> QED BY <1>1, <1>4, <1>5, <1>6

-----------------------------------------------------------------------------
(* The steps.                                                              *)
LEMMA DamageInit ==
    ASSUME Init, mode \in Bare
    PROVE  DamageInv
<1>2. ModesInv BY InitInv
<1>3. ~blob /\ pc = "encrypt" BY DEF Init, Bare, Aead
<1> QED BY <1>2, <1>3 DEF DamageInv

LEMMA ArriveHit ==
    ASSUME DamageInv, Arrive
    PROVE  Arrived'
<1>1. /\ pc = "sent" /\ UNCHANGED <<call, ct>> BY DEF Arrive
<1>2. mode' = mode /\ iv' = iv /\ blob' = blob /\ ct' = ct BY <1>1, CallStays
<1>3. PICK c \in Changed : IsData(c) /\ rct' = c /\ riv' = iv
  BY DEF DamageInv, Arrive, Bare, Aead
<1>4. ct \in Seq(Piece) /\ Len(ct) \in Nat BY <1>1, SenderDone DEF DamageInv
<1>5. CASE c = ct BY <1>2, <1>3, <1>5 DEF Arrived
<1>6. CASE \E k \in 1 .. Len(ct), p \in Piece : c = [ct EXCEPT ![k] = p]
  <2>1. PICK k \in 1 .. Len(ct), p \in Piece : c = [ct EXCEPT ![k] = p] BY <1>6
  <2>2. /\ c \in Seq(Piece) /\ Len(c) = Len(ct)
        /\ \A j \in 1 .. Len(ct) : c[j] = IF j = k THEN p ELSE ct[j]
    BY <1>4, <2>1, ExceptSeq
  <2>3. ASSUME c # ct PROVE HitAt(k)'
    <3>1. c[k] # ct[k]
      <4>1. ASSUME c[k] = ct[k] PROVE FALSE
        <5>1. \A j \in 1 .. Len(c) : c[j] = ct[j] BY <2>2, <4>1
        <5> QED BY <1>4, <2>2, <2>3, <5>1, SeqEqual
      <4> QED BY <4>1
    <3>2. \A j \in 1 .. Len(c) : j # k => c[j] = ct[j] BY <2>2
    <3> QED BY <1>2, <1>3, <3>1, <3>2 DEF HitAt
  <2> QED BY <1>2, <1>3, <2>2, <2>3 DEF Arrived
<1>7. CASE ct # <<>> /\ c = Front(ct)
  <2>1. Len(ct) > 0 BY <1>4, <1>7, EmptySeq
  <2>2. Len(c) = Len(ct) - 1 /\ \A j \in 1 .. Len(ct) - 1 : c[j] = ct[j]
    BY <1>4, <1>7, <2>1, FrontAndLast
  <2>3. Len(ct) \in 1 .. Len(ct) /\ Len(ct) > Len(c) BY <1>4, <2>1, <2>2
  <2>4. HitAt(Len(ct))' BY <1>2, <1>3, <2>2, <2>3 DEF HitAt
  <2> QED BY <1>2, <1>3, <2>2, <2>4 DEF Arrived
<1>8. c = ct \/ (\E k \in 1 .. Len(ct), p \in Piece : c = [ct EXCEPT ![k] = p])
          \/ (ct # <<>> /\ c = Front(ct))
  BY <1>3 DEF Changed
<1> QED BY <1>5, <1>6, <1>7, <1>8

LEMMA OpenRetraced ==
    ASSUME DamageInv, Open, pc' = "decrypt"
    PROVE  Retraced'
<1>1. /\ pc = "arrived" /\ UNCHANGED <<call, ct, tag, received, out, used>> /\ Accepted
      /\ prev' = (IF Chained THEN FirstPrev ELSE <<>>)
      /\ counter' = FirstCounter(mode, riv) /\ i' = 0
  BY DEF Open
<1>2. mode' = mode /\ iv' = iv /\ rct' = rct /\ ct' = ct /\ out' = out
  BY <1>1, CallStays DEF received
<1>3. out = <<>> BY <1>1 DEF DamageInv, ModesInv, Receiving
<1>4. mode \in Modes BY <1>1, SenderDone DEF DamageInv
<1>5. IsData(rct) BY <1>1 DEF DamageInv, Arrived
<1>6. Len(rct) \in Nat BY <1>5, DataPieces
<1>7. out' \in Seq(Piece) /\ out' \in Seq(Block) /\ Len(out') = 0 BY <1>2, <1>3, EmptySeq
<1>8. ASSUME mode \in Chains
      PROVE  rct \in Seq(Block) /\ prev' = ChainAfter(mode, iv, rct, out', 0)
  <2>1. Size(rct) % BlockLen = 0 BY <1>1, <1>8 DEF Accepted, Chained, Chains
  <2>2. \A j \in 1 .. Len(rct) : rct[j] \in Block BY <1>5, <2>1, WholeBlocks
  <2>3. rct \in [1 .. Len(rct) -> Piece] BY <1>5, LenProperties DEF IsData
  <2>4. rct \in [1 .. Len(rct) -> Block] BY <2>2, <2>3
  <2>5. rct \in Seq(Block) BY <1>6, <2>4, StringLength
  <2>6. prev' = FirstPrev BY <1>1, <1>8 DEF Chained, Chains
  <2> QED BY <1>4, <1>8, <2>5, <2>6, StartPosition
<1>9. mode = "ctr" => counter' = 0 BY <1>1 DEF FirstCounter
<1> QED BY <1>1, <1>2, <1>6, <1>7, <1>8, <1>9 DEF Retraced

(* The next piece is what is made of what has arrived.                     *)
LEMMA NextMade ==
    ASSUME DamageInv, Decrypt, NEW r, r = DecryptedAt(mode, iv, rct, out, i + 1)
    PROVE  /\ out' = Append(out, r) /\ r \in Piece
           /\ mode \in Chains => r \in Block /\ prev' = ChainAfter(mode, iv, rct, out', i + 1)
           /\ mode = "ctr" => counter' = i + 1
<1>1. pc = "decrypt" /\ i < Len(rct) BY DEF Decrypt
<1>2. mode \in Bare /\ Arrived /\ Retraced BY <1>1 DEF DamageInv
<1>3. riv = iv /\ rct \in Seq(Piece) /\ Len(rct) \in Nat BY <1>2, DataPieces DEF Arrived
<1>4. out \in Seq(Piece) /\ Len(out) = i /\ i \in Nat BY <1>2, LenProperties DEF Retraced
<1>5. i + 1 \in 1 .. Len(rct) /\ (i + 1) - 1 = i /\ i + 1 # 0 BY <1>1, <1>3, <1>4
<1>6. rct[i + 1] \in Piece BY <1>3, <1>5, ElementOfSeq
<1>7. iv \in Ivs[mode] BY <1>1, SenderDone DEF DamageInv
<1>8. CASE mode \in Chains
  <2>1. rct \in Seq(Block) /\ out \in Seq(Block) BY <1>2, <1>8 DEF Retraced
  <2>2. PICK x : x = ChainAfter(mode, iv, rct, out, i) OBVIOUS
  <2>3. prev = x BY <1>2, <1>8, <2>2 DEF Retraced
  <2>4. i # 0 => rct[i] \in Block /\ out[i] \in Block
    <3>1. i # 0 => i \in 1 .. Len(rct) /\ i \in 1 .. Len(out) BY <1>4, <1>5, <1>3
    <3> QED BY <2>1, <3>1, ElementOfSeq
  <2>5. x.c \in Block /\ (mode = "ige" => x.p \in Block)
    <3>1. IF mode = "cbc" THEN iv \in Block ELSE iv \in Block \X Block
      BY <1>7, <1>8, ModesAssumption DEF Chains
    <3> QED BY <1>8, <2>2, <2>4, <3>1 DEF ChainAfter, Chains
  <2>6. PICK b \in Block : b = rct[i + 1] BY <1>5, <2>1, ElementOfSeq
  <2>7. ~DecryptStream BY <1>8 DEF DecryptStream, Chained, Chains
  <2>8. CASE mode = "cbc"
    <3>1. DecryptCbc BY <2>7, <2>8 DEF Decrypt, DecryptIge
    <3>2. r = Xor(DecryptBlock[b], x.c) BY <1>5, <2>2, <2>6, <2>8 DEF DecryptedAt
    <3>3. r \in Block BY <2>5, <3>2, DecryptInjective, XorBlocks
    <3>4. out' = Append(out, r) /\ prev' = [prev EXCEPT !.c = b]
      BY <2>3, <2>6, <3>1, <3>2 DEF DecryptCbc
    <3>5. prev' = [c |-> b, p |-> iv] BY <2>2, <2>3, <2>8, <3>4 DEF ChainAfter
    <3>6. ChainAfter(mode, iv, rct, out', i + 1) = [c |-> b, p |-> iv]
      BY <1>5, <2>6, <2>8 DEF ChainAfter
    <3> QED BY <2>8, <3>3, <3>4, <3>5, <3>6, BlockString
  <2>9. CASE mode = "ige"
    <3>1. DecryptIge BY <2>7, <2>9 DEF Decrypt, DecryptCbc
    <3>2. r = Xor(DecryptBlock[Xor(b, x.p)], x.c) BY <1>5, <2>2, <2>6, <2>9 DEF DecryptedAt
    <3>3. Xor(b, x.p) \in Block BY <2>5, <2>9, XorBlocks
    <3>4. DecryptBlock[Xor(b, x.p)] \in Block BY <3>3, DecryptInjective
    <3>5. r \in Block BY <2>5, <3>2, <3>4, XorBlocks
    <3>6. out' = Append(out, r) /\ prev' = [c |-> b, p |-> r]
      BY <2>3, <2>6, <3>1, <3>2 DEF DecryptIge
    <3>7. Append(out, r)[i + 1] = r BY <1>4, <2>1, <3>5, AppendProperties
    <3>8. ChainAfter(mode, iv, rct, out', i + 1) = [c |-> b, p |-> r]
      BY <1>5, <2>6, <2>9, <3>6, <3>7 DEF ChainAfter
    <3> QED BY <2>9, <3>5, <3>6, <3>8, BlockString
  <2> QED BY <1>8, <2>8, <2>9 DEF Chains
<1>9. CASE mode = "ctr"
  <2>1. counter = i BY <1>2, <1>9 DEF Retraced
  <2>2. DecryptStream BY <1>9 DEF Decrypt, DecryptCbc, DecryptIge
  <2>3. KeyStream(KeyInput(riv)) = StreamAt(mode, InputAt(mode, iv, i))
    BY <1>3, <1>9, <2>1 DEF KeyInput, InputAt, KeyStream, StreamAt
  <2>4. r = Xor(rct[i + 1], StreamAt(mode, InputAt(mode, iv, i)))
    BY <1>5, <1>9 DEF DecryptedAt
  <2>5. out' = Append(out, r) BY <2>2, <2>3, <2>4 DEF DecryptStream
  <2>6. counter' = i + 1 BY <1>9, <2>1, <2>2 DEF DecryptStream, NextCounter
  <2>7. StreamAt(mode, InputAt(mode, iv, i)) \in Block
    BY <1>4, <1>7, <1>9, StreamType DEF IsCounter, Streams
  <2>8. r \in Piece BY <1>6, <2>4, <2>7, XorUndone
  <2> QED BY <1>9, <2>5, <2>6, <2>8 DEF Chains
<1> QED BY <1>2, <1>8, <1>9 DEF Bare, Chains

LEMMA DecryptRetraced ==
    ASSUME DamageInv, Decrypt
    PROVE  Retraced'
<1>1. /\ pc = "decrypt" /\ i < Len(rct) /\ i' = i + 1
      /\ UNCHANGED <<call, ct, tag, received, used>>
  BY DEF Decrypt
<1>2. /\ mode' = mode /\ iv' = iv /\ Plain' = Plain /\ rct' = rct /\ ct' = ct
  BY <1>1, CallStays DEF received
<1>3. mode \in Bare /\ Arrived /\ Retraced BY <1>1 DEF DamageInv
<1>4. Len(rct) \in Nat BY <1>3, DataPieces DEF Arrived
<1>5. out \in Seq(Piece) /\ Len(out) = i /\ i \in Nat BY <1>3, LenProperties DEF Retraced
<1>6. PICK r : r = DecryptedAt(mode, iv, rct, out, i + 1) OBVIOUS
<1>7. /\ out' = Append(out, r) /\ r \in Piece
      /\ mode \in Chains => r \in Block /\ prev' = ChainAfter(mode, iv, rct, out', i + 1)
      /\ mode = "ctr" => counter' = i + 1
  BY <1>6, NextMade
<1>8. /\ out' \in Seq(Piece) /\ Len(out') = i + 1 /\ out'[i + 1] = r
      /\ \A n \in 1 .. i : out'[n] = out[n]
  BY <1>5, <1>7, AppendProperties
<1>9. mode \in Chains => rct \in Seq(Block) /\ out' \in Seq(Block)
  BY <1>3, <1>7, AppendProperties DEF Retraced
<1>10. \A n \in 1 .. i + 1 :
           DecryptedAt(mode, iv, rct, out', n) = DecryptedAt(mode, iv, rct, out, n)
  <2> TAKE n \in 1 .. i + 1
  <2>1. ChainAfter(mode, iv, rct, out', n - 1) = ChainAfter(mode, iv, rct, out, n - 1)
    <3>1. n - 1 = 0 \/ n - 1 \in 1 .. i BY <1>5
    <3> QED BY <1>8, <3>1 DEF ChainAfter
  <2> QED BY <1>3, <2>1, SameMade
<1>11. \A n \in 1 .. i + 1 : out'[n] = DecryptedAt(mode, iv, rct, out', n)
  <2> TAKE n \in 1 .. i + 1
  <2>1. CASE n = i + 1 BY <1>6, <1>8, <1>10, <2>1
  <2>2. CASE n # i + 1
    <3>1. n \in 1 .. i BY <1>5, <2>2
    <3>2. out[n] = DecryptedAt(mode, iv, rct, out, n) BY <1>3, <3>1 DEF Retraced
    <3> QED BY <1>8, <1>10, <3>1, <3>2
  <2> QED BY <2>1, <2>2
<1>12. ASSUME \A l \in 1 .. i + 1 : rct[l] = ct[l]
       PROVE  r = Plain[i + 1]
  <2>1. /\ IsCall(mode, iv, Plain) /\ Made(mode, iv, ct, Plain, used) /\ Len(ct) \in Nat
    BY <1>1, SenderDone DEF DamageInv
  <2>2. i + 1 \in 1 .. Len(ct)
    <3>1. Len(rct) \in {Len(ct), Len(ct) - 1} BY <1>3 DEF Arrived
    <3> QED BY <1>1, <1>4, <1>5, <2>1, <3>1
  <2>3. i # 0 => rct[i] = ct[i] /\ out[i] = Plain[i]
    <3>1. ASSUME i # 0 PROVE i \in 1 .. i /\ \A l \in 1 .. i : rct[l] = ct[l]
      BY <1>5, <1>12, <3>1
    <3> QED BY <1>3, <3>1 DEF Retraced
  <2>4. rct[i + 1] = ct[i + 1] BY <1>5, <1>12
  <2>5. ChainAfter(mode, iv, rct, out, i) = ChainAfter(mode, iv, ct, Plain, i)
    BY <2>3 DEF ChainAfter
  <2>6. (i + 1) - 1 = i BY <1>5
  <2>7. r = DecryptedAt(mode, iv, ct, Plain, i + 1)
    BY <1>3, <1>6, <2>4, <2>5, <2>6, SameMade
  <2> QED BY <1>3, <2>1, <2>2, <2>7, SentIsDecrypted
<1>13. \A n \in 1 .. i + 1 : (\A l \in 1 .. n : rct[l] = ct[l]) => out'[n] = Plain[n]
  <2> TAKE n \in 1 .. i + 1
  <2>1. CASE n = i + 1 BY <1>8, <1>12, <2>1
  <2>2. CASE n # i + 1
    <3>1. n \in 1 .. i BY <1>5, <2>2
    <3> QED BY <1>3, <1>8, <3>1 DEF Retraced
  <2> QED BY <2>1, <2>2
<1>14. i + 1 <= Len(rct) BY <1>1, <1>4, <1>5
<1> QED BY <1>1, <1>2, <1>7, <1>8, <1>9, <1>11, <1>13, <1>14 DEF Retraced

(* What has arrived stays, and so does everything when nothing happens.    *)
LEMMA ArrivedStays ==
    ASSUME Arrived, UNCHANGED <<call, ct, received>>
    PROVE  Arrived'
<1>1. iv' = iv /\ ct' = ct /\ rct' = rct /\ riv' = riv BY CallStays DEF received
<1> QED BY <1>1 DEF Arrived, HitAt

LEMMA DamageStep ==
    ASSUME DamageInv, [Next]_vars
    PROVE  DamageInv'
<1>1. ModesInv' BY StepInv DEF DamageInv
<1>2. mode' \in Bare /\ ~blob' BY CallKept, CallStays DEF DamageInv
<1>3. pc' \in {"arrived", "decrypt"} => Arrived'
  <2>1. CASE Arrive BY <2>1, ArriveHit
  <2>2. CASE Open
    <3>1. pc = "arrived" /\ UNCHANGED <<call, ct, received>> BY <2>2 DEF Open
    <3> QED BY <3>1, ArrivedStays DEF DamageInv
  <2>3. CASE Decrypt
    <3>1. pc = "decrypt" /\ UNCHANGED <<call, ct, received>> BY <2>3 DEF Decrypt
    <3> QED BY <3>1, ArrivedStays DEF DamageInv
  <2>4. CASE UNCHANGED vars
    <3>1. pc' = pc /\ UNCHANGED <<call, ct, received>> BY <2>4 DEF vars
    <3> QED BY <3>1, ArrivedStays DEF DamageInv
  <2>5. CASE RefuseCall BY <2>5 DEF RefuseCall
  <2>6. CASE Encrypt BY <2>6 DEF Encrypt
  <2>7. CASE Seal BY <2>7 DEF Seal
  <2>8. CASE Finish BY <2>8 DEF Finish
  <2> QED BY <2>1, <2>2, <2>3, <2>4, <2>5, <2>6, <2>7, <2>8 DEF Next
<1>4. pc' = "decrypt" => Retraced'
  <2>1. CASE Open BY <2>1, OpenRetraced
  <2>2. CASE Decrypt BY <2>2, DecryptRetraced
  <2>3. CASE UNCHANGED vars
    <3>1. /\ pc' = pc /\ UNCHANGED call /\ ct' = ct /\ rct' = rct /\ out' = out /\ i' = i
          /\ prev' = prev /\ counter' = counter
      BY <2>3 DEF vars, received
    <3>2. mode' = mode /\ iv' = iv /\ Plain' = Plain BY <3>1, CallStays
    <3> QED BY <3>1, <3>2 DEF DamageInv, Retraced
  <2>4. CASE RefuseCall BY <2>4 DEF RefuseCall
  <2>5. CASE Encrypt BY <2>5 DEF Encrypt
  <2>6. CASE Seal BY <2>6 DEF Seal
  <2>7. CASE Arrive BY <2>7 DEF Arrive
  <2>8. CASE Finish BY <2>8 DEF Finish
  <2> QED BY <2>1, <2>2, <2>3, <2>4, <2>5, <2>6, <2>7, <2>8 DEF Next
<1> QED BY <1>1, <1>2, <1>3, <1>4 DEF DamageInv

-----------------------------------------------------------------------------
(* What the invariant says about the pieces before, at and behind the one  *)
(* that was hit.                                                           *)
LEMMA DamageHere ==
    ASSUME DamageInv, pc = "decrypt", rct # ct, NEW j \in 1 .. i
    PROVE  /\ j < FirstHit => out[j] = Plain[j]
           /\ j = FirstHit => out[j] # Plain[j]
           /\ j = FirstHit + 1 /\ mode = "cbc" => out[j] # Plain[j]
           /\ j > FirstHit + 1 /\ mode = "cbc" => out[j] = Plain[j]
           /\ j > FirstHit /\ mode = "ctr" => out[j] = Plain[j]
<1>1. mode \in Bare /\ Arrived /\ Retraced BY DEF DamageInv
<1>2. /\ IsCall(mode, iv, Plain) /\ Made(mode, iv, ct, Plain, used) /\ Len(ct) \in Nat
      /\ ct \in Seq(Piece) /\ (mode \in Chains => ct \in Seq(Block))
  BY SenderDone DEF DamageInv
<1>3. PICK k : HitAt(k) BY <1>1 DEF Arrived
<1>4. /\ Len(rct) \in {Len(ct), Len(ct) - 1} /\ rct \in Seq(Piece) /\ Len(rct) \in Nat
      /\ (mode \in Chains => rct \in Seq(Block))
  BY <1>1, DataPieces DEF Arrived, Retraced
<1>5. FirstHit = k BY <1>2, <1>3, <1>4, HitIsFirst
<1>6. /\ k \in 1 .. Len(ct) /\ (k > Len(rct) \/ rct[k] # ct[k])
      /\ \A l \in 1 .. Len(rct) : l # k => rct[l] = ct[l]
  BY <1>3 DEF HitAt
<1>7. i \in Nat /\ i <= Len(rct) BY <1>1, LenProperties DEF Retraced
<1>8. j \in 1 .. Len(rct) /\ j \in 1 .. Len(ct) BY <1>2, <1>4, <1>7
<1>9. out[j] = DecryptedAt(mode, iv, rct, out, j) BY <1>1 DEF Retraced
<1>10. Plain[j] = DecryptedAt(mode, iv, ct, Plain, j) BY <1>1, <1>2, <1>8, SentIsDecrypted
<1>11. \A n \in 1 .. i : n < k => out[n] = Plain[n]
  <2>1. SUFFICES ASSUME NEW n \in 1 .. i, n < k PROVE out[n] = Plain[n] OBVIOUS
  <2>2. \A l \in 1 .. n : rct[l] = ct[l] BY <1>4, <1>6, <1>7, <2>1
  <2> QED BY <1>1, <2>2 DEF Retraced
<1>12. ASSUME j = k PROVE out[j] # Plain[j]
  <2>1. rct[j] # ct[j] BY <1>4, <1>6, <1>8, <1>12
  <2>2. rct[j] \in Piece /\ (mode \in Chains => rct[j] \in Block) BY <1>4, <1>8, ElementOfSeq
  <2>3. ChainAfter(mode, iv, rct, out, j - 1) = ChainAfter(mode, iv, ct, Plain, j - 1)
    <3>1. CASE j - 1 = 0 BY <3>1 DEF ChainAfter
    <3>2. CASE j - 1 # 0
      <4>1. j - 1 \in 1 .. i /\ j - 1 < k /\ j - 1 \in 1 .. Len(rct) /\ j - 1 # k
        BY <1>4, <1>7, <1>12, <3>2
      <4>2. out[j - 1] = Plain[j - 1] /\ rct[j - 1] = ct[j - 1] BY <1>6, <1>11, <4>1
      <4> QED BY <3>2, <4>2 DEF ChainAfter
    <3> QED BY <3>1, <3>2
  <2> QED BY <1>1, <1>2, <1>8, <1>9, <1>10, <2>1, <2>2, <2>3, OtherMade
<1>13. ASSUME j = k + 1, mode = "cbc" PROVE out[j] # Plain[j]
  <2>1. k \in 1 .. Len(rct) /\ j - 1 = k /\ k # 0 /\ j # k BY <1>6, <1>8, <1>13
  <2>2. PICK b \in Block : b = ct[j] /\ b = rct[j]
    BY <1>2, <1>6, <1>8, <1>13, <2>1, ElementOfSeq DEF Chains
  <2>3. rct[k] # ct[k] BY <1>4, <1>6, <2>1
  <2>4. rct[k] \in Block /\ ct[k] \in Block
    BY <1>2, <1>4, <1>6, <1>13, <2>1, ElementOfSeq DEF Chains
  <2>5. out[j] = Xor(DecryptBlock[b], rct[k])
    BY <1>9, <1>13, <2>1, <2>2 DEF DecryptedAt, ChainAfter
  <2>6. Plain[j] = Xor(DecryptBlock[b], ct[k])
    BY <1>10, <1>13, <2>1, <2>2 DEF DecryptedAt, ChainAfter
  <2>7. DecryptBlock[b] \in Block BY DecryptInjective
  <2> QED BY <2>3, <2>4, <2>5, <2>6, <2>7, XorInjectiveRight
<1>14. ASSUME j > k + 1, mode = "cbc" PROVE out[j] = Plain[j]
  <2>1. j - 1 \in 1 .. Len(rct) /\ j - 1 # k /\ j # k BY <1>6, <1>8, <1>14
  <2>2. rct[j] = ct[j] /\ rct[j - 1] = ct[j - 1] BY <1>6, <1>8, <2>1
  <2>3. ChainAfter(mode, iv, rct, out, j - 1) = ChainAfter(mode, iv, ct, Plain, j - 1)
    BY <1>14, <2>2 DEF ChainAfter
  <2> QED BY <1>1, <1>9, <1>10, <2>2, <2>3, SameMade
<1>15. ASSUME j > k, mode = "ctr" PROVE out[j] = Plain[j]
  <2>1. rct[j] = ct[j] BY <1>6, <1>8, <1>15
  <2>2. mode \notin Chains BY <1>15 DEF Chains
  <2> QED BY <1>1, <1>9, <1>10, <2>1, <2>2, SameMade
<1> QED BY <1>5, <1>11, <1>12, <1>13, <1>14, <1>15

(* Whatever the block cipher, the lengths of a block and of the messages,  *)
(* and wherever a piece was changed or the last one cut off: CBC, CTR and  *)
(* IGE decrypt everything before it, never the piece itself, and CBC and   *)
(* CTR everything behind what it reaches (aes.py, aes_ige.py).             *)
THEOREM DamageAlwaysContained ==
    Spec => [](mode \in Bare => DamageContained)
<1> DEFINE Inv == mode \in Bare => DamageInv
<1>1. Init => Inv BY DamageInit
<1>2. Inv /\ [Next]_vars => Inv'
  <2>1. ASSUME [Next]_vars PROVE mode' = mode BY <2>1, CallKept, CallStays
  <2>2. ASSUME DamageInv, [Next]_vars PROVE DamageInv' BY <2>2, DamageStep
  <2> QED BY <2>1, <2>2
<1>3. Inv => (mode \in Bare => DamageContained)
  BY DamageHere DEF DamageContained
<1> HIDE DEF Inv
<1> QED BY <1>1, <1>2, <1>3, PTL DEF Spec

-----------------------------------------------------------------------------
(* The block ciphers.                                                      *)
AesState == [Cells -> Byte]
AesWord  == [1 .. 4 -> Byte]

-----------------------------------------------------------------------------
(* XorWord takes an operand away again.                                    *)
LEMMA XorWordUndone ==
    ASSUME NEW a \in Word, NEW b \in Word
    PROVE  XorWord[a, b] \in Word /\ XorWord[XorWord[a, b], b] = a
  BY CipherAssumption

LEMMA ByteNumbers ==
    Base \in Nat /\ 0 \in Byte
<1>1. Base \in Nat \ {0, 1} BY BytesAssumption
<1> QED BY <1>1 DEF Byte

(* _xtime() and _mul() return bytes.                                       *)
LEMMA XTimeType ==
    ASSUME NEW a \in Byte
    PROVE  XTime(a) \in Byte
<1>1. Base \in Nat BY ByteNumbers
<1>2. CASE a < Base - a BY <1>1, <1>2 DEF XTime, Byte
<1>3. CASE ~(a < Base - a)
  <2>1. 2 * a - Base \in Byte BY <1>1, <1>3 DEF Byte
  <2>2. XorByte[2 * a - Base, Poly] \in Byte BY <2>1, XorByteUndone, CipherAssumption
  <2> QED BY <1>3, <2>2 DEF XTime
<1> QED BY <1>2, <1>3

LEMMA MulType ==
    ASSUME NEW a \in Byte, NEW b \in Nat
    PROVE  Mul(a, b) \in Byte
<1>0. 0 \in Byte BY ByteNumbers
<1> DEFINE Term(bit, x) == IF (b \div bit) % 2 = 1 THEN x ELSE 0
           a2 == XTime(a)
           a4 == XTime(a2)
<1>1. a2 \in Byte BY XTimeType
<1>2. a4 \in Byte BY <1>1, XTimeType
<1>3. XTime(a4) \in Byte BY <1>2, XTimeType
<1>4. /\ Term(1, a) \in Byte /\ Term(2, a2) \in Byte
      /\ Term(4, a4) \in Byte /\ Term(8, XTime(a4)) \in Byte
  BY <1>0, <1>1, <1>2, <1>3
<1> HIDE DEF Term
<1>5. /\ XorByte[Term(1, a), Term(2, a2)] \in Byte
      /\ XorByte[Term(4, a4), Term(8, XTime(a4))] \in Byte
  BY <1>4, XorByteUndone
<1>6. XorByte[XorByte[Term(1, a), Term(2, a2)], XorByte[Term(4, a4), Term(8, XTime(a4))]] \in Byte
  BY <1>5, XorByteUndone
<1> QED BY <1>6 DEF Mul, Term

LEMMA ColumnType ==
    ASSUME NEW row \in [1 .. 4 -> Nat], NEW col \in [0 .. 3 -> Byte]
    PROVE  Column(row, col) \in [0 .. 3 -> Byte]
<1> DEFINE At(r, k) == Mul(col[k], row[((k - r) % 4) + 1])
<1>1. ASSUME NEW r \in 0 .. 3
      PROVE  XorByte[XorByte[At(r, 0), At(r, 1)], XorByte[At(r, 2), At(r, 3)]] \in Byte
  <2>1. ASSUME NEW k \in 0 .. 3 PROVE At(r, k) \in Byte
    <3>1. row[((k - r) % 4) + 1] \in Nat OBVIOUS
    <3> QED BY <3>1, MulType
  <2> HIDE DEF At
  <2>2. At(r, 0) \in Byte /\ At(r, 1) \in Byte /\ At(r, 2) \in Byte /\ At(r, 3) \in Byte BY <2>1
  <2>3. XorByte[At(r, 0), At(r, 1)] \in Byte /\ XorByte[At(r, 2), At(r, 3)] \in Byte
    BY <2>2, XorByteUndone
  <2> QED BY <2>3, XorByteUndone
<1> QED BY <1>1 DEF Column

(* _mix_columns() keeps the type of the state, and _inv_mix_columns()      *)
(* undoes it.                                                              *)
LEMMA MixUndone ==
    ASSUME NEW s \in AesState
    PROVE  MixColumns(s) \in AesState /\ InvMixColumns(MixColumns(s)) = s
<1> DEFINE m == MixColumns(s)
<1>1. ASSUME NEW c \in 0 .. 3
      PROVE  Col(s, c) \in [0 .. 3 -> Byte] /\ MixColumn(Col(s, c)) \in [0 .. 3 -> Byte]
  <2>1. Col(s, c) \in [0 .. 3 -> Byte] BY DEF Col, AesState, Cells
  <2>2. <<2, 3, 1, 1>> \in [1 .. 4 -> Nat] OBVIOUS
  <2> QED BY <2>1, <2>2, ColumnType DEF MixColumn
<1>2. m \in AesState BY <1>1 DEF MixColumns, AesState, Cells
<1>3. ASSUME NEW c \in 0 .. 3 PROVE Col(m, c) = MixColumn(Col(s, c))
  <2>1. Col(m, c) = [r \in 0 .. 3 |-> MixColumn(Col(s, c))[r]]
    BY DEF Col, MixColumns, Cells
  <2> QED BY <1>1, <2>1
<1>4. ASSUME NEW c \in 0 .. 3 PROVE InvMixColumn(Col(m, c)) = Col(s, c)
  BY <1>1, <1>3, MixAssumption
<1>5. ASSUME NEW rc \in Cells PROVE InvMixColumn(Col(m, rc[2]))[rc[1]] = s[rc]
  <2>1. PICK r \in 0 .. 3, c \in 0 .. 3 : rc = <<r, c>> BY DEF Cells
  <2>2. InvMixColumn(Col(m, c))[r] = Col(s, c)[r] BY <1>4
  <2> QED BY <2>1, <2>2 DEF Col
<1> HIDE DEF m
<1>6. InvMixColumns(m) = s BY <1>5 DEF InvMixColumns, AesState
<1> QED BY <1>2, <1>6 DEF m

(* _inv_sub_bytes() and _inv_shift_rows() undo what they are named after.  *)
LEMMA ShuffleUndone ==
    ASSUME NEW s \in AesState
    PROVE  Shuffled(s) \in AesState /\ Unshuffled(Shuffled(s)) = s
<1> DEFINE t == SubBytes(s)
<1>1. t \in AesState BY CipherAssumption DEF SubBytes, AesState
<1>2. InvSubBytes(t) = s
  <2>1. ASSUME NEW rc \in Cells PROVE InvSBox[SBox[s[rc]]] = s[rc]
    <3>1. s[rc] \in Byte /\ SBox[s[rc]] \in Byte BY CipherAssumption DEF AesState
    <3>2. \A a \in Byte : SBox[a] = SBox[s[rc]] => a = s[rc] BY <3>1, CipherAssumption
    <3> QED BY <3>1, <3>2 DEF InvSBox
  <2> QED BY <2>1 DEF InvSubBytes, SubBytes, AesState
<1> HIDE DEF t
<1>3. ShiftRows(t) \in AesState
  <2>1. ASSUME NEW rc \in Cells PROVE t[rc[1], (rc[2] + rc[1]) % 4] \in Byte
    <3>1. <<rc[1], (rc[2] + rc[1]) % 4>> \in Cells BY DEF Cells
    <3> QED BY <1>1, <3>1 DEF AesState
  <2> QED BY <2>1 DEF ShiftRows, AesState
<1>4. InvShiftRows(ShiftRows(t)) = t
  <2>1. ASSUME NEW rc \in Cells
        PROVE  ShiftRows(t)[rc[1], (rc[2] - rc[1]) % 4] = t[rc]
    <3>1. PICK r \in 0 .. 3, c \in 0 .. 3 : rc = <<r, c>> BY DEF Cells
    <3>2. <<r, (c - r) % 4>> \in Cells /\ (((c - r) % 4) + r) % 4 = c BY DEF Cells
    <3> QED BY <3>1, <3>2 DEF ShiftRows
  <2> QED BY <1>1, <2>1 DEF InvShiftRows, AesState
<1> QED BY <1>2, <1>3, <1>4 DEF Shuffled, Unshuffled, t

(* _add_round_key() undoes itself.                                         *)
LEMMA KeyUndone ==
    ASSUME NEW s \in AesState, NEW j \in Nat,
           words \in Seq(AesWord), 4 * j + 4 <= Len(words)
    PROVE  AddRoundKey(s, j) \in AesState /\ AddRoundKey(AddRoundKey(s, j), j) = s
<1> DEFINE k(rc) == words[4 * j + rc[2] + 1][rc[1] + 1]
           t == AddRoundKey(s, j)
<1>1. ASSUME NEW rc \in Cells PROVE k(rc) \in Byte
  <2>1. PICK r \in 0 .. 3, c \in 0 .. 3 : rc = <<r, c>> BY DEF Cells
  <2>2. words[4 * j + c + 1] \in AesWord OBVIOUS
  <2> QED BY <2>1, <2>2 DEF AesWord
<1>2. ASSUME NEW rc \in Cells
      PROVE  t[rc] = XorByte[s[rc], k(rc)] /\ AddRoundKey(t, j)[rc] = XorByte[t[rc], k(rc)]
  BY Zenon DEF AddRoundKey
<1>3. t = [rc \in Cells |-> t[rc]] /\ AddRoundKey(t, j) = [rc \in Cells |-> AddRoundKey(t, j)[rc]]
  BY Zenon DEF AddRoundKey
<1> HIDE DEF k, t
<1>4. ASSUME NEW rc \in Cells PROVE t[rc] \in Byte /\ AddRoundKey(t, j)[rc] = s[rc]
  <2>1. s[rc] \in Byte /\ k(rc) \in Byte BY <1>1 DEF AesState
  <2>2. /\ XorByte[s[rc], k(rc)] \in Byte
        /\ XorByte[XorByte[s[rc], k(rc)], k(rc)] = s[rc]
    BY <2>1, XorByteUndone
  <2> QED BY <1>2, <2>2, Zenon
<1>5. t \in AesState BY <1>3, <1>4, Zenon DEF AesState
<1>6. AddRoundKey(t, j) = s
  <2>1. s = [rc \in Cells |-> s[rc]] BY Zenon DEF AesState
  <2> QED BY <1>3, <1>4, <2>1, Zenon
<1> QED BY <1>5, <1>6 DEF t

(* One pass of the loop of decrypt_block(), after one of encrypt_block().  *)
LEMMA AesUndoes ==
    ASSUME NEW s \in AesState, NEW j \in 1 .. rounds - 1, rounds \in Nat,
           words \in Seq(AesWord), Len(words) = 4 * (rounds + 1)
    PROVE  /\ AesRound(s, j) \in AesState
           /\ AesUndone(Shuffled(AesRound(s, j)), j) = Shuffled(s)
<1> DEFINE m == MixColumns(Shuffled(s))
<1>1. Shuffled(s) \in AesState BY ShuffleUndone
<1>2. m \in AesState /\ InvMixColumns(m) = Shuffled(s) BY <1>1, MixUndone
<1> HIDE DEF m
<1>3. j \in Nat /\ 4 * j + 4 <= Len(words) /\ j < rounds OBVIOUS
<1>4. AddRoundKey(m, j) \in AesState /\ AddRoundKey(AddRoundKey(m, j), j) = m
  BY <1>2, <1>3, KeyUndone
<1>5. AesRound(s, j) = AddRoundKey(m, j) BY <1>3 DEF AesRound, m
<1>6. Unshuffled(Shuffled(AddRoundKey(m, j))) = AddRoundKey(m, j) BY <1>4, ShuffleUndone
<1> QED BY <1>2, <1>4, <1>5, <1>6 DEF AesUndone

-----------------------------------------------------------------------------
(* Remainders.                                                             *)
LEMMA ModUnique ==
    ASSUME NEW d \in Nat \ {0}, NEW q \in Int, NEW r \in 0 .. d - 1
    PROVE  (d * q + r) % d = r /\ (d * q + r) \div d = q
  OBVIOUS

LEMMA ModShift ==
    ASSUME NEW d \in Nat \ {0}, NEW x \in Int, NEW q \in Int
    PROVE  (x + d * q) % d = x % d
<1> DEFINE e == x \div d
           r == x % d
           f == e + q
<1>1. x = d * e + r /\ r \in 0 .. d - 1 /\ e \in Int OBVIOUS
<1> HIDE DEF e, r
<1>2. d * f = d * e + d * q /\ f \in Int BY <1>1
<1> HIDE DEF f
<1>3. x + d * q = d * f + r
  <2>1. d * e \in Int /\ d * q \in Int /\ d * f \in Int BY <1>1, <1>2
  <2> QED BY <1>1, <1>2, <2>1
<1>4. (d * f + r) % d = r BY <1>1, <1>2, ModUnique
<1> QED BY <1>3, <1>4 DEF r

(* Numbers that differ by a multiple of d.                                 *)
LEMMA ModEqual ==
    ASSUME NEW d \in Nat \ {0}, NEW x \in Int, NEW y \in Int
    PROVE  (x % d) + y \in Int /\ ((x % d) + y) % d = (x + y) % d
<1> DEFINE q == x \div d
           z == (x % d) + y
<1>1. x = d * q + (x % d) /\ q \in Int /\ x % d \in 0 .. d - 1 OBVIOUS
<1> HIDE DEF q
<1>2. d * q \in Int BY <1>1
<1>3. z \in Int /\ x + y = z + d * q BY <1>1, <1>2
<1> HIDE DEF z
<1>4. (z + d * q) % d = z % d BY <1>1, <1>3, ModShift
<1> QED BY <1>3, <1>4 DEF z

(* (a + x) & mask, and - x after it.                                       *)
LEMMA SumUndone ==
    ASSUME NEW d \in Nat \ {0}, NEW a \in 0 .. d - 1, NEW x \in Int
    PROVE  (a + x) % d \in 0 .. d - 1 /\ (((a + x) % d) - x) % d = a
<1> DEFINE y == a + x
<1>1. y \in Int /\ -x \in Int /\ y + (-x) = a OBVIOUS
<1>2. (y % d) + (-x) = (y % d) - x /\ y % d \in 0 .. d - 1 OBVIOUS
<1> HIDE DEF y
<1>3. ((y % d) + (-x)) % d = (y + (-x)) % d BY <1>1, ModEqual
<1>4. a % d = a OBVIOUS
<1> QED BY <1>1, <1>2, <1>3, <1>4 DEF y

(* The sum of TEA after one round more, and one less.                      *)
LEMMA SumSteps ==
    ASSUME NEW d \in Nat \ {0}, NEW j \in Int, NEW x \in Int
    PROVE  /\ (((j * x) % d) + x) % d = ((j + 1) * x) % d
           /\ (((j * x) % d) - x) % d = ((j - 1) * x) % d
<1> DEFINE p == j * x
<1>1. p \in Int /\ (j + 1) * x = p + x /\ (j - 1) * x = p - x OBVIOUS
<1> HIDE DEF p
<1>2. ((p % d) + x) % d = (p + x) % d BY <1>1, ModEqual
<1>3. ((p % d) + (-x)) % d = (p + (-x)) % d
  <2>1. -x \in Int OBVIOUS
  <2> QED BY <1>1, <2>1, ModEqual
<1>4. p % d \in Int /\ (p % d) + (-x) = (p % d) - x /\ p + (-x) = p - x BY <1>1
<1> QED BY <1>1, <1>2, <1>3, <1>4 DEF p

-----------------------------------------------------------------------------
LEMMA WordNumbers ==
    /\ WordMod \in Nat \ {0, 1} /\ Delta \in Word
    /\ ShiftUp \in Nat \ {0} /\ ShiftDown \in Nat \ {0}
    /\ RotUp \in Nat \ {0} /\ RotDown \in Nat \ {0}
    /\ RotUp * RotDown = WordMod
  BY CipherAssumption

LEMMA WordSum ==
    ASSUME NEW a \in Word, NEW x \in Word
    PROVE  (a + x) % WordMod \in Word /\ (((a + x) % WordMod) - x) % WordMod = a
<1>1. WordMod \in Nat \ {0} /\ a \in 0 .. WordMod - 1 /\ x \in Int BY WordNumbers DEF Word
<1> QED BY <1>1, SumUndone DEF Word

LEMMA KeyWords ==
    ASSUME cipherKey \in Seq(Word)
    PROVE  \A k \in 1 .. Len(cipherKey) : cipherKey[k] \in Word
  OBVIOUS

LEMMA TeaMixType ==
    ASSUME NEW v \in Word, NEW s \in Word, NEW k \in Word, NEW l \in Word
    PROVE  TeaMix(v, s, k, l) \in Word
<1> DEFINE x == (v * ShiftUp + k) % WordMod
           y == (v + s) % WordMod
           z == (v \div ShiftDown + l) % WordMod
<1>1. x \in Word
  <2>1. v * ShiftUp + k \in Int BY WordNumbers DEF Word
  <2> QED BY <2>1, WordNumbers DEF Word
<1>2. y \in Word BY WordNumbers DEF Word
<1>3. z \in Word
  <2>1. v \div ShiftDown + l \in Int BY WordNumbers DEF Word
  <2> QED BY <2>1, WordNumbers DEF Word
<1> HIDE DEF x, y, z
<1>4. XorWord[x, y] \in Word BY <1>1, <1>2, XorWordUndone
<1>5. XorWord[XorWord[x, y], z] \in Word BY <1>3, <1>4, XorWordUndone
<1> QED BY <1>5 DEF TeaMix, x, y, z

(* One pass of the loops of TEA: each of the two sums is taken back.       *)
LEMMA TeaUndoes ==
    ASSUME NEW v \in Word \X Word, NEW s \in Word,
           cipherKey \in Seq(Word), Len(cipherKey) = 4
    PROVE  TeaRound(v, s) \in Word \X Word /\ TeaUndone(TeaRound(v, s), s) = v
<1>1. PICK a \in Word, b \in Word : v = <<a, b>> OBVIOUS
<1>2. \A k \in 1 .. 4 : cipherKey[k] \in Word BY KeyWords
<1> DEFINE f == TeaMix(b, s, cipherKey[1], cipherKey[2])
           a1 == (a + f) % WordMod
           g == TeaMix(a1, s, cipherKey[3], cipherKey[4])
           b1 == (b + g) % WordMod
<1>3. f \in Word BY <1>2, TeaMixType
<1>4. a1 \in Word /\ (a1 - f) % WordMod = a
  <2> HIDE DEF f
  <2> QED BY <1>3, WordSum
<1>5. g \in Word
  <2> HIDE DEF a1
  <2> QED BY <1>2, <1>4, TeaMixType
<1>6. b1 \in Word /\ (b1 - g) % WordMod = b
  <2> HIDE DEF g
  <2> QED BY <1>5, WordSum
<1>7. TeaRound(v, s) = <<a1, b1>> BY <1>1 DEF TeaRound
<1>8. TeaUndone(<<a1, b1>>, s) = <<a, b>>
  <2>1. (b1 - g) % WordMod = b BY <1>6
  <2>2. TeaUndone(<<a1, b1>>, s)
          = <<(a1 - TeaMix((b1 - g) % WordMod, s, cipherKey[1], cipherKey[2])) % WordMod,
              (b1 - g) % WordMod>>
    BY DEF TeaUndone
  <2>3. TeaMix((b1 - g) % WordMod, s, cipherKey[1], cipherKey[2]) = f BY <2>1
  <2> HIDE DEF f, a1, g, b1
  <2> QED BY <1>4, <2>1, <2>2, <2>3
<1> HIDE DEF f, a1, g, b1
<1> QED BY <1>1, <1>4, <1>6, <1>7, <1>8

(* A rotation of the numbers below m * n, and the one back.                *)
Below(m, n)    == 0 .. m * n - 1
Turn(x, m, n) == ((x * m) % (m * n)) + (x \div n)

LEMMA Rotation ==
    ASSUME NEW m \in Nat \ {0}, NEW n \in Nat \ {0}, NEW x \in Below(m, n)
    PROVE  Turn(x, m, n) \in Below(m, n) /\ Turn(Turn(x, m, n), n, m) = x
<1> DEFINE q == x \div n
           r == x % n
           y == Turn(x, m, n)
           d == m * n
           u == r * m
           t == q * n
<1>0. d \in Nat \ {0} /\ x \in 0 .. d - 1 /\ d = n * m BY DEF Below
<1>1. x = n * q + r /\ r \in 0 .. n - 1 /\ q \in Int BY <1>0
<1>2. r \in Int BY <1>1
<1> HIDE DEF q, r
<1>3. q \in 0 .. m - 1
  <2>1. n * q < n * m BY <1>0, <1>1
  <2>2. q < m BY <1>1, <2>1
  <2>3. q >= 0
    <3>1. CASE q <= -1
      <4>1. n * q <= -n BY <1>1, <3>1
      <4> QED BY <1>0, <1>1, <4>1
    <3> QED BY <1>1, <3>1
  <2> QED BY <1>1, <2>2, <2>3
<1>4. (x * m) % d = u
  <2>1. x * m = d * q + u BY <1>1
  <2>2. u \in 0 .. d - 1 BY <1>1
  <2> HIDE DEF d, u
  <2>3. (d * q + u) % d = u BY <1>0, <1>1, <2>2, ModUnique
  <2> QED BY <2>1, <2>3
<1>5. y = m * r + q
  <2>1. u = m * r BY <1>2
  <2>2. y = ((x * m) % d) + q BY DEF Turn, q
  <2> QED BY <1>4, <2>1, <2>2
<1> HIDE DEF y
<1>6. y \div m = r
  <2>1. (m * r + q) \div m = r BY <1>2, <1>3, ModUnique
  <2> QED BY <1>5, <2>1
<1>7. (y * n) % d = t
  <2>1. y * n = d * r + t BY <1>1, <1>2, <1>3, <1>5
  <2>2. t \in 0 .. d - 1 BY <1>3
  <2> HIDE DEF d, t
  <2>3. (d * r + t) % d = t BY <1>0, <1>2, <2>2, ModUnique
  <2> QED BY <2>1, <2>3
<1>8. y \in Below(m, n)
  <2>1. m * r \in Nat /\ m * n \in Nat BY <1>1
  <2>2. m * r <= m * n - m
    <3>1. m * r <= m * (n - 1) BY <1>1
    <3>2. m * (n - 1) = m * n - m OBVIOUS
    <3> QED BY <3>1, <3>2
  <2>3. y \in Nat /\ y <= m * n - 1 BY <1>3, <1>5, <2>1, <2>2
  <2> QED BY <2>1, <2>3 DEF Below
<1>9. Turn(y, n, m) = t + r
  <2>1. Turn(y, n, m) = ((y * n) % (n * m)) + (y \div m) BY DEF Turn
  <2> QED BY <1>0, <1>6, <1>7, <2>1
<1>10. t + r = x BY <1>1, <1>2
<1> QED BY <1>8, <1>9, <1>10 DEF y

LEMMA RotationsUndone ==
    ASSUME NEW x \in Word
    PROVE  /\ RotL(x) \in Word /\ RotR(RotL(x)) = x
           /\ RotR(x) \in Word /\ RotL(RotR(x)) = x
<1>1. RotUp \in Nat \ {0} /\ RotDown \in Nat \ {0} BY WordNumbers
<1>2. WordMod = RotUp * RotDown /\ WordMod = RotDown * RotUp BY WordNumbers
<1>3. Word = Below(RotUp, RotDown) /\ Word = Below(RotDown, RotUp) BY <1>2 DEF Word, Below
<1>4. ASSUME NEW z \in Word
      PROVE  RotL(z) = Turn(z, RotUp, RotDown) /\ RotR(z) = Turn(z, RotDown, RotUp)
  <2>1. RotL(z) = Turn(z, RotUp, RotDown) BY <1>2 DEF RotL, Turn
  <2>2. (z * RotDown) % WordMod \in Int /\ z \div RotUp \in Int BY <1>1, WordNumbers DEF Word
  <2>3. RotR(z) = ((z * RotDown) % WordMod) + (z \div RotUp) BY <2>2 DEF RotR
  <2> QED BY <1>2, <2>1, <2>3 DEF Turn
<1>5. /\ Turn(x, RotUp, RotDown) \in Word
      /\ Turn(Turn(x, RotUp, RotDown), RotDown, RotUp) = x
  BY <1>1, <1>3, Rotation
<1>6. /\ Turn(x, RotDown, RotUp) \in Word
      /\ Turn(Turn(x, RotDown, RotUp), RotUp, RotDown) = x
  BY <1>1, <1>3, Rotation
<1> QED BY <1>4, <1>5, <1>6

(* One pass of the loops of RED PIKE.                                      *)
LEMMA RedPikeUndoes ==
    ASSUME NEW x \in Word \X Word,
           cipherKey \in Seq(Word), Len(cipherKey) = 2
    PROVE  RedPikeRound(x) \in Word \X Word /\ RedPikeUndone(RedPikeRound(x)) = x
<1>1. PICK a \in Word, b \in Word : x = <<a, b>> OBVIOUS
<1>2. \A k \in 1 .. 2 : cipherKey[k] \in Word BY KeyWords
<1> DEFINE k == cipherKey[1]
           l == cipherKey[2]
<1>3. k \in Word /\ l \in Word BY <1>2
<1> HIDE DEF k, l
<1> DEFINE y0 == RotL(XorWord[a, k])
           y1 == RotR(XorWord[b, l])
           z0 == (y0 + y1) % WordMod
           z1 == (y1 + z0) % WordMod
<1>4. XorWord[a, k] \in Word /\ XorWord[b, l] \in Word BY <1>3, XorWordUndone
<1>5. y0 \in Word /\ RotR(y0) = XorWord[a, k] BY <1>4, RotationsUndone
<1>6. y1 \in Word /\ RotL(y1) = XorWord[b, l] BY <1>4, RotationsUndone
<1>7. RedPikeRound(x) = <<z0, z1>> BY <1>1 DEF RedPikeRound, k, l
<1> HIDE DEF y0, y1
<1>8. z0 \in Word /\ (z0 - y1) % WordMod = y0 BY <1>5, <1>6, WordSum
<1> HIDE DEF z0
<1>9. z1 \in Word /\ (z1 - z0) % WordMod = y1 BY <1>6, <1>8, WordSum
<1> HIDE DEF z1
<1>10. RedPikeUndone(<<z0, z1>>) = <<XorWord[RotR(y0), k], XorWord[RotL(y1), l]>>
  <2>1. RedPikeUndone(<<z0, z1>>)
          = <<XorWord[RotR((z0 - ((z1 - z0) % WordMod)) % WordMod), k],
              XorWord[RotL((z1 - z0) % WordMod), l]>>
    BY Zenon DEF RedPikeUndone, k, l
  <2> QED BY <1>8, <1>9, <2>1, Zenon
<1>11. XorWord[RotR(y0), k] = a /\ XorWord[RotL(y1), l] = b
  BY <1>3, <1>5, <1>6, XorWordUndone
<1>12. RedPikeRound(x) \in Word \X Word BY <1>7, <1>8, <1>9
<1>13. RedPikeUndone(RedPikeRound(x)) = x BY <1>1, <1>7, <1>10, <1>11, Zenon
<1> QED BY <1>12, <1>13

-----------------------------------------------------------------------------
(* The inductive invariant: the keys and the schedule have their type; the *)
(* trail is what the rounds make of the block, one after the other; sum    *)
(* and left are those of the round that is next.                           *)
Blocks == IF cipher = "aes" THEN AesState ELSE Word \X Word

Forward(s, j) ==
    CASE cipher = "aes"     -> AesRound(s, j)
      [] cipher = "tea"     -> TeaRound(s, (j * Delta) % WordMod)
      [] cipher = "redpike" -> RedPikeRound(s)

KeysTyped ==
    /\ cipher \in Cipher /\ rounds \in Nat \ {0}
    /\ cipher = "aes" =>
          /\ Len(cipherKey) \in Nat \ {0} /\ rcon \in Byte
          /\ words \in Seq(AesWord) /\ Len(words) >= Len(cipherKey)
    /\ cipher = "tea" => cipherKey \in Seq(Word) /\ Len(cipherKey) = 4
    /\ cipher = "redpike" => cipherKey \in Seq(Word) /\ Len(cipherKey) = 2

Running ==
    /\ cipher = "aes" => Len(words) = 4 * (rounds + 1)
    /\ block \in Blocks
    /\ trail \in Seq(Blocks) /\ Len(trail) \in 1 .. rounds + 1
    /\ trail[1] = IF cipher = "aes" THEN AddRoundKey(block, 0) ELSE block
    /\ \A j \in 1 .. Len(trail) - 1 : trail[j + 1] = Forward(trail[j], j)

Encrypting ==
    /\ state = trail[Len(trail)]
    /\ cipher = "tea" => sum = ((Len(trail) - 1) * Delta) % WordMod

Decrypting ==
    /\ Len(trail) = rounds + 1
    /\ left \in 0 .. (IF cipher = "aes" THEN rounds - 1 ELSE rounds)
    /\ cipher = "tea" => sum = (left * Delta) % WordMod
    /\ state = IF cipher = "aes" THEN Shuffled(trail[left + 1]) ELSE trail[left + 1]

IInv ==
    /\ stage \in {"refused", "expand", "ready", "encrypt", "decrypt", "decrypted"}
    /\ stage # "refused" => KeysTyped
    /\ stage = "ready" => cipher # "aes"
    /\ stage = "expand" => cipher = "aes"
    /\ stage \in {"expand", "ready"} => sum = 0
    /\ stage \in {"encrypt", "decrypt"} => Running
    /\ stage = "encrypt" => Encrypting
    /\ stage = "decrypt" => Decrypting
    /\ stage = "decrypted" => state = block

(* What the rounds do to a block, by cipher.                               *)
LEMMA ForwardType ==
    ASSUME KeysTyped, NEW s \in Blocks, NEW j \in 1 .. rounds,
           cipher = "aes" => Len(words) = 4 * (rounds + 1)
    PROVE  Forward(s, j) \in Blocks
<1>1. rounds \in Nat \ {0} /\ cipher \in Cipher BY DEF KeysTyped
<1>2. CASE cipher = "aes"
  <2>1. s \in AesState /\ words \in Seq(AesWord) /\ Len(words) = 4 * (rounds + 1)
    BY <1>2 DEF Blocks, KeysTyped
  <2>2. Shuffled(s) \in AesState BY <2>1, ShuffleUndone
  <2>3. MixColumns(Shuffled(s)) \in AesState BY <2>2, MixUndone
  <2>4. j \in Nat /\ 4 * j + 4 <= Len(words) BY <1>1, <2>1
  <2>5. /\ AddRoundKey(Shuffled(s), j) \in AesState
        /\ AddRoundKey(MixColumns(Shuffled(s)), j) \in AesState
    BY <2>1, <2>2, <2>3, <2>4, KeyUndone
  <2>6. AesRound(s, j) \in AesState BY <2>5 DEF AesRound
  <2> QED BY <1>2, <2>6 DEF Forward, Blocks
<1>3. CASE cipher = "tea"
  <2>1. s \in Word \X Word /\ cipherKey \in Seq(Word) /\ Len(cipherKey) = 4
    BY <1>3 DEF Blocks, KeysTyped
  <2>2. (j * Delta) % WordMod \in Word
    <3>1. j * Delta \in Int BY WordNumbers DEF Word
    <3> QED BY <3>1, WordNumbers DEF Word
  <2>3. TeaRound(s, (j * Delta) % WordMod) \in Word \X Word BY <2>1, <2>2, TeaUndoes
  <2> QED BY <1>3, <2>3 DEF Forward, Blocks
<1>4. CASE cipher = "redpike"
  <2>1. s \in Word \X Word /\ cipherKey \in Seq(Word) /\ Len(cipherKey) = 2
    BY <1>4 DEF Blocks, KeysTyped
  <2>2. RedPikeRound(s) \in Word \X Word BY <2>1, RedPikeUndoes
  <2> QED BY <1>4, <2>2 DEF Forward, Blocks
<1> QED BY <1>1, <1>2, <1>3, <1>4 DEF Cipher

LEMMA InitIInv == CipherInit => IInv
<1> SUFFICES ASSUME CipherInit PROVE IInv
  OBVIOUS
<1>1. cipher \in Cipher /\ cipherKey \in CipherKeys[cipher] BY DEF CipherInit
<1>2. /\ stage \in {"refused", "expand", "ready"} /\ sum = 0
      /\ stage = "ready" => cipher # "aes"
      /\ stage = "expand" => cipher = "aes"
  BY DEF CipherInit
<1>3. ASSUME stage # "refused" PROVE KeysTyped
  <2>1. Len(cipherKey) \in KeyLengths[cipher] /\ ~(rounds <= 0) BY <1>3 DEF CipherInit
  <2>2. CASE cipher = "aes"
    <3>1. cipherKey \in Seq(AesWord) /\ Len(cipherKey) \in {4, 6, 8}
      BY <1>1, <2>1, <2>2, CipherAssumption DEF KeyLengths, AesWord, Cipher
    <3>2. rounds = Len(cipherKey) + 6 /\ words = cipherKey /\ rcon = 1
      BY <2>2 DEF CipherInit
    <3>3. rcon \in Byte
      <4>1. Base \in Nat \ {0, 1} BY BytesAssumption
      <4> QED BY <3>2, <4>1 DEF Byte
    <3> QED BY <1>1, <2>2, <3>1, <3>2, <3>3 DEF KeysTyped
  <2>3. CASE cipher = "tea"
    <3>1. cipherKey \in Seq(Word) BY <1>1, <2>3, CipherAssumption
    <3>2. Len(cipherKey) = 4 BY <2>1, <2>3 DEF KeyLengths, Cipher
    <3>3. rounds \in Nat \ {0}
      <4>1. rounds \in RoundCounts BY <2>3 DEF CipherInit
      <4>2. rounds \in Int BY <4>1, CipherAssumption
      <4> QED BY <2>1, <4>2
    <3> QED BY <1>1, <2>3, <3>1, <3>2, <3>3 DEF KeysTyped
  <2>4. CASE cipher = "redpike"
    <3>1. cipherKey \in Seq(Word) BY <1>1, <2>4, CipherAssumption
    <3>2. Len(cipherKey) = 2 BY <2>1, <2>4 DEF KeyLengths, Cipher
    <3>3. rounds \in Nat \ {0}
      <4>1. rounds \in RoundCounts BY <2>4 DEF CipherInit
      <4>2. rounds \in Int BY <4>1, CipherAssumption
      <4> QED BY <2>1, <4>2
    <3> QED BY <1>1, <2>4, <3>1, <3>2, <3>3 DEF KeysTyped
  <2> QED BY <1>1, <2>2, <2>3, <2>4 DEF Cipher
<1> QED BY <1>2, <1>3 DEF IInv

LEMMA ExpandIInv ==
    ASSUME IInv, Expand
    PROVE  IInv'
<1>1. stage = "expand" /\ cipher = "aes" /\ KeysTyped /\ sum = 0 BY DEF IInv, Expand
<1> DEFINE len == Len(words)
           nk == Len(cipherKey)
           Turned == SubWord(RotWord(words[len]))
           temp == IF len % nk = 0 THEN [Turned EXCEPT ![1] = XorByte[@, rcon]]
                   ELSE IF nk > 6 /\ len % nk = 4 THEN SubWord(words[len])
                   ELSE words[len]
<1>2. nk \in Nat \ {0} /\ len \in Nat /\ len >= nk /\ words \in Seq(AesWord) /\ rcon \in Byte
  BY <1>1 DEF KeysTyped
<1>3. words[len] \in AesWord /\ words[len - nk + 1] \in AesWord BY <1>2
<1>4. temp \in AesWord
  <2>1. SubWord(words[len]) \in AesWord BY <1>3, CipherAssumption DEF SubWord, AesWord
  <2>2. RotWord(words[len]) \in AesWord BY <1>3 DEF RotWord, AesWord
  <2>3. Turned \in AesWord BY <2>2, CipherAssumption DEF SubWord, AesWord
  <2> HIDE DEF Turned
  <2>4. Turned[1] \in Byte BY <2>3 DEF AesWord
  <2>5. XorByte[Turned[1], rcon] \in Byte BY <1>2, <2>4, XorByteUndone
  <2>6. [Turned EXCEPT ![1] = XorByte[@, rcon]] \in AesWord BY <2>3, <2>5 DEF AesWord
  <2> HIDE DEF len, nk
  <2> QED BY <1>3, <2>1, <2>6
<1> DEFINE new == [r \in 1 .. 4 |-> XorByte[words[len - nk + 1][r], temp[r]]]
<1>5. new \in AesWord
  <2> HIDE DEF temp
  <2>1. ASSUME NEW r \in 1 .. 4 PROVE XorByte[words[len - nk + 1][r], temp[r]] \in Byte
    <3>1. words[len - nk + 1][r] \in Byte /\ temp[r] \in Byte BY <1>3, <1>4 DEF AesWord
    <3> QED BY <3>1, XorByteUndone
  <2> QED BY <2>1 DEF AesWord
<1>6. words' = Append(words, new) /\ rcon' = IF len % nk = 0 THEN XTime(rcon) ELSE rcon
  BY DEF Expand
<1> HIDE DEF new, temp
<1>7. rcon' \in Byte BY <1>2, <1>6, XTimeType
<1>8. words' \in Seq(AesWord) /\ Len(words') = Len(words) + 1 BY <1>2, <1>5, <1>6
<1>9. UNCHANGED <<cipher, cipherKey, rounds, stage, sum>> BY DEF Expand
<1>10. KeysTyped' BY <1>1, <1>2, <1>7, <1>8, <1>9 DEF KeysTyped
<1> QED BY <1>1, <1>9, <1>10 DEF IInv

LEMMA EncryptBeginIInv ==
    ASSUME IInv, EncryptBegin
    PROVE  IInv'
<1>1. /\ stage \in {"ready", "expand"} /\ KeysTyped /\ sum = 0
      /\ cipher = "aes" => Len(words) = 4 * (rounds + 1)
  BY DEF IInv, EncryptBegin
<1>2. /\ UNCHANGED <<cipher, cipherKey, rounds, words, rcon, sum, left>>
      /\ block' \in CipherBlocks[cipher] /\ trail' = <<state'>> /\ stage' = "encrypt"
      /\ state' = IF cipher = "aes" THEN AddRoundKey(block', 0) ELSE block'
  BY DEF EncryptBegin
<1>3. KeysTyped' BY <1>1, <1>2 DEF KeysTyped
<1>4. block' \in Blocks
  BY <1>1, <1>2, CipherAssumption DEF Blocks, KeysTyped, Cipher, AesState
<1>5. state' \in Blocks
  <2>1. CASE cipher = "aes"
    <3>1. words \in Seq(AesWord) /\ 4 * 0 + 4 <= Len(words) /\ block' \in AesState
      BY <1>1, <1>4, <2>1 DEF KeysTyped, Blocks
    <3>2. AddRoundKey(block', 0) \in AesState BY <3>1, KeyUndone
    <3> QED BY <1>2, <2>1, <3>2 DEF Blocks
  <2> QED BY <1>2, <1>4, <2>1
<1>6. Blocks' = Blocks BY <1>2 DEF Blocks
<1>7. trail' \in Seq(Blocks) /\ Len(trail') = 1 /\ trail'[1] = state' BY <1>2, <1>5
<1>8. AddRoundKey(block, 0)' = AddRoundKey(block', 0) BY <1>2 DEF AddRoundKey
<1>9. rounds \in Nat \ {0} BY <1>1 DEF KeysTyped
<1>10. Running'
  <2>1. \A j \in 1 .. Len(trail') - 1 : FALSE BY <1>7
  <2> QED BY <1>1, <1>2, <1>4, <1>6, <1>7, <1>8, <1>9, <2>1 DEF Running
<1>11. Encrypting'
  <2>1. (0 * Delta) % WordMod = 0 /\ 1 - 1 = 0 BY WordNumbers DEF Word
  <2> QED BY <1>1, <1>2, <1>7, <2>1 DEF Encrypting
<1> QED BY <1>2, <1>3, <1>10, <1>11 DEF IInv

LEMMA EncryptRoundIInv ==
    ASSUME IInv, EncryptRound
    PROVE  IInv'
<1> DEFINE n == Len(trail)
<1>1. stage = "encrypt" /\ KeysTyped /\ Running /\ Encrypting /\ n <= rounds
  BY DEF IInv, EncryptRound
<1>2. /\ UNCHANGED <<cipher, cipherKey, rounds, stage, words, rcon, block, left>>
      /\ trail' = Append(trail, state')
  BY DEF EncryptRound
<1>3. /\ cipher \in Cipher /\ rounds \in Nat \ {0} /\ n \in 1 .. rounds
      /\ trail \in Seq(Blocks) /\ state = trail[n] /\ state \in Blocks
      /\ cipher = "aes" => Len(words) = 4 * (rounds + 1)
  BY <1>1 DEF KeysTyped, Running, Encrypting
<1>4. cipher = "tea" => sum' = (n * Delta) % WordMod
  <2>1. n - 1 \in Int /\ (n - 1) + 1 = n /\ Delta \in Int BY <1>3, WordNumbers DEF Word
  <2>2. ((((n - 1) * Delta) % WordMod) + Delta) % WordMod = (((n - 1) + 1) * Delta) % WordMod
    BY <2>1, WordNumbers, SumSteps
  <2> QED BY <1>1, <2>1, <2>2 DEF EncryptRound, Encrypting
<1>5. state' = Forward(state, n)
  <2> HIDE DEF n
  <2>1. CASE cipher = "aes" BY <2>1 DEF EncryptRound, Forward, n
  <2>2. CASE cipher = "tea" BY <1>4, <2>2 DEF EncryptRound, Forward
  <2>3. CASE cipher = "redpike" BY <2>3 DEF EncryptRound, Forward
  <2> QED BY <1>3, <2>1, <2>2, <2>3 DEF Cipher
<1>6. state' \in Blocks BY <1>1, <1>3, <1>5, ForwardType
<1>7. KeysTyped' BY <1>1, <1>2 DEF KeysTyped
<1>8. Blocks' = Blocks BY <1>2 DEF Blocks
<1>9. /\ trail' \in Seq(Blocks) /\ Len(trail') = n + 1 /\ trail'[n + 1] = state'
       /\ \A j \in 1 .. n : trail'[j] = trail[j]
  BY <1>2, <1>3, <1>6
<1>10. Running'
  <2>1. \A j \in 1 .. Len(trail') - 1 : trail'[j + 1] = Forward(trail'[j], j)
    <3>1. ASSUME NEW j \in 1 .. n - 1 PROVE trail'[j + 1] = Forward(trail'[j], j)
      <4>1. trail[j + 1] = Forward(trail[j], j) BY <1>1 DEF Running
      <4>2. trail'[j + 1] = trail[j + 1] /\ trail'[j] = trail[j] BY <1>3, <1>9
      <4> QED BY <4>1, <4>2
    <3>2. trail'[n + 1] = Forward(trail'[n], n) BY <1>3, <1>5, <1>9
    <3> QED BY <1>3, <1>9, <3>1, <3>2
  <2>2. \A j \in 1 .. Len(trail') - 1 : trail'[j + 1] = Forward(trail[j], j)'
    <3>1. \A j : Forward(trail[j], j)' = Forward(trail'[j], j)
      BY <1>2, Zenon DEF Forward, AesRound, AddRoundKey, TeaRound, RedPikeRound
    <3> QED BY <2>1, <3>1
  <2>3. trail'[1] = IF cipher' = "aes" THEN AddRoundKey(block, 0)' ELSE block'
    <3>1. AddRoundKey(block, 0)' = AddRoundKey(block, 0) BY <1>2 DEF AddRoundKey
    <3> QED BY <1>1, <1>2, <1>3, <1>9, <3>1 DEF Running
  <2>4. block \in Blocks BY <1>1 DEF Running
  <2> QED BY <1>1, <1>2, <1>3, <1>8, <1>9, <2>2, <2>3, <2>4 DEF Running
<1>11. Encrypting' BY <1>2, <1>3, <1>4, <1>9 DEF Encrypting
<1> QED BY <1>1, <1>2, <1>7, <1>10, <1>11 DEF IInv

LEMMA DecryptBeginIInv ==
    ASSUME IInv, DecryptBegin
    PROVE  IInv'
<1>1. stage = "encrypt" /\ KeysTyped /\ Running /\ Encrypting /\ Len(trail) = rounds + 1
  BY DEF IInv, DecryptBegin
<1>2. /\ UNCHANGED <<cipher, cipherKey, rounds, words, rcon, block, trail>>
      /\ stage' = "decrypt"
      /\ sum' = IF cipher = "tea" THEN (Delta * rounds) % WordMod ELSE sum
      /\ state' = IF cipher = "aes" THEN AddRoundKey(state, rounds) ELSE state
      /\ left' = IF cipher = "aes" THEN rounds - 1 ELSE rounds
  BY DEF DecryptBegin
<1>3. /\ rounds \in Nat \ {0} /\ state = trail[rounds + 1]
      /\ \A j \in 1 .. rounds : trail[j] \in Blocks /\ trail[j + 1] = Forward(trail[j], j)
  BY <1>1 DEF KeysTyped, Running, Encrypting
<1>4. KeysTyped' BY <1>1, <1>2 DEF KeysTyped
<1>5. Running'
  <2>1. Blocks' = Blocks /\ AddRoundKey(block, 0)' = AddRoundKey(block, 0)
    BY <1>2 DEF Blocks, AddRoundKey
  <2>2. \A j : Forward(trail[j], j)' = Forward(trail[j], j)
    BY <1>2, Zenon DEF Forward, AesRound, AddRoundKey, TeaRound, RedPikeRound
  <2> QED BY <1>1, <1>2, <2>1, <2>2 DEF Running
<1>6. cipher = "tea" => sum' = (left' * Delta) % WordMod
  <2>1. Delta * rounds = rounds * Delta BY <1>3, WordNumbers DEF Word
  <2> QED BY <1>2, <2>1
<1>7. CASE cipher = "aes"
  <2> DEFINE s == trail[rounds]
  <2>1. /\ s \in AesState /\ words \in Seq(AesWord) /\ rounds \in Nat
        /\ 4 * rounds + 4 <= Len(words)
    BY <1>1, <1>3, <1>7 DEF KeysTyped, Running, Blocks
  <2>2. state = AddRoundKey(Shuffled(s), rounds) BY <1>3, <1>7 DEF Forward, AesRound
  <2>3. AddRoundKey(AddRoundKey(Shuffled(s), rounds), rounds) = Shuffled(s)
    <3>1. Shuffled(s) \in AesState BY <2>1, ShuffleUndone
    <3> QED BY <2>1, <3>1, KeyUndone
  <2>4. left' = rounds - 1 /\ left' + 1 = rounds BY <1>2, <1>3, <1>7
  <2>5. state' = Shuffled(trail'[left' + 1]) BY <1>2, <1>7, <2>2, <2>3, <2>4
  <2>6. Shuffled(trail[left + 1])' = Shuffled(trail'[left' + 1])
    BY DEF Shuffled, ShiftRows, SubBytes
  <2>7. Decrypting' BY <1>1, <1>2, <1>3, <1>7, <2>4, <2>5, <2>6 DEF Decrypting
  <2> QED BY <1>2, <1>4, <1>5, <2>7 DEF IInv
<1>8. CASE cipher # "aes"
  <2>1. Decrypting' BY <1>1, <1>2, <1>3, <1>6, <1>8 DEF Decrypting
  <2> QED BY <1>2, <1>4, <1>5, <2>1 DEF IInv
<1> QED BY <1>7, <1>8

LEMMA DecryptRoundIInv ==
    ASSUME IInv, DecryptRound
    PROVE  IInv'
<1>1. stage = "decrypt" /\ KeysTyped /\ Running /\ Decrypting /\ left > 0
  BY DEF IInv, DecryptRound
<1>2. /\ UNCHANGED <<cipher, cipherKey, rounds, stage, words, rcon, block, trail>>
      /\ left' = left - 1
      /\ sum' = IF cipher = "tea" THEN (sum - Delta) % WordMod ELSE sum
  BY DEF DecryptRound
<1>3. /\ cipher \in Cipher /\ rounds \in Nat \ {0}
      /\ left \in 1 .. (IF cipher = "aes" THEN rounds - 1 ELSE rounds) /\ left' + 1 = left
      /\ trail[left] \in Blocks /\ trail[left + 1] = Forward(trail[left], left)
  BY <1>1, <1>2 DEF KeysTyped, Running, Decrypting
<1>4. KeysTyped' BY <1>1, <1>2 DEF KeysTyped
<1>5. Running'
  <2>1. Blocks' = Blocks /\ AddRoundKey(block, 0)' = AddRoundKey(block, 0)
    BY <1>2 DEF Blocks, AddRoundKey
  <2>2. \A j : Forward(trail[j], j)' = Forward(trail[j], j)
    BY <1>2, Zenon DEF Forward, AesRound, AddRoundKey, TeaRound, RedPikeRound
  <2> QED BY <1>1, <1>2, <2>1, <2>2 DEF Running
<1>6. cipher = "tea" => sum' = (left' * Delta) % WordMod
  <2>1. left \in Int /\ Delta \in Int BY <1>3, WordNumbers DEF Word
  <2>2. (((left * Delta) % WordMod) - Delta) % WordMod = ((left - 1) * Delta) % WordMod
    BY <2>1, WordNumbers, SumSteps
  <2> QED BY <1>1, <1>2, <2>2 DEF Decrypting
<1>7. state' = IF cipher = "aes" THEN Shuffled(trail[left]) ELSE trail[left]
  <2>1. CASE cipher = "aes"
    <3>1. /\ trail[left] \in AesState /\ left \in 1 .. rounds - 1 /\ rounds \in Nat
          /\ words \in Seq(AesWord) /\ Len(words) = 4 * (rounds + 1)
      BY <1>1, <1>3, <2>1 DEF KeysTyped, Running, Blocks
    <3>2. AesUndone(Shuffled(AesRound(trail[left], left)), left) = Shuffled(trail[left])
      BY <3>1, AesUndoes
    <3>3. trail[left + 1] = AesRound(trail[left], left) BY <1>3, <2>1 DEF Forward
    <3>4. state = Shuffled(trail[left + 1]) BY <1>1, <2>1 DEF Decrypting
    <3>5. state' = AesUndone(state, left) BY <2>1 DEF DecryptRound
    <3> QED BY <2>1, <3>2, <3>3, <3>4, <3>5
  <2>2. CASE cipher = "tea"
    <3>1. trail[left] \in Word \X Word /\ cipherKey \in Seq(Word) /\ Len(cipherKey) = 4
      BY <1>1, <1>3, <2>2 DEF KeysTyped, Blocks
    <3>2. sum = (left * Delta) % WordMod /\ state = trail[left + 1]
      BY <1>1, <2>2 DEF Decrypting
    <3>3. sum \in Word
      <4>1. left * Delta \in Int BY <1>3, WordNumbers DEF Word
      <4> QED BY <3>2, <4>1, WordNumbers DEF Word
    <3>4. trail[left + 1] = TeaRound(trail[left], sum) BY <1>3, <2>2, <3>2 DEF Forward
    <3>5. state' = TeaUndone(state, sum) BY <2>2 DEF DecryptRound
    <3>6. TeaUndone(TeaRound(trail[left], sum), sum) = trail[left] BY <3>1, <3>3, TeaUndoes
    <3> QED BY <2>2, <3>2, <3>4, <3>5, <3>6
  <2>3. CASE cipher = "redpike"
    <3>1. trail[left] \in Word \X Word /\ cipherKey \in Seq(Word) /\ Len(cipherKey) = 2
      BY <1>1, <1>3, <2>3 DEF KeysTyped, Blocks
    <3>2. trail[left + 1] = RedPikeRound(trail[left]) /\ state = trail[left + 1]
      BY <1>1, <1>3, <2>3 DEF Forward, Decrypting
    <3>3. state' = RedPikeUndone(state) BY <2>3 DEF DecryptRound
    <3>4. RedPikeUndone(RedPikeRound(trail[left])) = trail[left] BY <3>1, RedPikeUndoes
    <3> QED BY <2>3, <3>2, <3>3, <3>4
  <2> QED BY <1>3, <2>1, <2>2, <2>3 DEF Cipher
<1>8. Decrypting'
  <2>1. Shuffled(trail[left + 1])' = Shuffled(trail[left])
    <3>1. trail'[left' + 1] = trail[left] BY <1>2, <1>3
    <3> QED BY <3>1 DEF Shuffled, ShiftRows, SubBytes
  <2> QED BY <1>1, <1>2, <1>3, <1>6, <1>7, <2>1 DEF Decrypting
<1> QED BY <1>1, <1>2, <1>4, <1>5, <1>8 DEF IInv

LEMMA DecryptEndIInv ==
    ASSUME IInv, DecryptEnd
    PROVE  IInv'
<1>1. stage = "decrypt" /\ KeysTyped /\ Running /\ Decrypting /\ left = 0
  BY DEF IInv, DecryptEnd
<1>2. /\ UNCHANGED <<cipher, cipherKey, rounds, words, rcon, block>> /\ stage' = "decrypted"
      /\ state' = IF cipher = "aes" THEN AddRoundKey(Unshuffled(state), 0) ELSE state
  BY DEF DecryptEnd
<1>3. state' = block
  <2>1. CASE cipher = "aes"
    <3>1. /\ block \in AesState /\ words \in Seq(AesWord) /\ 4 * 0 + 4 <= Len(words)
          /\ trail[1] = AddRoundKey(block, 0) /\ state = Shuffled(trail[1])
      BY <1>1, <2>1 DEF KeysTyped, Running, Decrypting, Blocks
    <3>2. trail[1] \in AesState /\ AddRoundKey(trail[1], 0) = block BY <3>1, KeyUndone
    <3>3. Unshuffled(state) = trail[1] BY <3>1, <3>2, ShuffleUndone
    <3> QED BY <1>2, <2>1, <3>2, <3>3
  <2>2. CASE cipher # "aes" BY <1>1, <1>2, <2>2 DEF Running, Decrypting
  <2> QED BY <2>1, <2>2
<1>4. KeysTyped' BY <1>1, <1>2 DEF KeysTyped
<1> QED BY <1>2, <1>3, <1>4 DEF IInv

(* decrypt_block() of AES, TEA and RED PIKE retraces encrypt_block() to    *)
(* the block, for every key, block and number of rounds.                   *)
THEOREM RoundsAlwaysUndone == CipherSpec => []RoundsUndone
<1>1. CipherInit => IInv BY InitIInv
<1>2. IInv /\ [CipherNext]_cipherVars => IInv'
  <2> SUFFICES ASSUME IInv, [CipherNext]_cipherVars PROVE IInv'
    OBVIOUS
  <2>1. CASE Expand BY <2>1, ExpandIInv
  <2>2. CASE EncryptBegin BY <2>2, EncryptBeginIInv
  <2>3. CASE EncryptRound BY <2>3, EncryptRoundIInv
  <2>4. CASE DecryptBegin BY <2>4, DecryptBeginIInv
  <2>5. CASE DecryptRound BY <2>5, DecryptRoundIInv
  <2>6. CASE DecryptEnd BY <2>6, DecryptEndIInv
  <2>7. CASE UNCHANGED cipherVars
    <3>1. /\ UNCHANGED <<cipher, cipherKey, rounds, stage, words, rcon>>
          /\ UNCHANGED <<block, state, sum, left, trail>>
      BY <2>7 DEF cipherVars
    <3>2. KeysTyped' = KeysTyped BY <3>1 DEF KeysTyped
    <3>3. Running' = Running
      BY <3>1, Zenon DEF Running, Blocks, Forward, AesRound, AddRoundKey, TeaRound, RedPikeRound
    <3>4. Encrypting' = Encrypting BY <3>1 DEF Encrypting
    <3>5. Decrypting' = Decrypting
      BY <3>1 DEF Decrypting, Shuffled, ShiftRows, SubBytes
    <3> QED BY <3>1, <3>2, <3>3, <3>4, <3>5 DEF IInv
  <2> QED BY <2>1, <2>2, <2>3, <2>4, <2>5, <2>6, <2>7 DEF CipherNext
<1>3. IInv => RoundsUndone BY DEF IInv, Decrypting, RoundsUndone
<1> QED BY <1>1, <1>2, <1>3, PTL DEF CipherSpec
=============================================================================
