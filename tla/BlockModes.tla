----------------------------- MODULE BlockModes -----------------------------
(***************************************************************************)
(* The modes of operation: CBC and CTR (symmetric/aes.py), IGE (aes.py and *)
(* aes_ige.py, whose loops are the same), AES-GCM (aes_gcm.py) and         *)
(* ChaCha20-Poly1305 (chacha20.py).  One message is encrypted piece by     *)
(* piece, may be changed on its way, and is decrypted piece by piece.      *)
(*                                                                         *)
(* Data is the sequence of the pieces that the loops cut it into: each is  *)
(* of BlockLen bytes but the last, which may be shorter.  The block cipher *)
(* is any permutation of the blocks, and the block function of ChaCha20    *)
(* any function.  A tag is what it is computed from: two that are equal    *)
(* were computed from the same input, which a MAC only makes likely.       *)
(* Lengths inside the MAC input are counted in bytes, not bits.            *)
(***************************************************************************)
EXTENDS ByteStrings

CONSTANTS
    BlockLen,       \* 16, and 64 for ChaCha20
    PolyLen,        \* 16, the block of Poly1305
    NonceLen,       \* length of a nonce that GCM uses as it is (12)
    EncryptBlock,   \* AES.encrypt_block() under the key
    MulH,           \* _ghash_mul() by the key H
    ChaChaBlock,    \* _chacha20_block() under the key, by nonce and counter
    CounterMod,     \* where the counter of ChaCha20 wraps around (2^32)
    Messages, Aads, \* what is encrypted, and the additional data
    Ivs             \* for each mode, its initialisation vectors or nonces

Modes == {"cbc", "ctr", "ige", "gcm", "chacha"}
Aead  == {"gcm", "chacha"}

Block == [1 .. BlockLen -> Byte]
Piece == UNION {[1 .. k -> Byte] : k \in 1 .. BlockLen}

(* A sequence of pieces that stands for a string of bytes.                 *)
IsData(s) ==
    /\ s \in Seq(Piece)
    /\ \A i \in 1 .. Len(s) - 1 : Len(s[i]) = BlockLen

ASSUME ModesAssumption ==
    /\ BlockLen \in Nat \ {0} /\ BlockLen < Base
    /\ NonceLen \in 1 .. BlockLen - 1
    /\ PolyLen \in 1 .. BlockLen /\ BlockLen % PolyLen = 0
    /\ CounterMod \in Nat \ {0}
    /\ EncryptBlock \in [Block -> Block]
    /\ \A a, b \in Block : EncryptBlock[a] = EncryptBlock[b] => a = b
    /\ \A b \in Block : \E a \in Block : EncryptBlock[a] = b
    /\ MulH \in [Block -> Block]
    /\ \A s \in Messages \cup Aads : IsData(s)
    /\ \A v \in Ivs["cbc"] \cup Ivs["ctr"] : v \in Block
    /\ \A v \in Ivs["ige"] : v \in Block \X Block
    /\ \A v \in Ivs["gcm"] \cup Ivs["chacha"] : IsData(v)
    /\ \A v \in Ivs["chacha"], n \in 0 .. CounterMod - 1 : ChaChaBlock[<<v, n>>] \in Block

VARIABLES
    mode, msg, aad, iv,     \* the call
    blob,           \* it is encrypt_blob(), with nonce, text and tag in one
    pc,
    prev,           \* prev_c and prev_p, or iv1 and iv2
    counter,        \* what the next piece of the key stream is computed from
    i,              \* pieces that are done
    ct, tag,        \* what the sender made
    rct, raad, riv, \* what the receiver got
    out,            \* what the receiver has decrypted
    used            \* what the key stream was computed from so far (history)

call == <<mode, msg, aad, iv, blob>>
received == <<rct, raad, riv>>
vars == <<call, pc, prev, counter, i, ct, tag, received, out, used>>

-----------------------------------------------------------------------------
(* AES.decrypt_block()                                                     *)
DecryptBlock == [b \in Block |-> CHOOSE a \in Block : EncryptBlock[a] = b]

(* _pad16(): zeros up to a multiple of unit.                               *)
ZeroPad(s, unit) ==
    IF s = <<>> THEN s
    ELSE Append(Front(s), Last(s) \o Zeros((-Len(Last(s))) % unit))

Size(s) == IF s = <<>> THEN 0 ELSE BlockLen * (Len(s) - 1) + Len(Last(s))

(* A string of bytes, cut into pieces.                                     *)
Pieces(bytes) ==
    [k \in 1 .. (Len(bytes) + BlockLen - 1) \div BlockLen |->
        SubSeq(bytes, BlockLen * (k - 1) + 1, Least(BlockLen * k, Len(bytes)))]

Half == BlockLen \div 2
LengthBlock(m, n) == ToBytes(m, Half) \o ToBytes(n, BlockLen - Half)

(* Fault: the lengths are left out.                                        *)
MacInput_NoLengths(a, c, unit) == ZeroPad(a, unit) \o ZeroPad(c, unit)

(* What the tag is computed from: the blocks of _ghash(), and mac_data.    *)
MacInput(a, c, unit) ==
    ZeroPad(a, unit) \o ZeroPad(c, unit) \o <<LengthBlock(Size(a), Size(c))>>

(* The value of _ghash() without additional data.                          *)
Ghash(s) ==
    FoldLeft(LAMBDA X, b : MulH[Xor(X, b)], Zeros(BlockLen), MacInput(<<>>, s, BlockLen))

(* j0: a nonce of the usual length is used as it is, any other is hashed,  *)
(* with its length, by _ghash(), which adds the length of that.            *)
J0(nonce) ==
    IF Size(nonce) = NonceLen
    THEN Head(nonce) \o ToBytes(1, BlockLen - NonceLen)
    ELSE Ghash(Append(ZeroPad(nonce, BlockLen), LengthBlock(0, Size(nonce))))

(* _inc32(), and the last line of the loop in _gctr(): the bytes behind    *)
(* the nonce count, each one when all to its right are at their end.       *)
Inc(b) ==
    [j \in 1 .. BlockLen |->
        IF j > NonceLen /\ \A k \in j + 1 .. BlockLen : b[k] = Base - 1
        THEN (b[j] + 1) % Base ELSE b[j]]

(* Fault: a text of whole blocks gets no padding.                          *)
Pad_None(s) ==
    LET n == BlockLen - (Size(s) % BlockLen)
    IN  IF n = BlockLen THEN s
        ELSE Append(Front(s), Last(s) \o [j \in 1 .. n |-> n])

(* _pad_pkcs7()                                                            *)
Pad(s) ==
    LET n == BlockLen - (Size(s) % BlockLen)
        padding == [j \in 1 .. n |-> n]
    IN  IF n = BlockLen THEN Append(s, padding)
        ELSE Append(Front(s), Last(s) \o padding)

(* Fault: the key stream starts with the block that masks the tag.         *)
FirstCounter_J0(m, v) ==
    CASE m = "ctr"    -> 0
      [] m = "gcm"    -> J0(v)
      [] m = "chacha" -> 1
      [] OTHER        -> 0

(* The input of the first piece of key stream.                             *)
FirstCounter(m, v) ==
    CASE m = "ctr"    -> 0
      [] m = "gcm"    -> Inc(J0(v))
      [] m = "chacha" -> 1
      [] OTHER        -> 0

NextCounter == IF mode = "gcm" THEN Inc(counter) ELSE counter + 1

(* CTR keeps the first half of its nonce and counts in the other half.     *)
KeyInput(v) ==
    CASE mode = "ctr"    -> SubSeq(v, 1, Half) \o ToBytes(counter, BlockLen - Half)
      [] mode = "gcm"    -> counter
      [] mode = "chacha" -> <<v, counter % CounterMod>>

KeyStream(input) == IF mode = "chacha" THEN ChaChaBlock[input] ELSE EncryptBlock[input]

(* What masks the tag: the block of j0, the key of Poly1305.               *)
MaskInput(v) == IF mode = "gcm" THEN J0(v) ELSE <<v, 0>>

Tag(v, a, c) ==
    <<MaskInput(v), FlattenSeq(MacInput(a, c, IF mode = "gcm" THEN BlockLen ELSE PolyLen))>>

Chained == mode \in {"cbc", "ige"}
FirstPrev == CASE mode = "cbc" -> [c |-> iv, p |-> iv]
               [] mode = "ige" -> [c |-> iv[1], p |-> iv[2]]

-----------------------------------------------------------------------------
Init ==
    /\ mode \in Modes /\ msg \in Messages
    /\ iv \in Ivs[mode]
    /\ aad \in IF mode \in Aead THEN Aads ELSE {<<>>}
    /\ blob \in IF mode \in Aead THEN BOOLEAN ELSE {FALSE}
    /\ pc = "encrypt"
    /\ prev = IF Chained THEN FirstPrev ELSE <<>>
    /\ counter = FirstCounter(mode, iv)
    /\ i = 0
    /\ ct = <<>> /\ rct = <<>> /\ raad = <<>> /\ riv = <<>> /\ out = <<>>
    /\ tag = <<>>
    /\ used = <<>>

(* What the loop runs over.                                                *)
Plain == IF mode = "cbc" THEN Pad(msg) ELSE msg

(* encrypt_ige() takes whole blocks only.                                  *)
Refused == mode = "ige" /\ Size(msg) % BlockLen # 0

RefuseCall ==
    /\ pc = "encrypt" /\ Refused
    /\ pc' = "refused"
    /\ UNCHANGED <<call, prev, counter, i, ct, tag, received, out, used>>

(* One iteration, on either side: the next piece of ct or out is made.     *)
EncryptCbc ==
    /\ mode = "cbc"
    /\ LET c == EncryptBlock[Xor(Plain[i + 1], prev.c)]
       IN  ct' = Append(ct, c) /\ prev' = [prev EXCEPT !.c = c]
    /\ UNCHANGED <<counter, used>>

EncryptIge ==
    /\ mode = "ige"
    /\ LET p == Plain[i + 1]
           c == Xor(EncryptBlock[Xor(p, prev.c)], prev.p)
       IN  ct' = Append(ct, c) /\ prev' = [c |-> c, p |-> p]
    /\ UNCHANGED <<counter, used>>

EncryptStream ==
    /\ ~Chained
    /\ ct' = Append(ct, Xor(Plain[i + 1], KeyStream(KeyInput(iv))))
    /\ used' = Append(used, KeyInput(iv))
    /\ counter' = NextCounter
    /\ UNCHANGED prev

Encrypt ==
    /\ pc = "encrypt" /\ ~Refused
    /\ i < Len(Plain)
    /\ i' = i + 1
    /\ EncryptCbc \/ EncryptIge \/ EncryptStream
    /\ UNCHANGED <<call, pc, tag, received, out>>

Seal ==
    /\ pc = "encrypt" /\ ~Refused
    /\ i = Len(Plain)
    /\ tag' = IF mode \in Aead THEN Tag(iv, aad, ct) ELSE <<>>
    /\ pc' = "sent"
    /\ UNCHANGED <<call, prev, counter, i, ct, received, out, used>>

-----------------------------------------------------------------------------
(* The text arrives as it is, with a piece changed, or without its end;    *)
(* the receiver may have another nonce or other additional data in mind.   *)
Changed ==
    {ct}
    \cup {[ct EXCEPT ![k] = p] : k \in 1 .. Len(ct), p \in Piece}
    \cup (IF ct = <<>> THEN {} ELSE {Front(ct)})

(* decrypt_blob() cuts a blob where a nonce of the usual length ends.      *)
Cut(bytes) ==
    /\ riv' = <<SubSeq(bytes, 1, Least(NonceLen, Len(bytes)))>>
    /\ rct' = Pieces(SubSeq(bytes, NonceLen + 1, Len(bytes)))

Arrive ==
    /\ pc = "sent"
    /\ \E c \in {c \in Changed : IsData(c) /\ (Size(c) = Size(ct) \/ Len(c) < Len(ct))} :
          \/ blob /\ Cut(FlattenSeq(iv) \o FlattenSeq(c))
          \/ /\ ~blob /\ rct' = c
             /\ riv' \in IF mode \in Aead THEN Ivs[mode] ELSE {iv}
    /\ raad' \in IF mode \in Aead THEN Aads ELSE {<<>>}
    /\ pc' = "arrived"
    /\ UNCHANGED <<call, prev, counter, i, ct, tag, out, used>>

(* The checks before anything is decrypted.  CBC wants the vector and one  *)
(* block at least, and CBC and IGE whole blocks; a blob has a whole nonce. *)
Accepted ==
    /\ blob => Size(riv) = NonceLen
    /\ mode = "cbc" => rct # <<>>
    /\ Chained => Size(rct) % BlockLen = 0
    /\ mode \in Aead => Tag(riv, raad, rct) = tag

Open ==
    /\ pc = "arrived"
    /\ IF Accepted
       THEN /\ pc' = "decrypt"
            /\ prev' = IF Chained THEN FirstPrev ELSE <<>>
            /\ counter' = FirstCounter(mode, riv)
            /\ i' = 0
       ELSE pc' = "refused" /\ UNCHANGED <<prev, counter, i>>
    /\ UNCHANGED <<call, ct, tag, received, out, used>>

DecryptCbc ==
    /\ mode = "cbc"
    /\ out' = Append(out, Xor(DecryptBlock[rct[i + 1]], prev.c))
    /\ prev' = [prev EXCEPT !.c = rct[i + 1]]
    /\ UNCHANGED counter

(* Fault: the plaintext is chained as the ciphertext is.                   *)
DecryptIge_Swapped ==
    /\ mode = "ige"
    /\ LET p == Xor(DecryptBlock[Xor(rct[i + 1], prev.c)], prev.p)
       IN  out' = Append(out, p) /\ prev' = [c |-> rct[i + 1], p |-> p]
    /\ UNCHANGED counter

DecryptIge ==
    /\ mode = "ige"
    /\ LET p == Xor(DecryptBlock[Xor(rct[i + 1], prev.p)], prev.c)
       IN  out' = Append(out, p) /\ prev' = [c |-> rct[i + 1], p |-> p]
    /\ UNCHANGED counter

DecryptStream ==
    /\ ~Chained
    /\ out' = Append(out, Xor(rct[i + 1], KeyStream(KeyInput(riv))))
    /\ counter' = NextCounter
    /\ UNCHANGED prev

Decrypt ==
    /\ pc = "decrypt"
    /\ i < Len(rct)
    /\ i' = i + 1
    /\ DecryptCbc \/ DecryptIge \/ DecryptStream
    /\ UNCHANGED <<call, pc, ct, tag, received, used>>

(* _unpad_pkcs7() on the last piece, which is a whole block.               *)
GoodPadding(s) ==
    LET n == Last(Last(s))
    IN  n \in 1 .. BlockLen /\ \A j \in BlockLen - n + 1 .. BlockLen : Last(s)[j] = n

Unpad(s) ==
    LET n == Last(Last(s))
    IN  IF n = BlockLen THEN Front(s)
        ELSE Append(Front(s), SubSeq(Last(s), 1, BlockLen - n))

Finish ==
    /\ pc = "decrypt"
    /\ i = Len(rct)
    /\ IF mode # "cbc" THEN pc' = "done" /\ UNCHANGED out
       ELSE IF GoodPadding(out) THEN pc' = "done" /\ out' = Unpad(out)
       ELSE pc' = "refused" /\ UNCHANGED out
    /\ UNCHANGED <<call, prev, counter, i, ct, tag, received, used>>

Next ==
    \/ RefuseCall \/ Encrypt \/ Seal
    \/ Arrive
    \/ Open \/ Decrypt \/ Finish

Spec == Init /\ [][Next]_vars

-----------------------------------------------------------------------------
(* What arrives as it was sent is accepted and is the message, whatever    *)
(* its length: the encryption and decryption functions of every mode are   *)
(* inverse to each other.  A blob arrives as it was sent if its nonce is   *)
(* of the usual length: decrypt_blob() then cuts it where the nonce ends,  *)
(* and with a nonce of any other length at the wrong place.                *)
RoundTrip ==
    /\ rct = ct /\ raad = aad /\ riv = iv /\ (blob => Size(iv) = NonceLen) =>
          /\ pc = "done" => out = msg
          /\ pc = "refused" => Refused
    /\ blob /\ pc = "arrived" /\ Size(riv) = NonceLen =>
          /\ riv = iv <=> Size(iv) = NonceLen
          /\ riv = iv => rct \in Changed

(* The first piece that arrived different from what was sent.              *)
FirstHit == CHOOSE k \in 1 .. Len(ct) :
                /\ k > Len(rct) \/ rct[k] # ct[k]
                /\ \A j \in 1 .. k - 1 : rct[j] = ct[j]

(* How far a changed piece reaches: not before itself; in CTR not beyond   *)
(* itself, and in CBC to the next piece, from which on the text is right   *)
(* again.  In IGE there is no such limit, and the piece is never right     *)
(* (docs/IMPLEMENTATION.md: "Infinite Garble Extension").                  *)
DamageContained ==
    pc = "decrypt" /\ rct # ct =>
        LET k == FirstHit
            Right(j) == out[j] = Plain[j]
        IN  \A j \in 1 .. i :
                /\ j < k => Right(j)
                /\ j = k => ~Right(j)
                /\ j = k + 1 /\ mode = "cbc" => ~Right(j)
                /\ j > k + 1 /\ mode = "cbc" => Right(j)
                /\ j > k /\ mode = "ctr" => Right(j)

(* No piece of key stream serves twice in a message, and none masks the    *)
(* tag (encrypt_ctr, _gctr, chacha20_encrypt).                             *)
KeyStreamFresh ==
    /\ IsInjective(used)
    /\ mode \in Aead => MaskInput(iv) \notin Range(used)

(* Nothing is decrypted unless text and additional data are what was sent, *)
(* also if nonce and text of a blob were told apart wrongly: the tag tells *)
(* where one ends and the other begins, and is checked first               *)
(* (AESGCM.decrypt, ChaCha20Poly1305.decrypt).                             *)
AuthenticBeforeDecrypt ==
    mode \in Aead /\ pc \in {"decrypt", "done"} => rct = ct /\ raad = aad
=============================================================================
