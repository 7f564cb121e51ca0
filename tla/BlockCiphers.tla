---------------------------- MODULE BlockCiphers ----------------------------
(***************************************************************************)
(* The block ciphers, round by round: AES with its key schedule            *)
(* (symmetric/aes.py), TEA (symmetric/tea.py) and RED PIKE                 *)
(* (symmetric/redpike.py).  A cipher is constructed, a block is encrypted, *)
(* and the result is decrypted.                                            *)
(*                                                                         *)
(* The words of TEA and RED PIKE are masked after each addition; xor and   *)
(* mask can change places, so that here the terms of an xor are masked,    *)
(* too.  The S-box may be any permutation of the bytes.                    *)
(***************************************************************************)
EXTENDS ByteStrings

CONSTANTS
    WordMod,            \* number of values of a word of TEA, RED PIKE (2^32)
    XorWord,            \* ^ on these words
    Delta,              \* 0x9E3779B9
    ShiftUp, ShiftDown, \* what the shifts of TEA multiply and divide by
    RotUp, RotDown,     \* the same for a rotation by 9, and by 32 - 9
    SBox, Poly,         \* SBOX, 0x1B
    CipherKeys,         \* by cipher, its keys, of any size
    RoundCounts,        \* TEA(key, rounds), RedPike(key, rounds)
    CipherBlocks        \* by cipher, what is encrypted

Cipher == {"aes", "tea", "redpike"}
Feistel == {"tea", "redpike"}

Word  == 0 .. WordMod - 1
Cells == (0 .. 3) \X (0 .. 3)

ASSUME CipherAssumption ==
    /\ WordMod \in Nat \ {0, 1} /\ Delta \in Word
    /\ {ShiftUp, ShiftDown, RotUp, RotDown} \subseteq Nat \ {0}
    /\ RotUp * RotDown = WordMod
    /\ XorWord \in [Word \X Word -> Word]
    /\ \A a, b \in Word : XorWord[XorWord[a, b], b] = a
    /\ SBox \in [Byte -> Byte] /\ \A a, b \in Byte : SBox[a] = SBox[b] => a = b
    /\ Poly \in Byte
    /\ CipherKeys["aes"] \subseteq Seq([1 .. 4 -> Byte])
    /\ CipherKeys["tea"] \subseteq Seq(Word)
    /\ CipherKeys["redpike"] \subseteq Seq(Word)
    /\ RoundCounts \subseteq Int
    /\ CipherBlocks["aes"] \subseteq [Cells -> Byte]
    /\ CipherBlocks["tea"] \subseteq Word \X Word
    /\ CipherBlocks["redpike"] \subseteq Word \X Word

VARIABLES
    cipher, cipherKey,
    rounds,         \* self.rounds, and _nr of AES
    stage,
    words, rcon,    \* w of _key_expand(), and the next of RCON
    block, state,   \* state[r][c], or the two words
    sum,            \* s of TEA
    left,           \* rounds that decryption has to undo
    trail           \* the states that encryption went through (history)

cipherVars == <<cipher, cipherKey, rounds, stage, words, rcon, block, state, sum, left, trail>>

-----------------------------------------------------------------------------
XTime(a) == IF a < Base - a THEN 2 * a ELSE XorByte[2 * a - Base, Poly]

(* No factor of _mix_column() or _inv_mix_column() has more than four bits.*)
Mul(a, b) ==
    LET Term(bit, x) == IF (b \div bit) % 2 = 1 THEN x ELSE 0
        a2 == XTime(a)
        a4 == XTime(a2)
    IN  XorByte[XorByte[Term(1, a), Term(2, a2)], XorByte[Term(4, a4), Term(8, XTime(a4))]]

(* _mix_column() and _inv_mix_column(), by the factors of their first row. *)
Column(row, col) ==
    [r \in 0 .. 3 |->
        LET At(k) == Mul(col[k], row[((k - r) % 4) + 1])
        IN  XorByte[XorByte[At(0), At(1)], XorByte[At(2), At(3)]]]

MixColumn(col)    == Column(<<2, 3, 1, 1>>, col)
InvMixColumn(col) == Column(<<14, 11, 13, 9>>, col)

(* The matrices are inverse to each other in the field that Poly makes.    *)
ASSUME MixAssumption ==
    \A col \in [0 .. 3 -> Byte] : InvMixColumn(MixColumn(col)) = col

Col(s, c) == [r \in 0 .. 3 |-> s[r, c]]

MixColumns(s)    == [rc \in Cells |-> MixColumn(Col(s, rc[2]))[rc[1]]]
InvMixColumns(s) == [rc \in Cells |-> InvMixColumn(Col(s, rc[2]))[rc[1]]]

InvSBox == [b \in Byte |-> CHOOSE a \in Byte : SBox[a] = b]

SubBytes(s)    == [rc \in Cells |-> SBox[s[rc]]]
InvSubBytes(s) == [rc \in Cells |-> InvSBox[s[rc]]]

ShiftRows(s)    == [rc \in Cells |-> s[rc[1], (rc[2] + rc[1]) % 4]]
InvShiftRows(s) == [rc \in Cells |-> s[rc[1], (rc[2] - rc[1]) % 4]]

AddRoundKey(s, j) == [rc \in Cells |-> XorByte[s[rc], words[4 * j + rc[2] + 1][rc[1] + 1]]]

(* What the last round does before it adds its key, and every round first. *)
Shuffled(s) == ShiftRows(SubBytes(s))

(* Fault: rows are not shifted back.                                       *)
Unshuffled_Rows(s) == InvSubBytes(s)

Unshuffled(s) == InvSubBytes(InvShiftRows(s))

AesRound(s, j) ==
    AddRoundKey(IF j < rounds THEN MixColumns(Shuffled(s)) ELSE Shuffled(s), j)

AesUndone(s, j) == InvMixColumns(AddRoundKey(Unshuffled(s), j))

-----------------------------------------------------------------------------
TeaMix(v, s, k, l) ==
    XorWord[XorWord[(v * ShiftUp + k) % WordMod, (v + s) % WordMod],
            (v \div ShiftDown + l) % WordMod]

TeaRound(v, s) ==
    LET v0 == (v[1] + TeaMix(v[2], s, cipherKey[1], cipherKey[2])) % WordMod
    IN  <<v0, (v[2] + TeaMix(v0, s, cipherKey[3], cipherKey[4])) % WordMod>>

TeaUndone(v, s) ==
    LET v1 == (v[2] - TeaMix(v[1], s, cipherKey[3], cipherKey[4])) % WordMod
    IN  <<(v[1] - TeaMix(v1, s, cipherKey[1], cipherKey[2])) % WordMod, v1>>

(* _rotl32(x, 9) and _rotr32(x, 9)                                         *)
RotL(x) == ((x * RotUp) % WordMod) + (x \div RotDown)
RotR(x) == (x \div RotUp) + ((x * RotDown) % WordMod)

RedPikeRound(x) ==
    LET y0 == RotL(XorWord[x[1], cipherKey[1]])
        y1 == RotR(XorWord[x[2], cipherKey[2]])
        z0 == (y0 + y1) % WordMod
    IN  <<z0, (y1 + z0) % WordMod>>

RedPikeUndone(z) ==
    LET y1 == (z[2] - z[1]) % WordMod
        y0 == (z[1] - y1) % WordMod
    IN  <<XorWord[RotR(y0), cipherKey[1]], XorWord[RotL(y1), cipherKey[2]]>>

-----------------------------------------------------------------------------
KeyLengths == [c \in Cipher |->
    CASE c = "aes" -> {4, 6, 8} [] c = "tea" -> {4} [] c = "redpike" -> {2}]

(* AES(key), TEA(key, rounds) and RedPike(key, rounds); the lengths are in *)
(* words.                                                                  *)
CipherInit ==
    /\ cipher \in Cipher
    /\ cipherKey \in CipherKeys[cipher]
    /\ rounds \in IF cipher = "aes" THEN {Len(cipherKey) + 6} ELSE RoundCounts
    /\ stage = IF Len(cipherKey) \notin KeyLengths[cipher] \/ rounds <= 0 THEN "refused"
               ELSE IF cipher = "aes" THEN "expand" ELSE "ready"
    /\ words = IF cipher = "aes" THEN cipherKey ELSE <<>>
    /\ rcon = 1
    /\ block = <<>> /\ state = <<>> /\ sum = 0 /\ left = 0 /\ trail = <<>>

SubWord(w) == [r \in 1 .. 4 |-> SBox[w[r]]]
RotWord(w) == <<w[2], w[3], w[4], w[1]>>

(* One word of _key_expand().  RCON[i // nk - 1] is the next one at each   *)
(* of its uses.                                                            *)
Expand ==
    /\ stage = "expand" /\ Len(words) < 4 * (rounds + 1)
    /\ LET i == Len(words)
           nk == Len(cipherKey)
           Turned == SubWord(RotWord(words[i]))
           temp == IF i % nk = 0 THEN [Turned EXCEPT ![1] = XorByte[@, rcon]]
                   ELSE IF nk > 6 /\ i % nk = 4 THEN SubWord(words[i])
                   ELSE words[i]
       IN  /\ words' = Append(words, [r \in 1 .. 4 |-> XorByte[words[i - nk + 1][r], temp[r]]])
           /\ rcon' = IF i % nk = 0 THEN XTime(rcon) ELSE rcon
    /\ UNCHANGED <<cipher, cipherKey, rounds, stage, block, state, sum, left, trail>>

(* encrypt_block(): up to the loop, one pass of it or the last round, and  *)
(* its end.                                                                *)
EncryptBegin ==
    /\ \/ stage = "ready"
       \/ stage = "expand" /\ Len(words) = 4 * (rounds + 1)
    /\ block' \in CipherBlocks[cipher]
    /\ state' = IF cipher = "aes" THEN AddRoundKey(block', 0) ELSE block'
    /\ trail' = <<state'>>
    /\ stage' = "encrypt"
    /\ UNCHANGED <<cipher, cipherKey, rounds, words, rcon, sum, left>>

EncryptRound ==
    /\ stage = "encrypt" /\ Len(trail) <= rounds
    /\ sum' = IF cipher = "tea" THEN (sum + Delta) % WordMod ELSE sum
    /\ state' = CASE cipher = "aes"     -> AesRound(state, Len(trail))
                  [] cipher = "tea"     -> TeaRound(state, sum')
                  [] cipher = "redpike" -> RedPikeRound(state)
    /\ trail' = Append(trail, state')
    /\ UNCHANGED <<cipher, cipherKey, rounds, stage, words, rcon, block, left>>

(* decrypt_block(): up to the loop, one pass of it, and what follows.      *)
DecryptBegin ==
    /\ stage = "encrypt" /\ Len(trail) = rounds + 1
    /\ stage' = "decrypt"
    /\ sum' = IF cipher = "tea" THEN (Delta * rounds) % WordMod ELSE sum
    /\ state' = IF cipher = "aes" THEN AddRoundKey(state, rounds) ELSE state
    /\ left' = IF cipher = "aes" THEN rounds - 1 ELSE rounds
    /\ UNCHANGED <<cipher, cipherKey, rounds, words, rcon, block, trail>>

DecryptRound ==
    /\ stage = "decrypt" /\ left > 0
    /\ state' = CASE cipher = "aes"     -> AesUndone(state, left)
                  [] cipher = "tea"     -> TeaUndone(state, sum)
                  [] cipher = "redpike" -> RedPikeUndone(state)
    /\ sum' = IF cipher = "tea" THEN (sum - Delta) % WordMod ELSE sum
    /\ left' = left - 1
    /\ UNCHANGED <<cipher, cipherKey, rounds, stage, words, rcon, block, trail>>

DecryptEnd ==
    /\ stage = "decrypt" /\ left = 0
    /\ state' = IF cipher = "aes" THEN AddRoundKey(Unshuffled(state), 0) ELSE state
    /\ stage' = "decrypted"
    /\ UNCHANGED <<cipher, cipherKey, rounds, words, rcon, block, sum, left, trail>>

CipherNext ==
    \/ Expand
    \/ EncryptBegin \/ EncryptRound
    \/ DecryptBegin \/ DecryptRound \/ DecryptEnd

CipherSpec == CipherInit /\ [][CipherNext]_cipherVars

-----------------------------------------------------------------------------
(* decrypt_block() retraces encrypt_block() state by state, with the same  *)
(* round key or sum at each, and ends at the block.  AES is in the middle  *)
(* of a round when its loop comes round.                                   *)
RoundsUndone ==
    /\ stage = "decrypt" =>
          state = IF cipher = "aes" THEN Shuffled(trail[left + 1]) ELSE trail[left + 1]
    /\ stage = "decrypted" => state = block
=============================================================================
