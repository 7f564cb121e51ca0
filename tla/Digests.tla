------------------------------- MODULE Digests -------------------------------
(***************************************************************************)
(* The hash functions: SHA-1, SHA-256, SHA-384 and SHA-512                 *)
(* (hashing/sha2.py), SHA-3 and SHAKE (hashing/sha3.py), and HMAC, which   *)
(* calls one of the former two or three times.                             *)
(*                                                                         *)
(* What is modelled is how data is cut into the blocks that are hashed,    *)
(* and how output is taken.  The compression function and the permutation  *)
(* are ideal: a state is the list of the blocks that led to it, and the    *)
(* bytes of a digest are numbers above those of bytes, given out once for  *)
(* each list of blocks (known).                                            *)
(***************************************************************************)
EXTENDS ByteStrings

CONSTANTS
    Width,          \* bits of a byte (8)
    MdFunctions,    \* SHA-1 and SHA-2: block, length field and word, in bytes
    Sponges,        \* SHA-3 and SHAKE: rate and lane in bytes, domain byte
    HashLen,        \* bytes of a digest of the first kind
    IPad, OPad,     \* 0x36 and 0x5C
    Texts,          \* what is hashed
    Keys, Messages, \* arguments of hmac_...()
    OutputLengths   \* of the second kind of function

Mark == Base \div 2     \* 0x80

ASSUME DigestAssumption ==
    /\ Width \in Nat \ {0} /\ Base = 2 ^ Width
    /\ HashLen \in Nat \ {0}
    /\ MdFunctions \subseteq [block : Nat, len : Nat, word : Nat \ {0, 1}]
    /\ \A f \in MdFunctions :
          /\ f.block % f.word = 0 /\ f.len \in f.word .. f.block - 1
          /\ HashLen <= f.block /\ Width * (f.block + HashLen) < Power[f.len]
    /\ Sponges \subseteq [rate : Nat \ {0, 1}, lane : Nat \ {0}, domain : 1 .. Mark - 1]
    /\ \A f \in Sponges : f.rate % f.lane = 0
    /\ IPad \in Byte /\ OPad \in Byte /\ IPad # OPad
    /\ Texts \cup Keys \cup Messages \subseteq Seq(Byte)
    /\ OutputLengths \subseteq Nat

VARIABLES
    fn,             \* the hash function
    use,            \* "hash", or the hash of hmac_...() under way, or the end
    key, message,   \* arguments of hmac_...()
    shortKey,       \* key, once it is no longer than a block
    data,           \* argument of the hash function
    pc,
    i,              \* blocks, or lanes of output, that are done
    state,          \* the blocks that were hashed
    wanted, out,    \* output_len, and the output so far
    known           \* the states of which there is a digest (history)

args == <<fn, key, message, wanted>>
hashVars == <<args, use, shortKey, data, pc, i, state, out, known>>

IsMd(f) == "block" \in DOMAIN f

-----------------------------------------------------------------------------
(* b"\x80", zeros, and the length in bits.                                 *)
MdPadded(f, s) ==
    LET m == Append(s, Mark)
        zeros == (f.block - f.len - 1 - Len(m)) % f.block
    IN  m \o Zeros(zeros) \o ToBytes(Width * Len(s), f.len)

(* Fault: no byte says where the data ends.                                *)
SpongePadded_NoDomain(f, s) ==
    s \o Zeros((f.rate - 1 - Len(s)) % f.rate) \o <<Mark>>

(* The domain byte, zeros while len(msg) % rate # rate - 1, and b"\x80".   *)
SpongePadded(f, s) ==
    LET m == Append(s, f.domain)
    IN  m \o Zeros((f.rate - 1 - Len(m)) % f.rate) \o <<Mark>>

Padded == IF IsMd(fn) THEN MdPadded(fn, data) ELSE SpongePadded(fn, data)
Step   == IF IsMd(fn) THEN fn.block ELSE fn.rate

(* data[k * step : (k + 1) * step]; the last slice may be shorter.         *)
Slice(s, step, k) == SubSeq(s, step * k + 1, Least(step * (k + 1), Len(s)))

(* Fault: a short slice has zeros behind it.                               *)
Word_After(s, length) == s \o Zeros(length - Len(s))

(* int.from_bytes() of a slice: a short one has zeros before it.           *)
Word(s, length) == Zeros(length - Len(s)) \o s

(* The words, or lanes, of a block.                                        *)
Words(block) ==
    IF IsMd(fn)
    THEN [j \in 1 .. fn.block \div fn.word |->
            Word(Slice(block, fn.word, j - 1), fn.word)]
    ELSE [j \in 1 .. fn.rate \div fn.lane |-> Slice(block, fn.lane, j - 1)]

(* The bytes of the digest of a state that is the k-th one known.          *)
DigestBytes(k) == [j \in 1 .. HashLen |-> Base + HashLen * (k - 1) + j - 1]

(* Which digest it is that starts with a byte.                             *)
DigestOf(byte) == (byte - Base) \div HashLen + 1

(* x ^ pad; the xor with a byte of a digest is a value of its own.         *)
Masked(s, pad) ==
    [j \in 1 .. Len(s) |-> IF s[j] \in Byte THEN XorByte[<<s[j], pad>>]
                           ELSE -(Base * s[j] + pad)]

(* Fault: a key of one block is hashed, too.                               *)
TooLong_OrEqual(k) == Len(k) >= fn.block

TooLong(k) == Len(k) > fn.block

(* The key, filled up with zeros.                                          *)
BlockKey(k) == k \o Zeros(fn.block - Len(k))

-----------------------------------------------------------------------------
(* A call of a hash function, and one of hmac_...().                       *)
Call(s) == data' = s /\ pc' = "absorb" /\ i' = 0 /\ state' = <<>> /\ out' = <<>>

CallHmac(k, m) ==
    /\ key' = k /\ message' = m /\ shortKey' = k
    /\ IF TooLong(k)
       THEN use' = "key" /\ Call(k)
       ELSE use' = "inner" /\ Call(Masked(BlockKey(k), IPad) \o m)
    /\ UNCHANGED <<fn, wanted, known>>

(* An output length is an argument of SHAKE only.                          *)
HashInit ==
    /\ fn \in MdFunctions \cup Sponges
    /\ wanted \in IF IsMd(fn) THEN {HashLen} ELSE OutputLengths
    /\ use = "called"
    /\ key = <<>> /\ shortKey = <<>> /\ message = <<>> /\ data = <<>>
    /\ pc = "done" /\ i = 0 /\ state = <<>> /\ out = <<>> /\ known = <<>>

(* The application calls a hash function or hmac_...().                    *)
Hash ==
    /\ use = "called"
    /\ \E s \in Texts : Call(s)
    /\ use' = "hash"
    /\ UNCHANGED <<args, shortKey, known>>

Hmac ==
    /\ use = "called" /\ IsMd(fn)
    /\ \E k \in Keys, m \in Messages : CallHmac(k, m)

(* One pass of the loop over the blocks.                                   *)
Absorb ==
    /\ pc = "absorb"
    /\ Step * i < Len(Padded)
    /\ state' = Append(state, Words(Slice(Padded, Step, i)))
    /\ i' = i + 1
    /\ UNCHANGED <<args, use, shortKey, data, pc, out, known>>

(* The digest is the final state, cut to its length.                       *)
Digest ==
    /\ pc = "absorb" /\ IsMd(fn)
    /\ Step * i >= Len(Padded)
    /\ known' = IF Contains(known, state) THEN known ELSE Append(known, state)
    /\ out' = DigestBytes(CHOOSE k \in DOMAIN known' : known'[k] = state)
    /\ pc' = "done"
    /\ UNCHANGED <<args, use, shortKey, data, i, state>>

(* The next hash of hmac_...().                                            *)
HmacNext ==
    /\ pc = "done"
    /\ \/ /\ use = "key"
          /\ use' = "inner" /\ shortKey' = out
          /\ Call(Masked(BlockKey(out), IPad) \o message)
       \/ /\ use = "inner"
          /\ use' = "outer" /\ UNCHANGED shortKey
          /\ Call(Masked(BlockKey(shortKey), OPad) \o out)
    /\ UNCHANGED <<args, known>>

Returned == pc = "done" /\ use \in {"hash", "outer"}

Lanes == fn.rate \div fn.lane

(* A byte of output is named by the permutations before it, and its place. *)
SqueezedLane(n) == [j \in 1 .. fn.lane |-> <<n \div Lanes, fn.lane * (n % Lanes) + j>>]

Absorbed == pc \in {"absorb", "squeeze"} /\ ~IsMd(fn) /\ (pc = "absorb" => Step * i >= Len(Padded))

(* The loop that takes output from the sponge, lane by lane.               *)
Squeeze ==
    /\ Absorbed
    /\ Len(out) < wanted
    /\ LET n == IF pc = "absorb" THEN 0 ELSE i
       IN  out' = out \o SqueezedLane(n) /\ i' = n + 1
    /\ pc' = "squeeze"
    /\ UNCHANGED <<args, use, shortKey, data, state, known>>

SqueezeEnd ==
    /\ Absorbed
    /\ Len(out) >= wanted
    /\ out' = SubSeq(out, 1, wanted)
    /\ pc' = "done"
    /\ UNCHANGED <<args, use, shortKey, data, i, state, known>>

HashNext == Absorb \/ Digest \/ HmacNext \/ Squeeze \/ SqueezeEnd

-----------------------------------------------------------------------------
(* What the standards hash: FIPS 180-4, 5.1, and FIPS 202, B.2.            *)
StandardPadded(s) ==
    IF IsMd(fn)
    THEN Append(s, Mark) \o Zeros((fn.block - fn.len - 1 - Len(s)) % fn.block)
            \o ToBytes(Width * Len(s), fn.len)
    ELSE LET zeros == fn.rate - 1 - (Len(s) % fn.rate)
         IN  IF zeros = 0 THEN Append(s, fn.domain + Mark)
             ELSE Append(s, fn.domain) \o Zeros(zeros - 1) \o <<Mark>>

StandardBlocks(s) ==
    LET p == StandardPadded(s)
        unit == IF IsMd(fn) THEN fn.word ELSE fn.lane
    IN  [b \in 1 .. Len(p) \div Step |-> [w \in 1 .. Step \div unit |->
            SubSeq(p, Step * (b - 1) + unit * (w - 1) + 1, Step * (b - 1) + unit * w)]]

(* The lengths at which the padding of the code is not the standard's.     *)
Boundary(length) ==
    IF IsMd(fn)
    THEN \/ length % fn.block = fn.block - fn.len - 1
         \/ Width * length >= Power[fn.word - 1]
    ELSE length % fn.rate = fn.rate - 1

(* The data that blocks were made of.                                      *)
Undone(blocks) ==
    LET p == FlattenSeq([b \in DOMAIN blocks |-> FlattenSeq(blocks[b])])
        n == Len(p)
    IN  IF IsMd(fn)
        THEN LET q == RemoveAt(p, n - fn.word + 1)
             IN  SubSeq(q, 1, ToNumber(SubSeq(q, n - fn.len, n - 1)) \div Width)
        ELSE LET last == CHOOSE j \in 1 .. n - 1 :
                            (p[j] # 0 \/ j = 1) /\ \A l \in j + 1 .. n - 1 : p[l] = 0
             IN  SubSeq(p, 1, last - 1)

(* Block key, inner block key and message of an HMAC.                      *)
Unmasked(s, pad) ==
    [j \in 1 .. Len(s) |-> IF s[j] \in Byte THEN XorByte[<<s[j], pad>>]
                           ELSE (-s[j] - pad) \div Base]

Opened(mac) ==
    LET outer == Undone(known[DigestOf(mac[1])])
        inner == Undone(known[DigestOf(outer[fn.block + 1])])
    IN  <<Unmasked(SubSeq(outer, 1, fn.block), OPad),
          Unmasked(SubSeq(inner, 1, fn.block), IPad),
          SubSeq(inner, fn.block + 1, Len(inner))>>

Hashed == use # "called" /\ pc # "absorb"

(* The padding of sha1(), sha256() and _sha512_family() always ends one    *)
(* byte early, and that of _keccak() never shares a byte between domain    *)
(* and mark.  Still the blocks are those of the standard, except for the   *)
(* lengths where they cannot be, and the output of _keccak() is that of    *)
(* the standard: the bytes of the rate, permutation after permutation,     *)
(* none of them skipped or twice, as many as were asked for.               *)
StandardButAtBoundary ==
    /\ Hashed => (state = StandardBlocks(data) <=> ~Boundary(Len(data)))
    /\ pc = "done" /\ use = "hash" /\ ~IsMd(fn) =>
          out = [j \in 1 .. wanted |-> <<(j - 1) \div fn.rate, ((j - 1) % fn.rate) + 1>>]

(* The docstrings: "FIPS 180-4", "FIPS 202".                               *)
BlocksAreStandard == Hashed => state = StandardBlocks(data)

(* Whatever the padding, different data make different blocks: what was    *)
(* hashed can be read back from them.                                      *)
PaddingUndone == Hashed => Undone(state) = data

(* hmac_...(): key and message can be read back from a MAC, were digests   *)
(* invertible, so that other arguments have another MAC; a longer key than *)
(* a block, and no other, is replaced by its digest.                       *)
MacOpens ==
    pc = "done" /\ use = "outer" =>
        /\ Opened(out) = <<BlockKey(shortKey), BlockKey(shortKey), message>>
        /\ IF Len(key) <= fn.block THEN shortKey = key
           ELSE Undone(known[DigestOf(shortKey[1])]) = key
=============================================================================
