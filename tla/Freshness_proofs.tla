-------------------------- MODULE Freshness_proofs --------------------------
(***************************************************************************)
(* Proofs about Derivations: that what HKDF and PBKDF2 return is fresh, as *)
(* the digests behind it are made of distinct messages; that no digest is  *)
(* hashed before it is made, so that the generator's state tells nothing   *)
(* of what it returned; and that this state is made, HMAC by HMAC, of all  *)
(* that the generator was given.                                           *)
(***************************************************************************)
EXTENDS Derivations_proofs, FiniteSetTheorems

(* The bytes there are when n digests are known, and those behind a mask.  *)
Size(n)  == Base + HashLen * n
Names(n) == 0 .. Size(n) - 1
Masks(n) == {y \in Int : y < Size(n) /\ -y < Base * Size(n)}

(* A sequence of elements of a set is one over it.                         *)
LEMMA SeqOver ==
    ASSUME NEW S, NEW T, NEW s \in Seq(S), \A j \in 1 .. Len(s) : s[j] \in T
    PROVE  s \in Seq(T)
<1>1. PICK n \in Nat : n = Len(s) BY LenProperties
<1>2. s \in [1 .. n -> S] BY <1>1, LenProperties
<1>3. s \in [1 .. n -> T] BY <1>1, <1>2
<1> QED BY <1>3, StringLength

(* The sets are sets of numbers, ...                                       *)
LEMMA SizeType ==
    ASSUME NEW n \in Nat
    PROVE  /\ Size(n) \in Nat /\ Base <= Size(n) /\ Size(n + 1) = Size(n) + HashLen
           /\ Byte \subseteq Names(n) /\ Names(n) \subseteq Nat /\ Names(n) \subseteq Masks(n)
           /\ Names(n) \subseteq Int /\ Masks(n) \subseteq Int
<1>1. PICK h \in Nat, b \in Nat : h = HashLen /\ b = Base /\ b > 1
  <2>1. HashLen \in Nat BY DigestAssumption
  <2> QED BY <2>1, Numbers
<1>2. PICK y \in Nat : y = h * n OBVIOUS
<1>3. PICK z \in Nat : z = b + y OBVIOUS
<1>4. Size(n) = z BY <1>1, <1>2, <1>3 DEF Size
<1>5. Size(n + 1) = z + h
  <2>1. h * (n + 1) = y + h BY <1>2
  <2>2. Size(n + 1) = b + h * (n + 1) BY <1>1 DEF Size
  <2> QED BY <1>3, <2>1, <2>2
<1>6. b <= z BY <1>3
<1>7. PICK w \in Nat : w = b * z OBVIOUS
<1>8. w > 0
  <2>1. b * 1 <= b * z
    <3>1. 1 \in Nat /\ 1 <= z BY <1>1, <1>6
    <3> QED BY <3>1, Multiples
  <2> QED BY <1>1, <1>7, <2>1
<1>9. Names(n) \subseteq Masks(n) BY <1>1, <1>4, <1>7, <1>8 DEF Names, Masks
<1>10. Byte \subseteq Names(n) BY <1>1, <1>4, <1>6 DEF Names, Byte
<1>11. Names(n) \subseteq Nat /\ Names(n) \subseteq Int /\ Masks(n) \subseteq Int
  BY <1>4 DEF Names, Masks
<1> QED BY <1>1, <1>4, <1>5, <1>6, <1>9, <1>10, <1>11

(* ... which grow, ...                                                     *)
LEMMA SizeGrows ==
    ASSUME NEW n \in Nat, NEW m \in Nat, n <= m
    PROVE  /\ Size(n) <= Size(m) /\ Names(n) \subseteq Names(m) /\ Masks(n) \subseteq Masks(m)
           /\ Seq(Names(n)) \subseteq Seq(Names(m)) /\ Seq(Masks(n)) \subseteq Seq(Masks(m))
<1>1. PICK h \in Nat, b \in Nat : h = HashLen /\ b = Base /\ b > 1
  <2>1. HashLen \in Nat BY DigestAssumption
  <2> QED BY <2>1, Numbers
<1>2. h * n <= h * m BY Multiples
<1>3. PICK y \in Nat, z \in Nat : y = Size(n) /\ z = Size(m) BY SizeType
<1>4. y <= z
  <2>1. PICK p \in Nat, q \in Nat : p = h * n /\ q = h * m OBVIOUS
  <2>2. y = b + p /\ z = b + q BY <1>1, <1>3, <2>1 DEF Size
  <2> QED BY <1>2, <2>1, <2>2
<1>5. b * y <= b * z BY <1>4, Multiples
<1>6. PICK p \in Nat, q \in Nat : p = b * y /\ q = b * z OBVIOUS
<1>7. Names(n) \subseteq Names(m) BY <1>3, <1>4 DEF Names
<1>8. Masks(n) \subseteq Masks(m)
  <2>1. Masks(n) = {x \in Int : x < y /\ -x < p} /\ Masks(m) = {x \in Int : x < z /\ -x < q}
    BY <1>1, <1>3, <1>6 DEF Masks
  <2> QED BY <1>4, <1>5, <1>6, <2>1
<1> QED BY <1>3, <1>4, <1>7, <1>8, SeqMonotonic

(* ... and so do the strings over them.                                    *)
LEMMA NamesSeq ==
    ASSUME NEW n \in Nat
    PROVE  /\ Seq(Byte) \subseteq Seq(Names(n)) /\ Seq(Names(n)) \subseteq Seq(Nat)
           /\ Seq(Names(n)) \subseteq Seq(Masks(n)) /\ <<>> \in Seq(Names(n))
           /\ \A s, u \in Seq(Names(n)) : s \o u \in Seq(Names(n))
           /\ \A s, u \in Seq(Masks(n)) : s \o u \in Seq(Masks(n))
<1>1. Byte \subseteq Names(n) /\ Names(n) \subseteq Nat /\ Names(n) \subseteq Masks(n) BY SizeType
<1>2. PICK S, T : S = Names(n) /\ T = Masks(n) OBVIOUS
<1>3. \A s, u \in Seq(S) : s \o u \in Seq(S) BY ConcatProperties
<1>4. \A s, u \in Seq(T) : s \o u \in Seq(T) BY ConcatProperties
<1> QED BY <1>1, <1>2, <1>3, <1>4, SeqMonotonic, EmptySeq

(* The bytes of a digest.                                                  *)
LEMMA DigestNames ==
    ASSUME NEW k \in Nat, k > 0
    PROVE  /\ Len(DigestBytes(k)) = HashLen /\ DigestBytes(k) \in Seq(Nat)
           /\ \A x \in 1 .. HashLen : DigestBytes(k)[x] = Size(k - 1) + x - 1
           /\ \A n \in Nat : k <= n => DigestBytes(k) \in Seq(Names(n))
<1>1. DigestBytes(k) \in Seq(Nat) /\ Len(DigestBytes(k)) = HashLen BY DigestBytesType
<1>2. PICK h \in Nat : h = HashLen /\ h > 0 BY DigestAssumption
<1>3. PICK q \in Nat : q = k - 1 OBVIOUS
<1>4. PICK z \in Nat : z = Size(q) BY <1>3, SizeType
<1>5. \A x \in 1 .. h : DigestBytes(k)[x] = z + x - 1
  <2> TAKE x \in 1 .. h
  <2>1. DigestBytes(k)[x] = Base + HashLen * (k - 1) + x - 1 BY <1>2 DEF DigestBytes
  <2>2. Base + HashLen * (k - 1) = z BY <1>3, <1>4 DEF Size
  <2> QED BY <2>1, <2>2
<1>6. ASSUME NEW n \in Nat, k <= n PROVE DigestBytes(k) \in Seq(Names(n))
  <2>1. Size(q + 1) = z + h BY <1>2, <1>3, <1>4, SizeType
  <2>2. q + 1 \in Nat /\ q + 1 <= n BY <1>3, <1>6
  <2>3. PICK y \in Nat : y = Size(n) BY SizeType
  <2>4. z + h <= y BY <2>1, <2>2, <2>3, SizeGrows
  <2>5. ASSUME NEW x \in 1 .. h PROVE DigestBytes(k)[x] \in Names(n)
    <3>1. DigestBytes(k)[x] = z + x - 1 BY <1>5
    <3>2. z + x - 1 \in 0 .. y - 1 BY <1>2, <2>4
    <3> QED BY <2>3, <3>1, <3>2 DEF Names
  <2>6. PICK d \in Seq(Nat) : d = DigestBytes(k) /\ Len(d) = h BY <1>1, <1>2
  <2>7. \A x \in 1 .. Len(d) : d[x] \in Names(n) BY <2>5, <2>6
  <2>8. d \in Seq(Names(n)) BY <2>7, SeqOver
  <2> QED BY <2>6, <2>8
<1> QED BY <1>1, <1>2, <1>3, <1>4, <1>5, <1>6

(* Two digests differ.                                                     *)
LEMMA DigestsDiffer ==
    ASSUME NEW k \in Nat, k > 0, NEW j \in Nat, j > 0, DigestBytes(k) = DigestBytes(j)
    PROVE  k = j
BY FirstOfDigest

(* What is masked is made of what there is, and what is unmasked.          *)
LEMMA MaskedNames ==
    ASSUME NEW n \in Nat, NEW s \in Seq(Nat), NEW pad \in Byte
    PROVE  s \in Seq(Names(n)) <=> Masked(s, pad) \in Seq(Masks(n))
<1>1. PICK l \in Nat : l = Len(s) BY LenProperties
<1>2. Base \in Nat /\ Base > 1 /\ Byte \subseteq Nat /\ Byte = 0 .. Base - 1
  BY Numbers DEF Byte
<1>3. PICK b \in Nat, p \in Nat : b = Base /\ p = pad /\ p < b BY <1>2
<1>4. PICK z \in Nat : z = Size(n) /\ b <= z BY <1>3, SizeType
<1>5. PICK w \in Nat : w = b * z OBVIOUS
<1>6. \A x \in Byte : XorByte[<<x, pad>>] \in Byte
  <2> TAKE x \in Byte
  <2>1. <<x, pad>> \in Byte \X Byte OBVIOUS
  <2> QED BY <2>1, BytesAssumption
<1>7. PICK m : m = Masked(s, pad) OBVIOUS
<1>8. m \in Seq(Int) /\ Len(m) = l BY <1>1, <1>7, MaskedType
<1>9. \A j \in 1 .. l : /\ s[j] \in Nat
                        /\ m[j] = IF s[j] \in Byte THEN XorByte[<<s[j], pad>>]
                                  ELSE -(b * s[j] + p)
  BY <1>1, <1>3, <1>7, ElementOfSeq DEF Masked
<1>10. Byte \subseteq Masks(n) /\ Byte \subseteq Names(n) BY SizeType
<1>11. ASSUME NEW x \in Nat
       PROVE  x \in Names(n) <=> -(b * x + p) \in Masks(n)
  <2>1. PICK y \in Nat : y = b * x OBVIOUS
  <2>2. -(b * x + p) \in Masks(n) <=> y + p < w
    <3>1. Masks(n) = {v \in Int : v < z /\ -v < w} BY <1>3, <1>4, <1>5 DEF Masks
    <3>2. -(y + p) \in Int /\ -(y + p) < z /\ -(-(y + p)) = y + p BY <1>3, <1>4, <1>2
    <3>3. -(b * x + p) = -(y + p) BY <2>1
    <3> QED BY <3>1, <3>2, <3>3
  <2>3. CASE x < z
    <3>1. b * (x + 1) <= b * z
      <4>1. x + 1 \in Nat /\ x + 1 <= z BY <2>3
      <4> QED BY <4>1, Multiples
    <3>2. b * (x + 1) = y + b BY <2>1
    <3>3. y + p < w BY <1>3, <1>5, <3>1, <3>2
    <3>4. x \in Names(n) BY <1>4, <2>3 DEF Names
    <3> QED BY <2>2, <3>3, <3>4
  <2>4. CASE z <= x
    <3>1. b * z <= b * x BY <2>4, Multiples
    <3>2. ~(y + p < w) BY <1>5, <2>1, <3>1
    <3>3. x \notin Names(n) BY <1>4, <2>4 DEF Names
    <3> QED BY <2>2, <3>2, <3>3
  <2> QED BY <2>3, <2>4
<1>12. ASSUME NEW j \in 1 .. l PROVE s[j] \in Names(n) <=> m[j] \in Masks(n)
  <2>1. PICK x \in Nat : x = s[j] BY <1>9
  <2>2. CASE x \in Byte
    <3>1. m[j] \in Byte BY <1>6, <1>9, <2>1, <2>2
    <3> QED BY <1>10, <2>1, <2>2, <3>1
  <2>3. CASE x \notin Byte
    <3>1. m[j] = -(b * x + p) BY <1>9, <2>1, <2>3
    <3>2. x \in Names(n) <=> -(b * x + p) \in Masks(n) BY <1>11
    <3> QED BY <2>1, <3>1, <3>2
  <2> QED BY <2>2, <2>3
<1>13. s \in Seq(Names(n)) => m \in Seq(Masks(n))
  <2> SUFFICES ASSUME s \in Seq(Names(n)) PROVE m \in Seq(Masks(n)) OBVIOUS
  <2>1. \A j \in 1 .. l : s[j] \in Names(n) BY <1>1, ElementOfSeq
  <2>2. \A j \in 1 .. Len(m) : m[j] \in Masks(n) BY <1>8, <1>12, <2>1
  <2> QED BY <1>8, <2>2, SeqOver
<1>14. m \in Seq(Masks(n)) => s \in Seq(Names(n))
  <2> SUFFICES ASSUME m \in Seq(Masks(n)) PROVE s \in Seq(Names(n)) OBVIOUS
  <2>1. \A j \in 1 .. l : m[j] \in Masks(n) BY <1>8, ElementOfSeq
  <2>2. \A j \in 1 .. Len(s) : s[j] \in Names(n) BY <1>1, <1>12, <2>1
  <2> QED BY <2>2, SeqOver
<1> QED BY <1>7, <1>13, <1>14

-----------------------------------------------------------------------------
(* That the j-th digest is a MAC: two states are known, and what was       *)
(* hashed to the one is the key and the digest of the other, and to that   *)
(* one the key and the message.                                            *)
IsMac(j, k, m) ==
    /\ j \in 1 .. Len(known) /\ k \in Seq(Nat) /\ Len(k) <= fn.block /\ m \in Seq(Nat)
    /\ \E d \in 1 .. Len(known) :
          /\ Undone(known[j]) = Masked(BlockKey(k), OPad) \o DigestBytes(d)
          /\ Undone(known[d]) = Masked(BlockKey(k), IPad) \o m

(* What hmac_...() returns is one, ...                                     *)
LEMMA MacMade ==
    ASSUME HashInv, LengthsFit, pc = "done", use = "outer"
    PROVE  \E j \in 1 .. Len(known) : out = DigestBytes(j) /\ IsMac(j, shortKey, message)
<1>1. IsMd(fn) /\ fn \in MdFunctions
  <2>1. IsMd(fn) /\ fn \in MdFunctions \cup Sponges BY DEF HashInv, HashTypes
  <2> QED BY <2>1, SpongeNumbers
<1>2. {key, message, shortKey} \subseteq Seq(Nat) /\ known \in Seq(States)
  BY DEF HashInv, HashTypes, Knowing
<1>3. OPad \in Byte BY DigestAssumption
<1>4. Len(shortKey) <= fn.block BY DEF HashInv, MacStages
<1>5. PICK d \in Seq(Nat) : /\ Len(d) = HashLen /\ TellsOf(d, InnerData)
                            /\ data = Masked(BlockKey(shortKey), OPad) \o d
  BY DEF HashInv, MacStages
<1>6. PICK e \in 1 .. Len(known) : d = DigestBytes(e) /\ Undone(known[e]) = InnerData
  BY <1>5 DEF TellsOf
<1>7. LengthFits(data)
  <2>1. Width * (fn.block + HashLen) < Power[fn.len] BY <1>1, MdNumbers
  <2>2. Len(data) = fn.block + HashLen BY <1>1, <1>2, <1>3, <1>4, <1>5, MacDataType
  <2> QED BY <2>1, <2>2 DEF LengthFits
<1>8. TellsOf(out, data) BY <1>1, <1>7, DigestTells
<1>9. PICK j \in 1 .. Len(known) : out = DigestBytes(j) /\ Undone(known[j]) = data
  BY <1>8 DEF TellsOf
<1>10. Undone(known[j]) = Masked(BlockKey(shortKey), OPad) \o DigestBytes(e)
  BY <1>5, <1>6, <1>9
<1>11. Undone(known[e]) = Masked(BlockKey(shortKey), IPad) \o message
  BY <1>6 DEF InnerData
<1>12. IsMac(j, shortKey, message) BY <1>2, <1>4, <1>10, <1>11 DEF IsMac
<1> QED BY <1>9, <1>12

(* ... and opened, it shows key and message, ...                           *)
LEMMA MacOpened ==
    ASSUME fn \in MdFunctions, known \in Seq(States), NEW j, NEW k, NEW m, IsMac(j, k, m)
    PROVE  Opened(DigestBytes(j)) = <<BlockKey(k), BlockKey(k), m>>
<1>1. PICK d \in 1 .. Len(known) :
          /\ Undone(known[j]) = Masked(BlockKey(k), OPad) \o DigestBytes(d)
          /\ Undone(known[d]) = Masked(BlockKey(k), IPad) \o m
  BY DEF IsMac
<1>2. IPad \in Byte /\ OPad \in Byte BY DigestAssumption
<1>3. k \in Seq(Nat) /\ Len(k) <= fn.block /\ m \in Seq(Nat) /\ j \in 1 .. Len(known)
  BY DEF IsMac
<1>4. j \in Nat /\ j > 0 /\ d \in Nat /\ d > 0
  <2>1. Len(known) \in Nat BY LenProperties
  <2> QED BY <1>3, <2>1
<1>5. DigestOf(DigestBytes(j)[1]) = j /\ DigestOf(DigestBytes(d)[1]) = d
  BY <1>4, FirstOfDigest
<1>6. PICK s : s = DigestBytes(d) OBVIOUS
<1>7. s \in Seq(Nat) /\ Len(s) = HashLen BY <1>4, <1>6, DigestBytesType
<1>8. PICK outer : outer = Undone(known[j]) OBVIOUS
<1>9. /\ Unmasked(SubSeq(outer, 1, fn.block), OPad) = BlockKey(k)
      /\ Placed(outer, fn.block, s)
  BY <1>1, <1>2, <1>3, <1>6, <1>7, <1>8, MacDataParts
<1>10. outer[fn.block + 1] = s[1]
  <2>1. HashLen \in Nat /\ HashLen > 0 BY MdNumbers
  <2>2. 1 \in 1 .. Len(s) BY <1>7, <2>1
  <2> QED BY <1>9, <2>2 DEF Placed
<1>11. PICK inner : inner = Undone(known[d]) OBVIOUS
<1>12. /\ Unmasked(SubSeq(inner, 1, fn.block), IPad) = BlockKey(k)
       /\ SubSeq(inner, fn.block + 1, Len(inner)) = m
  BY <1>1, <1>2, <1>3, <1>11, MacDataParts
<1> QED BY <1>5, <1>6, <1>8, <1>9, <1>10, <1>11, <1>12 DEF Opened

(* ... so that it is the MAC of no other.                                  *)
LEMMA MacUnique ==
    ASSUME fn \in MdFunctions, known \in Seq(States), NEW j, NEW k, NEW m, IsMac(j, k, m),
           NEW l, NEW n, IsMac(j, l, n)
    PROVE  BlockKey(k) = BlockKey(l) /\ m = n
<1>1. Opened(DigestBytes(j)) = <<BlockKey(k), BlockKey(k), m>> BY MacOpened
<1>2. Opened(DigestBytes(j)) = <<BlockKey(l), BlockKey(l), n>> BY MacOpened
<1> QED BY <1>1, <1>2

(* A step forgets nothing.                                                 *)
Grows ==
    /\ fn' = fn /\ Len(known) \in Nat /\ Len(known') \in Nat /\ Len(known) <= Len(known')
    /\ \A k \in 1 .. Len(known) : known'[k] = known[k]

(* A MAC stays one.                                                        *)
LEMMA MacStays ==
    ASSUME Grows, NEW j, NEW k, NEW m, IsMac(j, k, m)
    PROVE  IsMac(j, k, m)'
<1>1. /\ fn' = fn /\ Len(known) \in Nat /\ Len(known') \in Nat /\ Len(known) <= Len(known')
      /\ \A e \in 1 .. Len(known) : known'[e] = known[e]
  BY DEF Grows
<1>2. PICK d \in 1 .. Len(known) :
          /\ Undone(known[j]) = Masked(BlockKey(k), OPad) \o DigestBytes(d)
          /\ Undone(known[d]) = Masked(BlockKey(k), IPad) \o m
  BY DEF IsMac
<1>3. k \in Seq(Nat) /\ Len(k) <= fn.block /\ m \in Seq(Nat) /\ j \in 1 .. Len(known)
  BY DEF IsMac
<1>4. PICK u, v : u = known[j] /\ v = known[d] OBVIOUS
<1>5. known'[j] = u /\ known'[d] = v BY <1>1, <1>3, <1>4
<1>6. \A s : Undone(s)' = Undone(s) BY <1>1 DEF Undone, IsMd
<1>7. Undone(known[j])' = Undone(u) /\ Undone(known[d])' = Undone(v)
  BY <1>1, <1>5 DEF Undone, IsMd
<1>8. BlockKey(k)' = BlockKey(k) BY <1>1 DEF BlockKey
<1>9. \A s, p : Masked(s, p)' = Masked(s, p) BY DEF Masked
<1>10. /\ Undone(known[j])' = Masked(BlockKey(k), OPad)' \o DigestBytes(d)
       /\ Undone(known[d])' = Masked(BlockKey(k), IPad)' \o m
  BY <1>2, <1>4, <1>7, <1>8 DEF Masked
<1>11. DigestBytes(d)' = DigestBytes(d) BY DEF DigestBytes
<1>12. j \in 1 .. Len(known') /\ d \in 1 .. Len(known') /\ Len(k) <= fn'.block
  BY <1>1, <1>3
<1> QED BY <1>3, <1>10, <1>11, <1>12 DEF IsMac

(* Every step grows, most because they do not know more than before.       *)
LEMMA SameGrows ==
    ASSUME HashInv, UNCHANGED <<fn, known>>
    PROVE  Grows
<1>1. Len(known) \in Nat BY LenProperties DEF HashInv, Knowing
<1> QED BY <1>1 DEF Grows

(* A digest that is made is a new state known, or one known before.        *)
LEMMA DigestGrows ==
    ASSUME HashInv, Digest
    PROVE  Grows
<1>1. /\ pc = "absorb" /\ Step * i >= Len(Padded)
      /\ known' = IF Contains(known, state) THEN known ELSE Append(known, state)
      /\ fn' = fn
  BY DEF Digest, args
<1>2. AreBlocks(i) /\ state = Made(i) BY <1>1, AllAbsorbed DEF HashInv
<1>3. i \in Nat /\ fn \in MdFunctions \cup Sponges BY DEF HashInv, HashTypes
<1>4. state \in States BY <1>2, <1>3, StateType
<1>5. known \in Seq(States) BY DEF HashInv, Knowing
<1>6. PICK l \in Nat : l = Len(known) BY <1>5, LenProperties
<1>7. CASE Contains(known, state) BY <1>1, <1>6, <1>7 DEF Grows
<1>8. CASE ~Contains(known, state)
  <2>1. known' = Append(known, state) BY <1>1, <1>8
  <2>2. Len(known') = l + 1 /\ \A k \in 1 .. l : known'[k] = known[k]
    BY <1>4, <1>5, <1>6, <2>1, AppendProperties
  <2> QED BY <1>1, <1>6, <2>2 DEF Grows
<1> QED BY <1>7, <1>8

(* No step of a hash forgets a digest or what it was called with.          *)
LEMMA HashNextGrows ==
    ASSUME HashInv, HashNext
    PROVE  /\ Grows /\ UNCHANGED args
           /\ use \in {"key", "inner", "outer"} => use' \in {"key", "inner", "outer"}
<1>1. CASE Digest
  <2>1. Grows BY <1>1, DigestGrows
  <2> QED BY <1>1, <2>1 DEF Digest
<1>2. CASE Absorb \/ HmacNext \/ Squeeze \/ SqueezeEnd
  <2>1. UNCHANGED args /\ UNCHANGED known
    BY <1>2 DEF Absorb, HmacNext, Squeeze, SqueezeEnd
  <2>2. Grows BY <2>1, SameGrows DEF args
  <2>3. use \in {"key", "inner", "outer"} => use' \in {"key", "inner", "outer"}
    BY <1>2 DEF Absorb, HmacNext, Squeeze, SqueezeEnd
  <2> QED BY <2>1, <2>2, <2>3
<1> QED BY <1>1, <1>2 DEF HashNext

(* A call of hmac_...() starts with a hash of the key or of the message.   *)
LEMMA CallHmacGrows ==
    ASSUME HashInv, NEW k, NEW m, CallHmac(k, m)
    PROVE  Grows /\ key' = k /\ message' = m /\ use' \in {"key", "inner"}
<1>1. UNCHANGED <<fn, known>> BY DEF CallHmac
<1> QED BY <1>1, SameGrows DEF CallHmac

-----------------------------------------------------------------------------
(* What is put together of strings that end with numbers of their own      *)
(* differs.                                                                *)
LEMMA EndsIn ==
    ASSUME NEW s \in Seq(Nat), NEW u \in Seq(Nat), NEW e \in Seq(Nat), NEW f \in Seq(Nat),
           Len(e) = Len(f), s \o e = u \o f
    PROVE  e = f
<1>1. PICK w : w = s \o e OBVIOUS
<1>2. IsConcat(w, s, e) /\ IsConcat(w, u, f) BY <1>1, ConcatParts
<1>3. Len(s) \in Nat /\ Len(u) \in Nat /\ Len(e) \in Nat BY LenProperties
<1>4. Len(s) = Len(u) BY <1>2, <1>3 DEF IsConcat
<1>5. \A x \in 1 .. Len(e) : e[x] = f[x] BY <1>2, <1>4 DEF IsConcat
<1> QED BY <1>5, SeqEqual

(* Strings that end in the same digits end in the same counter.            *)
LEMMA CountersDiffer ==
    ASSUME NEW a \in Nat, NEW b \in Nat, NEW n \in Nat, a < Power[n], b < Power[n],
           NEW s \in Seq(Nat), NEW u \in Seq(Nat), s \o ToBytes(a, n) = u \o ToBytes(b, n)
    PROVE  a = b
<1>1. PICK e, f : e = ToBytes(a, n) /\ f = ToBytes(b, n) OBVIOUS
<1>2. e \in Seq(Nat) /\ f \in Seq(Nat) /\ Len(e) = Len(f) BY <1>1, ToBytesType, Strings
<1>3. e = f BY <1>1, <1>2, EndsIn
<1>4. ToNumber(e) = a /\ ToNumber(f) = b BY <1>1, BytesRead
<1> QED BY <1>3, <1>4

(* How many blocks it takes.                                               *)
LEMMA BlocksFit ==
    ASSUME NEW n \in Nat, NEW h \in Nat, h = HashLen
    PROVE  /\ Blocks(n) \in Nat /\ n <= h * Blocks(n)
           /\ \A c \in Nat : Blocks(n) <= c <=> n <= h * c
<1>1. h > 0 BY DigestAssumption
<1>2. PICK a \in Nat : a = (n + h) - 1 BY <1>1
<1>3. Blocks(n) = a \div h
  <2>1. n + HashLen - 1 = a BY <1>2
  <2> QED BY <2>1 DEF Blocks
<1>4. PICK q \in Nat, r \in 0 .. h - 1 : q = a \div h /\ a = h * q + r BY <1>1, Division
<1>5. PICK p \in Nat : p = h * q OBVIOUS
<1>6. n = (p + r + 1) - h BY <1>1, <1>2, <1>4, <1>5
<1>7. n <= p BY <1>6
<1>8. ASSUME NEW c \in Nat PROVE q <= c <=> n <= h * c
  <2>1. CASE q <= c
    <3>1. h * q <= h * c BY <2>1, Multiples
    <3>2. h * c \in Nat OBVIOUS
    <3> QED BY <1>5, <1>7, <2>1, <3>1, <3>2
  <2>2. CASE ~(q <= c)
    <3>1. c + 1 \in Nat /\ c + 1 <= q BY <2>2
    <3>2. h * (c + 1) <= h * q BY <3>1, Multiples
    <3>3. PICK g \in Nat : g = h * c OBVIOUS
    <3>4. h * (c + 1) = g + h BY <3>3
    <3>5. g + h <= p BY <1>5, <3>2, <3>4
    <3>6. n > g BY <1>6, <3>5
    <3> QED BY <2>2, <3>3, <3>6
  <2> QED BY <2>1, <2>2
<1> QED BY <1>3, <1>4, <1>5, <1>7, <1>8

(* n pieces of a digest's length, one after the other.                     *)
IsChunked(s, n, c, S) ==
    /\ s \in Seq(S) /\ n \in Nat /\ Len(s) = HashLen * n
    /\ \A x \in 1 .. n : /\ c[x] \in Seq(S) /\ Len(c[x]) = HashLen
                         /\ \A y \in 1 .. HashLen : s[HashLen * (x - 1) + y] = c[x][y]

(* The output before the first block, ...                                  *)
LEMMA NoChunks ==
    ASSUME NEW c, NEW S
    PROVE  IsChunked(<<>>, 0, c, S)
<1>1. HashLen \in Nat BY DigestAssumption
<1>2. HashLen * 0 = 0 BY <1>1
<1>3. \A x \in 1 .. 0 : FALSE OBVIOUS
<1> QED BY <1>2, <1>3, EmptySeq DEF IsChunked

(* ... with one more block ...                                             *)
LEMMA ChunkMore ==
    ASSUME NEW S, NEW s, NEW n, NEW c, IsChunked(s, n, c, S), NEW e \in Seq(S), Len(e) = HashLen,
           NEW d, \A x \in 1 .. n : d[x] = c[x], d[n + 1] = e
    PROVE  IsChunked(s \o e, n + 1, d, S)
<1>1. PICK h \in Nat : h = HashLen /\ h > 0 BY DigestAssumption
<1>2. s \in Seq(S) /\ n \in Nat /\ Len(s) = h * n BY <1>1 DEF IsChunked
<1>3. PICK p \in Nat : p = h * n BY <1>2
<1>4. PICK w : w = s \o e OBVIOUS
<1>5. w \in Seq(S) /\ IsConcat(w, s, e) BY <1>2, <1>4, ConcatParts
<1>6. h * (n + 1) = p + h BY <1>2, <1>3
<1>7. Len(w) = h * (n + 1) BY <1>1, <1>2, <1>3, <1>5, <1>6 DEF IsConcat
<1>8. ASSUME NEW x \in 1 .. n + 1
      PROVE  /\ d[x] \in Seq(S) /\ Len(d[x]) = h
             /\ \A y \in 1 .. h : w[h * (x - 1) + y] = d[x][y]
  <2>1. CASE x = n + 1
    <3>1. x - 1 = n BY <1>2, <2>1
    <3>2. \A y \in 1 .. h : w[p + y] = e[y]
      BY <1>1, <1>2, <1>3, <1>5 DEF IsConcat
    <3> QED BY <1>1, <1>3, <2>1, <3>1, <3>2
  <2>2. CASE x # n + 1
    <3>1. x \in 1 .. n BY <1>2, <2>2
    <3>2. /\ c[x] \in Seq(S) /\ Len(c[x]) = h /\ d[x] = c[x]
          /\ \A y \in 1 .. h : s[h * (x - 1) + y] = c[x][y]
      BY <1>1, <3>1 DEF IsChunked
    <3>3. ASSUME NEW y \in 1 .. h PROVE w[h * (x - 1) + y] = c[x][y]
      <4>1. PICK z : z = h * (x - 1) + y OBVIOUS
      <4>2. z \in 1 .. h * n BY <1>2, <3>1, <4>1, Inside
      <4>3. w[z] = s[z] BY <1>2, <1>5, <4>2 DEF IsConcat
      <4> QED BY <3>2, <4>1, <4>3
    <3> QED BY <3>2, <3>3
  <2> QED BY <2>1, <2>2
<1>9. n + 1 \in Nat BY <1>2
<1> QED BY <1>1, <1>4, <1>5, <1>7, <1>8, <1>9 DEF IsChunked

(* No element of two pieces is the same, nor two of one.                   *)
Apart(c, n) ==
    \A x, z \in 1 .. n : \A y, v \in 1 .. HashLen : c[x][y] = c[z][v] => x = z /\ y = v

IsStart(u, s, l) == u = SubSeq(s, 1, l)

(* ... and cut to the length asked for: distinct if the blocks are.        *)
LEMMA ChunksCut ==
    ASSUME NEW S, NEW s, NEW n, NEW c, IsChunked(s, n, c, S), NEW l \in Nat, l <= HashLen * n,
           NEW u, IsStart(u, s, l)
    PROVE  /\ u \in Seq(S) /\ Len(u) = l /\ (Apart(c, n) => IsInjective(u))
           /\ \A a \in 1 .. l : \E x \in 1 .. n, y \in 1 .. HashLen : u[a] = c[x][y]
<1>1. PICK h \in Nat : h = HashLen /\ h > 0 BY DigestAssumption
<1>2. s \in Seq(S) /\ n \in Nat /\ Len(s) = h * n BY <1>1 DEF IsChunked
<1>3. u \in Seq(S) /\ Len(u) = l /\ \A a \in 1 .. l : u[a] = s[a]
  <2>1. PICK o \in Nat : o = 0 OBVIOUS
  <2>2. o + l <= Len(s) /\ 1 = o + 1 /\ l = o + l BY <1>1, <1>2, <2>1
  <2>3. u \in Seq(S) /\ Len(u) = l /\ \A x \in 1 .. l : u[x] = s[o + x]
    <3>1. u = SubSeq(s, 1, l) BY DEF IsStart
    <3> QED BY ONLY <1>2, <2>2, <3>1, o \in Nat, l \in Nat, PieceOf
  <2>4. \A x \in 1 .. l : o + x = x BY <2>1
  <2> QED BY <2>3, <2>4
<1>4. ASSUME NEW a \in 1 .. l
      PROVE  \E x \in 1 .. n, y \in 1 .. h : a = h * (x - 1) + y /\ u[a] = c[x][y]
  <2>1. a \in 1 .. h * n
    <3>1. h * n \in Nat BY <1>2
    <3> QED BY <1>1, <3>1
  <2>2. PICK x \in 1 .. n, y \in 1 .. h : a = h * (x - 1) + y BY <1>1, <1>2, <2>1, SomePlace
  <2>3. s[a] = c[x][y] BY <1>1, <2>2 DEF IsChunked
  <2>4. u[a] = c[x][y] BY <1>3, <2>3
  <2> QED BY <2>2, <2>4
<1>5. ASSUME Apart(c, n) PROVE IsInjective(u)
  <2> SUFFICES ASSUME NEW a \in 1 .. l, NEW b \in 1 .. l, u[a] = u[b] PROVE a = b
    <3>1. DOMAIN u = 1 .. l BY <1>3, LenProperties
    <3> QED BY <3>1 DEF IsInjective
  <2>1. PICK x \in 1 .. n, y \in 1 .. h : a = h * (x - 1) + y /\ u[a] = c[x][y] BY <1>4
  <2>2. PICK z \in 1 .. n, v \in 1 .. h : b = h * (z - 1) + v /\ u[b] = c[z][v] BY <1>4
  <2>3. x = z /\ y = v BY <1>1, <1>5, <2>1, <2>2 DEF Apart
  <2> QED BY <2>1, <2>2, <2>3
<1> QED BY <1>1, <1>3, <1>4, <1>5

-----------------------------------------------------------------------------
(* HKDF: each digest in the output is the MAC of a message that ends with  *)
(* the number of its block.                                                *)
IsHkdf(n, d) ==
    /\ \A x \in 1 .. n : /\ d[x] \in 1 .. Len(known)
                         /\ \E k, u \in Seq(Nat) : IsMac(d[x], k, u \o ToBytes(x, 1))
    /\ IsChunked(okm, n, [x \in 1 .. n |-> DigestBytes(d[x])], Nat)

HkdfMade(n) == \E d : IsHkdf(n, d)

HkdfInv ==
    /\ stage \in {"idle", "extract"} => okm = <<>> /\ block = 0
    /\ stage \in {"expand", "expanding"} => Blocks(job.length) < Power[1]
    /\ stage = "expand" => block <= Blocks(job.length) /\ HkdfMade(block)
    /\ stage = "expanding" =>
          /\ use \in {"key", "inner", "outer"}
          /\ block > 0 /\ block <= Blocks(job.length) /\ HkdfMade(block - 1)
          /\ \E u \in Seq(Nat) : message = u \o ToBytes(block, 1)

(* No output of HKDF has been made.                                        *)
LEMMA NoHkdf ==
    ASSUME okm = <<>>
    PROVE  HkdfMade(0)
<1>1. PICK d : d = <<>> OBVIOUS
<1>2. \A x \in 1 .. 0 : FALSE OBVIOUS
<1>3. IsChunked(okm, 0, [x \in 1 .. 0 |-> DigestBytes(d[x])], Nat) BY NoChunks
<1> QED BY <1>2, <1>3 DEF HkdfMade, IsHkdf

(* Blocks that were made stay, ...                                         *)
LEMMA HkdfMadeStays ==
    ASSUME Grows, okm' = okm, NEW n, HkdfMade(n)
    PROVE  HkdfMade(n)'
<1>1. PICK d : IsHkdf(n, d) BY DEF HkdfMade
<1>2. ASSUME NEW x \in 1 .. n
      PROVE  /\ d[x] \in 1 .. Len(known')
             /\ \E k, u \in Seq(Nat) : IsMac(d[x], k, u \o ToBytes(x, 1))'
  <2>1. d[x] \in 1 .. Len(known) BY <1>1 DEF IsHkdf
  <2>2. PICK k \in Seq(Nat), u \in Seq(Nat) : IsMac(d[x], k, u \o ToBytes(x, 1))
    BY <1>1 DEF IsHkdf
  <2>3. PICK m : m = u \o ToBytes(x, 1) OBVIOUS
  <2>4. PICK j : j = d[x] OBVIOUS
  <2>5. IsMac(j, k, m)' BY <2>2, <2>3, <2>4, MacStays
  <2>6. d[x] \in 1 .. Len(known') BY <2>1 DEF Grows
  <2> QED BY <2>3, <2>4, <2>5, <2>6
<1>3. PICK c : c = [x \in 1 .. n |-> DigestBytes(d[x])] OBVIOUS
<1>4. IsChunked(okm, n, c, Nat) BY <1>1, <1>3 DEF IsHkdf
<1>5. IsChunked(okm', n, c, Nat) BY <1>4
<1>6. IsHkdf(n, d)' BY <1>2, <1>3, <1>5 DEF IsHkdf
<1> QED BY <1>6 DEF HkdfMade

(* ... and a digest makes one more.                                        *)
LEMMA HkdfMore ==
    ASSUME HashInv, LengthsFit, Returned, use # "hash", NEW n \in Nat, HkdfMade(n),
           NEW u \in Seq(Nat), message = u \o ToBytes(n + 1, 1),
           okm' = okm \o out, UNCHANGED hashVars
    PROVE  HkdfMade(n + 1)'
<1>1. pc = "done" /\ use = "outer" BY DEF Returned
<1>2. PICK j \in 1 .. Len(known) : out = DigestBytes(j) /\ IsMac(j, shortKey, message)
  BY <1>1, MacMade
<1>3. PICK k : k = shortKey OBVIOUS
<1>4. PICK m : m = u \o ToBytes(n + 1, 1) OBVIOUS
<1>5. IsMac(j, k, m) BY <1>2, <1>3, <1>4
<1>6. k \in Seq(Nat) BY <1>5 DEF IsMac
<1>7. PICK e : IsHkdf(n, e) BY DEF HkdfMade
<1>8. PICK d : d = [x \in 1 .. n + 1 |-> IF x = n + 1 THEN j ELSE e[x]] OBVIOUS
<1>9. d[n + 1] = j /\ \A x \in 1 .. n : d[x] = e[x] BY <1>8
<1>10. Grows
  <2>1. UNCHANGED <<fn, known>> BY DEF hashVars, args
  <2> QED BY <2>1, SameGrows
<1>11. known' = known BY DEF hashVars
<1>12. ASSUME NEW x \in 1 .. n + 1
       PROVE  /\ d[x] \in 1 .. Len(known')
              /\ \E g, v \in Seq(Nat) : IsMac(d[x], g, v \o ToBytes(x, 1))'
  <2>1. CASE x = n + 1
    <3>1. IsMac(j, k, m)' BY <1>5, <1>10, MacStays
    <3> QED BY <1>4, <1>6, <1>9, <1>11, <2>1, <3>1
  <2>2. CASE x # n + 1
    <3>1. x \in 1 .. n /\ d[x] = e[x] BY <1>9, <2>2
    <3>2. d[x] \in 1 .. Len(known) BY <1>7, <3>1 DEF IsHkdf
    <3>3. PICK g \in Seq(Nat), v \in Seq(Nat) : IsMac(e[x], g, v \o ToBytes(x, 1))
      BY <1>7, <3>1 DEF IsHkdf
    <3>4. PICK w, f : w = v \o ToBytes(x, 1) /\ f = e[x] OBVIOUS
    <3>5. IsMac(f, g, w)' BY <1>10, <3>3, <3>4, MacStays
    <3> QED BY <1>11, <3>1, <3>2, <3>4, <3>5
  <2> QED BY <2>1, <2>2
<1>13. PICK a, c : /\ a = [x \in 1 .. n |-> DigestBytes(e[x])]
                   /\ c = [x \in 1 .. n + 1 |-> DigestBytes(d[x])]
  OBVIOUS
<1>14. IsChunked(okm', n + 1, c, Nat)
  <2>1. IsChunked(okm, n, a, Nat) BY <1>7, <1>13 DEF IsHkdf
  <2>2. j \in Nat /\ j > 0
    <3>1. Len(known) \in Nat BY LenProperties DEF HashInv, Knowing
    <3> QED BY <1>2, <3>1
  <2>3. out \in Seq(Nat) /\ Len(out) = HashLen BY <1>2, <2>2, DigestBytesType
  <2>4. \A x \in 1 .. n : c[x] = a[x] BY <1>9, <1>13
  <2>5. c[n + 1] = out BY <1>2, <1>9, <1>13
  <2>6. PICK s, o : s = okm /\ o = out OBVIOUS
  <2>7. IsChunked(s \o o, n + 1, c, Nat) BY <2>1, <2>3, <2>4, <2>5, <2>6, ChunkMore
  <2> QED BY <2>6, <2>7
<1>15. IsHkdf(n + 1, d)' BY <1>12, <1>13, <1>14 DEF IsHkdf
<1> QED BY <1>15 DEF HkdfMade

(* No byte of the output is there twice.                                   *)
LEMMA HkdfApart ==
    ASSUME fn \in MdFunctions, known \in Seq(States), NEW n \in Nat, n < Power[1],
           NEW d, IsHkdf(n, d)
    PROVE  Apart([x \in 1 .. n |-> DigestBytes(d[x])], n)
<1>1. PICK c : c = [x \in 1 .. n |-> DigestBytes(d[x])] OBVIOUS
<1>2. PICK h \in Nat : h = HashLen /\ h > 0 BY DigestAssumption
<1>3. SUFFICES ASSUME NEW x \in 1 .. n, NEW z \in 1 .. n, NEW y \in 1 .. h, NEW v \in 1 .. h,
                      DigestBytes(d[x])[y] = DigestBytes(d[z])[v]
               PROVE  x = z /\ y = v
  BY <1>1, <1>2 DEF Apart
<1>4. d[x] \in 1 .. Len(known) /\ d[z] \in 1 .. Len(known) BY DEF IsHkdf
<1>5. PICK a \in Nat, b \in Nat : a = d[x] /\ b = d[z] /\ a > 0 /\ b > 0
  <2>1. Len(known) \in Nat BY LenProperties
  <2> QED BY <1>4, <2>1
<1>6. a = b /\ y = v
  <2>1. PICK p \in Nat, q \in Nat : p = a - 1 /\ q = b - 1 BY <1>5
  <2>2. Base + h * p + y - 1 = Base + h * q + v - 1
    <3>1. DigestBytes(a)[y] = Base + HashLen * (a - 1) + y - 1 BY <1>2 DEF DigestBytes
    <3>2. DigestBytes(b)[v] = Base + HashLen * (b - 1) + v - 1 BY <1>2 DEF DigestBytes
    <3> QED BY <1>2, <1>3, <1>5, <2>1, <3>1, <3>2
  <2>3. y - 1 \in 0 .. h - 1 /\ v - 1 \in 0 .. h - 1 BY <1>2
  <2>4. PICK r \in 0 .. h - 1, s \in 0 .. h - 1 : r = y - 1 /\ s = v - 1 BY <2>3
  <2>5. h * p + r = h * q + s
    <3>1. Base \in Nat BY Numbers
    <3>2. PICK f \in Nat, g \in Nat : f = h * p /\ g = h * q OBVIOUS
    <3> QED BY <2>2, <2>4, <3>1, <3>2
  <2>6. (h * p + r) \div h = p /\ (h * p + r) % h = r BY <1>2, DivisionUnique
  <2>7. (h * q + s) \div h = q /\ (h * q + s) % h = s BY <1>2, DivisionUnique
  <2> QED BY <2>1, <2>4, <2>5, <2>6, <2>7
<1>7. PICK k \in Seq(Nat), u \in Seq(Nat) : IsMac(a, k, u \o ToBytes(x, 1))
  BY <1>5 DEF IsHkdf
<1>8. PICK l \in Seq(Nat), w \in Seq(Nat) : IsMac(a, l, w \o ToBytes(z, 1))
  BY <1>5, <1>6 DEF IsHkdf
<1>9. u \o ToBytes(x, 1) = w \o ToBytes(z, 1)
  <2>1. PICK m, o : m = u \o ToBytes(x, 1) /\ o = w \o ToBytes(z, 1) OBVIOUS
  <2>2. IsMac(a, k, m) /\ IsMac(a, l, o) BY <1>7, <1>8, <2>1
  <2>3. m = o BY <2>2, MacUnique
  <2> QED BY <2>1, <2>3
<1>10. x \in Nat /\ z \in Nat /\ x < Power[1] /\ z < Power[1]
  <2>1. Power[1] \in Nat BY PowerDefined
  <2> QED BY <2>1
<1>11. x = z
  <2>1. 1 \in Nat OBVIOUS
  <2> QED BY <1>9, <1>10, <2>1, CountersDiffer
<1> QED BY <1>6, <1>11

(* What it takes for a result to be fresh.                                 *)
LEMMA EndedFresh ==
    ASSUME NEW j, NEW o, stage' = "ended", job' = j, okm' = o, Len(o) = j.length, IsInjective(o),
           Blocks(j.length) < Power[IF "info" \in DOMAIN j THEN 1 ELSE CounterLen],
           "iterations" \in DOMAIN j =>
              /\ j.iterations > 0
              /\ \A b \in DOMAIN o : Cardinality(o[b][1]) = j.iterations
    PROVE  DerivedFresh'
BY DEF DerivedFresh, IsInjective

(* A refusal is right: the counter is too short, or no iteration asked.    *)
LEMMA RefusedFresh ==
    ASSUME NEW j, stage' = "refused", job' = j,
           \/ ~(Blocks(j.length) < Power[IF "info" \in DOMAIN j THEN 1 ELSE CounterLen])
           \/ "iterations" \in DOMAIN j /\ ~(j.iterations > 0)
    PROVE  DerivedFresh'
BY DEF DerivedFresh

(* DerivedFresh says nothing while nothing has ended.                      *)
LEMMA OtherFresh ==
    ASSUME stage' \notin {"ended", "refused"}
    PROVE  DerivedFresh'
BY DEF DerivedFresh

(* The limit on the length is one on the number of blocks.                 *)
LEMMA LimitOfBlocks ==
    ASSUME NEW l \in Nat, NEW n \in Nat
    PROVE  l > (Power[n] - 1) * HashLen <=> ~(Blocks(l) < Power[n])
<1>1. PICK h \in Nat : h = HashLen BY DigestAssumption
<1>2. PICK p \in Nat : p = Power[n] - 1
  <2>1. Power[n] \in Nat /\ Power[n] > 0 BY PowerDefined
  <2> QED BY <2>1
<1>3. Blocks(l) \in Nat /\ (Blocks(l) <= p <=> l <= h * p) BY <1>1, BlocksFit
<1>4. h * p = p * h /\ h * p \in Nat OBVIOUS
<1>5. Power[n] = p + 1 BY <1>2, PowerDefined
<1> QED BY <1>1, <1>2, <1>3, <1>4, <1>5

(* One byte counts to Base.                                                *)
LEMMA FirstPower ==
    Power[1] = Base
<1>1. Power[0 + 1] = Base * Power[0] BY PowerStep
<1>2. Power[0] = 1 BY PowerDefined DEF Powers
<1> QED BY <1>1, <1>2, Numbers

(* HKDF gives fresh output.                                                *)
LEMMA HkdfCallIs ==
    ASSUME NEW j \in HkdfCalls
    PROVE  j.length \in Nat /\ "info" \in DOMAIN j /\ "iterations" \notin DOMAIN j
<1>1. j \in [salt : Seq(Byte), ikm : Seq(Byte), info : Seq(Byte), length : Nat]
  BY DerivationAssumption
<1>2. DOMAIN j = {"salt", "ikm", "info", "length"} BY <1>1
<1> QED BY <1>1, <1>2

(* The end of hkdf_expand(): distinct bytes, as many as asked.             *)
LEMMA HkdfEnds ==
    ASSUME DerivationInv, HkdfInv, stage = "expand", DeriveEnd
    PROVE  DerivedFresh'
<1>1. /\ block = Blocks(job.length) /\ okm' = SubSeq(okm, 1, job.length) /\ stage' = "ended"
      /\ job' = job
  BY DEF DeriveEnd
<1>2. PICK j \in HkdfCalls : j = job BY DEF DerivationInv, StageTypes
<1>3. j.length \in Nat /\ "info" \in DOMAIN j /\ "iterations" \notin DOMAIN j
  BY HkdfCallIs
<1>4. PICK l \in Nat : l = j.length BY <1>3
<1>5. PICK n \in Nat : n = Blocks(l) BY BlocksType
<1>6. n < Power[1] /\ HkdfMade(n) BY <1>1, <1>2, <1>4, <1>5 DEF HkdfInv
<1>7. PICK d : IsHkdf(n, d) BY <1>6 DEF HkdfMade
<1>8. fn \in MdFunctions /\ known \in Seq(States)
  <2>1. IsMd(fn) /\ fn \in MdFunctions \cup Sponges /\ known \in Seq(States)
    BY DEF DerivationInv, StageTypes, HashInv, HashTypes, Knowing
  <2> QED BY <2>1, SpongeNumbers
<1>9. PICK c : c = [x \in 1 .. n |-> DigestBytes(d[x])] OBVIOUS
<1>10. Apart(c, n) BY <1>6, <1>7, <1>8, <1>9, HkdfApart
<1>11. PICK s, u : s = okm /\ u = SubSeq(s, 1, l) OBVIOUS
<1>12. IsChunked(s, n, c, Nat) BY <1>7, <1>9, <1>11 DEF IsHkdf
<1>13. l <= HashLen * n
  <2>1. HashLen \in Nat BY DigestAssumption
  <2> QED BY <1>5, <2>1, BlocksFit
<1>14. Len(u) = l /\ IsInjective(u)
  <2>1. PICK S : S = Nat OBVIOUS
  <2>2. IsChunked(s, n, c, S) BY <1>12, <2>1
  <2>3. IsStart(u, s, l) /\ l \in Nat BY <1>11 DEF IsStart
  <2>4. Len(u) = l /\ (Apart(c, n) => IsInjective(u))
    BY ONLY <1>13, <2>2, <2>3, ChunksCut
  <2> QED BY <1>10, <2>4
<1>15. okm' = u /\ job' = j BY <1>1, <1>2, <1>4, <1>11
<1> QED BY <1>1, <1>3, <1>4, <1>5, <1>6, <1>14, <1>15, EndedFresh

(* The extraction, and the refusal behind it.                              *)
LEMMA HkdfExtractFresh ==
    ASSUME DerivationInv, HkdfInv, HkdfExtract \/ HkdfExpand
    PROVE  HkdfInv' /\ DerivedFresh'
<1>1. CASE HkdfExtract
  <2>1. stage = "idle" /\ stage' = "extract" /\ UNCHANGED <<okm, block>>
    BY <1>1 DEF HkdfExtract, deriveVars
  <2>2. DerivedFresh' BY <2>1, OtherFresh
  <2> QED BY <2>1, <2>2 DEF HkdfInv
<1>2. CASE HkdfExpand
  <2>1. /\ stage = "extract" /\ UNCHANGED <<job, okm, block, known, fn>>
        /\ stage' = IF job.length > (Base - 1) * HashLen THEN "refused" ELSE "expand"
    BY <1>2 DEF HkdfExpand, hashVars, args
  <2>2. PICK j \in HkdfCalls : j = job /\ j = job' BY <2>1 DEF DerivationInv, StageTypes
  <2>3. j.length \in Nat /\ "info" \in DOMAIN j /\ "iterations" \notin DOMAIN j
    BY HkdfCallIs
  <2>4. j.length > (Base - 1) * HashLen <=> ~(Blocks(j.length) < Power[1])
    <3>1. 1 \in Nat OBVIOUS
    <3>2. j.length > (Power[1] - 1) * HashLen <=> ~(Blocks(j.length) < Power[1])
      BY <2>3, <3>1, LimitOfBlocks
    <3> QED BY <3>2, FirstPower
  <2>5. CASE j.length > (Base - 1) * HashLen
    <3>1. stage' = "refused" /\ ~(Blocks(j.length) < Power[1]) BY <2>1, <2>2, <2>4, <2>5
    <3>2. DerivedFresh' BY <2>2, <2>3, <3>1, RefusedFresh
    <3> QED BY <3>1, <3>2 DEF HkdfInv
  <2>6. CASE ~(j.length > (Base - 1) * HashLen)
    <3>1. stage' = "expand" /\ Blocks(j.length) < Power[1] BY <2>1, <2>2, <2>4, <2>6
    <3>2. okm = <<>> /\ block = 0 /\ okm' = <<>> /\ block' = 0 BY <2>1 DEF HkdfInv
    <3>3. Grows BY <2>1, SameGrows DEF DerivationInv
    <3>4. HkdfMade(0)' BY <3>2, <3>3, NoHkdf, HkdfMadeStays
    <3>5. 0 <= Blocks(j.length) BY <2>3, BlocksType
    <3>6. HkdfMade(block)'
      <4>1. \A z : z = 0 => (HkdfMade(z)' <=> HkdfMade(0)') OBVIOUS
      <4> QED BY <3>2, <3>4 DEF HkdfMade, IsHkdf
    <3>7. HkdfInv' BY <2>2, <3>1, <3>2, <3>5, <3>6 DEF HkdfInv
    <3>8. DerivedFresh' BY <3>1, OtherFresh
    <3> QED BY <3>7, <3>8
  <2> QED BY <2>5, <2>6
<1> QED BY <1>1, <1>2

(* A block of hkdf_expand(): its message ends in a counter of its own.     *)
LEMMA HkdfBlockFresh ==
    ASSUME DerivationInv, LengthsFit, HkdfInv, HkdfBlock \/ HkdfTake
    PROVE  HkdfInv' /\ DerivedFresh'
<1>0. HashInv BY DEF DerivationInv
<1>1. CASE HkdfBlock
  <2>1. /\ stage = "expand" /\ block < Blocks(job.length)
        /\ CallHmac(prk, t \o job.info \o ToBytes(block + 1, 1))
        /\ block' = block + 1 /\ stage' = "expanding" /\ UNCHANGED <<job, okm>>
    BY <1>1 DEF HkdfBlock
  <2>2. PICK j \in HkdfCalls, n \in Nat : j = job /\ n = block
    BY <2>1 DEF DerivationInv, StageTypes
  <2>3. Blocks(j.length) \in Nat /\ n < Blocks(j.length) BY <2>1, <2>2, HkdfCallIs, BlocksType
  <2>4. PICK u : u = t \o j.info OBVIOUS
  <2>5. u \in Seq(Nat)
    <3>1. t \in Seq(Nat) BY DEF DerivationInv, StageTypes
    <3>2. j.info \in Seq(Nat) BY DerivationAssumption, Strings
    <3> QED BY <2>4, <3>1, <3>2, Strings
  <2>6. PICK m : m = u \o ToBytes(n + 1, 1) OBVIOUS
  <2>7. PICK k : k = prk OBVIOUS
  <2>8. CallHmac(k, m) BY <2>1, <2>2, <2>4, <2>6, <2>7
  <2>9. Grows /\ message' = m /\ use' \in {"key", "inner"} BY <1>0, <2>8, CallHmacGrows
  <2>10. HkdfMade(n)' BY <2>1, <2>2, <2>9, HkdfMadeStays DEF HkdfInv
  <2>11. block' = n + 1 /\ block' - 1 = n BY <2>1, <2>2
  <2>12. HkdfMade(block - 1)' BY <2>10, <2>11 DEF HkdfMade, IsHkdf
  <2>13. \E v \in Seq(Nat) : message' = v \o ToBytes(block', 1) BY <2>5, <2>6, <2>9, <2>11
  <2>14. Blocks(j.length) < Power[1] BY <2>1, <2>2 DEF HkdfInv
  <2>15. HkdfInv'
    <3>1. stage' = "expanding" /\ job' = j /\ use' \in {"key", "inner", "outer"}
      BY <2>1, <2>2, <2>9
    <3>2. block' > 0 /\ block' <= Blocks(j.length) BY <2>3, <2>11
    <3> QED BY <2>12, <2>13, <2>14, <3>1, <3>2 DEF HkdfInv
  <2>16. DerivedFresh' BY <2>1, OtherFresh
  <2> QED BY <2>15, <2>16
<1>2. CASE HkdfTake
  <2>1. /\ stage = "expanding" /\ Returned /\ okm' = okm \o out /\ stage' = "expand"
        /\ UNCHANGED hashVars /\ UNCHANGED <<job, block>>
    BY <1>2 DEF HkdfTake
  <2>2. PICK j \in HkdfCalls, b \in Nat : j = job /\ b = block
    BY <2>1 DEF DerivationInv, StageTypes
  <2>3. /\ use \in {"key", "inner", "outer"} /\ b > 0 /\ b <= Blocks(j.length)
        /\ HkdfMade(b - 1) /\ Blocks(j.length) < Power[1]
    BY <2>1, <2>2 DEF HkdfInv
  <2>4. PICK u \in Seq(Nat) : message = u \o ToBytes(b, 1) BY <2>1, <2>2 DEF HkdfInv
  <2>5. PICK n \in Nat : n = b - 1 /\ b = n + 1 BY <2>3
  <2>6. HkdfMade(n) /\ message = u \o ToBytes(n + 1, 1) BY <2>3, <2>4, <2>5
  <2>7. HkdfMade(n + 1)' BY <1>0, <2>1, <2>3, <2>6, HkdfMore
  <2>8. block' = n + 1 BY <2>1, <2>2, <2>5
  <2>9. HkdfMade(block)' BY <2>7, <2>8 DEF HkdfMade, IsHkdf
  <2>10. HkdfInv' BY <2>1, <2>2, <2>3, <2>9 DEF HkdfInv
  <2>11. DerivedFresh' BY <2>1, OtherFresh
  <2> QED BY <2>10, <2>11
<1> QED BY <1>1, <1>2

(* The hashes in between change nothing.                                   *)
LEMMA HkdfStays ==
    ASSUME HkdfInv, Grows, UNCHANGED <<stage, job, okm, block, message>>,
           use \in {"key", "inner", "outer"} => use' \in {"key", "inner", "outer"}
    PROVE  HkdfInv'
<1>1. PICK n : n = block /\ n = block' OBVIOUS
<1>2. HkdfMade(n) => HkdfMade(n)' BY HkdfMadeStays
<1>3. HkdfMade(n - 1) => HkdfMade(n - 1)'
  <2>1. PICK z : z = n - 1 OBVIOUS
  <2>2. HkdfMade(z) => HkdfMade(z)' BY HkdfMadeStays
  <2> QED BY <2>1, <2>2
<1>4. HkdfMade(block) => HkdfMade(block)' BY <1>1, <1>2 DEF HkdfMade, IsHkdf
<1>5. HkdfMade(block - 1) => HkdfMade(block - 1)' BY <1>1, <1>3 DEF HkdfMade, IsHkdf
<1> QED BY <1>4, <1>5 DEF HkdfInv

-----------------------------------------------------------------------------
(* PBKDF2: the digests of a block, each the MAC of the one before it, and  *)
(* the first that of the salt.                                             *)
Turn(m, u, x) == IF x = 1 THEN m ELSE DigestBytes(u[x - 1])

Linked(m, u, r) ==
    \A x \in 1 .. r : /\ u[x] \in 1 .. Len(known)
                      /\ \E k \in Seq(Nat) : IsMac(u[x], k, Turn(m, u, x))

Distinct(u, r) == \A x, y \in 1 .. r : u[x] = u[y] => x = y

Image(u, r) == {u[x] : x \in 1 .. r}

(* A digest is no string of bytes.                                         *)
LEMMA DigestNoBytes ==
    ASSUME NEW j \in Nat, j > 0
    PROVE  DigestBytes(j) \notin Seq(Byte)
<1>1. PICK h \in Nat : h = HashLen /\ h > 0 BY DigestAssumption
<1>2. PICK q \in Nat : q = j - 1 OBVIOUS
<1>3. PICK s : s = DigestBytes(j) OBVIOUS
<1>4. Len(s) = h BY <1>1, <1>3, DigestBytesType
<1>5. 1 \in 1 .. h BY <1>1
<1>6. s[1] \notin Byte
  <2>1. s[1] = Base + HashLen * (j - 1) + 1 - 1 BY <1>1, <1>3, <1>5 DEF DigestBytes
  <2>2. h * q \in Nat OBVIOUS
  <2>3. Base \in Nat BY Numbers
  <2>4. s[1] = Base + h * q BY <1>1, <1>2, <2>1, <2>2, <2>3
  <2> QED BY <2>2, <2>3, <2>4 DEF Byte
<1>7. ASSUME s \in Seq(Byte) PROVE FALSE
  <2>1. 1 \in 1 .. Len(s) BY <1>4, <1>5
  <2>2. s[1] \in Byte BY <1>7, <2>1, ElementOfSeq
  <2> QED BY <1>6, <2>2
<1> QED BY <1>3, <1>7

(* The same digest comes of the same turn, at the start or of the same     *)
(* digest before it.                                                       *)
LEMMA SameTurn ==
    ASSUME fn \in MdFunctions, known \in Seq(States),
           NEW m \in Seq(Byte), NEW u, NEW r \in Nat, Linked(m, u, r), NEW x \in 1 .. r,
           NEW p \in Seq(Byte), NEW v, NEW q \in Nat, Linked(p, v, q), NEW y \in 1 .. q,
           u[x] = v[y]
    PROVE  \/ x = 1 /\ y = 1 /\ m = p
           \/ x > 1 /\ y > 1 /\ u[x - 1] = v[y - 1]
<1>1. PICK j : j = u[x] OBVIOUS
<1>2. PICK g, o : g = Turn(m, u, x) /\ o = Turn(p, v, y) OBVIOUS
<1>3. PICK k : IsMac(j, k, g) BY <1>1, <1>2 DEF Linked
<1>4. PICK l : IsMac(j, l, o) BY <1>1, <1>2 DEF Linked
<1>5. g = o BY <1>3, <1>4, MacUnique
<1>6. x > 1 => u[x - 1] \in Nat /\ u[x - 1] > 0
  <2> SUFFICES ASSUME x > 1 PROVE u[x - 1] \in Nat /\ u[x - 1] > 0 OBVIOUS
  <2>1. x - 1 \in 1 .. r OBVIOUS
  <2>2. u[x - 1] \in 1 .. Len(known) BY <2>1 DEF Linked
  <2>3. Len(known) \in Nat BY LenProperties
  <2> QED BY <2>2, <2>3
<1>7. y > 1 => v[y - 1] \in Nat /\ v[y - 1] > 0
  <2> SUFFICES ASSUME y > 1 PROVE v[y - 1] \in Nat /\ v[y - 1] > 0 OBVIOUS
  <2>1. y - 1 \in 1 .. q OBVIOUS
  <2>2. v[y - 1] \in 1 .. Len(known) BY <2>1 DEF Linked
  <2>3. Len(known) \in Nat BY LenProperties
  <2> QED BY <2>2, <2>3
<1>8. CASE x = 1 /\ y = 1 BY <1>2, <1>5, <1>8 DEF Turn
<1>9. CASE x = 1 /\ y > 1
  <2>1. g = m /\ o = DigestBytes(v[y - 1]) BY <1>2, <1>9 DEF Turn
  <2> QED BY <1>5, <1>7, <1>9, <2>1, DigestNoBytes
<1>10. CASE x > 1 /\ y = 1
  <2>1. o = p /\ g = DigestBytes(u[x - 1]) BY <1>2, <1>10 DEF Turn
  <2> QED BY <1>5, <1>6, <1>10, <2>1, DigestNoBytes
<1>11. CASE x > 1 /\ y > 1
  <2>1. g = DigestBytes(u[x - 1]) /\ o = DigestBytes(v[y - 1]) BY <1>2, <1>11 DEF Turn
  <2> QED BY <1>5, <1>6, <1>7, <1>11, <2>1, DigestsDiffer
<1> QED BY <1>8, <1>9, <1>10, <1>11

(* Links stay, ...                                                         *)
LEMMA LinkedStays ==
    ASSUME Grows, NEW m, NEW u, NEW r, Linked(m, u, r)
    PROVE  Linked(m, u, r)'
<1> SUFFICES ASSUME NEW x \in 1 .. r
             PROVE  /\ u[x] \in 1 .. Len(known')
                    /\ \E k \in Seq(Nat) : IsMac(u[x], k, Turn(m, u, x))'
  BY DEF Linked
<1>1. u[x] \in 1 .. Len(known) BY DEF Linked
<1>2. PICK k \in Seq(Nat) : IsMac(u[x], k, Turn(m, u, x)) BY DEF Linked
<1>3. PICK j, g : j = u[x] /\ g = Turn(m, u, x) OBVIOUS
<1>4. IsMac(j, k, g)' BY <1>2, <1>3, MacStays
<1>5. u[x] \in 1 .. Len(known') BY <1>1 DEF Grows
<1>6. \E z \in Seq(Nat) : IsMac(j, z, g)' BY <1>4
<1>7. g = Turn(m, u, x)' BY <1>3 DEF Turn, DigestBytes
<1> QED BY <1>3, <1>5, <1>6, <1>7

(* ... and one more digest is another.                                     *)
LEMMA LinkedMore ==
    ASSUME fn \in MdFunctions, known \in Seq(States),
           NEW m \in Seq(Byte), NEW u, NEW r \in Nat, Linked(m, u, r), Distinct(u, r),
           NEW j \in 1 .. Len(known), NEW k, IsMac(j, k, Turn(m, u, r + 1)),
           NEW v, v = [x \in 1 .. r + 1 |-> IF x = r + 1 THEN j ELSE u[x]]
    PROVE  /\ Linked(m, v, r + 1) /\ Distinct(v, r + 1) /\ j \notin Image(u, r)
           /\ Image(v, r + 1) = Image(u, r) \cup {j}
<1>1. v[r + 1] = j /\ \A x \in 1 .. r : v[x] = u[x] BY SMT
<1>2. Turn(m, v, r + 1) = Turn(m, u, r + 1)
  <2>1. CASE r = 0 BY <2>1 DEF Turn
  <2>2. CASE r # 0
    <3>1. (r + 1) - 1 \in 1 .. r BY <2>2
    <3> QED BY <1>1, <3>1 DEF Turn
  <2> QED BY <2>1, <2>2
<1>3. \A x \in 1 .. r : Turn(m, v, x) = Turn(m, u, x)
  <2> TAKE x \in 1 .. r
  <2>1. CASE x = 1 BY <2>1 DEF Turn
  <2>2. CASE x # 1
    <3>1. x - 1 \in 1 .. r BY <2>2
    <3> QED BY <1>1, <3>1 DEF Turn
  <2> QED BY <2>1, <2>2
<1>4. k \in Seq(Nat) BY DEF IsMac
<1>5. Linked(m, v, r + 1)
  <2> SUFFICES ASSUME NEW x \in 1 .. r + 1
               PROVE  /\ v[x] \in 1 .. Len(known)
                      /\ \E l \in Seq(Nat) : IsMac(v[x], l, Turn(m, v, x))
    BY DEF Linked
  <2>1. CASE x = r + 1
    <3>1. v[x] = j /\ IsMac(v[x], k, Turn(m, v, x)) BY <1>1, <1>2, <2>1
    <3> QED BY <1>4, <3>1
  <2>2. CASE x # r + 1
    <3>1. x \in 1 .. r BY <2>2
    <3>2. v[x] = u[x] /\ Turn(m, v, x) = Turn(m, u, x) BY <1>1, <1>3, <3>1
    <3> QED BY <3>1, <3>2 DEF Linked
  <2> QED BY <2>1, <2>2
<1>6. ASSUME NEW x \in 1 .. r PROVE u[x] # j
  <2> SUFFICES ASSUME u[x] = j PROVE FALSE OBVIOUS
  <2>1. r + 1 \in 1 .. r + 1 /\ r + 1 \in Nat OBVIOUS
  <2>2. PICK y : y = r + 1 /\ y \in Nat /\ y \in 1 .. y BY <2>1
  <2>3. u[x] = v[y] BY <1>1, <2>2
  <2>4. Linked(m, v, y) BY <1>5, <2>2
  <2>5. \/ x = 1 /\ y = 1
        \/ x > 1 /\ y > 1 /\ u[x - 1] = v[y - 1]
    BY <2>2, <2>3, <2>4, SameTurn
  <2>6. y # 1 /\ y - 1 = r /\ r \in 1 .. r BY <2>2
  <2>7. x > 1 /\ u[x - 1] = u[r] BY <1>1, <2>5, <2>6
  <2>8. x - 1 \in 1 .. r BY <2>7
  <2>9. x - 1 = r BY <2>6, <2>7, <2>8 DEF Distinct
  <2> QED BY <2>9
<1>7. Distinct(v, r + 1)
  <2> SUFFICES ASSUME NEW x \in 1 .. r + 1, NEW y \in 1 .. r + 1, v[x] = v[y] PROVE x = y
    BY DEF Distinct
  <2>1. x = r + 1 \/ x \in 1 .. r OBVIOUS
  <2>2. y = r + 1 \/ y \in 1 .. r OBVIOUS
  <2>3. CASE x \in 1 .. r /\ y \in 1 .. r BY <1>1, <2>3 DEF Distinct
  <2>4. CASE x = r + 1 /\ y \in 1 .. r BY <1>1, <1>6, <2>4
  <2>5. CASE x \in 1 .. r /\ y = r + 1 BY <1>1, <1>6, <2>5
  <2> QED BY <2>1, <2>2, <2>3, <2>4, <2>5
<1>8. Image(v, r + 1) = Image(u, r) \cup {j}
  <2>1. ASSUME NEW a \in Image(v, r + 1) PROVE a \in Image(u, r) \cup {j}
    <3>1. PICK x \in 1 .. r + 1 : a = v[x] BY <2>1 DEF Image
    <3>2. x = r + 1 \/ x \in 1 .. r OBVIOUS
    <3> QED BY <1>1, <3>1, <3>2 DEF Image
  <2>2. ASSUME NEW a \in Image(u, r) \cup {j} PROVE a \in Image(v, r + 1)
    <3>1. CASE a = j
      <4>1. r + 1 \in 1 .. r + 1 OBVIOUS
      <4> QED BY <1>1, <3>1, <4>1 DEF Image
    <3>2. CASE a \in Image(u, r)
      <4>1. PICK x \in 1 .. r : a = u[x] BY <3>2 DEF Image
      <4>2. x \in 1 .. r + 1 /\ a = v[x] BY <1>1, <4>1
      <4> QED BY <4>2 DEF Image
    <3> QED BY <2>2, <3>1, <3>2
  <2> QED BY <2>1, <2>2
<1>9. j \notin Image(u, r) BY <1>6 DEF Image
<1> QED BY <1>5, <1>7, <1>8, <1>9

(* As many turns, as many digests.                                         *)
LEMMA ImageCardinality ==
    ASSUME NEW r \in Nat, NEW u, Distinct(u, r)
    PROVE  Cardinality(Image(u, r)) = r
<1>1. PICK S, T : S = 1 .. r /\ T = Image(u, r) OBVIOUS
<1>2. PICK f : f = [x \in S |-> u[x]] OBVIOUS
<1>3. f \in [S -> T] BY <1>1, <1>2 DEF Image
<1>4. \A x, y \in S : f[x] = f[y] => x = y BY <1>1, <1>2 DEF Distinct
<1>5. \A a \in T : \E x \in S : f[x] = a BY <1>1, <1>2 DEF Image
<1>6. f \in Bijection(S, T)
  BY <1>3, <1>4, <1>5 DEF Bijection, Injection, Surjection, IsInjective
<1>7. ExistsBijection(S, T) BY <1>6 DEF ExistsBijection
<1>8. IsFiniteSet(S) /\ Cardinality(S) = r
  <2>1. 1 \in Int /\ r \in Int OBVIOUS
  <2>2. IsFiniteSet(1 .. r) /\ Cardinality(1 .. r) = IF 1 > r THEN 0 ELSE r - 1 + 1
    BY <2>1, FS_Interval
  <2> QED BY <1>1, <2>2
<1>9. Cardinality(S) = Cardinality(T) BY <1>7, <1>8, FS_Bijection
<1> QED BY <1>1, <1>8, <1>9

(* The digests whose xor is a block; blocks are made of different ones.    *)
IsMixture(m, s, r) ==
    \E u : /\ Linked(m, u, r) /\ Distinct(u, r) /\ s = Image(u, r)

(* Digests mixed together tell what the first was made of.                 *)
LEMMA MixturesDiffer ==
    ASSUME fn \in MdFunctions, known \in Seq(States), NEW m \in Seq(Byte), NEW p \in Seq(Byte),
           NEW s, NEW r \in Nat, r > 0, IsMixture(m, s, r), IsMixture(p, s, r)
    PROVE  m = p
<1>1. PICK u : Linked(m, u, r) /\ Distinct(u, r) /\ s = Image(u, r) BY DEF IsMixture
<1>2. PICK v : Linked(p, v, r) /\ Distinct(v, r) /\ s = Image(v, r) BY DEF IsMixture
<1>3. 1 \in 1 .. r OBVIOUS
<1>4. PICK y \in 1 .. r : u[1] = v[y] BY <1>1, <1>2, <1>3 DEF Image
<1>5. PICK x : x = 1 OBVIOUS
<1>6. x \in 1 .. r /\ u[x] = v[y] BY <1>3, <1>4, <1>5
<1>7. \/ x = 1 /\ y = 1 /\ m = p
      \/ x > 1 /\ y > 1 /\ u[x - 1] = v[y - 1]
  BY <1>1, <1>2, <1>6, SameTurn
<1> QED BY <1>5, <1>7

Piece(s) == [y \in 1 .. HashLen |-> <<s, y>>]
Pieced   == (SUBSET Nat) \X Nat

IsPbkdf2(n, e) ==
    /\ \A x \in 1 .. n : IsMixture(SaltOfBlock(x), e[x], job.iterations)
    /\ IsChunked(okm, n, [x \in 1 .. n |-> Piece(e[x])], Pieced)

Pbkdf2Made(n) == \E e : IsPbkdf2(n, e)

(* What the next iteration hashes, and what has been mixed.                *)
Mixes(r) ==
    \E u : /\ Linked(SaltOfBlock(block), u, r - 1) /\ Distinct(u, r - 1)
           /\ mixed = Image(u, r - 1) /\ message = Turn(SaltOfBlock(block), u, r)

Pbkdf2Inv ==
    /\ stage \in {"blocks", "mixing"} =>
          Blocks(job.length) < Power[CounterLen] /\ job.iterations > 0
    /\ stage = "blocks" => block <= Blocks(job.length) /\ Pbkdf2Made(block)
    /\ stage = "mixing" =>
          /\ use \in {"key", "inner", "outer"}
          /\ block > 0 /\ block <= Blocks(job.length) /\ Pbkdf2Made(block - 1)
          /\ round \in 1 .. job.iterations /\ Mixes(round)

(* No output of PBKDF2 has been made.                                      *)
LEMMA NoPbkdf2 ==
    ASSUME okm = <<>>
    PROVE  Pbkdf2Made(0)
<1>1. PICK e : e = <<>> OBVIOUS
<1>2. \A x \in 1 .. 0 : FALSE OBVIOUS
<1>3. IsChunked(okm, 0, [x \in 1 .. 0 |-> Piece(e[x])], Pieced) BY NoChunks
<1> QED BY <1>2, <1>3 DEF Pbkdf2Made, IsPbkdf2

(* Mixtures stay what they are ...                                         *)
LEMMA SaltMixtureStays ==
    ASSUME Grows, job' = job, NEW x, NEW s, IsMixture(SaltOfBlock(x), s, job.iterations)
    PROVE  IsMixture(SaltOfBlock(x), s, job.iterations)'
<1>1. PICK m, r : m = SaltOfBlock(x) /\ r = job.iterations OBVIOUS
<1>2. m = SaltOfBlock(x)' /\ r = job'.iterations BY <1>1 DEF SaltOfBlock
<1>3. PICK u : Linked(m, u, r) /\ Distinct(u, r) /\ s = Image(u, r) BY <1>1 DEF IsMixture
<1>4. Linked(m, u, r)' BY <1>3, LinkedStays
<1>5. Linked(SaltOfBlock(x), u, job.iterations)' BY <1>2, <1>4 DEF Linked
<1>6. Distinct(u, job'.iterations) /\ s = Image(u, job'.iterations) BY <1>2, <1>3
<1> QED BY <1>5, <1>6 DEF IsMixture, Distinct, Image

(* ... and so does the output made of them.                                *)
LEMMA Pbkdf2MadeStays ==
    ASSUME Grows, UNCHANGED <<okm, job>>, NEW n, Pbkdf2Made(n)
    PROVE  Pbkdf2Made(n)'
<1>1. PICK e : IsPbkdf2(n, e) BY DEF Pbkdf2Made
<1>2. ASSUME NEW x \in 1 .. n PROVE IsMixture(SaltOfBlock(x), e[x], job.iterations)'
  <2>1. PICK s : s = e[x] OBVIOUS
  <2>2. IsMixture(SaltOfBlock(x), s, job.iterations) BY <1>1, <2>1 DEF IsPbkdf2
  <2>3. IsMixture(SaltOfBlock(x), s, job.iterations)' BY <2>2, SaltMixtureStays
  <2> QED BY ONLY <2>1, <2>3 DEF IsMixture
<1>3. IsPbkdf2(n, e)' BY <1>1, <1>2 DEF IsPbkdf2, Piece
<1> QED BY <1>3 DEF Pbkdf2Made

(* The salt of a block is a string of bytes, and differs from another's.   *)
LEMMA SaltType ==
    ASSUME job \in Pbkdf2Calls, NEW b \in Nat
    PROVE  SaltOfBlock(b) \in Seq(Byte)
<1>1. job.salt \in Seq(Byte) BY DerivationAssumption
<1>2. CounterLen \in Nat BY DerivationAssumption
<1>3. ToBytes(b, CounterLen) \in Seq(Byte) BY <1>2, ToBytesType
<1>4. PICK s, e : s = job.salt /\ e = ToBytes(b, CounterLen) OBVIOUS
<1>5. s \o e \in Seq(Byte) BY <1>1, <1>3, <1>4, ConcatProperties
<1> QED BY <1>4, <1>5 DEF SaltOfBlock

(* Each block has a salt of its own.                                       *)
LEMMA SaltsDiffer ==
    ASSUME job \in Pbkdf2Calls, NEW a \in Nat, NEW b \in Nat, a < Power[CounterLen],
           b < Power[CounterLen], SaltOfBlock(a) = SaltOfBlock(b)
    PROVE  a = b
<1>1. PICK s : s = job.salt OBVIOUS
<1>2. s \in Seq(Nat) BY <1>1, DerivationAssumption, Strings
<1>3. PICK n \in Nat : n = CounterLen BY DerivationAssumption
<1>4. s \o ToBytes(a, n) = s \o ToBytes(b, n) BY <1>1, <1>3 DEF SaltOfBlock
<1> QED BY <1>2, <1>3, <1>4, CountersDiffer

(* The blocks are apart.                                                   *)
LEMMA Pbkdf2Apart ==
    ASSUME fn \in MdFunctions, known \in Seq(States), job \in Pbkdf2Calls, NEW n \in Nat,
           n < Power[CounterLen], job.iterations > 0, NEW e, IsPbkdf2(n, e)
    PROVE  Apart([x \in 1 .. n |-> Piece(e[x])], n)
<1>1. PICK c : c = [x \in 1 .. n |-> Piece(e[x])] OBVIOUS
<1>2. SUFFICES ASSUME NEW x \in 1 .. n, NEW z \in 1 .. n, NEW y \in 1 .. HashLen,
                      NEW v \in 1 .. HashLen, c[x][y] = c[z][v]
               PROVE  x = z /\ y = v
  BY <1>1 DEF Apart
<1>3. c[x][y] = <<e[x], y>> /\ c[z][v] = <<e[z], v>> BY <1>1 DEF Piece
<1>4. e[x] = e[z] /\ y = v
  <2>1. PICK a, b : a = e[x] /\ b = e[z] OBVIOUS
  <2>2. <<a, y>> = <<b, v>> BY <1>2, <1>3, <2>1
  <2> QED BY <2>1, <2>2
<1>5. PICK m, p, s : m = SaltOfBlock(x) /\ p = SaltOfBlock(z) /\ s = e[x] OBVIOUS
<1>6. PICK r \in Nat : r = job.iterations BY DerivationAssumption
<1>7. x \in Nat /\ z \in Nat /\ x < Power[CounterLen] /\ z < Power[CounterLen]
  <2>1. CounterLen \in Nat BY DerivationAssumption
  <2>2. Power[CounterLen] \in Nat BY <2>1, PowerDefined
  <2> QED BY <2>2
<1>8. m \in Seq(Byte) /\ p \in Seq(Byte) BY <1>5, <1>7, SaltType
<1>9. IsMixture(m, s, r) /\ IsMixture(p, s, r) BY <1>4, <1>5, <1>6 DEF IsPbkdf2
<1>10. m = p BY <1>6, <1>8, <1>9, MixturesDiffer
<1>11. x = z BY <1>5, <1>7, <1>10, SaltsDiffer
<1> QED BY <1>4, <1>11

(* The arguments of pbkdf2_hmac().                                         *)
LEMMA Pbkdf2CallIs ==
    ASSUME NEW j \in Pbkdf2Calls
    PROVE  /\ j.length \in Nat /\ j.iterations \in Nat
           /\ "info" \notin DOMAIN j /\ "iterations" \in DOMAIN j
<1>1. j \in [password : Seq(Byte), salt : Seq(Byte), iterations : Nat, length : Nat]
  BY DerivationAssumption
<1>2. DOMAIN j = {"password", "salt", "iterations", "length"} BY <1>1
<1> QED BY <1>1, <1>2

(* PBKDF2 gives fresh output, and every iteration counts.                  *)
LEMMA Pbkdf2Ends ==
    ASSUME DerivationInv, Pbkdf2Inv, stage = "blocks", DeriveEnd
    PROVE  DerivedFresh'
<1>1. /\ block = Blocks(job.length) /\ okm' = SubSeq(okm, 1, job.length) /\ stage' = "ended"
      /\ job' = job
  BY DEF DeriveEnd
<1>2. PICK j \in Pbkdf2Calls : j = job BY DEF DerivationInv, StageTypes
<1>3. /\ j.length \in Nat /\ j.iterations \in Nat
      /\ "info" \notin DOMAIN j /\ "iterations" \in DOMAIN j
  BY Pbkdf2CallIs
<1>4. PICK l \in Nat : l = j.length BY <1>3
<1>5. PICK n \in Nat : n = Blocks(l) BY BlocksType
<1>6. n < Power[CounterLen] /\ Pbkdf2Made(n) /\ job.iterations > 0
  BY <1>1, <1>2, <1>4, <1>5 DEF Pbkdf2Inv
<1>7. PICK e : IsPbkdf2(n, e) BY <1>6 DEF Pbkdf2Made
<1>8. fn \in MdFunctions /\ known \in Seq(States)
  <2>1. IsMd(fn) /\ fn \in MdFunctions \cup Sponges /\ known \in Seq(States)
    BY DEF DerivationInv, StageTypes, HashInv, HashTypes, Knowing
  <2> QED BY <2>1, SpongeNumbers
<1>9. PICK c : c = [x \in 1 .. n |-> Piece(e[x])] OBVIOUS
<1>10. Apart(c, n) BY <1>2, <1>6, <1>7, <1>8, <1>9, Pbkdf2Apart
<1>11. PICK s, u : s = okm /\ u = SubSeq(s, 1, l) OBVIOUS
<1>12. PICK S : S = Pieced OBVIOUS
<1>13. IsChunked(s, n, c, S) BY <1>7, <1>9, <1>11, <1>12 DEF IsPbkdf2
<1>14. l <= HashLen * n
  <2>1. HashLen \in Nat BY DigestAssumption
  <2> QED BY <1>5, <2>1, BlocksFit
<1>15. IsStart(u, s, l) BY <1>11 DEF IsStart
<1>16. /\ u \in Seq(S) /\ Len(u) = l /\ (Apart(c, n) => IsInjective(u))
       /\ \A a \in 1 .. l : \E x \in 1 .. n, y \in 1 .. HashLen : u[a] = c[x][y]
  BY ONLY <1>13, <1>14, <1>15, l \in Nat, ChunksCut
<1>17. ASSUME NEW b \in DOMAIN u PROVE Cardinality(u[b][1]) = j.iterations
  <2>1. b \in 1 .. l BY <1>16, <1>17, LenProperties
  <2>2. PICK x \in 1 .. n, y \in 1 .. HashLen : u[b] = c[x][y] BY <1>16, <2>1
  <2>3. u[b] = <<e[x], y>> BY <1>9, <2>2 DEF Piece
  <2>4. u[b][1] = e[x] BY <2>3
  <2>5. IsMixture(SaltOfBlock(x), e[x], j.iterations) BY <1>2, <1>7 DEF IsPbkdf2
  <2>6. PICK r \in Nat : r = j.iterations BY <1>3
  <2>7. PICK v : Distinct(v, r) /\ e[x] = Image(v, r) BY <2>5, <2>6 DEF IsMixture
  <2>8. Cardinality(Image(v, r)) = r BY <2>7, ImageCardinality
  <2> QED BY <2>4, <2>6, <2>7, <2>8
<1>18. okm' = u /\ job' = j BY <1>1, <1>2, <1>4, <1>11
<1>19. j.iterations > 0 BY <1>2, <1>6
<1>20. Blocks(j.length) < Power[IF "info" \in DOMAIN j THEN 1 ELSE CounterLen]
  BY <1>3, <1>4, <1>5, <1>6
<1>21. Len(u) = j.length /\ IsInjective(u) BY <1>4, <1>10, <1>16
<1> QED BY <1>1, <1>3, <1>17, <1>18, <1>19, <1>20, <1>21, EndedFresh

(* pbkdf2_hmac() is called, and may refuse.                                *)
LEMMA Pbkdf2Starts ==
    ASSUME DerivationInv, HkdfInv, Pbkdf2
    PROVE  Pbkdf2Inv' /\ DerivedFresh'
<1>1. PICK j \in Pbkdf2Calls :
          /\ job' = j
          /\ stage' = IF j.iterations < 1 \/ j.length > (Power[CounterLen] - 1) * HashLen
                      THEN "refused" ELSE "blocks"
  BY DEF Pbkdf2
<1>2. stage = "idle" /\ UNCHANGED <<okm, block>> BY DEF Pbkdf2, deriveVars
<1>3. /\ j.length \in Nat /\ j.iterations \in Nat
      /\ "info" \notin DOMAIN j /\ "iterations" \in DOMAIN j
  BY Pbkdf2CallIs
<1>4. j.length > (Power[CounterLen] - 1) * HashLen <=> ~(Blocks(j.length) < Power[CounterLen])
  <2>1. CounterLen \in Nat BY DerivationAssumption
  <2> QED BY <1>3, <2>1, LimitOfBlocks
<1>5. CASE j.iterations < 1 \/ j.length > (Power[CounterLen] - 1) * HashLen
  <2>1. stage' = "refused" BY <1>1, <1>5
  <2>2. ~(j.iterations > 0) \/ ~(Blocks(j.length) < Power[CounterLen]) BY <1>3, <1>4, <1>5
  <2>3. DerivedFresh' BY <1>1, <1>3, <2>1, <2>2, RefusedFresh
  <2> QED BY <2>1, <2>3 DEF Pbkdf2Inv
<1>6. CASE ~(j.iterations < 1 \/ j.length > (Power[CounterLen] - 1) * HashLen)
  <2>1. /\ stage' = "blocks" /\ j.iterations > 0 /\ Blocks(j.length) < Power[CounterLen]
    BY <1>1, <1>3, <1>4, <1>6
  <2>2. okm' = <<>> /\ block' = 0 BY <1>2 DEF HkdfInv
  <2>3. Pbkdf2Made(0)'
    <3>1. PICK e : e = <<>> OBVIOUS
    <3>2. \A x \in 1 .. 0 : FALSE OBVIOUS
    <3>3. PICK c : c = [x \in 1 .. 0 |-> Piece(e[x])] OBVIOUS
    <3>4. IsChunked(<<>>, 0, c, Pieced) BY NoChunks
    <3>5. IsChunked(okm', 0, c, Pieced) BY <2>2, <3>4
    <3>6. IsPbkdf2(0, e)' BY <3>2, <3>3, <3>5 DEF IsPbkdf2, Piece
    <3> QED BY <3>6 DEF Pbkdf2Made
  <2>4. Pbkdf2Made(block)' BY <2>2, <2>3 DEF Pbkdf2Made, IsPbkdf2
  <2>5. block' <= Blocks(j.length) BY <1>3, <2>2, BlocksType
  <2>6. Pbkdf2Inv' BY <1>1, <2>1, <2>4, <2>5 DEF Pbkdf2Inv
  <2>7. DerivedFresh' BY <2>1, OtherFresh
  <2> QED BY <2>6, <2>7
<1> QED BY <1>5, <1>6

(* A block begins with the MAC of its salt.                                *)
LEMMA Pbkdf2BlockFresh ==
    ASSUME DerivationInv, Pbkdf2Inv, Pbkdf2Block
    PROVE  Pbkdf2Inv' /\ DerivedFresh'
<1>0. HashInv BY DEF DerivationInv
<1>1. /\ stage = "blocks" /\ block < Blocks(job.length)
      /\ CallHmac(job.password, SaltOfBlock(block + 1))
      /\ block' = block + 1 /\ round' = 1 /\ mixed' = {}
      /\ stage' = "mixing" /\ UNCHANGED <<job, okm>>
  BY DEF Pbkdf2Block
<1>2. PICK j \in Pbkdf2Calls, n \in Nat : j = job /\ n = block
  BY <1>1 DEF DerivationInv, StageTypes
<1>3. Blocks(j.length) \in Nat /\ n < Blocks(j.length)
  BY <1>1, <1>2, Pbkdf2CallIs, BlocksType
<1>4. PICK m, k : m = SaltOfBlock(n + 1) /\ k = job.password OBVIOUS
<1>5. CallHmac(k, m) BY <1>1, <1>2, <1>4
<1>6. Grows /\ message' = m /\ use' \in {"key", "inner"} BY <1>0, <1>5, CallHmacGrows
<1>7. Pbkdf2Made(n)' BY <1>1, <1>2, <1>6, Pbkdf2MadeStays DEF Pbkdf2Inv
<1>8. block' = n + 1 /\ block' - 1 = n BY <1>1, <1>2
<1>9. Pbkdf2Made(block - 1)' BY <1>7, <1>8 DEF Pbkdf2Made, IsPbkdf2
<1>10. m = SaltOfBlock(block)' BY <1>1, <1>4, <1>8 DEF SaltOfBlock
<1>11. Mixes(round)'
  <2>1. PICK u : u = <<>> OBVIOUS
  <2>2. \A x \in 1 .. 0 : FALSE OBVIOUS
  <2>3. Image(u, 0) = {} BY <2>2 DEF Image
  <2>4. Distinct(u, 0) BY <2>2 DEF Distinct
  <2>5. round' - 1 = 0 BY <1>1
  <2>6. Linked(SaltOfBlock(block), u, round - 1)' BY <2>2, <2>5 DEF Linked
  <2>7. message' = Turn(SaltOfBlock(block), u, round)' BY <1>1, <1>6, <1>10 DEF Turn
  <2>8. Distinct(u, round' - 1) /\ mixed' = Image(u, round' - 1)
    BY <1>1, <2>3, <2>4, <2>5
  <2> QED BY <2>6, <2>7, <2>8 DEF Mixes, Distinct, Image
<1>12. Blocks(j.length) < Power[CounterLen] /\ j.iterations > 0 BY <1>1, <1>2 DEF Pbkdf2Inv
<1>13. round' \in 1 .. j.iterations
  <2>1. j.iterations \in Nat BY Pbkdf2CallIs
  <2> QED BY <1>1, <1>12, <2>1
<1>14. Pbkdf2Inv'
  <2>1. stage' = "mixing" /\ job' = j /\ use' \in {"key", "inner", "outer"}
    BY <1>1, <1>2, <1>6
  <2>2. block' > 0 /\ block' <= Blocks(j.length) BY <1>3, <1>8
  <2> QED BY <1>9, <1>11, <1>12, <1>13, <2>1, <2>2 DEF Pbkdf2Inv
<1>15. DerivedFresh' BY <1>1, OtherFresh
<1> QED BY <1>14, <1>15

(* What an iteration adds.                                                 *)
LEMMA MixesMore ==
    ASSUME DerivationInv, LengthsFit, Returned, use # "hash", IsMd(fn), job \in Pbkdf2Calls,
           NEW b \in Nat, b = block, NEW r \in Nat, r > 0, Mixes(r)
    PROVE  \E v, j : /\ Linked(SaltOfBlock(b), v, r) /\ Distinct(v, r)
                     /\ mixed \cup {j} = Image(v, r) /\ j \notin mixed
                     /\ v[r] = j /\ out = DigestBytes(j) /\ DigestOf(out[1]) = j
<1>1. pc = "done" /\ use = "outer" BY DEF Returned
<1>2. HashInv BY DEF DerivationInv
<1>3. PICK j \in 1 .. Len(known) : out = DigestBytes(j) /\ IsMac(j, shortKey, message)
  BY <1>1, <1>2, MacMade
<1>4. fn \in MdFunctions /\ known \in Seq(States)
  <2>1. fn \in MdFunctions \cup Sponges /\ known \in Seq(States)
    BY <1>2 DEF HashInv, HashTypes, Knowing
  <2> QED BY <2>1, SpongeNumbers
<1>5. PICK m : m = SaltOfBlock(b) OBVIOUS
<1>6. m \in Seq(Byte) BY <1>5, SaltType
<1>7. PICK q \in Nat : q = r - 1 /\ r = q + 1 OBVIOUS
<1>8. PICK u : Linked(m, u, q) /\ Distinct(u, q) /\ mixed = Image(u, q) /\ message = Turn(m, u, r)
  BY <1>5, <1>7 DEF Mixes
<1>9. PICK k : k = shortKey OBVIOUS
<1>10. IsMac(j, k, Turn(m, u, q + 1)) BY <1>3, <1>7, <1>8, <1>9
<1>11. PICK v : v = [x \in 1 .. q + 1 |-> IF x = q + 1 THEN j ELSE u[x]] OBVIOUS
<1>12. /\ Linked(m, v, q + 1) /\ Distinct(v, q + 1) /\ j \notin Image(u, q)
       /\ Image(v, q + 1) = Image(u, q) \cup {j}
  BY <1>4, <1>6, <1>8, <1>10, <1>11, LinkedMore
<1>13. v[r] = j
  <2>1. r \in 1 .. q + 1 BY <1>7
  <2> QED BY <1>7, <1>11, <2>1
<1>14. DigestOf(out[1]) = j
  <2>1. Len(known) \in Nat BY <1>4, LenProperties
  <2>2. j \in Nat /\ j > 0 BY <2>1
  <2> QED BY <1>3, <2>2, FirstOfDigest
<1> QED BY <1>3, <1>5, <1>7, <1>8, <1>12, <1>13, <1>14

(* An iteration mixes in a digest that was not mixed in before.            *)
LEMMA Pbkdf2MixFresh ==
    ASSUME DerivationInv, LengthsFit, Pbkdf2Inv, Pbkdf2Mix
    PROVE  Pbkdf2Inv' /\ DerivedFresh'
<1>0. HashInv BY DEF DerivationInv
<1>1. /\ stage = "mixing" /\ Returned /\ UNCHANGED <<job, block>>
      /\ LET w == {DigestOf(out[1])}
         IN  mixed' = (mixed \ w) \cup (w \ mixed)
  BY DEF Pbkdf2Mix
<1>2. PICK g \in Pbkdf2Calls, b \in Nat : g = job /\ b = block
  BY <1>1 DEF DerivationInv, StageTypes
<1>3. /\ use \in {"key", "inner", "outer"} /\ b > 0 /\ b <= Blocks(g.length)
      /\ Pbkdf2Made(b - 1) /\ round \in 1 .. g.iterations /\ Mixes(round)
      /\ Blocks(g.length) < Power[CounterLen] /\ g.iterations > 0
  BY <1>1, <1>2 DEF Pbkdf2Inv
<1>4. IsMd(fn) BY <1>1 DEF DerivationInv, StageTypes
<1>5. g.iterations \in Nat BY Pbkdf2CallIs
<1>6. PICK r \in Nat : r = round /\ r > 0 /\ r <= g.iterations BY <1>3, <1>5
<1>7. PICK v, j : /\ Linked(SaltOfBlock(b), v, r) /\ Distinct(v, r)
                  /\ mixed \cup {j} = Image(v, r) /\ j \notin mixed
                  /\ v[r] = j /\ out = DigestBytes(j) /\ DigestOf(out[1]) = j
  BY <1>1, <1>2, <1>3, <1>4, <1>6, MixesMore
<1>8. mixed' = Image(v, r) BY <1>1, <1>7
<1>9. PICK m : m = SaltOfBlock(b) /\ m = SaltOfBlock(b)' BY <1>1 DEF SaltOfBlock
<1>10. CASE /\ round < job.iterations /\ CallHmac(job.password, out)
            /\ round' = round + 1 /\ UNCHANGED <<okm, stage>>
  <2>1. PICK k, o : k = job.password /\ o = out OBVIOUS
  <2>2. CallHmac(k, o) BY <1>10, <2>1
  <2>3. Grows /\ message' = o /\ use' \in {"key", "inner"} BY <1>0, <2>2, CallHmacGrows
  <2>4. Pbkdf2Made(b - 1)'
    <3>1. PICK z : z = b - 1 OBVIOUS
    <3>2. Pbkdf2Made(z) BY <1>3, <3>1
    <3>3. Pbkdf2Made(z)' BY <1>1, <1>10, <2>3, <3>2, Pbkdf2MadeStays
    <3> QED BY <3>1, <3>3 DEF Pbkdf2Made, IsPbkdf2
  <2>5. Pbkdf2Made(block - 1)' BY <1>1, <1>2, <2>4 DEF Pbkdf2Made, IsPbkdf2
  <2>6. Linked(m, v, r)' BY <1>7, <1>9, <2>3, LinkedStays
  <2>7. round' = r + 1 /\ round' - 1 = r BY <1>6, <1>10
  <2>8. message' = Turn(m, v, r + 1)
    <3>1. r + 1 # 1 /\ (r + 1) - 1 = r BY <1>6
    <3> QED BY <1>7, <2>1, <2>3, <3>1 DEF Turn
  <2>9. Mixes(round)'
    <3>1. block' = b BY <1>1, <1>2
    <3>2. Linked(SaltOfBlock(block), v, round - 1)' BY <1>9, <2>6, <2>7, <3>1 DEF Linked
    <3>3. message' = Turn(SaltOfBlock(block), v, round)'
      <4>1. Turn(SaltOfBlock(block), v, round)' = Turn(m, v, r + 1)
        BY <1>9, <2>7, <3>1 DEF Turn, DigestBytes
      <4> QED BY <2>8, <4>1
    <3>4. Distinct(v, round' - 1) /\ mixed' = Image(v, round' - 1) BY <1>7, <1>8, <2>7
    <3> QED BY <3>2, <3>3, <3>4 DEF Mixes, Distinct, Image
  <2>10. round' \in 1 .. g.iterations BY <1>2, <1>5, <1>6, <1>10, <2>7
  <2>11. Pbkdf2Inv'
    <3>1. stage' = "mixing" /\ job' = g /\ use' \in {"key", "inner", "outer"} /\ block' = b
      BY <1>1, <1>2, <1>10, <2>3
    <3> QED BY <1>3, <2>5, <2>9, <2>10, <3>1 DEF Pbkdf2Inv
  <2>12. DerivedFresh' BY <1>1, <1>10, OtherFresh
  <2> QED BY <2>11, <2>12
<1>11. CASE /\ round = job.iterations
            /\ okm' = okm \o [y \in 1 .. HashLen |-> <<mixed', y>>]
            /\ stage' = "blocks" /\ UNCHANGED <<hashVars, round>>
  <2>1. PICK n \in Nat : n = b - 1 /\ b = n + 1 BY <1>3
  <2>2. Pbkdf2Made(n) BY <1>3, <2>1
  <2>3. PICK e : IsPbkdf2(n, e) BY <2>2 DEF Pbkdf2Made
  <2>4. PICK s : s = Image(v, r) OBVIOUS
  <2>5. Grows
    <3>1. UNCHANGED <<fn, known>> BY <1>11 DEF hashVars, args
    <3> QED BY <1>0, <3>1, SameGrows
  <2>6. PICK f : f = [x \in 1 .. n + 1 |-> IF x = n + 1 THEN s ELSE e[x]] OBVIOUS
  <2>7. f[n + 1] = s /\ \A x \in 1 .. n : f[x] = e[x] BY <2>6
  <2>8. r = job.iterations /\ job' = job BY <1>1, <1>6, <1>11
  <2>9. ASSUME NEW x \in 1 .. n + 1 PROVE IsMixture(SaltOfBlock(x), f[x], job.iterations)'
    <3>1. IsMixture(SaltOfBlock(x), f[x], r)
      <4>1. CASE x = n + 1 BY <1>7, <2>1, <2>4, <2>7, <4>1 DEF IsMixture
      <4>2. CASE x # n + 1
        <5>1. x \in 1 .. n BY <4>2
        <5> QED BY <2>3, <2>7, <2>8, <5>1 DEF IsPbkdf2
      <4> QED BY <4>1, <4>2
    <3>2. PICK a : a = f[x] OBVIOUS
    <3>3. IsMixture(SaltOfBlock(x), a, job.iterations) BY <2>8, <3>1, <3>2
    <3>4. IsMixture(SaltOfBlock(x), a, job.iterations)' BY <2>5, <2>8, <3>3, SaltMixtureStays
    <3> QED BY ONLY <3>2, <3>4 DEF IsMixture
  <2>10. IsChunked(okm', n + 1, [x \in 1 .. n + 1 |-> Piece(f[x])], Pieced)
    <3>1. PICK a, c : /\ a = [x \in 1 .. n |-> Piece(e[x])]
                      /\ c = [x \in 1 .. n + 1 |-> Piece(f[x])]
      OBVIOUS
    <3>2. PICK w, d, S : w = okm /\ d = Piece(s) /\ S = Pieced OBVIOUS
    <3>3. IsChunked(w, n, a, S) BY <2>3, <3>1, <3>2 DEF IsPbkdf2
    <3>4. d \in Seq(S) /\ Len(d) = HashLen
      <4>1. s \in SUBSET Nat
        <5>1. Len(known) \in Nat BY LenProperties DEF DerivationInv, HashInv, Knowing
        <5>2. \A x \in 1 .. r : v[x] \in 1 .. Len(known) BY <1>7 DEF Linked
        <5>3. \A x \in 1 .. r : v[x] \in Nat BY <5>1, <5>2
        <5> QED BY <2>4, <5>3 DEF Image
      <4>2. PICK h \in Nat : h = HashLen BY DigestAssumption
      <4>3. d = [y \in 1 .. h |-> <<s, y>>] BY <3>2, <4>2 DEF Piece
      <4>4. \A y \in 1 .. h : <<s, y>> \in S BY <3>2, <4>1 DEF Pieced
      <4>5. d \in [1 .. h -> S] BY <4>3, <4>4
      <4> QED BY <4>2, <4>5, StringLength
    <3>5. \A x \in 1 .. n : c[x] = a[x] BY <2>7, <3>1
    <3>6. c[n + 1] = d BY <2>7, <3>1, <3>2
    <3>7. IsChunked(w \o d, n + 1, c, S) BY ONLY <3>3, <3>4, <3>5, <3>6, ChunkMore
    <3>8. okm' = w \o d BY <1>8, <1>11, <2>4, <3>2 DEF Piece
    <3> QED BY <3>1, <3>2, <3>7, <3>8
  <2>11. IsPbkdf2(n + 1, f)' BY <2>9, <2>10 DEF IsPbkdf2, Piece
  <2>12. block' = n + 1 BY <1>1, <1>2, <2>1
  <2>13. Pbkdf2Made(block)' BY <2>11, <2>12 DEF Pbkdf2Made, IsPbkdf2
  <2>14. Pbkdf2Inv'
    <3>1. stage' = "blocks" /\ job' = g /\ block' = b BY <1>1, <1>2, <1>11
    <3> QED BY <1>3, <2>13, <3>1 DEF Pbkdf2Inv
  <2>15. DerivedFresh' BY <1>11, OtherFresh
  <2> QED BY <2>14, <2>15
<1> QED BY <1>10, <1>11 DEF Pbkdf2Mix

(* A step elsewhere leaves the output of PBKDF2.                           *)
LEMMA Pbkdf2Stays ==
    ASSUME Pbkdf2Inv, Grows, UNCHANGED <<stage, job, okm, block, message, round, mixed>>,
           use \in {"key", "inner", "outer"} => use' \in {"key", "inner", "outer"}
    PROVE  Pbkdf2Inv'
<1>1. PICK n, r : n = block /\ n = block' /\ r = round /\ r = round' OBVIOUS
<1>2. Pbkdf2Made(n) => Pbkdf2Made(n)' BY Pbkdf2MadeStays
<1>3. Pbkdf2Made(n - 1) => Pbkdf2Made(n - 1)'
  <2>1. PICK z : z = n - 1 OBVIOUS
  <2>2. Pbkdf2Made(z) => Pbkdf2Made(z)' BY Pbkdf2MadeStays
  <2> QED BY <2>1, <2>2
<1>4. Pbkdf2Made(block) => Pbkdf2Made(block)' BY <1>1, <1>2 DEF Pbkdf2Made, IsPbkdf2
<1>5. Pbkdf2Made(block - 1) => Pbkdf2Made(block - 1)'
  BY <1>1, <1>3 DEF Pbkdf2Made, IsPbkdf2
<1>6. Mixes(round) => Mixes(round)'
  <2> SUFFICES ASSUME Mixes(round) PROVE Mixes(round)' OBVIOUS
  <2>1. PICK m : m = SaltOfBlock(n) OBVIOUS
  <2>2. m = SaltOfBlock(block) /\ m = SaltOfBlock(block)' BY <1>1, <2>1 DEF SaltOfBlock
  <2>3. PICK u : /\ Linked(m, u, r - 1) /\ Distinct(u, r - 1)
                 /\ mixed = Image(u, r - 1) /\ message = Turn(m, u, r)
    BY <1>1, <2>2 DEF Mixes
  <2>4. PICK q : q = r - 1 OBVIOUS
  <2>5. Linked(m, u, q)' BY <2>3, <2>4, LinkedStays
  <2>6. Linked(SaltOfBlock(block), u, round - 1)' BY <1>1, <2>2, <2>4, <2>5 DEF Linked
  <2>7. message' = Turn(SaltOfBlock(block), u, round)'
    BY <1>1, <2>2, <2>3 DEF Turn, DigestBytes
  <2>8. Distinct(u, round' - 1) /\ mixed' = Image(u, round' - 1) BY <1>1, <2>3
  <2> QED BY <2>6, <2>7, <2>8 DEF Mixes, Distinct, Image
<1> QED BY <1>4, <1>5, <1>6 DEF Pbkdf2Inv

-----------------------------------------------------------------------------
(* All together.                                                           *)
DerivedInv == HkdfInv /\ Pbkdf2Inv /\ DerivedFresh

(* Nothing is derived at first.                                            *)
LEMMA InitDerived ==
    ASSUME Init
    PROVE  DerivedInv
<1>1. stage = "idle" /\ okm = <<>> /\ block = 0 BY DEF Init
<1> QED BY <1>1 DEF DerivedInv, HkdfInv, Pbkdf2Inv, DerivedFresh

(* A step elsewhere leaves what is derived.                                *)
LEMMA DerivedStays ==
    ASSUME DerivedInv, Grows,
           UNCHANGED <<stage, job, okm, block, message, round, mixed>>,
           use \in {"key", "inner", "outer"} => use' \in {"key", "inner", "outer"}
    PROVE  DerivedInv'
<1>1. HkdfInv' /\ Pbkdf2Inv' BY HkdfStays, Pbkdf2Stays DEF DerivedInv
<1>2. DerivedFresh' BY DEF DerivedInv, DerivedFresh, IsInjective
<1> QED BY <1>1, <1>2 DEF DerivedInv

(* What is no derivation touches none.                                     *)
LEMMA ElsewhereFresh ==
    ASSUME DerivedInv, stage' \in {"plain", "nonce", "drbg", "mac"}
    PROVE  DerivedInv'
<1>1. DerivedFresh' BY OtherFresh
<1> QED BY <1>1 DEF DerivedInv, HkdfInv, Pbkdf2Inv

(* Every step keeps the invariant of the derivations.                      *)
LEMMA NextDerived ==
    ASSUME DerivationInv, LengthsFit, DerivedInv, [Next]_vars
    PROVE  DerivedInv'
<1>0. HashInv BY DEF DerivationInv
<1>1. CASE HashNext /\ UNCHANGED <<stage, job, deriveVars, drbgVars>>
  <2>1. /\ Grows /\ UNCHANGED args
        /\ use \in {"key", "inner", "outer"} => use' \in {"key", "inner", "outer"}
    BY <1>0, <1>1, HashNextGrows
  <2>2. UNCHANGED <<stage, job, okm, block, message, round, mixed>>
    BY <1>1, <2>1 DEF args, deriveVars
  <2> QED BY <2>1, <2>2, DerivedStays
<1>2. CASE UNCHANGED vars
  <2>1. UNCHANGED <<stage, job, okm, block, message, round, mixed, use, fn, known>>
    BY <1>2 DEF vars, hashVars, args, deriveVars
  <2>2. Grows BY <1>0, <2>1, SameGrows
  <2> QED BY <2>1, <2>2, DerivedStays
<1>3. CASE HkdfExtract \/ HkdfExpand \/ HkdfBlock \/ HkdfTake
  <2>1. HkdfInv' /\ DerivedFresh'
    BY <1>3, HkdfExtractFresh, HkdfBlockFresh DEF DerivedInv
  <2>2. stage' \in {"extract", "refused", "expand", "expanding"}
    BY <1>3 DEF HkdfExtract, HkdfExpand, HkdfBlock, HkdfTake
  <2> QED BY <2>1, <2>2 DEF DerivedInv, Pbkdf2Inv
<1>4. CASE Pbkdf2 \/ Pbkdf2Block \/ Pbkdf2Mix
  <2>1. Pbkdf2Inv' /\ DerivedFresh'
    BY <1>4, Pbkdf2Starts, Pbkdf2BlockFresh, Pbkdf2MixFresh DEF DerivedInv
  <2>2. stage' \in {"refused", "blocks", "mixing"}
    <3>1. CASE Pbkdf2 BY <3>1 DEF Pbkdf2
    <3>2. CASE Pbkdf2Block BY <3>2 DEF Pbkdf2Block
    <3>3. CASE Pbkdf2Mix BY <3>3 DEF Pbkdf2Mix
    <3> QED BY <1>4, <3>1, <3>2, <3>3
  <2> QED BY <2>1, <2>2 DEF DerivedInv, HkdfInv
<1>5. CASE DeriveEnd
  <2>1. DerivedFresh'
    <3>1. stage \in {"expand", "blocks"} BY <1>5 DEF DeriveEnd
    <3> QED BY <1>5, <3>1, HkdfEnds, Pbkdf2Ends DEF DerivedInv
  <2>2. stage' = "ended" BY <1>5 DEF DeriveEnd
  <2> QED BY <2>1, <2>2 DEF DerivedInv, HkdfInv, Pbkdf2Inv
<1>6. CASE Plain \/ Instantiate \/ NonceMade \/ Reseed \/ DrbgMac \/ DrbgTake
  <2>1. stage' \in {"plain", "nonce", "drbg", "mac"}
    <3>1. CASE Plain BY <3>1 DEF Plain
    <3>2. CASE Instantiate BY <3>2 DEF Instantiate, Seed
    <3>3. CASE NonceMade \/ Reseed BY <3>3 DEF NonceMade, Reseed, Seed
    <3>4. CASE DrbgMac \/ DrbgTake BY <3>4 DEF DrbgMac, DrbgTake
    <3> QED BY <1>6, <3>1, <3>2, <3>3, <3>4
  <2> QED BY <2>1, ElsewhereFresh
<1>7. CASE Request \/ RequestStep
  <2>1. stage' = "drbg" BY <1>7 DEF Request, RequestStep, Ready
  <2> QED BY <2>1, ElsewhereFresh
<1> QED BY <1>1, <1>2, <1>3, <1>4, <1>5, <1>6, <1>7 DEF Next

(* HKDF and PBKDF2 return fresh bytes, as many as asked for, or refuse.    *)
THEOREM DerivationsAlwaysFresh ==
    Spec => ([]LengthsFit => []DerivedFresh)
<1>1. Init => DerivedInv BY InitDerived
<1>2. DerivationInv /\ LengthsFit /\ DerivedInv /\ [Next]_vars => DerivedInv' BY NextDerived
<1>3. DerivedInv => DerivedFresh BY DEF DerivedInv
<1>4. Spec => []DerivationInv BY AlwaysDerivationInv
<1> QED BY <1>1, <1>2, <1>3, <1>4, PTL DEF Spec

-----------------------------------------------------------------------------
(* No digest is hashed before it is made: what led to the j-th consists of *)
(* bytes and of those before it.                                           *)
Grounded == \A j \in 1 .. Len(known) : Undone(known[j]) \in Seq(Masks(j - 1))

(* Elements of a string that are a string.                                 *)
LEMMA PlacedOver ==
    ASSUME NEW T, NEW w \in Seq(T), NEW o \in Nat, NEW s \in Seq(Int), o + Len(s) <= Len(w),
           \A x \in 1 .. Len(s) : w[o + x] = s[x]
    PROVE  s \in Seq(T)
<1>1. PICK n \in Nat, l \in Nat : n = Len(s) /\ l = Len(w) BY LenProperties
<1>2. ASSUME NEW x \in 1 .. n PROVE s[x] \in T
  <2>1. PICK y : y = o + x OBVIOUS
  <2>2. y \in 1 .. Len(w) BY <1>1, <2>1
  <2>3. w[y] \in T BY <2>2, ElementOfSeq
  <2> QED BY <1>1, <2>1, <2>3
<1> QED BY <1>1, <1>2, SeqOver

(* A digest that is made of what there is, is one of those that there are. *)
LEMMA DigestBelow ==
    ASSUME NEW k \in Nat, k > 0, NEW n \in Nat, DigestBytes(k) \in Seq(Masks(n))
    PROVE  k <= n
<1>1. PICK h \in Nat : h = HashLen /\ h > 0 BY DigestAssumption
<1>2. PICK q \in Nat : q = k - 1 OBVIOUS
<1>3. PICK y \in Nat, z \in Nat : y = Size(q) /\ z = Size(n) BY SizeType
<1>4. PICK d : d = DigestBytes(k) OBVIOUS
<1>5. Len(d) = h /\ \A x \in 1 .. h : d[x] = y + x - 1 BY <1>1, <1>2, <1>3, <1>4, DigestNames
<1>6. 1 \in 1 .. Len(d) BY <1>1, <1>5
<1>7. d[1] \in Masks(n) BY <1>4, <1>6, ElementOfSeq
<1>8. d[1] = y BY <1>1, <1>5
<1>9. y < z BY <1>3, <1>7, <1>8 DEF Masks
<1>10. q < n
  <2> SUFFICES ASSUME n <= q PROVE FALSE BY <1>2
  <2>1. z <= y BY <1>3, SizeGrows
  <2> QED BY <1>3, <1>9, <2>1
<1> QED BY <1>2, <1>10

(* The names of a string are those behind its masks.                       *)
LEMMA NatMasks ==
    ASSUME NEW n \in Nat, NEW s \in Seq(Nat), s \in Seq(Masks(n))
    PROVE  s \in Seq(Names(n))
<1>1. PICK l \in Nat : l = Len(s) BY LenProperties
<1>2. ASSUME NEW x \in 1 .. l PROVE s[x] \in Names(n)
  <2>1. s[x] \in Nat /\ s[x] \in Masks(n) BY <1>1, ElementOfSeq
  <2>2. Size(n) \in Nat BY SizeType
  <2> QED BY <2>1, <2>2 DEF Masks, Names
<1> QED BY <1>1, <1>2, SeqOver

(* Key and message of a MAC are older than it.                             *)
LEMMA MacNames ==
    ASSUME fn \in MdFunctions, known \in Seq(States), Grounded,
           NEW j, NEW k, NEW m, IsMac(j, k, m)
    PROVE  /\ j \in Nat /\ j > 0 /\ j - 1 \in Nat
           /\ k \in Seq(Names(j - 1)) /\ m \in Seq(Names(j - 1))
<1>1. PICK d \in 1 .. Len(known) :
          /\ Undone(known[j]) = Masked(BlockKey(k), OPad) \o DigestBytes(d)
          /\ Undone(known[d]) = Masked(BlockKey(k), IPad) \o m
  BY DEF IsMac
<1>2. k \in Seq(Nat) /\ Len(k) <= fn.block /\ m \in Seq(Nat) /\ j \in 1 .. Len(known)
  BY DEF IsMac
<1>3. j \in Nat /\ j > 0 /\ d \in Nat /\ d > 0
  <2>1. Len(known) \in Nat BY LenProperties
  <2> QED BY <1>2, <2>1
<1>4. PICK p \in Nat, q \in Nat : p = j - 1 /\ q = d - 1 BY <1>3
<1>5. IPad \in Byte /\ OPad \in Byte BY DigestAssumption
<1>6. PICK g : g = DigestBytes(d) OBVIOUS
<1>7. g \in Seq(Nat) BY <1>3, <1>6, DigestBytesType
<1>8. PICK v, w : v = Masked(BlockKey(k), OPad) /\ w = Masked(BlockKey(k), IPad) OBVIOUS
<1>9. /\ IsConcat(v \o g, v, g) /\ v \in Seq(Int) /\ v \o g \in Seq(Int)
      /\ IsConcat(w \o m, w, m) /\ w \in Seq(Int)
  BY <1>2, <1>5, <1>7, <1>8, MacDataType
<1>10. PICK u : u = v \o g OBVIOUS
<1>11. PICK r : r = w \o m OBVIOUS
<1>12. u \in Seq(Masks(p)) /\ r \in Seq(Masks(q))
  <2>1. Undone(known[j]) = u /\ Undone(known[d]) = r BY <1>1, <1>6, <1>8, <1>10, <1>11
  <2> QED BY <1>2, <1>4, <2>1 DEF Grounded
<1>13. g \in Seq(Int) /\ m \in Seq(Int) BY <1>2, <1>7, Strings
<1>14. g \in Seq(Masks(p))
  <2>1. Len(v) \in Nat /\ Len(v) + Len(g) <= Len(u) /\ Len(g) \in Nat
        /\ \A x \in 1 .. Len(g) : u[Len(v) + x] = g[x]
    BY <1>9, <1>10 DEF IsConcat
  <2> QED BY <1>12, <1>13, <2>1, PlacedOver
<1>15. d <= p BY <1>3, <1>6, <1>14, DigestBelow
<1>16. v \in Seq(Masks(p))
  <2>1. PICK o \in Nat : o = 0 OBVIOUS
  <2>2. /\ Len(v) \in Nat /\ o + Len(v) <= Len(u)
        /\ \A x \in 1 .. Len(v) : u[o + x] = v[x]
    <3>1. /\ Len(v) \in Nat /\ Len(g) \in Nat /\ Len(u) = Len(v) + Len(g)
          /\ \A x \in 1 .. Len(v) : u[x] = v[x]
      BY <1>9, <1>10 DEF IsConcat
    <3> QED BY <2>1, <3>1
  <2> QED BY <1>9, <1>12, <2>1, <2>2, PlacedOver
<1>17. PICK b : b = BlockKey(k) OBVIOUS
<1>18. b \in Seq(Nat) BY <1>2, <1>17, BlockKeyType
<1>19. b \in Seq(Names(p)) BY <1>5, <1>8, <1>16, <1>17, <1>18, MaskedNames
<1>20. k \in Seq(Names(p))
  <2>1. PICK z \in Nat, l \in Nat : l = Len(k) /\ z = fn.block - l
    <3>1. Len(k) \in Nat /\ fn.block \in Nat BY <1>2, LenProperties, MdNumbers
    <3>2. fn.block - Len(k) \in Nat BY <1>2, <3>1
    <3> QED BY <3>1, <3>2
  <2>2. b = k \o Zeros(z) BY <1>17, <2>1 DEF BlockKey
  <2>3. Zeros(z) \in Seq(Nat) BY ZerosType
  <2>4. IsConcat(b, k, Zeros(z)) BY <1>2, <2>2, <2>3, ConcatParts
  <2>5. PICK o \in Nat : o = 0 OBVIOUS
  <2>6. o + Len(k) <= Len(b) /\ \A x \in 1 .. Len(k) : b[o + x] = k[x]
    <3>1. /\ Len(k) \in Nat /\ Len(Zeros(z)) \in Nat /\ Len(b) = Len(k) + Len(Zeros(z))
          /\ \A x \in 1 .. Len(k) : b[x] = k[x]
      BY <2>4 DEF IsConcat
    <3> QED BY <2>5, <3>1
  <2>7. k \in Seq(Int) BY <1>2, Strings
  <2> QED BY <1>19, <2>5, <2>6, <2>7, PlacedOver
<1>21. m \in Seq(Names(p))
  <2>1. Len(w) \in Nat /\ Len(w) + Len(m) <= Len(r) /\ Len(m) \in Nat
        /\ \A x \in 1 .. Len(m) : r[Len(w) + x] = m[x]
    BY <1>9, <1>11 DEF IsConcat
  <2>2. m \in Seq(Masks(q)) BY <1>12, <1>13, <2>1, PlacedOver
  <2>3. m \in Seq(Names(q)) BY <1>2, <2>2, NatMasks
  <2>4. q <= p BY <1>3, <1>4, <1>15
  <2> QED BY <2>3, <2>4, SizeGrows
<1> QED BY <1>3, <1>4, <1>20, <1>21

-----------------------------------------------------------------------------
(* What is hashed, and what a hash function is going to be called with, is *)
(* made of bytes and of the digests there are.                             *)
HashStrung ==
    IsMd(fn) => /\ {key, message, shortKey} \subseteq Seq(Names(Len(known)))
                /\ data \in Seq(Masks(Len(known)))
                /\ Grounded

(* What is hashed for an HMAC is made of key and message.                  *)
LEMMA MacMasks ==
    ASSUME fn \in MdFunctions, NEW n \in Nat, NEW k \in Seq(Names(n)), Len(k) <= fn.block,
           NEW m \in Seq(Names(n)), NEW pad \in Byte
    PROVE  Masked(BlockKey(k), pad) \o m \in Seq(Masks(n))
<1>1. PICK S, T : S = Names(n) /\ T = Masks(n) OBVIOUS
<1>2. Seq(S) \subseteq Seq(Nat) /\ Seq(S) \subseteq Seq(T) /\ Seq(Byte) \subseteq Seq(S)
  BY <1>1, NamesSeq
<1>3. k \in Seq(Nat) BY <1>1, <1>2
<1>4. PICK z \in Nat, l \in Nat : l = Len(k) /\ z = fn.block - l
  <2>1. Len(k) \in Nat /\ fn.block \in Nat BY <1>3, LenProperties, MdNumbers
  <2>2. fn.block - Len(k) \in Nat BY <2>1
  <2> QED BY <2>1, <2>2
<1>5. PICK b : b = k \o Zeros(z) OBVIOUS
<1>6. BlockKey(k) = b BY <1>4, <1>5 DEF BlockKey
<1>7. b \in Seq(S)
  <2>1. Zeros(z) \in Seq(S) BY <1>2, ZerosType
  <2> QED BY <1>1, <1>5, <2>1, ConcatProperties
<1>8. PICK v : v = Masked(b, pad) OBVIOUS
<1>9. v \in Seq(T)
  <2>1. b \in Seq(Nat) BY <1>2, <1>7
  <2> QED BY <1>1, <1>7, <1>8, <2>1, MaskedNames
<1>10. v \o m \in Seq(T) BY <1>1, <1>2, <1>9, ConcatProperties
<1> QED BY <1>1, <1>6, <1>8, <1>10

(* A digest that was made is made of what there is.                        *)
LEMMA OutNames ==
    ASSUME HashInv, pc = "done", use # "called", IsMd(fn)
    PROVE  /\ Len(known) \in Nat /\ out \in Seq(Names(Len(known))) /\ Len(out) = HashLen
<1>1. Hashed BY DEF Hashed
<1>2. PICK k \in 1 .. Len(known) : known[k] = state /\ out = DigestBytes(k)
  BY <1>1 DEF HashInv, Knowing
<1>3. PICK n \in Nat : n = Len(known) BY LenProperties DEF HashInv, Knowing
<1>4. k \in Nat /\ k > 0 /\ k <= n BY <1>2, <1>3
<1> QED BY <1>2, <1>3, <1>4, DigestNames

(* The calls of a hash function and of hmac_...() keep it, ...             *)
LEMMA CallHmacStrung ==
    ASSUME HashInv, HashStrung, IsMd(fn), NEW k \in Seq(Names(Len(known))),
           NEW m \in Seq(Names(Len(known))), CallHmac(k, m)
    PROVE  HashStrung'
<1>1. UNCHANGED <<fn, known>> /\ key' = k /\ message' = m /\ shortKey' = k BY DEF CallHmac
<1>2. fn \in MdFunctions
  <2>1. fn \in MdFunctions \cup Sponges BY DEF HashInv, HashTypes
  <2> QED BY <2>1, SpongeNumbers
<1>3. PICK n \in Nat : n = Len(known) BY LenProperties DEF HashInv, Knowing
<1>4. k \in Seq(Nat) BY <1>3, NamesSeq
<1>5. data' \in Seq(Masks(n))
  <2>1. CASE TooLong(k)
    <3>1. data' = k BY <2>1 DEF CallHmac, Call
    <3> QED BY <1>3, <3>1, NamesSeq
  <2>2. CASE ~TooLong(k)
    <3>1. Len(k) \in Nat /\ fn.block \in Nat BY <1>2, <1>4, LenProperties, MdNumbers
    <3>2. Len(k) <= fn.block BY <2>2, <3>1 DEF TooLong
    <3>3. data' = Masked(BlockKey(k), IPad) \o m BY <2>2 DEF CallHmac, Call
    <3>4. IPad \in Byte BY DigestAssumption
    <3> QED BY <1>2, <1>3, <3>2, <3>3, <3>4, MacMasks
  <2> QED BY <2>1, <2>2
<1>6. Grounded' BY <1>1 DEF HashStrung, Grounded, Undone, IsMd
<1>7. Len(known') = n /\ Names(Len(known))' = Names(n) /\ Masks(Len(known))' = Masks(n)
  BY <1>1, <1>3 DEF Names, Masks, Size
<1> QED BY <1>1, <1>3, <1>5, <1>6, <1>7 DEF HashStrung

(* A hash is begun.                                                        *)
LEMMA CallHashStrung ==
    ASSUME HashInv, HashStrung, NEW s \in Seq(Byte), Call(s), UNCHANGED <<args, shortKey, known>>
    PROVE  HashStrung'
<1>1. UNCHANGED <<fn, known, key, message, shortKey>> /\ data' = s BY DEF args, Call
<1>2. PICK n \in Nat : n = Len(known) BY LenProperties DEF HashInv, Knowing
<1>3. data' \in Seq(Masks(n)) BY <1>1, NamesSeq
<1>4. Grounded' = Grounded BY <1>1 DEF Grounded, Undone, IsMd, Masks, Size
<1>5. Len(known') = n /\ Names(Len(known))' = Names(n) /\ Masks(Len(known))' = Masks(n)
  BY <1>1, <1>2 DEF Names, Masks, Size
<1> QED BY <1>1, <1>2, <1>3, <1>4, <1>5 DEF HashStrung, IsMd

(* A step that hashes nothing.                                             *)
LEMMA SameStrung ==
    ASSUME HashStrung, UNCHANGED <<fn, known, key, message, shortKey, data>>
    PROVE  HashStrung'
BY DEF HashStrung, Grounded, Undone, IsMd, Masks, Names, Size

(* ... and so does each step of a hash: a digest is made of what was       *)
(* there, and the next hash of hmac_...() is one of the last digest.       *)
LEMMA DigestStrung ==
    ASSUME HashInv, HashStrung, LengthFits(data), Digest
    PROVE  HashStrung'
<1>1. /\ pc = "absorb" /\ IsMd(fn) /\ Step * i >= Len(Padded)
      /\ known' = IF Contains(known, state) THEN known ELSE Append(known, state)
      /\ UNCHANGED <<fn, key, message, shortKey, data>>
  BY DEF Digest, args
<1>2. AreBlocks(i) /\ state = Made(i) BY <1>1, AllAbsorbed DEF HashInv
<1>3. i \in Nat /\ fn \in MdFunctions /\ data \in Seq(Int)
  <2>1. i \in Nat /\ fn \in MdFunctions \cup Sponges /\ data \in Seq(Int)
    BY DEF HashInv, HashTypes
  <2> QED BY <1>1, <2>1, SpongeNumbers
<1>4. state \in States BY <1>2, <1>3, StateType
<1>5. Undone(state) = data BY <1>2, <1>3, MdUndone
<1>6. known \in Seq(States) BY DEF HashInv, Knowing
<1>7. PICK l \in Nat : l = Len(known) BY <1>6, LenProperties
<1>8. CASE Contains(known, state)
  <2>1. known' = known BY <1>1, <1>8
  <2> QED BY <1>1, <2>1, SameStrung
<1>9. CASE ~Contains(known, state)
  <2>1. known' = Append(known, state) BY <1>1, <1>9
  <2>2. Len(known') = l + 1 /\ known'[l + 1] = state /\ \A k \in 1 .. l : known'[k] = known[k]
    BY <1>4, <1>6, <1>7, <2>1, AppendProperties
  <2>4. PICK m \in Nat : m = l + 1 /\ l <= m OBVIOUS
  <2>5. /\ Seq(Names(l)) \subseteq Seq(Names(m)) /\ Seq(Masks(l)) \subseteq Seq(Masks(m))
    BY <2>4, SizeGrows
  <2>6. data \in Seq(Masks(l)) BY <1>1, <1>7 DEF HashStrung
  <2>7. Grounded'
    <3>1. ASSUME NEW j \in 1 .. m PROVE Undone(known[j])' \in Seq(Masks(j - 1))
      <4>1. CASE j = m
        <5>1. known'[j] = state BY <2>2, <2>4, <4>1
        <5>4. Undone(known[j])' = data BY <1>1, <1>5, <5>1 DEF Undone, IsMd
        <5>5. j - 1 = l BY <2>4, <4>1
        <5> QED BY <2>6, <5>4, <5>5
      <4>2. CASE j # m
        <5>1. j \in 1 .. l BY <2>4, <4>2
        <5>2. known'[j] = known[j] BY <2>2, <5>1
        <5>3. Undone(known[j])' = Undone(known[j]) BY <1>1, <5>2 DEF Undone, IsMd
        <5>4. Undone(known[j]) \in Seq(Masks(j - 1))
          BY <1>1, <1>7, <5>1 DEF HashStrung, Grounded
        <5> QED BY <5>3, <5>4
      <4> QED BY <4>1, <4>2
    <3>2. \A j : Masks(j - 1)' = Masks(j - 1) BY DEF Masks, Size
    <3> QED BY <2>2, <2>4, <3>1, <3>2 DEF Grounded
  <2>8. {key, message, shortKey} \subseteq Seq(Names(l)) BY <1>1, <1>7 DEF HashStrung
  <2>9. Names(Len(known))' = Names(m) /\ Masks(Len(known))' = Masks(m)
    BY <2>2, <2>4 DEF Names, Masks, Size
  <2> QED BY <1>1, <2>5, <2>6, <2>7, <2>8, <2>9 DEF HashStrung
<1> QED BY <1>8, <1>9

(* A step of a hash only hashes what there is.                             *)
LEMMA HashNextStrung ==
    ASSUME HashInv, HashStrung, LengthFits(data), HashNext
    PROVE  HashStrung'
<1>1. CASE Digest BY <1>1, DigestStrung
<1>2. CASE Absorb \/ Squeeze \/ SqueezeEnd
  <2>1. UNCHANGED <<fn, known, key, message, shortKey, data>>
    BY <1>2 DEF Absorb, Squeeze, SqueezeEnd, args
  <2> QED BY <2>1, SameStrung
<1>3. CASE HmacNext
  <2>1. /\ pc = "done" /\ use \in {"key", "inner"} /\ UNCHANGED <<fn, known, key, message>>
    BY <1>3 DEF HmacNext, args
  <2>2. IsMd(fn) /\ fn \in MdFunctions
    <3>1. IsMd(fn) /\ fn \in MdFunctions \cup Sponges BY <2>1 DEF HashInv, HashTypes
    <3> QED BY <3>1, SpongeNumbers
  <2>3. PICK n \in Nat : n = Len(known) BY LenProperties DEF HashInv, Knowing
  <2>4. out \in Seq(Names(n)) /\ Len(out) = HashLen BY <2>1, <2>2, <2>3, OutNames
  <2>5. {key, message, shortKey} \subseteq Seq(Names(n)) BY <2>2, <2>3 DEF HashStrung
  <2>6. IPad \in Byte /\ OPad \in Byte BY DigestAssumption
  <2>7. data' \in Seq(Masks(n)) /\ shortKey' \in Seq(Names(n))
    <3>1. CASE use = "key"
      <4>1. data' = Masked(BlockKey(out), IPad) \o message /\ shortKey' = out
        BY <1>3, <3>1 DEF HmacNext, Call
      <4>2. HashLen <= fn.block BY <2>2, MdNumbers
      <4> QED BY <2>2, <2>4, <2>5, <2>6, <4>1, <4>2, MacMasks
    <3>2. CASE use = "inner"
      <4>1. data' = Masked(BlockKey(shortKey), OPad) \o out /\ shortKey' = shortKey
        BY <1>3, <3>2 DEF HmacNext, Call
      <4>2. Len(shortKey) <= fn.block BY <3>2 DEF HashInv, MacStages
      <4> QED BY <2>2, <2>4, <2>5, <2>6, <4>1, <4>2, MacMasks
    <3> QED BY <2>1, <3>1, <3>2
  <2>8. Grounded' BY <2>1, <2>2 DEF HashStrung, Grounded, Undone, IsMd, Masks, Size
  <2>9. Names(Len(known))' = Names(n) /\ Masks(Len(known))' = Masks(n)
    BY <2>1, <2>3 DEF Names, Masks, Size
  <2> QED BY <2>1, <2>5, <2>7, <2>8, <2>9 DEF HashStrung
<1> QED BY <1>1, <1>2, <1>3 DEF HashNext

(* The inputs that are left to be mixed in are made of S.                  *)
ArgsOver(s, S) == \A x \in 1 .. Len(s) : s[x].target = "key" => s[x].arg \in Seq(S)

(* Inputs over a set, one string of tasks behind the other, ...            *)
LEMMA ArgsConcat ==
    ASSUME NEW S, NEW s \in Seq(Tasks), NEW u \in Seq(Tasks), ArgsOver(s, S), ArgsOver(u, S)
    PROVE  ArgsOver(s \o u, S)
<1>1. PICK w : w = s \o u OBVIOUS
<1>2. IsConcat(w, s, u) BY <1>1, ConcatParts
<1>3. PICK n \in Nat, m \in Nat : n = Len(s) /\ m = Len(u) BY LenProperties
<1>4. ASSUME NEW x \in 1 .. Len(w), w[x].target = "key" PROVE w[x].arg \in Seq(S)
  <2>1. Len(w) = n + m BY <1>2, <1>3 DEF IsConcat
  <2>2. CASE x <= n
    <3>1. x \in 1 .. Len(s) BY <1>3, <2>2
    <3>2. w[x] = s[x] BY <1>2, <3>1 DEF IsConcat
    <3> QED BY <1>4, <3>1, <3>2 DEF ArgsOver
  <2>3. CASE ~(x <= n)
    <3>1. PICK y \in 1 .. m : x = n + y
      <4>1. x - n \in 1 .. m /\ x = n + (x - n) BY <1>3, <2>1, <2>3
      <4> QED BY <4>1
    <3>2. w[x] = u[y] BY <1>2, <1>3, <3>1 DEF IsConcat
    <3> QED BY <1>3, <1>4, <3>1, <3>2 DEF ArgsOver
  <2> QED BY <2>2, <2>3
<1> QED BY <1>1, <1>4 DEF ArgsOver

(* ... without the first task, ...                                         *)
LEMMA ArgsTail ==
    ASSUME NEW S, NEW s \in Seq(Tasks), s # <<>>, ArgsOver(s, S)
    PROVE  ArgsOver(Tail(s), S) /\ (Head(s).target = "key" => Head(s).arg \in Seq(S))
<1>1. PICK n \in Nat : n = Len(s) BY LenProperties
<1>2. n > 0 BY <1>1, EmptySeq
<1>3. PICK u : u = Tail(s) OBVIOUS
<1>4. Len(u) = n - 1 /\ \A x \in 1 .. n - 1 : u[x] = s[x + 1]
  BY <1>1, <1>2, <1>3, HeadTailProperties
<1>5. ASSUME NEW x \in 1 .. Len(u), u[x].target = "key" PROVE u[x].arg \in Seq(S)
  <2>1. PICK y \in 1 .. n : y = x + 1 BY <1>1, <1>2, <1>4
  <2>2. u[x] = s[y] BY <1>4, <2>1
  <2> QED BY <1>1, <1>5, <2>1, <2>2 DEF ArgsOver
<1>6. Head(s) = s[1] /\ 1 \in 1 .. Len(s) BY <1>1, <1>2
<1> QED BY <1>3, <1>5, <1>6 DEF ArgsOver

(* ... of _update() ...                                                    *)
LEMMA ArgsUpdate ==
    ASSUME NEW n \in Nat, NEW s \in Seq(Names(n))
    PROVE  ArgsOver(Update(s), Names(n)) /\ ArgsOver(UpdateIfAny(s), Names(n))
<1>1. PICK S : S = Names(n) OBVIOUS
<1>2. 0 \in S /\ 1 \in S
  <2>1. 0 \in Byte /\ 1 \in Byte BY Numbers DEF Byte
  <2> QED BY <1>1, <2>1, SizeType
<1>3. <<0>> \o s \in Seq(S) /\ <<1>> \o s \in Seq(S) BY <1>1, <1>2, ConcatProperties
<1>4. PICK a, b, c : /\ a = Task("key", <<0>> \o s) /\ b = Task("key", <<1>> \o s)
                     /\ c = Task("v", <<>>)
  OBVIOUS
<1>5. /\ a.arg \in Seq(S) /\ b.arg \in Seq(S) /\ c.target # "key" BY <1>3, <1>4 DEF Task
<1>6. ArgsOver(<<a, c>>, S) /\ ArgsOver(<<a, c, b, c>>, S) /\ ArgsOver(<<>>, S)
  BY <1>5 DEF ArgsOver
<1>7. Update(s) = <<a, c>> \/ Update(s) = <<a, c, b, c>>
  <2>1. Update(s) = <<a, c>> \o (IF s = <<>> THEN <<>> ELSE <<b, c>>) BY <1>4 DEF Update
  <2>2. PICK x, y : x = <<a, c>> /\ y = <<b, c>> OBVIOUS
  <2>3. x \in Seq({a, b, c}) /\ y \in Seq({a, b, c}) BY <2>2
  <2>4. x \o <<>> = x BY <2>3, ConcatEmptySeq
  <2>5. x \o y = <<a, c, b, c>>
    <3>1. x \o y \in Seq({a, b, c}) /\ IsConcat(x \o y, x, y) BY <2>3, ConcatParts
    <3>2. PICK w : w = x \o y OBVIOUS
    <3>3. /\ Len(w) = 4 /\ w[1] = x[1] /\ w[2] = x[2] /\ w[2 + 1] = y[1] /\ w[2 + 2] = y[2]
      BY <2>2, <3>1, <3>2 DEF IsConcat
    <3>4. PICK z : z = <<a, c, b, c>> OBVIOUS
    <3>5. z \in Seq({a, b, c}) /\ Len(z) = 4 BY <3>4
    <3>6. \A j \in 1 .. 4 : w[j] = z[j] BY <2>2, <3>3, <3>4
    <3>7. w = z BY <3>1, <3>2, <3>3, <3>5, <3>6, SeqEqual
    <3> QED BY <3>2, <3>4, <3>7
  <2> QED BY <2>1, <2>2, <2>4, <2>5
<1>8. ArgsOver(Update(s), S) BY <1>6, <1>7
<1> QED BY <1>1, <1>6, <1>8 DEF UpdateIfAny

(* A task that mixes nothing in.                                           *)
LEMMA ArgsNone ==
    ASSUME NEW S, NEW s, \A x \in 1 .. Len(s) : s[x].target # "key"
    PROVE  ArgsOver(s, S)
BY DEF ArgsOver

(* Names stay names when more digests are known.                           *)
LEMMA ArgsGrow ==
    ASSUME NEW n \in Nat, NEW m \in Nat, n <= m, NEW s, ArgsOver(s, Names(n))
    PROVE  ArgsOver(s, Names(m))
BY SizeGrows DEF ArgsOver

(* What the derivations and the generator keep.                            *)
StrungOver(S) ==
    /\ {prk, t, gen.key, gen.v} \subseteq Seq(S)
    /\ stage = "nonce" => {job.entropy, job.personalization} \subseteq Seq(S)
    /\ ArgsOver(todo, S)

DeriveStrung == IsMd(fn) => StrungOver(Names(Len(known)))

Strung == HashStrung /\ DeriveStrung

(* The tasks of random_bytes().                                            *)
Outs(n) == [x \in 1 .. Blocks(n) |-> Task("out", Least(HashLen, n - HashLen * (x - 1)))]

(* Each task of output asks for a part of one digest.                      *)
LEMMA OutsType ==
    ASSUME NEW n \in Nat
    PROVE  /\ Outs(n) \in Seq(Tasks) /\ Len(Outs(n)) = Blocks(n) /\ Blocks(n) \in Nat
           /\ \A x \in 1 .. Blocks(n) : /\ Outs(n)[x].target = "out"
                                        /\ Outs(n)[x].arg \in 1 .. HashLen
<1>1. PICK m \in Nat : m = Blocks(n) BY BlocksType
<1>2. PICK h \in Nat : h = HashLen /\ h > 0 BY DigestAssumption
<1>3. ASSUME NEW x \in 1 .. m
      PROVE  Least(HashLen, n - HashLen * (x - 1)) \in 1 .. HashLen
  <2>1. PICK z \in Nat : z = x - 1 /\ z < m OBVIOUS
  <2>2. PICK y \in Int : y = n - h * z OBVIOUS
  <2>3. ~(n <= h * z)
    <3>1. Blocks(n) <= z <=> n <= h * z BY <1>2, <2>1, BlocksFit
    <3> QED BY <1>1, <2>1, <3>1
  <2>4. y > 0 BY <2>2, <2>3
  <2>5. Least(h, y) \in 1 .. h BY <1>2, <2>2, <2>4 DEF Least
  <2> QED BY <1>2, <2>1, <2>2, <2>5
<1>4. PICK u : u = Outs(n) OBVIOUS
<1>5. u = [x \in 1 .. m |-> Task("out", Least(HashLen, n - HashLen * (x - 1)))]
  BY <1>1, <1>4 DEF Outs
<1>6. u \in [1 .. m -> Tasks]
  <2>1. 1 .. HashLen \subseteq Int BY <1>2
  <2> QED BY <1>3, <1>5, <2>1, TaskType
<1>7. u \in Seq(Tasks) /\ Len(u) = m BY <1>6, StringLength
<1>8. \A x \in 1 .. m : u[x].target = "out" /\ u[x].arg \in 1 .. HashLen
  BY <1>3, <1>5, TaskType
<1> QED BY <1>1, <1>4, <1>7, <1>8

(* ... and of random_bytes().                                              *)
LEMMA ArgsRequest ==
    ASSUME NEW m \in Nat, NEW s \in Seq(Byte), NEW n \in Nat
    PROVE  ArgsOver(UpdateIfAny(s) \o <<Task("check", <<>>)>> \o Outs(n) \o AfterRequest(s),
                    Names(m))
<1>1. PICK S : S = Names(m) OBVIOUS
<1>2. PICK a, b, c, u, v : /\ a = <<Task("check", <<>>)>> /\ b = <<Task("count", <<>>)>>
                           /\ c = Outs(n) /\ u = UpdateIfAny(s) /\ v = Update(s)
  OBVIOUS
<1>3. s \in Seq(Nat) /\ s \in Seq(Names(m)) BY NamesSeq, Strings
<1>4. u \in Seq(Tasks) /\ v \in Seq(Tasks) /\ ArgsOver(u, S) /\ ArgsOver(v, S)
  BY <1>1, <1>2, <1>3, UpdateType, ArgsUpdate
<1>5. <<>> \in Seq(Nat) BY Strings
<1>6. a \in Seq(Tasks) /\ b \in Seq(Tasks)
  <2>1. PICK p, q : p = Task("check", <<>>) /\ q = Task("count", <<>>) OBVIOUS
  <2>2. p \in Tasks /\ q \in Tasks BY <1>5, <2>1, TaskType
  <2>3. a = <<p>> /\ b = <<q>> BY <1>2, <2>1
  <2> QED BY <2>2, <2>3
<1>7. ArgsOver(a, S) /\ ArgsOver(b, S) BY <1>2, TaskType DEF ArgsOver
<1>8. c \in Seq(Tasks) /\ ArgsOver(c, S) BY <1>2, OutsType, ArgsNone
<1>9. u \o a \in Seq(Tasks) /\ ArgsOver(u \o a, S)
  BY <1>4, <1>6, <1>7, ArgsConcat, ConcatProperties
<1>10. PICK w : w = u \o a OBVIOUS
<1>11. w \o c \in Seq(Tasks) /\ ArgsOver(w \o c, S)
  BY <1>8, <1>9, <1>10, ArgsConcat, ConcatProperties
<1>12. v \o b \in Seq(Tasks) /\ ArgsOver(v \o b, S)
  BY <1>4, <1>6, <1>7, ArgsConcat, ConcatProperties
<1>13. PICK y, z : y = w \o c /\ z = v \o b OBVIOUS
<1>14. ArgsOver(y \o z, S) BY <1>11, <1>12, <1>13, ArgsConcat
<1> QED BY <1>1, <1>2, <1>10, <1>13, <1>14 DEF AfterRequest

(* Whatever does not touch them keeps them.                                *)
LEMMA StrungStays ==
    ASSUME Grows, DeriveStrung, UNCHANGED <<stage, job, prk, t, gen, todo>>
    PROVE  DeriveStrung'
<1>1. fn' = fn BY DEF Grows
<1>2. PICK n \in Nat, m \in Nat : n = Len(known) /\ m = Len(known') /\ n <= m BY DEF Grows
<1>3. Names(Len(known))' = Names(m) BY <1>2 DEF Names, Size
<1>4. SUFFICES ASSUME IsMd(fn) PROVE StrungOver(Names(m))'
  BY <1>1, <1>3 DEF DeriveStrung, IsMd, StrungOver
<1>5. StrungOver(Names(n)) BY <1>2, <1>4 DEF DeriveStrung
<1>6. Seq(Names(n)) \subseteq Seq(Names(m)) BY <1>2, SizeGrows
<1>7. ArgsOver(todo, Names(m)) BY <1>2, <1>5, ArgsGrow DEF StrungOver
<1>8. ArgsOver(todo, Names(m))' = ArgsOver(todo, Names(m)) BY DEF ArgsOver, Names, Size
<1> QED BY <1>5, <1>6, <1>7, <1>8 DEF StrungOver, Names, Size

(* A seed is mixed in.                                                     *)
LEMMA SeedStrung ==
    ASSUME NEW n \in Nat, NEW s \in Seq(Names(n)), Seed(s)
    PROVE  /\ {gen'.key, gen'.v} \subseteq Seq(Names(n))
           /\ ArgsOver(todo', Names(n)) /\ stage' = "drbg"
<1>1. HashLen \in Nat BY DigestAssumption
<1>2. Zeros(HashLen) \in Seq(Byte) BY <1>1, ZerosType
<1>3. [j \in 1 .. HashLen |-> 1] \in Seq(Byte)
  <2>1. 1 \in Byte BY Numbers DEF Byte
  <2>2. [j \in 1 .. HashLen |-> 1] \in [1 .. HashLen -> Byte] BY <2>1
  <2> QED BY <1>1, <2>2, StringLength
<1>4. ArgsOver(Update(s), Names(n)) BY ArgsUpdate
<1>5. gen'.key = Zeros(HashLen) /\ gen'.v = [j \in 1 .. HashLen |-> 1] /\ todo' = Update(s)
      /\ stage' = "drbg"
  BY DEF Seed
<1> QED BY <1>2, <1>3, <1>4, <1>5, NamesSeq

(* Nothing is hashed at first.                                             *)
LEMMA InitStrung ==
    ASSUME Init
    PROVE  Strung
<1>1. /\ Len(known) = 0 /\ key = <<>> /\ message = <<>> /\ shortKey = <<>> /\ data = <<>>
      /\ prk = <<>> /\ t = <<>> /\ gen.key = <<>> /\ gen.v = <<>> /\ stage = "idle"
      /\ Len(todo) = 0
  BY DEF Init, HashInit
<1>2. <<>> \in Seq(Names(0)) /\ <<>> \in Seq(Masks(0)) BY EmptySeq
<1>3. Grounded BY <1>1 DEF Grounded
<1>4. ArgsOver(todo, Names(0)) BY <1>1 DEF ArgsOver
<1> QED BY <1>1, <1>2, <1>3, <1>4 DEF Strung, HashStrung, DeriveStrung, StrungOver

(* What is returned or kept, with the same digests known.                  *)
LEMMA SameNames ==
    ASSUME NEW n \in Nat, n = Len(known), UNCHANGED <<fn, known>>,
           IsMd(fn) => /\ {prk', t', gen'.key, gen'.v} \subseteq Seq(Names(n))
                       /\ stage' = "nonce" =>
                             {job'.entropy, job'.personalization} \subseteq Seq(Names(n))
                       /\ ArgsOver(todo', Names(n))
    PROVE  DeriveStrung'
<1>1. Names(Len(known))' = Names(n) BY DEF Names, Size
<1>2. ArgsOver(todo, Names(Len(known)))' = ArgsOver(todo', Names(n)) BY <1>1 DEF ArgsOver
<1> QED BY <1>1, <1>2 DEF DeriveStrung, StrungOver, IsMd

(* hkdf_extract(), hkdf_expand() and pbkdf2_hmac().                        *)
LEMMA DerivationStrung ==
    ASSUME DerivationInv, Strung,
           HkdfExtract \/ HkdfExpand \/ HkdfBlock \/ HkdfTake
             \/ Pbkdf2 \/ Pbkdf2Block \/ Pbkdf2Mix \/ DeriveEnd
    PROVE  Strung'
<1>0. HashInv /\ StageTypes /\ HashStrung /\ DeriveStrung BY DEF DerivationInv, Strung
<1>1. PICK n \in Nat : n = Len(known) BY <1>0, LenProperties DEF HashInv, Knowing
<1>2. IsMd(fn)
  BY <1>0 DEF StageTypes, HkdfExtract, HkdfExpand, HkdfBlock, HkdfTake, Pbkdf2, Pbkdf2Block,
              Pbkdf2Mix, DeriveEnd
<1>3. {prk, t, gen.key, gen.v} \subseteq Seq(Names(n)) /\ ArgsOver(todo, Names(n))
  BY <1>0, <1>1, <1>2 DEF DeriveStrung, StrungOver
<1>4. Seq(Byte) \subseteq Seq(Names(n)) BY NamesSeq
<1>5. \A s, u \in Seq(Names(n)) : s \o u \in Seq(Names(n)) BY NamesSeq
<1>6. CASE HkdfExtract
  <2>1. PICK c \in HkdfCalls :
            job' = c /\ CallHmac(IF c.salt = <<>> THEN Zeros(HashLen) ELSE c.salt, c.ikm)
    BY <1>6 DEF HkdfExtract
  <2>2. stage' = "extract" /\ UNCHANGED <<deriveVars, drbgVars>> BY <1>6 DEF HkdfExtract
  <2>3. PICK k, m : k = (IF c.salt = <<>> THEN Zeros(HashLen) ELSE c.salt) /\ m = c.ikm OBVIOUS
  <2>4. k \in Seq(Names(n)) /\ m \in Seq(Names(n))
    <3>1. c.salt \in Seq(Byte) /\ c.ikm \in Seq(Byte) BY DerivationAssumption
    <3>2. HashLen \in Nat BY DigestAssumption
    <3>3. Zeros(HashLen) \in Seq(Byte) BY <3>2, ZerosType
    <3> QED BY <1>4, <2>3, <3>1, <3>3
  <2>5. CallHmac(k, m) BY <2>1, <2>3
  <2>6. HashStrung' BY <1>0, <1>1, <1>2, <2>4, <2>5, CallHmacStrung
  <2>7. UNCHANGED <<fn, known>> BY <2>5 DEF CallHmac
  <2>8. DeriveStrung' BY <1>1, <1>3, <2>2, <2>7, SameNames DEF deriveVars, drbgVars
  <2> QED BY <2>6, <2>8 DEF Strung
<1>7. CASE HkdfExpand \/ HkdfTake
  <2>1. /\ Returned /\ stage' # "nonce" /\ UNCHANGED <<hashVars, drbgVars>>
        /\ prk' \in {prk, out} /\ t' \in {t, out}
    BY <1>7 DEF HkdfExpand, HkdfTake
  <2>2. out \in Seq(Names(n)) BY <1>0, <1>1, <1>2, <2>1, OutNames DEF Returned
  <2>3. UNCHANGED <<fn, known, key, message, shortKey, data>> BY <2>1 DEF hashVars, args
  <2>4. HashStrung' BY <1>0, <2>3, SameStrung
  <2>5. DeriveStrung' BY <1>1, <1>3, <2>1, <2>2, <2>3, SameNames DEF drbgVars
  <2> QED BY <2>4, <2>5 DEF Strung
<1>8. CASE HkdfBlock
  <2>1. /\ stage = "expand" /\ CallHmac(prk, t \o job.info \o ToBytes(block + 1, 1))
        /\ stage' = "expanding" /\ UNCHANGED <<job, prk, t, drbgVars>>
    BY <1>8 DEF HkdfBlock
  <2>2. job \in HkdfCalls /\ block \in Nat BY <1>0, <2>1 DEF StageTypes
  <2>3. job.info \in Seq(Byte) BY <2>2, DerivationAssumption
  <2>4. ToBytes(block + 1, 1) \in Seq(Byte)
    <3>1. block + 1 \in Nat /\ 1 \in Nat BY <2>2
    <3> QED BY <3>1, ToBytesType
  <2>5. PICK m, k : m = t \o job.info \o ToBytes(block + 1, 1) /\ k = prk OBVIOUS
  <2>6. m \in Seq(Names(n)) /\ k \in Seq(Names(n)) BY <1>3, <1>4, <1>5, <2>3, <2>4, <2>5
  <2>7. CallHmac(k, m) BY <2>1, <2>5
  <2>8. HashStrung' BY <1>0, <1>1, <1>2, <2>6, <2>7, CallHmacStrung
  <2>9. UNCHANGED <<fn, known>> BY <2>7 DEF CallHmac
  <2>10. DeriveStrung' BY <1>1, <1>3, <2>1, <2>9, SameNames DEF drbgVars
  <2> QED BY <2>8, <2>10 DEF Strung
<1>9. CASE Pbkdf2 \/ DeriveEnd
  <2>1. UNCHANGED <<hashVars, prk, t, drbgVars>> /\ stage' # "nonce"
    BY <1>9 DEF Pbkdf2, DeriveEnd, deriveVars
  <2>2. UNCHANGED <<fn, known, key, message, shortKey, data>> BY <2>1 DEF hashVars, args
  <2>3. HashStrung' BY <1>0, <2>2, SameStrung
  <2>4. DeriveStrung' BY <1>1, <1>3, <2>1, <2>2, SameNames DEF drbgVars
  <2> QED BY <2>3, <2>4 DEF Strung
<1>10. CASE Pbkdf2Block
  <2>1. /\ stage = "blocks" /\ CallHmac(job.password, SaltOfBlock(block + 1))
        /\ stage' = "mixing" /\ UNCHANGED <<job, prk, t, drbgVars>>
    BY <1>10 DEF Pbkdf2Block
  <2>2. job \in Pbkdf2Calls /\ block + 1 \in Nat BY <1>0, <2>1 DEF StageTypes
  <2>3. job.password \in Seq(Byte) BY <2>2, DerivationAssumption
  <2>4. SaltOfBlock(block + 1) \in Seq(Byte) BY <2>2, SaltType
  <2>5. PICK k, m : k = job.password /\ m = SaltOfBlock(block + 1) OBVIOUS
  <2>6. k \in Seq(Names(n)) /\ m \in Seq(Names(n)) BY <1>4, <2>3, <2>4, <2>5
  <2>7. CallHmac(k, m) BY <2>1, <2>5
  <2>8. HashStrung' BY <1>0, <1>1, <1>2, <2>6, <2>7, CallHmacStrung
  <2>9. UNCHANGED <<fn, known>> BY <2>7 DEF CallHmac
  <2>10. DeriveStrung' BY <1>1, <1>3, <2>1, <2>9, SameNames DEF drbgVars
  <2> QED BY <2>8, <2>10 DEF Strung
<1>11. CASE Pbkdf2Mix
  <2>1. stage = "mixing" /\ Returned /\ UNCHANGED <<job, prk, t, block, drbgVars>>
    BY <1>11 DEF Pbkdf2Mix
  <2>2. job \in Pbkdf2Calls BY <1>0, <2>1 DEF StageTypes
  <2>3. PICK k, m : k = job.password /\ m = out OBVIOUS
  <2>4. k \in Seq(Names(n))
    <3>1. job.password \in Seq(Byte) BY <2>2, DerivationAssumption
    <3> QED BY <1>4, <2>3, <3>1
  <2>5. m \in Seq(Names(n)) BY <1>0, <1>1, <1>2, <2>1, <2>3, OutNames DEF Returned
  <2>6. CASE CallHmac(job.password, out) /\ UNCHANGED stage
    <3>1. CallHmac(k, m) BY <2>3, <2>6
    <3>2. HashStrung' BY <1>0, <1>1, <1>2, <2>4, <2>5, <3>1, CallHmacStrung
    <3>3. UNCHANGED <<fn, known>> /\ stage' # "nonce" BY <2>1, <2>6, <3>1 DEF CallHmac
    <3>4. DeriveStrung' BY <1>1, <1>3, <2>1, <3>3, SameNames DEF drbgVars
    <3> QED BY <3>2, <3>4 DEF Strung
  <2>7. CASE UNCHANGED hashVars /\ stage' = "blocks"
    <3>1. UNCHANGED <<fn, known, key, message, shortKey, data>> BY <2>7 DEF hashVars, args
    <3>2. HashStrung' BY <1>0, <3>1, SameStrung
    <3>3. DeriveStrung' BY <1>1, <1>3, <2>1, <2>7, <3>1, SameNames DEF drbgVars
    <3> QED BY <3>2, <3>3 DEF Strung
  <2> QED BY <1>11, <2>6, <2>7 DEF Pbkdf2Mix
<1> QED BY <1>6, <1>7, <1>8, <1>9, <1>10, <1>11

(* The application, and HMAC_DRBG_SHA256().                                *)
LEMMA PlainStrung ==
    ASSUME DerivationInv, Strung, Plain
    PROVE  Strung'
<1>0. HashInv /\ StageTypes /\ HashStrung /\ DeriveStrung BY DEF DerivationInv, Strung
<1>1. PICK n \in Nat : n = Len(known) BY <1>0, LenProperties DEF HashInv, Knowing
<1>2. stage' = "plain" /\ UNCHANGED <<job, deriveVars, drbgVars>> BY DEF Plain
<1>3. HashStrung' /\ UNCHANGED <<fn, known>>
  <2>1. CASE Hash
    <3>1. PICK s \in Texts : Call(s) BY <2>1 DEF Hash
    <3>2. s \in Seq(Byte) BY DigestAssumption
    <3>3. UNCHANGED <<args, shortKey, known>> BY <2>1 DEF Hash
    <3> QED BY <1>0, <3>1, <3>2, <3>3, CallHashStrung DEF args
  <2>2. CASE Hmac
    <3>1. PICK k \in Keys, m \in Messages : CallHmac(k, m) BY <2>2 DEF Hmac
    <3>2. k \in Seq(Byte) /\ m \in Seq(Byte) BY DigestAssumption
    <3>3. IsMd(fn) BY <2>2 DEF Hmac
    <3>4. k \in Seq(Names(Len(known))) /\ m \in Seq(Names(Len(known))) BY <1>1, <3>2, NamesSeq
    <3> QED BY <1>0, <3>1, <3>3, <3>4, CallHmacStrung DEF CallHmac
  <2> QED BY <2>1, <2>2 DEF Plain
<1>4. DeriveStrung'
  <2>1. IsMd(fn) => {prk, t, gen.key, gen.v} \subseteq Seq(Names(n)) /\ ArgsOver(todo, Names(n))
    BY <1>0, <1>1 DEF DeriveStrung, StrungOver
  <2> QED BY <1>1, <1>2, <1>3, <2>1, SameNames DEF deriveVars, drbgVars
<1> QED BY <1>3, <1>4 DEF Strung

(* The generator is seeded ...                                             *)
LEMMA SeedingStrung ==
    ASSUME DerivationInv, Strung, Instantiate \/ NonceMade \/ Reseed
    PROVE  Strung'
<1>0. HashInv /\ StageTypes /\ HashStrung /\ DeriveStrung BY DEF DerivationInv, Strung
<1>1. PICK n \in Nat : n = Len(known) BY <1>0, LenProperties DEF HashInv, Knowing
<1>2. IsMd(fn)
  BY <1>0 DEF StageTypes, Instantiate, NonceMade, Reseed, Ready
<1>3. {prk, t, gen.key, gen.v} \subseteq Seq(Names(n)) /\ ArgsOver(todo, Names(n))
  BY <1>0, <1>1, <1>2 DEF DeriveStrung, StrungOver
<1>4. Seq(Byte) \subseteq Seq(Names(n)) BY NamesSeq
<1>5. \A s, u \in Seq(Names(n)) : s \o u \in Seq(Names(n)) BY NamesSeq
<1>6. ASSUME NEW s \in Seq(Names(n)), Seed(s), UNCHANGED <<hashVars, prk, t>>
      PROVE  Strung'
  <2>1. {gen'.key, gen'.v} \subseteq Seq(Names(n)) /\ ArgsOver(todo', Names(n)) /\ stage' = "drbg"
    BY <1>6, SeedStrung
  <2>2. UNCHANGED <<fn, known, key, message, shortKey, data>> BY <1>6 DEF hashVars, args
  <2>3. HashStrung' BY <1>0, <2>2, SameStrung
  <2>4. DeriveStrung' BY <1>1, <1>3, <1>6, <2>1, <2>2, SameNames
  <2> QED BY <2>3, <2>4 DEF Strung
<1>7. CASE Instantiate
  <2>1. PICK e \in Entropies, p \in Personalizations :
            /\ Len(e) >= SeedLen
            /\ \/ /\ \E nonce \in Nonces : Seed(e \o nonce \o p)
                  /\ UNCHANGED <<hashVars, job>>
               \/ /\ job' = [entropy |-> e, personalization |-> p]
                  /\ Call(NonceTag \o SubSeq(e, 1, SeedLen)) /\ use' = "hash"
                  /\ stage' = "nonce"
                  /\ UNCHANGED <<args, shortKey, known, gen, todo, fed, handed>>
    BY <1>7 DEF Instantiate
  <2>2. e \in Seq(Byte) /\ p \in Seq(Byte) /\ NonceTag \in Seq(Byte) BY DerivationAssumption
  <2>3. UNCHANGED <<prk, t>> BY <1>7 DEF Instantiate, deriveVars
  <2>4. CASE (\E nonce \in Nonces : Seed(e \o nonce \o p)) /\ UNCHANGED <<hashVars, job>>
    <3>1. PICK nonce \in Nonces : Seed(e \o nonce \o p) BY <2>4
    <3>2. nonce \in Seq(Byte) BY DerivationAssumption
    <3>3. PICK s : s = e \o nonce \o p OBVIOUS
    <3>4. s \in Seq(Names(n)) BY <1>4, <1>5, <2>2, <3>2, <3>3
    <3> QED BY <1>6, <2>3, <2>4, <3>1, <3>3, <3>4
  <2>5. CASE /\ job' = [entropy |-> e, personalization |-> p]
             /\ Call(NonceTag \o SubSeq(e, 1, SeedLen)) /\ use' = "hash"
             /\ stage' = "nonce"
             /\ UNCHANGED <<args, shortKey, known, gen, todo, fed, handed>>
    <3>1. SubSeq(e, 1, SeedLen) \in Seq(Byte)
      <4>1. PICK l \in Nat, o \in Nat : l = SeedLen /\ o = 0 BY DerivationAssumption
      <4>2. o + l <= Len(e) /\ 1 = o + 1 /\ l = o + l
        <5>1. Len(e) \in Nat BY <2>2, LenProperties
        <5> QED BY <2>1, <4>1, <5>1
      <4>3. SubSeq(e, 1, l) \in Seq(Byte)
        BY ONLY <2>2, <4>2, o \in Nat, l \in Nat, PieceOf
      <4> QED BY <4>1, <4>3
    <3>2. PICK s : s = NonceTag \o SubSeq(e, 1, SeedLen) OBVIOUS
    <3>3. s \in Seq(Byte) BY <2>2, <3>1, <3>2, ConcatProperties
    <3>4. HashStrung' BY <1>0, <2>5, <3>2, <3>3, CallHashStrung
    <3>5. job'.entropy = e /\ job'.personalization = p BY <2>5
    <3>6. UNCHANGED <<fn, known>> BY <2>5 DEF args
    <3>7. DeriveStrung' BY <1>1, <1>3, <1>4, <2>2, <2>3, <2>5, <3>5, <3>6, SameNames
    <3> QED BY <3>4, <3>7 DEF Strung
  <2> QED BY <2>1, <2>4, <2>5
<1>8. CASE NonceMade
  <2>1. /\ stage = "nonce" /\ Returned /\ Seed(job.entropy \o out \o job.personalization)
        /\ UNCHANGED <<hashVars, prk, t>>
    BY <1>8 DEF NonceMade, deriveVars
  <2>2. {job.entropy, job.personalization} \subseteq Seq(Names(n))
    BY <1>0, <1>1, <1>2, <2>1 DEF DeriveStrung, StrungOver
  <2>3. out \in Seq(Names(n)) BY <1>0, <1>1, <1>2, <2>1, OutNames DEF Returned
  <2>4. PICK s : s = job.entropy \o out \o job.personalization OBVIOUS
  <2>5. s \in Seq(Names(n)) BY <1>5, <2>2, <2>3, <2>4
  <2> QED BY <1>6, <2>1, <2>4, <2>5
<1>9. CASE Reseed
  <2>1. PICK e \in Entropies, a \in Additional : Seed(e \o a) BY <1>9 DEF Reseed
  <2>2. UNCHANGED <<hashVars, prk, t>> BY <1>9 DEF Reseed, deriveVars
  <2>3. e \in Seq(Byte) /\ a \in Seq(Byte) BY DerivationAssumption
  <2>4. PICK s : s = e \o a OBVIOUS
  <2>5. s \in Seq(Names(n)) BY <1>4, <1>5, <2>3, <2>4
  <2> QED BY <1>6, <2>1, <2>2, <2>4, <2>5
<1> QED BY <1>7, <1>8, <1>9

(* ... and asked; its inputs are bytes that there are.                     *)
LEMMA RequestStrung ==
    ASSUME DerivationInv, Strung, Request \/ RequestStep \/ DrbgMac \/ DrbgTake
    PROVE  Strung'
<1>0. HashInv /\ StageTypes /\ HashStrung /\ DeriveStrung BY DEF DerivationInv, Strung
<1>1. PICK n \in Nat : n = Len(known) BY <1>0, LenProperties DEF HashInv, Knowing
<1>2. IsMd(fn) BY <1>0 DEF StageTypes, Request, RequestStep, DrbgMac, DrbgTake, Ready
<1>3. {prk, t, gen.key, gen.v} \subseteq Seq(Names(n)) /\ ArgsOver(todo, Names(n))
  BY <1>0, <1>1, <1>2 DEF DeriveStrung, StrungOver
<1>4. todo \in Seq(Tasks) /\ gen \in [key : Seq(Nat), v : Seq(Nat), count : Nat]
  BY <1>0 DEF StageTypes
<1>5. CASE Request
  <2>1. PICK m \in Requests, a \in Additional :
            todo' = UpdateIfAny(a) \o <<Task("check", <<>>)>>
                      \o [j \in 1 .. Blocks(m) |->
                             Task("out", Least(HashLen, m - HashLen * (j - 1)))]
                      \o AfterRequest(a)
    BY <1>5 DEF Request
  <2>2. stage = "drbg" /\ UNCHANGED <<hashVars, stage, job, deriveVars, gen, handed>>
    BY <1>5 DEF Request, Ready
  <2>3. m \in Nat /\ a \in Seq(Byte) BY DerivationAssumption
  <2>4. ArgsOver(todo', Names(n)) BY <2>1, <2>3, ArgsRequest DEF Outs
  <2>5. UNCHANGED <<fn, known, key, message, shortKey, data>> BY <2>2 DEF hashVars, args
  <2>6. HashStrung' BY <1>0, <2>5, SameStrung
  <2>7. DeriveStrung' BY <1>1, <1>3, <2>2, <2>4, <2>5, SameNames DEF deriveVars
  <2> QED BY <2>6, <2>7 DEF Strung
<1>6. CASE RequestStep
  <2>1. /\ stage = "drbg" /\ todo # <<>> /\ UNCHANGED <<hashVars, stage, job, deriveVars>>
        /\ todo' \in {<<>>, Tail(todo)}
    BY <1>6 DEF RequestStep
  <2>2. gen'.key = gen.key /\ gen'.v = gen.v
    <3>1. gen' = gen \/ gen' = [gen EXCEPT !.count = @ + 1] BY <1>6 DEF RequestStep
    <3> QED BY <1>4, <3>1
  <2>3. ArgsOver(todo', Names(n))
    <3>1. ArgsOver(Tail(todo), Names(n)) BY <1>3, <1>4, <2>1, ArgsTail
    <3>2. ArgsOver(<<>>, Names(n)) BY DEF ArgsOver
    <3> QED BY <2>1, <3>1, <3>2
  <2>4. UNCHANGED <<fn, known, key, message, shortKey, data>> BY <2>1 DEF hashVars, args
  <2>5. HashStrung' BY <1>0, <2>4, SameStrung
  <2>6. DeriveStrung' BY <1>1, <1>3, <2>1, <2>2, <2>3, <2>4, SameNames DEF deriveVars
  <2> QED BY <2>5, <2>6 DEF Strung
<1>7. CASE DrbgMac
  <2>1. /\ todo # <<>> /\ stage' = "mac"
        /\ CallHmac(gen.key, gen.v \o IF Head(todo).target = "key" THEN Head(todo).arg ELSE <<>>)
        /\ UNCHANGED <<job, deriveVars, drbgVars>>
    BY <1>7 DEF DrbgMac
  <2>2. PICK k, m : /\ k = gen.key
                    /\ m = gen.v \o IF Head(todo).target = "key" THEN Head(todo).arg ELSE <<>>
    OBVIOUS
  <2>3. k \in Seq(Names(n)) /\ m \in Seq(Names(n))
    <3>1. PICK a : a = IF Head(todo).target = "key" THEN Head(todo).arg ELSE <<>> OBVIOUS
    <3>2. a \in Seq(Names(n)) BY <1>3, <1>4, <2>1, <3>1, ArgsTail, NamesSeq
    <3> QED BY <1>3, <2>2, <3>1, <3>2, NamesSeq
  <2>4. CallHmac(k, m) BY <2>1, <2>2
  <2>5. HashStrung' BY <1>0, <1>1, <1>2, <2>3, <2>4, CallHmacStrung
  <2>6. UNCHANGED <<fn, known>> BY <2>4 DEF CallHmac
  <2>7. DeriveStrung' BY <1>1, <1>3, <2>1, <2>6, SameNames DEF deriveVars, drbgVars
  <2> QED BY <2>5, <2>7 DEF Strung
<1>8. CASE DrbgTake
  <2>1. /\ stage = "mac" /\ Returned /\ stage' = "drbg" /\ todo' = Tail(todo)
        /\ UNCHANGED <<hashVars, job, deriveVars, calls, fed>>
        /\ gen' = [gen EXCEPT !.key = out] \/ gen' = [gen EXCEPT !.v = out]
    BY <1>8 DEF DrbgTake
  <2>2. out \in Seq(Names(n)) BY <1>0, <1>1, <1>2, <2>1, OutNames DEF Returned
  <2>3. {gen'.key, gen'.v} \subseteq {gen.key, gen.v, out} BY <1>4, <2>1
  <2>4. ArgsOver(todo', Names(n))
    <3>1. todo # <<>> BY <1>0, <2>1 DEF StageTypes
    <3> QED BY <1>3, <1>4, <2>1, <3>1, ArgsTail
  <2>5. UNCHANGED <<fn, known, key, message, shortKey, data>> BY <2>1 DEF hashVars, args
  <2>6. HashStrung' BY <1>0, <2>5, SameStrung
  <2>7. DeriveStrung' BY <1>1, <1>3, <2>1, <2>2, <2>3, <2>4, <2>5, SameNames DEF deriveVars
  <2> QED BY <2>6, <2>7 DEF Strung
<1> QED BY <1>5, <1>6, <1>7, <1>8

(* The lengths of all that is hashed can be written behind it.             *)
AllFit == LengthFits(data) /\ LengthsFit

(* Every step only hashes what there is.                                   *)
LEMMA NextStrung ==
    ASSUME DerivationInv, AllFit, Strung, [Next]_vars
    PROVE  Strung'
<1>0. HashInv /\ HashStrung /\ DeriveStrung BY DEF DerivationInv, Strung
<1>1. CASE HashNext /\ UNCHANGED <<stage, job, deriveVars, drbgVars>>
  <2>1. HashStrung' BY <1>0, <1>1, HashNextStrung DEF AllFit
  <2>2. Grows BY <1>0, <1>1, HashNextGrows
  <2>3. DeriveStrung' BY <1>0, <1>1, <2>2, StrungStays DEF deriveVars, drbgVars
  <2> QED BY <2>1, <2>3 DEF Strung
<1>2. CASE UNCHANGED vars
  <2>1. UNCHANGED <<fn, known, key, message, shortKey, data, stage, job, prk, t, gen, todo>>
    BY <1>2 DEF vars, hashVars, args, deriveVars, drbgVars
  <2>2. HashStrung' BY <1>0, <2>1, SameStrung
  <2>3. Grows BY <1>0, <2>1, SameGrows
  <2>4. DeriveStrung' BY <1>0, <2>1, <2>3, StrungStays
  <2> QED BY <2>2, <2>4 DEF Strung
<1> QED BY <1>1, <1>2, PlainStrung, DerivationStrung, SeedingStrung, RequestStrung DEF Next

-----------------------------------------------------------------------------
(* What is mixed in with a task.                                           *)
Given(p) == IF p.target = "key" THEN p.arg ELSE <<>>

(* A generator's key and v are as long as a digest, and while it calls     *)
(* hmac_sha256(), it is with these.                                        *)
GenCalls ==
    /\ stage \in {"drbg", "mac"} => Len(gen.key) = HashLen /\ Len(gen.v) = HashLen
    /\ stage = "mac" => /\ Head(todo).target \in {"key", "v", "out"}
                        /\ use \in {"key", "inner", "outer"}
                        /\ key = gen.key /\ message = gen.v \o Given(Head(todo))

(* What a step is for the generator.                                       *)
GenSame  == Grows /\ UNCHANGED <<stage, gen, todo, fed, handed>>
GenStart == \E s \in Seq(Nat) : Seed(s) /\ UNCHANGED hashVars
GenElse  == stage' \notin {"drbg", "mac"}

(* What each step is, seen from the generator.                             *)
LEMMA GenCases ==
    ASSUME DerivationInv, [Next]_vars
    PROVE  \/ GenSame /\ UNCHANGED args
              /\ (use \in {"key", "inner", "outer"} => use' \in {"key", "inner", "outer"})
           \/ GenStart \/ GenElse \/ Request \/ RequestStep \/ DrbgMac \/ DrbgTake
<1>0. HashInv /\ StageTypes BY DEF DerivationInv
<1>1. CASE HashNext /\ UNCHANGED <<stage, job, deriveVars, drbgVars>>
  <2>1. Grows /\ UNCHANGED args
        /\ (use \in {"key", "inner", "outer"} => use' \in {"key", "inner", "outer"})
    BY <1>0, <1>1, HashNextGrows
  <2> QED BY <1>1, <2>1 DEF GenSame, drbgVars
<1>2. CASE UNCHANGED vars
  <2>1. UNCHANGED <<fn, known, use, args, stage, gen, todo, fed, handed>>
    BY <1>2 DEF vars, hashVars, args, drbgVars
  <2>2. Grows BY <1>0, <2>1, SameGrows
  <2> QED BY <2>1, <2>2 DEF GenSame
<1>3. CASE Plain \/ HkdfExtract \/ HkdfExpand \/ HkdfBlock \/ HkdfTake
             \/ Pbkdf2 \/ Pbkdf2Block \/ DeriveEnd
  <2>1. stage' \in {"plain", "extract", "expand", "refused", "expanding", "blocks", "mixing",
                    "ended"}
    BY <1>3 DEF Plain, HkdfExtract, HkdfExpand, HkdfBlock, HkdfTake, Pbkdf2, Pbkdf2Block, DeriveEnd
  <2> QED BY <2>1 DEF GenElse
<1>4. CASE Pbkdf2Mix
  <2>1. stage' \in {"mixing", "blocks"} BY <1>4 DEF Pbkdf2Mix
  <2> QED BY <2>1 DEF GenElse
<1>5. CASE Instantiate
  <2>1. PICK e \in Entropies, p \in Personalizations :
            \/ (\E nonce \in Nonces : Seed(e \o nonce \o p)) /\ UNCHANGED <<hashVars, job>>
            \/ stage' = "nonce"
    BY <1>5 DEF Instantiate
  <2>2. e \in Seq(Nat) /\ p \in Seq(Nat) BY DerivationAssumption, Strings
  <2>3. CASE (\E nonce \in Nonces : Seed(e \o nonce \o p)) /\ UNCHANGED <<hashVars, job>>
    <3>1. PICK nonce \in Nonces : Seed(e \o nonce \o p) BY <2>3
    <3>2. nonce \in Seq(Nat) BY DerivationAssumption, Strings
    <3>3. PICK s : s = e \o nonce \o p OBVIOUS
    <3>4. s \in Seq(Nat) BY <2>2, <3>2, <3>3, Strings
    <3> QED BY <2>3, <3>1, <3>3, <3>4 DEF GenStart
  <2> QED BY <2>1, <2>3 DEF GenElse
<1>6. CASE NonceMade
  <2>1. /\ stage = "nonce" /\ Returned /\ Seed(job.entropy \o out \o job.personalization)
        /\ UNCHANGED hashVars
    BY <1>6 DEF NonceMade
  <2>2. job.entropy \in Seq(Nat) /\ job.personalization \in Seq(Nat)
    BY <1>0, <2>1 DEF StageTypes
  <2>3. out \in Seq(Nat)
    <3>1. IsMd(fn) BY <1>0, <2>1 DEF StageTypes
    <3>2. Len(known) \in Nat /\ out \in Seq(Names(Len(known)))
      <4>1. Len(known) \in Nat BY <1>0, LenProperties DEF HashInv, Knowing
      <4>2. PICK k \in 1 .. Len(known) : out = DigestBytes(k)
        BY <1>0, <2>1, <3>1 DEF HashInv, Knowing, Hashed, Returned
      <4>3. k \in Nat /\ k > 0 /\ k <= Len(known) BY <4>1, <4>2
      <4> QED BY <4>1, <4>2, <4>3, DigestNames
    <3> QED BY <3>2, NamesSeq
  <2>4. PICK s : s = job.entropy \o out \o job.personalization OBVIOUS
  <2>5. s \in Seq(Nat) BY <2>2, <2>3, <2>4, Strings
  <2> QED BY <2>1, <2>4, <2>5 DEF GenStart
<1>7. CASE Reseed
  <2>1. PICK e \in Entropies, a \in Additional : Seed(e \o a) BY <1>7 DEF Reseed
  <2>2. e \in Seq(Nat) /\ a \in Seq(Nat) BY DerivationAssumption, Strings
  <2>3. PICK s : s = e \o a OBVIOUS
  <2>4. s \in Seq(Nat) BY <2>2, <2>3, Strings
  <2>5. UNCHANGED hashVars BY <1>7 DEF Reseed
  <2> QED BY <2>1, <2>3, <2>4, <2>5 DEF GenStart
<1> QED BY <1>1, <1>2, <1>3, <1>4, <1>5, <1>6, <1>7 DEF Next

(* What DrbgTake takes is a MAC of the state, with a digest that is newer  *)
(* than it.                                                                *)
LEMMA TaskMade ==
    ASSUME DerivationInv, AllFit, HashStrung, GenCalls, DrbgTake
    PROVE  /\ fn \in MdFunctions /\ known \in Seq(States) /\ Grounded
           /\ \E j \in Nat : /\ j > 0 /\ j - 1 \in Nat /\ out = DigestBytes(j)
                             /\ IsMac(j, gen.key, gen.v \o Given(Head(todo)))
                             /\ gen.key \in Seq(Names(j - 1)) /\ gen.v \in Seq(Names(j - 1))
<1>0. HashInv /\ StageTypes BY DEF DerivationInv
<1>1. stage = "mac" /\ Returned BY DEF DrbgTake
<1>2. IsMd(fn) BY <1>0, <1>1 DEF StageTypes
<1>3. fn \in MdFunctions
  <2>1. fn \in MdFunctions \cup Sponges BY <1>0 DEF HashInv, HashTypes
  <2> QED BY <1>2, <2>1, SpongeNumbers
<1>4. known \in Seq(States) BY <1>0 DEF HashInv, Knowing
<1>5. use = "outer" /\ pc = "done" BY <1>1 DEF GenCalls, Returned
<1>6. PICK j \in 1 .. Len(known) : out = DigestBytes(j) /\ IsMac(j, shortKey, message)
  BY <1>0, <1>5, MacMade DEF AllFit
<1>7. /\ key = gen.key /\ message = gen.v \o Given(Head(todo)) /\ Len(gen.key) = HashLen
  BY <1>1 DEF GenCalls
<1>8. shortKey = gen.key
  <2>1. HashLen <= fn.block BY <1>3, MdNumbers
  <2>2. Len(key) <= fn.block BY <1>7, <2>1
  <2> QED BY <1>0, <1>5, <1>7, <2>2 DEF HashInv, MacStages
<1>9. PICK m : m = gen.v \o Given(Head(todo)) OBVIOUS
<1>10. IsMac(j, gen.key, m) BY <1>6, <1>7, <1>8, <1>9
<1>11. Grounded BY <1>2 DEF HashStrung
<1>12. /\ j \in Nat /\ j > 0 /\ j - 1 \in Nat
       /\ gen.key \in Seq(Names(j - 1)) /\ m \in Seq(Names(j - 1))
  BY <1>3, <1>4, <1>10, <1>11, MacNames
<1>13. gen.v \in Seq(Names(j - 1))
  <2>1. /\ todo \in Seq(Tasks) /\ todo # <<>> /\ gen \in [key : Seq(Nat), v : Seq(Nat), count : Nat]
    BY <1>0, <1>1 DEF StageTypes
  <2>2. PICK p \in Tasks : p = Head(todo) BY <2>1, HeadTailProperties
  <2>3. Given(p) \in Seq(Nat) BY <2>2, Strings DEF Given, Tasks
  <2>4. gen.v \in Seq(Nat) BY <2>1
  <2>5. IsConcat(m, gen.v, Given(p)) BY <1>9, <2>2, <2>3, <2>4, ConcatParts
  <2>6. PICK o \in Nat : o = 0 OBVIOUS
  <2>7. o + Len(gen.v) <= Len(m) /\ \A x \in 1 .. Len(gen.v) : m[o + x] = gen.v[x]
    BY <2>5, <2>6 DEF IsConcat
  <2>8. gen.v \in Seq(Int) BY <2>4, Strings
  <2> QED BY <1>12, <2>6, <2>7, <2>8, PlacedOver
<1> QED BY <1>3, <1>4, <1>6, <1>9, <1>10, <1>11, <1>12, <1>13

(* What a seeding leaves.                                                  *)
LEMMA SeedLeaves ==
    ASSUME NEW s, Seed(s)
    PROVE  /\ stage' = "drbg" /\ todo' = Update(s) /\ handed' = <<>> /\ fed' = <<s>>
           /\ gen' = [key |-> Zeros(HashLen), v |-> [j \in 1 .. HashLen |-> 1], count |-> 1]
           /\ gen'.key \in Seq(Nat) /\ Len(gen'.key) = HashLen
           /\ gen'.v \in Seq(Nat) /\ Len(gen'.v) = HashLen
<1>1. HashLen \in Nat BY DigestAssumption
<1>2. Zeros(HashLen) \in Seq(Nat) /\ Len(Zeros(HashLen)) = HashLen BY <1>1, ZerosType
<1>3. PICK v : v = [j \in 1 .. HashLen |-> 1] OBVIOUS
<1>4. v \in [1 .. HashLen -> Nat] BY <1>3
<1>5. v \in Seq(Nat) /\ Len(v) = HashLen BY <1>1, <1>4, StringLength
<1> QED BY <1>2, <1>3, <1>5 DEF Seed

(* A generator's HMAC is one of its key and v, in every step.              *)
LEMMA GenCallsNext ==
    ASSUME DerivationInv, AllFit, HashStrung, GenCalls, [Next]_vars
    PROVE  GenCalls'
<1>0. HashInv /\ StageTypes BY DEF DerivationInv
<1>1. todo \in Seq(Tasks) /\ gen \in [key : Seq(Nat), v : Seq(Nat), count : Nat]
  BY <1>0 DEF StageTypes
<1>2. CASE GenSame /\ UNCHANGED args
           /\ (use \in {"key", "inner", "outer"} => use' \in {"key", "inner", "outer"})
  BY <1>2 DEF GenSame, GenCalls, args, Given
<1>3. CASE GenStart
  <2>1. stage' = "drbg" /\ Len(gen'.key) = HashLen /\ Len(gen'.v) = HashLen
    BY <1>3, SeedLeaves DEF GenStart
  <2> QED BY <2>1 DEF GenCalls
<1>4. CASE GenElse BY <1>4 DEF GenElse, GenCalls
<1>5. CASE Request
  <2>1. stage = "drbg" /\ stage' = stage /\ gen' = gen BY <1>5 DEF Request, Ready
  <2> QED BY <2>1 DEF GenCalls
<1>6. CASE RequestStep
  <2>1. stage = "drbg" /\ stage' = stage BY <1>6 DEF RequestStep
  <2>2. gen'.key = gen.key /\ gen'.v = gen.v
    <3>1. gen' = gen \/ gen' = [gen EXCEPT !.count = @ + 1] BY <1>6 DEF RequestStep
    <3> QED BY <1>1, <3>1
  <2> QED BY <2>1, <2>2 DEF GenCalls
<1>7. CASE DrbgMac
  <2>1. /\ stage = "drbg" /\ Head(todo).target \in {"key", "v", "out"} /\ stage' = "mac"
        /\ CallHmac(gen.key, gen.v \o Given(Head(todo)))
        /\ UNCHANGED <<gen, todo>>
    BY <1>7 DEF DrbgMac, drbgVars, Given
  <2>2. use' \in {"key", "inner"} /\ key' = gen.key /\ message' = gen.v \o Given(Head(todo))
    BY <1>0, <2>1, CallHmacGrows
  <2> QED BY <2>1, <2>2 DEF GenCalls, Given
<1>8. CASE DrbgTake
  <2>1. /\ stage = "mac" /\ stage' = "drbg"
        /\ gen' = [gen EXCEPT !.key = out] \/ gen' = [gen EXCEPT !.v = out]
    BY <1>8 DEF DrbgTake
  <2>2. PICK j \in Nat : j > 0 /\ out = DigestBytes(j) BY <1>8, TaskMade
  <2>3. Len(out) = HashLen BY <2>2, DigestBytesType
  <2>4. {gen'.key, gen'.v} \subseteq {gen.key, gen.v, out} BY <1>1, <2>1
  <2> QED BY <2>1, <2>3, <2>4 DEF GenCalls
<1> QED BY <1>2, <1>3, <1>4, <1>5, <1>6, <1>7, <1>8, GenCases

-----------------------------------------------------------------------------
(* Strings that have no element in common.                                 *)
Disjoint(s, u) == \A x \in 1 .. Len(s), y \in 1 .. Len(u) : s[x] # u[y]

(* v is going to be replaced.                                              *)
VLeft(s) == \E x \in 1 .. Len(s) : s[x].target = "v"

(* The check is still to come.                                             *)
CheckLeft(s) == \E x \in 1 .. Len(s) : s[x].target = "check"

(* What is given out comes behind the check, and v is replaced after it.   *)
OutOrder(s) ==
    \A x \in 1 .. Len(s) : s[x].target = "out" =>
        /\ s[x].arg \in 1 .. HashLen
        /\ \E y \in 1 .. Len(s) : x < y /\ s[y].target = "v"
        /\ \A y \in 1 .. Len(s) : x < y => s[y].target # "check"

(* The bytes that were handed out are those of digests no newer than v,    *)
(* and are not in the state, unless v is going to be replaced.             *)
Handing ==
    stage \in {"drbg", "mac"} =>
        /\ handed \in Seq(Nat) /\ IsInjective(handed) /\ Disjoint(handed, gen.key)
        /\ handed # <<>> =>
              \E e \in Nat : e > 0 /\ gen.v = DigestBytes(e) /\ handed \in Seq(Names(e))
        /\ CheckLeft(todo) \/ ~VLeft(todo) => Disjoint(handed, gen.v)
        /\ OutOrder(todo)

(* A digest is newer than names made before it.                            *)
LEMMA DigestNewer ==
    ASSUME NEW j \in Nat, j > 0, NEW s \in Seq(Nat), s \in Seq(Names(j - 1))
    PROVE  Disjoint(s, DigestBytes(j))
<1>1. PICK h \in Nat, z \in Nat, q \in Nat : h = HashLen /\ q = j - 1 /\ z = Size(q)
  <2>1. j - 1 \in Nat OBVIOUS
  <2> QED BY <2>1, SizeType, DigestAssumption
<1>2. PICK d : d = DigestBytes(j) OBVIOUS
<1>3. Len(d) = h /\ \A x \in 1 .. h : d[x] = z + x - 1 BY <1>1, <1>2, DigestNames
<1>4. ASSUME NEW x \in 1 .. Len(s), NEW y \in 1 .. Len(d) PROVE s[x] # d[y]
  <2>1. s[x] \in Names(q) BY <1>1, ElementOfSeq
  <2>2. s[x] < z /\ s[x] \in Int BY <1>1, <2>1 DEF Names
  <2>3. d[y] >= z BY <1>1, <1>3
  <2> QED BY <1>1, <2>2, <2>3
<1> QED BY <1>2, <1>4 DEF Disjoint

(* What was handed out is older than the next digest.                      *)
LEMMA HandedOlder ==
    ASSUME Handing, stage = "mac", NEW j \in Nat, j - 1 \in Nat, gen.v \in Seq(Names(j - 1))
    PROVE  handed \in Seq(Names(j - 1))
<1>1. PICK q \in Nat : q = j - 1 OBVIOUS
<1>2. CASE handed = <<>> BY <1>1, <1>2, NamesSeq
<1>3. CASE handed # <<>>
  <2>1. PICK e \in Nat : e > 0 /\ gen.v = DigestBytes(e) /\ handed \in Seq(Names(e))
    BY <1>3 DEF Handing
  <2>2. DigestBytes(e) \in Seq(Masks(q)) BY <1>1, <2>1, NamesSeq
  <2>3. e <= q BY <2>1, <2>2, DigestBelow
  <2>4. Seq(Names(e)) \subseteq Seq(Names(q)) BY <2>3, SizeGrows
  <2> QED BY <1>1, <2>1, <2>4
<1> QED BY <1>2, <1>3

(* The first task done, the rest is in order.                              *)
LEMMA TailOrder ==
    ASSUME NEW s \in Seq(Tasks), s # <<>>
    PROVE  /\ VLeft(s) => Head(s).target = "v" \/ VLeft(Tail(s))
           /\ VLeft(Tail(s)) => VLeft(s)
           /\ CheckLeft(Tail(s)) => CheckLeft(s)
           /\ Head(s).target = "check" => CheckLeft(s)
           /\ OutOrder(s) => OutOrder(Tail(s))
           /\ OutOrder(s) /\ Head(s).target = "out" =>
                 Head(s).arg \in 1 .. HashLen /\ VLeft(Tail(s)) /\ ~CheckLeft(Tail(s))
<1>1. PICK n \in Nat : n = Len(s) BY LenProperties
<1>2. n > 0 BY <1>1, EmptySeq
<1>3. PICK u : u = Tail(s) OBVIOUS
<1>4. Len(u) = n - 1 /\ \A x \in 1 .. n - 1 : u[x] = s[x + 1]
  BY <1>1, <1>2, <1>3, HeadTailProperties
<1>5. Head(s) = s[1] /\ 1 \in 1 .. Len(s) BY <1>1, <1>2
<1>6. \A y \in 1 .. n : y = 1 \/ \E x \in 1 .. n - 1 : y = x + 1
  <2>1. ASSUME NEW y \in 1 .. n, y # 1 PROVE \E x \in 1 .. n - 1 : y = x + 1
    <3>1. y - 1 \in 1 .. n - 1 /\ y = (y - 1) + 1 BY <2>1
    <3> QED BY <3>1
  <2> QED BY <2>1
<1>7. VLeft(s) => Head(s).target = "v" \/ VLeft(u)
  BY <1>1, <1>4, <1>5, <1>6 DEF VLeft
<1>8. \A x \in 1 .. n - 1 : x + 1 \in 1 .. n BY <1>1
<1>9. (VLeft(u) => VLeft(s)) /\ (CheckLeft(u) => CheckLeft(s))
  BY <1>1, <1>4, <1>8 DEF VLeft, CheckLeft
<1>10. Head(s).target = "check" => CheckLeft(s) BY <1>5 DEF CheckLeft
<1>11. ASSUME OutOrder(s) PROVE OutOrder(u)
  <2>1. ASSUME NEW x \in 1 .. n - 1, u[x].target = "out"
        PROVE  /\ u[x].arg \in 1 .. HashLen
               /\ \E y \in 1 .. n - 1 : x < y /\ u[y].target = "v"
               /\ \A y \in 1 .. n - 1 : x < y => u[y].target # "check"
    <3>1. PICK z \in 1 .. n : z = x + 1 BY <1>8
    <3>2. s[z].target = "out" BY <1>4, <2>1, <3>1
    <3>3. /\ s[z].arg \in 1 .. HashLen
          /\ \E y \in 1 .. n : z < y /\ s[y].target = "v"
          /\ \A y \in 1 .. n : z < y => s[y].target # "check"
      BY <1>1, <1>11, <3>2 DEF OutOrder
    <3>4. PICK y \in 1 .. n : z < y /\ s[y].target = "v" BY <3>3
    <3>5. PICK w \in 1 .. n - 1 : y = w + 1 BY <1>6, <3>1, <3>4
    <3>6. x < w /\ u[w].target = "v" BY <1>4, <3>1, <3>4, <3>5
    <3>7. ASSUME NEW c \in 1 .. n - 1, x < c PROVE u[c].target # "check"
      <4>1. PICK d \in 1 .. n : d = c + 1 BY <1>8
      <4>2. z < d BY <3>1, <3>7, <4>1
      <4> QED BY <1>4, <3>3, <4>1, <4>2
    <3> QED BY <1>4, <3>1, <3>3, <3>6, <3>7
  <2> QED BY <1>4, <2>1 DEF OutOrder
<1>12. ASSUME OutOrder(s), Head(s).target = "out"
       PROVE  Head(s).arg \in 1 .. HashLen /\ VLeft(u) /\ ~CheckLeft(u)
  <2>1. /\ s[1].arg \in 1 .. HashLen
        /\ \E y \in 1 .. n : 1 < y /\ s[y].target = "v"
        /\ \A y \in 1 .. n : 1 < y => s[y].target # "check"
    BY <1>1, <1>5, <1>12 DEF OutOrder
  <2>2. VLeft(u)
    <3>1. PICK y \in 1 .. n : 1 < y /\ s[y].target = "v" BY <2>1
    <3>2. PICK x \in 1 .. n - 1 : y = x + 1 BY <1>6, <3>1
    <3>3. u[x].target = "v" BY <1>4, <3>1, <3>2
    <3> QED BY <1>4, <3>3 DEF VLeft
  <2>3. ASSUME NEW x \in 1 .. n - 1 PROVE u[x].target # "check"
    <3>1. PICK y \in 1 .. n : y = x + 1 BY <1>8
    <3>2. 1 < y BY <3>1
    <3> QED BY <1>4, <2>1, <3>1, <3>2
  <2> QED BY <1>4, <1>5, <2>1, <2>2, <2>3 DEF CheckLeft
<1> QED BY <1>3, <1>7, <1>9, <1>10, <1>11, <1>12

(* The tasks of _update() are for key and for v.                           *)
LEMMA UpdateTargets ==
    ASSUME NEW s \in Seq(Nat)
    PROVE  /\ \A x \in 1 .. Len(Update(s)) : Update(s)[x].target \in {"key", "v"}
           /\ \A x \in 1 .. Len(UpdateIfAny(s)) : UpdateIfAny(s)[x].target \in {"key", "v"}
           /\ VLeft(Update(s))
<1>1. PICK a, b, c : /\ a = Task("key", <<0>> \o s) /\ b = Task("key", <<1>> \o s)
                     /\ c = Task("v", <<>>)
  OBVIOUS
<1>2. a.target = "key" /\ b.target = "key" /\ c.target = "v" BY <1>1, TaskType
<1>3. PICK p, q : p = <<a, c>> /\ q = IF s = <<>> THEN <<>> ELSE <<b, c>> OBVIOUS
<1>4. p \in Seq({a, b, c}) /\ q \in Seq({a, b, c})
  <2>1. PICK d : d = <<b, c>> OBVIOUS
  <2>2. d \in Seq({a, b, c}) /\ <<>> \in Seq({a, b, c}) BY <2>1
  <2>3. q = d \/ q = <<>> BY <1>3, <2>1
  <2>4. p \in Seq({a, b, c}) BY <1>3
  <2> QED BY <2>2, <2>3, <2>4
<1>5. PICK w : w = p \o q OBVIOUS
<1>6. IsConcat(w, p, q) /\ w \in Seq({a, b, c}) BY <1>4, <1>5, ConcatParts
<1>7. Update(s) = w BY <1>1, <1>3, <1>5 DEF Update
<1>8. \A x \in 1 .. Len(w) : w[x].target \in {"key", "v"}
  <2>1. ASSUME NEW x \in 1 .. Len(w) PROVE w[x].target \in {"key", "v"}
    <3>1. w[x] \in {a, b, c} BY <1>6, ElementOfSeq
    <3> QED BY <1>2, <3>1
  <2> QED BY <2>1
<1>9. VLeft(w)
  <2>1. Len(p) = 2 /\ p[2] = c BY <1>3
  <2>2. w[2] = c /\ Len(q) \in Nat /\ Len(w) = 2 + Len(q) BY <1>6, <2>1 DEF IsConcat
  <2>3. 2 \in 1 .. Len(w) BY <2>2
  <2> QED BY <1>2, <2>2, <2>3 DEF VLeft
<1>10. UpdateIfAny(s) = <<>> \/ UpdateIfAny(s) = w BY <1>7 DEF UpdateIfAny
<1>11. \A x \in 1 .. Len(UpdateIfAny(s)) : UpdateIfAny(s)[x].target \in {"key", "v"}
  <2>1. CASE UpdateIfAny(s) = <<>> BY <2>1
  <2>2. CASE UpdateIfAny(s) = w BY <1>8, <2>2
  <2> QED BY <1>10, <2>1, <2>2
<1> QED BY <1>7, <1>8, <1>9, <1>11

(* What each element of a string has, those of its parts have, and the     *)
(* other way round.                                                        *)
Targets(s, T) == \A x \in 1 .. Len(s) : s[x].target \in T

(* Targets of one string of tasks behind the other.                        *)
LEMMA TargetsConcat ==
    ASSUME NEW T, NEW s \in Seq(Tasks), NEW u \in Seq(Tasks), Targets(s, T), Targets(u, T)
    PROVE  Targets(s \o u, T)
<1>1. PICK w : w = s \o u OBVIOUS
<1>2. IsConcat(w, s, u) BY <1>1, ConcatParts
<1>3. PICK n \in Nat, m \in Nat : n = Len(s) /\ m = Len(u) BY LenProperties
<1>4. ASSUME NEW x \in 1 .. Len(w) PROVE w[x].target \in T
  <2>1. Len(w) = n + m BY <1>2, <1>3 DEF IsConcat
  <2>2. CASE x <= n
    <3>1. x \in 1 .. Len(s) BY <1>3, <2>2
    <3> QED BY <1>2, <3>1 DEF IsConcat, Targets
  <2>3. CASE ~(x <= n)
    <3>1. PICK y \in 1 .. m : x = n + y
      <4>1. x - n \in 1 .. m /\ x = n + (x - n) BY <1>3, <2>1, <2>3
      <4> QED BY <4>1
    <3>2. w[x] = u[y] BY <1>2, <1>3, <3>1 DEF IsConcat
    <3> QED BY <1>3, <3>1, <3>2 DEF Targets
  <2> QED BY <2>2, <2>3
<1> QED BY <1>1, <1>4 DEF Targets

(* A replacement of v stays one in a longer string.                        *)
LEMMA VConcat ==
    ASSUME NEW s \in Seq(Tasks), NEW u \in Seq(Tasks), VLeft(s)
    PROVE  VLeft(s \o u)
<1>1. PICK w : w = s \o u OBVIOUS
<1>2. IsConcat(w, s, u) BY <1>1, ConcatParts
<1>3. PICK x \in 1 .. Len(s) : s[x].target = "v" BY DEF VLeft
<1>4. x \in 1 .. Len(w) /\ w[x] = s[x] BY <1>2, <1>3 DEF IsConcat
<1> QED BY <1>1, <1>3, <1>4 DEF VLeft

(* Output is in order behind tasks that give none, ...                     *)
LEMMA OrderBehind ==
    ASSUME NEW s \in Seq(Tasks), NEW u \in Seq(Tasks), Targets(s, {"key", "v", "check"}),
           OutOrder(u)
    PROVE  OutOrder(s \o u)
<1>1. PICK w : w = s \o u OBVIOUS
<1>2. IsConcat(w, s, u) BY <1>1, ConcatParts
<1>3. PICK n \in Nat, m \in Nat : n = Len(s) /\ m = Len(u) BY LenProperties
<1>4. Len(w) = n + m /\ \A y \in 1 .. m : w[n + y] = u[y] BY <1>2, <1>3 DEF IsConcat
<1>5. ASSUME NEW x \in 1 .. n + m, ~(x <= n) PROVE \E y \in 1 .. m : x = n + y
  <2>1. x - n \in 1 .. m /\ x = n + (x - n) BY <1>5
  <2> QED BY <2>1
<1>6. ASSUME NEW x \in 1 .. n + m, w[x].target = "out"
      PROVE  /\ w[x].arg \in 1 .. HashLen
             /\ \E y \in 1 .. n + m : x < y /\ w[y].target = "v"
             /\ \A y \in 1 .. n + m : x < y => w[y].target # "check"
  <2>1. ~(x <= n)
    <3> SUFFICES ASSUME x <= n PROVE FALSE OBVIOUS
    <3>1. x \in 1 .. Len(s) BY <1>3
    <3>2. w[x] = s[x] BY <1>2, <3>1 DEF IsConcat
    <3> QED BY <1>6, <3>1, <3>2 DEF Targets
  <2>2. PICK z \in 1 .. m : x = n + z BY <1>5, <2>1
  <2>3. u[z].target = "out" BY <1>4, <1>6, <2>2
  <2>4. /\ u[z].arg \in 1 .. HashLen
        /\ \E y \in 1 .. m : z < y /\ u[y].target = "v"
        /\ \A y \in 1 .. m : z < y => u[y].target # "check"
    BY <1>3, <2>3 DEF OutOrder
  <2>5. PICK y \in 1 .. m : z < y /\ u[y].target = "v" BY <2>4
  <2>6. PICK c \in 1 .. n + m : c = n + y OBVIOUS
  <2>7. x < c /\ w[c].target = "v" BY <1>4, <2>2, <2>5, <2>6
  <2>8. ASSUME NEW d \in 1 .. n + m, x < d PROVE w[d].target # "check"
    <3>1. ~(d <= n) BY <2>2, <2>8
    <3>2. PICK e \in 1 .. m : d = n + e BY <1>5, <3>1
    <3>3. z < e BY <2>2, <2>8, <3>2
    <3> QED BY <1>4, <2>4, <3>2, <3>3
  <2> QED BY <1>4, <2>2, <2>4, <2>7, <2>8
<1> QED BY <1>1, <1>4, <1>6 DEF OutOrder

(* ... and before a replacement of v.                                      *)
LEMMA OrderBefore ==
    ASSUME NEW s \in Seq(Tasks), NEW u \in Seq(Tasks), Targets(s, {"out"}),
           \A x \in 1 .. Len(s) : s[x].arg \in 1 .. HashLen,
           Targets(u, {"key", "v", "count"}), VLeft(u)
    PROVE  OutOrder(s \o u)
<1>1. PICK w : w = s \o u OBVIOUS
<1>2. IsConcat(w, s, u) BY <1>1, ConcatParts
<1>3. PICK n \in Nat, m \in Nat : n = Len(s) /\ m = Len(u) BY LenProperties
<1>4. /\ Len(w) = n + m /\ \A y \in 1 .. m : w[n + y] = u[y]
      /\ \A y \in 1 .. n : w[y] = s[y]
  BY <1>2, <1>3 DEF IsConcat
<1>5. ASSUME NEW x \in 1 .. n + m, ~(x <= n) PROVE w[x].target \in {"key", "v", "count"}
  <2>1. PICK y \in 1 .. m : x = n + y
    <3>1. x - n \in 1 .. m /\ x = n + (x - n) BY <1>5
    <3> QED BY <3>1
  <2> QED BY <1>3, <1>4, <2>1 DEF Targets
<1>6. PICK v \in 1 .. m : u[v].target = "v" BY <1>3 DEF VLeft
<1>7. PICK c \in 1 .. n + m : c = n + v OBVIOUS
<1>8. w[c].target = "v" BY <1>4, <1>6, <1>7
<1>9. ASSUME NEW x \in 1 .. n + m, w[x].target = "out"
      PROVE  /\ w[x].arg \in 1 .. HashLen
             /\ \E y \in 1 .. n + m : x < y /\ w[y].target = "v"
             /\ \A y \in 1 .. n + m : x < y => w[y].target # "check"
  <2>1. x <= n BY <1>5, <1>9
  <2>2. x \in 1 .. n /\ x < c BY <1>7, <2>1
  <2>3. w[x].arg \in 1 .. HashLen BY <1>3, <1>4, <2>2
  <2>4. ASSUME NEW y \in 1 .. n + m PROVE w[y].target # "check"
    <3>1. CASE y <= n
      <4>1. y \in 1 .. n BY <3>1
      <4> QED BY <1>3, <1>4, <4>1 DEF Targets
    <3>2. CASE ~(y <= n) BY <1>5, <3>2
    <3> QED BY <3>1, <3>2
  <2> QED BY <1>8, <2>2, <2>3, <2>4
<1> QED BY <1>1, <1>4, <1>9 DEF OutOrder

(* The tasks of random_bytes() are in order.                               *)
LEMMA RequestOrder ==
    ASSUME NEW s \in Seq(Nat), NEW n \in Nat
    PROVE  OutOrder(UpdateIfAny(s) \o <<Task("check", <<>>)>> \o Outs(n) \o AfterRequest(s))
<1>1. PICK a, b, c, u, v : /\ a = <<Task("check", <<>>)>> /\ b = <<Task("count", <<>>)>>
                           /\ c = Outs(n) /\ u = UpdateIfAny(s) /\ v = Update(s)
  OBVIOUS
<1>2. /\ u \in Seq(Tasks) /\ v \in Seq(Tasks) /\ VLeft(v)
      /\ Targets(u, {"key", "v"}) /\ Targets(v, {"key", "v"})
  BY <1>1, UpdateType, UpdateTargets DEF Targets
<1>3. a \in Seq(Tasks) /\ b \in Seq(Tasks) /\ Targets(a, {"check"}) /\ Targets(b, {"count"})
  <2>1. <<>> \in Seq(Nat) BY Strings
  <2>2. PICK p, q : p = Task("check", <<>>) /\ q = Task("count", <<>>) OBVIOUS
  <2>3. /\ p \in Tasks /\ q \in Tasks /\ p.target = "check" /\ q.target = "count"
    BY <2>1, <2>2, TaskType
  <2>4. a = <<p>> /\ b = <<q>> BY <1>1, <2>2
  <2>5. a \in Seq(Tasks) /\ b \in Seq(Tasks) BY <2>3, <2>4
  <2>6. Len(a) = 1 /\ Len(b) = 1 /\ a[1] = p /\ b[1] = q BY <2>4
  <2> QED BY <2>3, <2>5, <2>6 DEF Targets
<1>4. /\ c \in Seq(Tasks) /\ Targets(c, {"out"})
      /\ \A x \in 1 .. Len(c) : c[x].arg \in 1 .. HashLen
  BY <1>1, OutsType DEF Targets
<1>5. PICK p, z, d : p = u \o a /\ z = v \o b /\ d = c \o z OBVIOUS
<1>6. p \in Seq(Tasks) /\ Targets(p, {"key", "v", "check"})
  <2>1. Targets(u, {"key", "v", "check"}) /\ Targets(a, {"key", "v", "check"})
    BY <1>2, <1>3 DEF Targets
  <2> QED BY <1>2, <1>3, <1>5, <2>1, TargetsConcat, ConcatProperties
<1>7. z \in Seq(Tasks) /\ Targets(z, {"key", "v", "count"}) /\ VLeft(z)
  <2>1. Targets(v, {"key", "v", "count"}) /\ Targets(b, {"key", "v", "count"})
    BY <1>2, <1>3 DEF Targets
  <2> QED BY <1>2, <1>3, <1>5, <2>1, TargetsConcat, VConcat, ConcatProperties
<1>8. OutOrder(d) BY <1>4, <1>5, <1>7, OrderBefore
<1>9. d \in Seq(Tasks) BY <1>4, <1>5, <1>7, ConcatProperties
<1>10. OutOrder(p \o d) BY <1>6, <1>8, <1>9, OrderBehind
<1>11. (p \o c) \o z = p \o d
  <2>1. \A x, y, w \in Seq(Tasks) : (x \o y) \o w = x \o (y \o w)
    BY ConcatAssociative
  <2> QED BY <1>4, <1>5, <1>6, <1>7, <2>1
<1> QED BY <1>1, <1>5, <1>10, <1>11 DEF AfterRequest

(* Bytes of a digest behind older ones.                                    *)
LEMMA HandMore ==
    ASSUME NEW j \in Nat, j > 0, NEW s \in Seq(Names(j - 1)), IsInjective(s),
           NEW n \in 1 .. HashLen, NEW d, d = SubSeq(DigestBytes(j), 1, n)
    PROVE  /\ s \o d \in Seq(Names(j)) /\ IsInjective(s \o d)
           /\ \A u : u \in Seq(Names(j - 1)) /\ Disjoint(s, u) => Disjoint(s \o d, u)
<1>1. PICK h \in Nat, z \in Nat, q \in Nat : h = HashLen /\ q = j - 1 /\ z = Size(q)
  <2>1. j - 1 \in Nat OBVIOUS
  <2> QED BY <2>1, SizeType, DigestAssumption
<1>2. PICK b : b = DigestBytes(j) OBVIOUS
<1>3. /\ b \in Seq(Nat) /\ b \in Seq(Names(j)) /\ Len(b) = h
      /\ \A x \in 1 .. h : b[x] = z + x - 1
  <2>1. Len(b) = h /\ b \in Seq(Nat) /\ \A x \in 1 .. h : b[x] = z + x - 1
    BY <1>1, <1>2, DigestNames
  <2>2. j <= j OBVIOUS
  <2>3. b \in Seq(Names(j)) BY <1>2, <2>2, DigestNames
  <2> QED BY <2>1, <2>3
<1>4. n \in Nat /\ n <= h BY <1>1
<1>5. PICK o \in Nat : o = 0 OBVIOUS
<1>6. o + n <= Len(b) /\ 1 = o + 1 /\ n = o + n BY <1>3, <1>4, <1>5
<1>7. d \in Seq(Names(j)) /\ Len(d) = n /\ \A x \in 1 .. n : d[x] = z + x - 1
  <2>1. d = SubSeq(b, 1, n) BY <1>2
  <2>2. /\ SubSeq(b, 1, n) \in Seq(Names(j)) /\ Len(SubSeq(b, 1, n)) = n
        /\ \A x \in 1 .. n : SubSeq(b, 1, n)[x] = b[o + x]
    <3>1. PICK S : S = Names(j) OBVIOUS
    <3>2. b \in Seq(S) /\ n \in Nat BY <1>3, <1>4, <3>1
    <3>3. /\ SubSeq(b, 1, n) \in Seq(S) /\ Len(SubSeq(b, 1, n)) = n
          /\ \A x \in 1 .. n : SubSeq(b, 1, n)[x] = b[o + x]
      BY ONLY <1>6, <3>2, o \in Nat, PieceOf
    <3> QED BY <3>1, <3>3
  <2>3. \A x \in 1 .. n : x \in 1 .. h /\ o + x = x BY <1>4, <1>5
  <2> QED BY <1>3, <2>1, <2>2, <2>3
<1>8. s \in Seq(Names(j))
  <2>1. q <= j BY <1>1
  <2> QED BY <1>1, <2>1, SizeGrows
<1>9. PICK w : w = s \o d OBVIOUS
<1>10. w \in Seq(Names(j)) /\ IsConcat(w, s, d) BY <1>7, <1>8, <1>9, ConcatParts
<1>11. PICK l \in Nat : l = Len(s) BY LenProperties
<1>12. /\ Len(w) = l + n /\ \A x \in 1 .. l : w[x] = s[x]
       /\ \A x \in 1 .. n : w[l + x] = z + x - 1
  BY <1>7, <1>10, <1>11 DEF IsConcat
<1>13. ASSUME NEW x \in 1 .. l PROVE w[x] < z /\ w[x] \in Int
  <2>1. s[x] \in Names(q) BY <1>1, <1>11, ElementOfSeq
  <2> QED BY <1>1, <1>12, <2>1 DEF Names
<1>14. ASSUME NEW x \in 1 .. l + n, ~(x <= l)
       PROVE  w[x] = z + (x - l) - 1 /\ w[x] >= z /\ w[x] \in Int
  <2>1. PICK y \in 1 .. n : x = l + y
    <3>1. x - l \in 1 .. n /\ x = l + (x - l) BY <1>14
    <3> QED BY <3>1
  <2> QED BY <1>1, <1>12, <2>1
<1>15. IsInjective(w)
  <2>1. DOMAIN w = 1 .. l + n BY <1>10, <1>12
  <2>2. DOMAIN s = 1 .. l BY <1>11
  <2>3. ASSUME NEW x \in 1 .. l + n, NEW y \in 1 .. l + n, w[x] = w[y] PROVE x = y
    <3>1. CASE x <= l /\ y <= l
      <4>1. x \in 1 .. l /\ y \in 1 .. l BY <3>1
      <4>2. s[x] = s[y] BY <1>12, <2>3, <4>1
      <4> QED BY <2>2, <4>1, <4>2 DEF IsInjective
    <3>2. CASE x <= l /\ ~(y <= l)
      <4>1. x \in 1 .. l BY <3>2
      <4> QED BY <1>13, <1>14, <2>3, <3>2, <4>1
    <3>3. CASE ~(x <= l) /\ y <= l
      <4>1. y \in 1 .. l BY <3>3
      <4> QED BY <1>13, <1>14, <2>3, <3>3, <4>1
    <3>4. CASE ~(x <= l) /\ ~(y <= l)
      <4>1. z + (x - l) - 1 = z + (y - l) - 1 BY <1>14, <2>3, <3>4
      <4> QED BY <4>1
    <3> QED BY <3>1, <3>2, <3>3, <3>4
  <2> QED BY <2>1, <2>3 DEF IsInjective
<1>16. ASSUME NEW u \in Seq(Names(q)), Disjoint(s, u) PROVE Disjoint(w, u)
  <2>1. ASSUME NEW x \in 1 .. l + n, NEW y \in 1 .. Len(u) PROVE w[x] # u[y]
    <3>1. u[y] \in Names(q) BY ElementOfSeq
    <3>2. u[y] < z /\ u[y] \in Int BY <1>1, <3>1 DEF Names
    <3>3. CASE x <= l
      <4>1. x \in 1 .. l BY <3>3
      <4>2. s[x] # u[y] BY <1>11, <1>16, <4>1 DEF Disjoint
      <4> QED BY <1>12, <4>1, <4>2
    <3>4. CASE ~(x <= l) BY <1>14, <3>2, <3>4
    <3> QED BY <3>3, <3>4
  <2> QED BY <1>12, <2>1 DEF Disjoint
<1> QED BY <1>1, <1>9, <1>10, <1>15, <1>16

(* A step of the generator.                                                *)
LEMMA TaskHanding ==
    ASSUME DerivationInv, AllFit, HashStrung, GenCalls, Handing, DrbgTake
    PROVE  Handing'
<1>0. StageTypes BY DEF DerivationInv
<1>1. /\ stage = "mac" /\ todo' = Tail(todo)
      /\ IF Head(todo).target = "key"
         THEN gen' = [gen EXCEPT !.key = out] ELSE gen' = [gen EXCEPT !.v = out]
      /\ handed' = IF Head(todo).target = "out"
                   THEN handed \o SubSeq(out, 1, Head(todo).arg) ELSE handed
  BY DEF DrbgTake
<1>2. /\ todo \in Seq(Tasks) /\ todo # <<>> /\ gen \in [key : Seq(Nat), v : Seq(Nat), count : Nat]
  BY <1>0, <1>1 DEF StageTypes
<1>3. PICK j \in Nat : /\ j > 0 /\ j - 1 \in Nat /\ out = DigestBytes(j)
                       /\ gen.key \in Seq(Names(j - 1)) /\ gen.v \in Seq(Names(j - 1))
  BY TaskMade
<1>4. handed \in Seq(Names(j - 1)) BY <1>1, <1>3, HandedOlder
<1>5. Seq(Names(j - 1)) \subseteq Seq(Names(j))
  <2>1. j - 1 <= j OBVIOUS
  <2> QED BY <1>3, <2>1, SizeGrows
<1>6. /\ handed \in Seq(Nat) /\ IsInjective(handed) /\ Disjoint(handed, gen.key)
      /\ CheckLeft(todo) \/ ~VLeft(todo) => Disjoint(handed, gen.v)
      /\ OutOrder(todo)
  BY <1>1 DEF Handing
<1>7. OutOrder(Tail(todo)) BY <1>2, <1>6, TailOrder
<1>8. Disjoint(handed, out) BY <1>3, <1>4, <1>6, DigestNewer
<1>9. CASE Head(todo).target = "key"
  <2>1. gen'.key = out /\ gen'.v = gen.v /\ handed' = handed BY <1>1, <1>2, <1>9
  <2>2. CheckLeft(Tail(todo)) \/ ~VLeft(Tail(todo)) => Disjoint(handed, gen.v)
    BY <1>2, <1>6, <1>9, TailOrder
  <2>3. handed # <<>> =>
           \E e \in Nat : e > 0 /\ gen.v = DigestBytes(e) /\ handed \in Seq(Names(e))
    BY <1>1 DEF Handing
  <2>4. \A e : DigestBytes(e)' = DigestBytes(e) /\ Names(e)' = Names(e)
    BY DEF DigestBytes, Names, Size
  <2>5. (CheckLeft(todo) \/ ~VLeft(todo) => Disjoint(handed, gen.v))'
    BY <1>1, <2>1, <2>2 DEF CheckLeft, VLeft, Disjoint
  <2>6. OutOrder(todo)' BY <1>1, <1>7 DEF OutOrder
  <2>7. Disjoint(handed, gen.key)' BY <1>8, <2>1 DEF Disjoint
  <2> QED BY <1>6, <2>1, <2>3, <2>4, <2>5, <2>6, <2>7 DEF Handing
<1>10. CASE Head(todo).target # "key"
  <2>1. gen'.key = gen.key /\ gen'.v = out BY <1>1, <1>2, <1>10
  <2>2. /\ handed' \in Seq(Names(j)) /\ IsInjective(handed') /\ Disjoint(handed', gen.key)
        /\ CheckLeft(Tail(todo)) \/ ~VLeft(Tail(todo)) => Disjoint(handed', out)
    <3>1. CASE Head(todo).target = "out"
      <4>1. Head(todo).arg \in 1 .. HashLen /\ VLeft(Tail(todo)) /\ ~CheckLeft(Tail(todo))
        BY <1>2, <1>6, <3>1, TailOrder
      <4>2. PICK n \in 1 .. HashLen : n = Head(todo).arg BY <4>1
      <4>3. PICK d : d = SubSeq(DigestBytes(j), 1, n) OBVIOUS
      <4>4. /\ handed \o d \in Seq(Names(j)) /\ IsInjective(handed \o d)
            /\ Disjoint(handed \o d, gen.key)
        BY <1>3, <1>4, <1>6, <4>3, HandMore
      <4>5. handed' = handed \o d BY <1>1, <1>3, <3>1, <4>2, <4>3
      <4> QED BY <4>1, <4>4, <4>5
    <3>2. CASE Head(todo).target # "out"
      <4>1. handed' = handed BY <1>1, <3>2
      <4> QED BY <1>4, <1>5, <1>6, <1>8, <4>1
    <3> QED BY <3>1, <3>2
  <2>3. handed' \in Seq(Nat) BY <2>2, NamesSeq
  <2>4. \A e : DigestBytes(e)' = DigestBytes(e) /\ Names(e)' = Names(e)
    BY DEF DigestBytes, Names, Size
  <2>5. (CheckLeft(todo) \/ ~VLeft(todo) => Disjoint(handed, gen.v))'
    BY <1>1, <2>1, <2>2 DEF CheckLeft, VLeft, Disjoint
  <2>6. OutOrder(todo)' BY <1>1, <1>7 DEF OutOrder
  <2>7. Disjoint(handed, gen.key)' BY <2>1, <2>2 DEF Disjoint
  <2> QED BY <1>3, <2>1, <2>2, <2>3, <2>4, <2>5, <2>6, <2>7 DEF Handing
<1> QED BY <1>9, <1>10

(* Every step keeps what is handed out apart from the state.               *)
LEMMA HandingNext ==
    ASSUME DerivationInv, AllFit, HashStrung, GenCalls, Handing, [Next]_vars
    PROVE  Handing'
<1>0. StageTypes BY DEF DerivationInv
<1>1. todo \in Seq(Tasks) /\ gen \in [key : Seq(Nat), v : Seq(Nat), count : Nat]
  BY <1>0 DEF StageTypes
<1>2. \A e : DigestBytes(e)' = DigestBytes(e) /\ Names(e)' = Names(e)
  BY DEF DigestBytes, Names, Size
<1>3. ASSUME stage' \in {"drbg", "mac"} => stage \in {"drbg", "mac"},
             gen'.key = gen.key, gen'.v = gen.v, handed' = handed,
             stage \in {"drbg", "mac"} =>
                /\ OutOrder(todo')
                /\ CheckLeft(todo') \/ ~VLeft(todo') => Disjoint(handed, gen.v)
      PROVE  Handing'
  <2>1. SUFFICES ASSUME stage \in {"drbg", "mac"}
                 PROVE  (/\ handed \in Seq(Nat) /\ IsInjective(handed) /\ Disjoint(handed, gen.key)
                         /\ handed # <<>> =>
                               \E e \in Nat : e > 0 /\ gen.v = DigestBytes(e)
                                              /\ handed \in Seq(Names(e))
                         /\ CheckLeft(todo) \/ ~VLeft(todo) => Disjoint(handed, gen.v)
                         /\ OutOrder(todo))'
    BY <1>3 DEF Handing
  <2>2. Disjoint(handed, gen.key)' BY <1>3, <2>1 DEF Handing, Disjoint
  <2>3. (CheckLeft(todo) \/ ~VLeft(todo) => Disjoint(handed, gen.v))'
    BY <1>3, <2>1 DEF CheckLeft, VLeft, Disjoint
  <2>4. OutOrder(todo)' BY <1>3, <2>1 DEF OutOrder
  <2>5. /\ handed \in Seq(Nat) /\ IsInjective(handed)
        /\ handed # <<>> =>
              \E e \in Nat : e > 0 /\ gen.v = DigestBytes(e) /\ handed \in Seq(Names(e))
    BY <2>1 DEF Handing
  <2> QED BY <1>2, <1>3, <2>2, <2>3, <2>4, <2>5
<1>4. CASE GenSame BY <1>3, <1>4 DEF GenSame, Handing
<1>5. CASE GenStart
  <2>1. PICK s \in Seq(Nat) : Seed(s) BY <1>5 DEF GenStart
  <2>2. handed' = <<>> /\ todo' = Update(s) BY <2>1, SeedLeaves
  <2>3. IsInjective(handed') BY <2>2 DEF IsInjective
  <2>4. handed' \in Seq(Nat) BY <2>2, Strings
  <2>5. Disjoint(handed, gen.key)' /\ Disjoint(handed, gen.v)' BY <2>2 DEF Disjoint
  <2>6. OutOrder(todo)' BY <2>2, UpdateTargets DEF OutOrder
  <2> QED BY <2>2, <2>3, <2>4, <2>5, <2>6 DEF Handing
<1>6. CASE GenElse BY <1>6 DEF GenElse, Handing
<1>7. CASE Request
  <2>1. PICK n \in Requests, a \in Additional :
            todo' = UpdateIfAny(a) \o <<Task("check", <<>>)>>
                      \o [x \in 1 .. Blocks(n) |->
                             Task("out", Least(HashLen, n - HashLen * (x - 1)))]
                      \o AfterRequest(a)
    BY <1>7 DEF Request
  <2>2. stage = "drbg" /\ todo = <<>> /\ UNCHANGED <<stage, gen, handed>>
    BY <1>7 DEF Request, Ready
  <2>3. n \in Nat /\ a \in Seq(Nat) BY DerivationAssumption, Strings
  <2>4. OutOrder(todo') BY <2>1, <2>3, RequestOrder DEF Outs
  <2>5. Disjoint(handed, gen.v) BY <2>2 DEF Handing, VLeft
  <2> QED BY <1>3, <2>2, <2>4, <2>5
<1>8. CASE RequestStep
  <2>1. stage = "drbg" /\ todo # <<>> /\ stage' = stage /\ handed' = handed
    BY <1>8 DEF RequestStep
  <2>2. gen'.key = gen.key /\ gen'.v = gen.v
    <3>1. gen' = gen \/ gen' = [gen EXCEPT !.count = @ + 1] BY <1>8 DEF RequestStep
    <3> QED BY <1>1, <3>1
  <2>3. /\ OutOrder(todo) /\ (CheckLeft(todo) \/ ~VLeft(todo) => Disjoint(handed, gen.v))
    BY <2>1 DEF Handing
  <2>4. CASE todo' = Tail(todo) /\ Head(todo).target # "v"
    <3>1. /\ OutOrder(Tail(todo))
          /\ CheckLeft(Tail(todo)) \/ ~VLeft(Tail(todo)) => Disjoint(handed, gen.v)
      BY <1>1, <2>1, <2>3, <2>4, TailOrder
    <3> QED BY <1>3, <2>1, <2>2, <2>4, <3>1
  <2>5. CASE todo' = <<>> /\ Head(todo).target = "check"
    <3>1. Disjoint(handed, gen.v) BY <1>1, <2>1, <2>3, <2>5, TailOrder
    <3>2. OutOrder(todo') BY <2>5 DEF OutOrder
    <3> QED BY <1>3, <2>1, <2>2, <3>1, <3>2
  <2> QED BY <1>8, <2>4, <2>5 DEF RequestStep
<1>9. CASE DrbgMac
  <2>1. stage = "drbg" /\ UNCHANGED <<gen, todo, handed>> BY <1>9 DEF DrbgMac, drbgVars
  <2> QED BY <1>3, <2>1 DEF Handing
<1>10. CASE DrbgTake BY <1>10, TaskHanding
<1> QED BY <1>4, <1>5, <1>6, <1>7, <1>8, <1>9, <1>10, GenCases

(* The state tells nothing of the output between two calls.                *)
LEMMA HandingHides ==
    ASSUME StageTypes, Handing
    PROVE  OutputNotState
<1> SUFFICES ASSUME stage = "drbg", todo = <<>>
             PROVE  /\ IsInjective(handed)
                    /\ ToSet(handed) \cap (ToSet(gen.key) \cup ToSet(gen.v)) = {}
  BY DEF OutputNotState
<1>1. /\ handed \in Seq(Nat) /\ IsInjective(handed)
      /\ Disjoint(handed, gen.key) /\ Disjoint(handed, gen.v)
  BY DEF Handing, VLeft
<1>2. ASSUME NEW u, Disjoint(handed, u) PROVE ToSet(handed) \cap {u[y] : y \in 1 .. Len(u)} = {}
  <2>1. ToSet(handed) = {handed[x] : x \in 1 .. Len(handed)} BY <1>1 DEF ToSet
  <2> QED BY <1>2, <2>1 DEF Disjoint
<1>3. gen.key \in Seq(Nat) /\ gen.v \in Seq(Nat) BY DEF StageTypes
<1>4. /\ ToSet(gen.key) = {gen.key[y] : y \in 1 .. Len(gen.key)}
      /\ ToSet(gen.v) = {gen.v[y] : y \in 1 .. Len(gen.v)}
  BY <1>3 DEF ToSet
<1> QED BY <1>1, <1>2, <1>4

(* random_bytes() never returns a byte twice, and when it is over, nothing *)
(* that it returned is in the state of the generator, as long as the       *)
(* lengths of all that is hashed can be written behind it.                 *)
THEOREM OutputNeverInState ==
    Spec => ([]AllFit => []OutputNotState)
<1> DEFINE GenInv == DerivationInv /\ Strung /\ GenCalls /\ Handing
<1>1. ASSUME Init PROVE Strung /\ GenCalls /\ Handing
  <2>1. stage = "idle" BY <1>1 DEF Init
  <2>2. Strung BY <1>1, InitStrung
  <2> QED BY <2>1, <2>2 DEF GenCalls, Handing
<1>2. ASSUME GenInv, AllFit, [Next]_vars PROVE Strung' /\ GenCalls' /\ Handing'
  <2>1. HashStrung BY <1>2 DEF Strung
  <2> QED BY <1>2, <2>1, NextStrung, GenCallsNext, HandingNext
<1>3. GenInv => OutputNotState BY HandingHides DEF DerivationInv
<1> QED BY <1>1, <1>2, <1>3, AlwaysDerivationInv, PTL DEF Spec

-----------------------------------------------------------------------------
(* What a function gives for each element of a string, one after the       *)
(* other.                                                                  *)
Gathered(f, s) == FlattenSeq([x \in 1 .. Len(s) |-> f[s[x]]])

Gathers(f, S, T) == f \in [S -> Seq(T)]

(* Of nothing and of one element, ...                                      *)
LEMMA GatheredFew ==
    ASSUME NEW S, NEW T, NEW f, Gathers(f, S, T)
    PROVE  Gathered(f, <<>>) = <<>> /\ \A p \in S : Gathered(f, <<p>>) = f[p]
<1>1. Gathered(f, <<>>) = <<>>
  <2>1. PICK e : e = [x \in 1 .. Len(<<>>) |-> f[<<>>[x]]] OBVIOUS
  <2>2. e = <<>> BY <2>1
  <2> QED BY <2>1, <2>2, FlattenNothing DEF Gathered
<1>2. ASSUME NEW p \in S PROVE Gathered(f, <<p>>) = f[p]
  <2>1. PICK e : e = [x \in 1 .. Len(<<p>>) |-> f[<<p>>[x]]] OBVIOUS
  <2>2. PICK y : y = f[p] /\ y \in Seq(T) BY DEF Gathers
  <2>3. e = <<y>> BY <2>1, <2>2
  <2>4. PICK o : o = <<>> /\ o \in Seq(Seq(T)) BY EmptySeq
  <2>5. Append(o, y) = <<y>> BY <2>4
  <2>6. FlattenSeq(Append(o, y)) = FlattenSeq(o) \o y BY <2>2, <2>4, FlattenAppend
  <2>7. FlattenSeq(<<y>>) = y
    <3>1. <<>> \o y = y BY <2>2, ConcatEmptySeq
    <3> QED BY <2>4, <2>5, <2>6, <3>1, FlattenNothing
  <2> QED BY <2>1, <2>2, <2>3, <2>7 DEF Gathered
<1> QED BY <1>1, <1>2

(* ... of one element more ...                                             *)
LEMMA GatheredAppend ==
    ASSUME NEW S, NEW T, NEW f, Gathers(f, S, T), NEW s \in Seq(S), NEW p \in S
    PROVE  Gathered(f, s) \in Seq(T) /\ Gathered(f, Append(s, p)) = Gathered(f, s) \o f[p]
<1>1. PICK n \in Nat : n = Len(s) BY LenProperties
<1>2. PICK g : g = [x \in 1 .. n |-> f[s[x]]] OBVIOUS
<1>3. g \in Seq(Seq(T)) /\ Len(g) = n
  <2>1. \A x \in 1 .. n : s[x] \in S BY <1>1, ElementOfSeq
  <2>2. g \in [1 .. n -> Seq(T)] BY <1>2, <2>1 DEF Gathers
  <2> QED BY <2>2, StringLength
<1>4. PICK y : y = f[p] /\ y \in Seq(T) BY DEF Gathers
<1>5. PICK w : w = Append(s, p) OBVIOUS
<1>6. Len(w) = n + 1 /\ w[n + 1] = p /\ \A x \in 1 .. n : w[x] = s[x]
  BY <1>1, <1>5, AppendProperties
<1>7. PICK v : v = [x \in 1 .. n + 1 |-> f[w[x]]] OBVIOUS
<1>8. v = Append(g, y)
  <2>1. PICK u : u = Append(g, y) OBVIOUS
  <2>2. /\ u \in Seq(Seq(T)) /\ Len(u) = n + 1 /\ u[n + 1] = y
        /\ \A x \in 1 .. n : u[x] = g[x]
    BY <1>3, <1>4, <2>1, AppendProperties
  <2>3. \A x \in 1 .. n + 1 : x \in 1 .. n \/ x = n + 1 OBVIOUS
  <2>4. \A x \in 1 .. n + 1 : v[x] = u[x] BY <1>2, <1>4, <1>6, <1>7, <2>2, <2>3
  <2>5. v \in Seq(Seq(T)) /\ Len(v) = n + 1
    <3>1. \A x \in 1 .. n + 1 : u[x] \in Seq(T) BY <2>2, ElementOfSeq
    <3>2. v \in [1 .. n + 1 -> Seq(T)] BY <1>7, <2>4, <3>1
    <3> QED BY <3>2, StringLength
  <2>6. v = u BY <2>2, <2>4, <2>5, SeqEqual
  <2> QED BY <2>1, <2>6
<1>9. FlattenSeq(g) \in Seq(T) /\ FlattenSeq(Append(g, y)) = FlattenSeq(g) \o y
  BY <1>3, <1>4, FlattenAppend
<1>10. Gathered(f, s) = FlattenSeq(g) BY <1>1, <1>2 DEF Gathered
<1>11. Gathered(f, w) = FlattenSeq(v) BY <1>6, <1>7 DEF Gathered
<1> QED BY <1>4, <1>5, <1>8, <1>9, <1>10, <1>11

(* ... and of one string behind the other.                                 *)
LEMMA GatheredConcat ==
    ASSUME NEW S, NEW T, NEW f, Gathers(f, S, T), NEW s \in Seq(S), NEW u \in Seq(S)
    PROVE  Gathered(f, s \o u) = Gathered(f, s) \o Gathered(f, u)
<1>0. ASSUME NEW y \in Seq(S), NEW x \in S
      PROVE  /\ Gathered(f, y) \in Seq(T) /\ f[x] \in Seq(T)
             /\ Gathered(f, Append(y, x)) = Gathered(f, y) \o f[x]
  <2>1. Gathered(f, y) \in Seq(T) /\ Gathered(f, Append(y, x)) = Gathered(f, y) \o f[x]
    BY ONLY Gathers(f, S, T), y \in Seq(S), x \in S, GatheredAppend
  <2>2. f[x] \in Seq(T) BY DEF Gathers
  <2> QED BY <2>1, <2>2
<1>1. PICK n \in Nat : n = Len(u) BY LenProperties
<1> DEFINE Q(m) == \A w \in Seq(S) : Len(w) = m =>
                       Gathered(f, s \o w) = Gathered(f, s) \o Gathered(f, w)
           N == {m \in Nat : Q(m)}
<1>2. N = Nat
  <2>1. 0 \in N
    <3>1. ASSUME NEW w \in Seq(S), Len(w) = 0
          PROVE  Gathered(f, s \o w) = Gathered(f, s) \o Gathered(f, w)
      <4>1. w = <<>> BY <3>1, EmptySeq
      <4>2. s \o <<>> = s BY ConcatEmptySeq
      <4>3. PICK a : a = Gathered(f, s) OBVIOUS
      <4>4. a \in Seq(T) /\ Gathered(f, <<>>) = <<>>
        <5>1. CASE s = <<>>
          <6>1. Gathered(f, <<>>) = <<>> BY GatheredFew
          <6>2. <<>> \in Seq(T) BY EmptySeq
          <6> QED BY <4>3, <5>1, <6>1, <6>2
        <5>2. CASE s # <<>>
          <6>1. PICK p \in S : p = Head(s) BY <5>2, HeadTailProperties
          <6> QED BY <4>3, <6>1, GatheredAppend, GatheredFew
        <5> QED BY <5>1, <5>2
      <4>5. a \o <<>> = a BY <4>4, ConcatEmptySeq
      <4> QED BY <4>1, <4>2, <4>3, <4>4, <4>5
    <3> QED BY <3>1
  <2>2. ASSUME NEW m \in N PROVE m + 1 \in N
    <3>0. m \in Nat /\ Q(m) OBVIOUS
    <3>1. ASSUME NEW w \in Seq(S), Len(w) = m + 1
          PROVE  Gathered(f, s \o w) = Gathered(f, s) \o Gathered(f, w)
      <4>1. PICK v, p : v = SubSeq(w, 1, m) /\ p = w[m + 1] OBVIOUS
      <4>2. v \in Seq(S) /\ Len(v) = m /\ p \in S /\ SubSeq(w, 1, m + 1) = Append(v, p)
        <5>1. m < Len(w) BY <3>0, <3>1
        <5> QED BY <3>0, <4>1, <5>1, PrefixGrows
      <4>3. w = Append(v, p)
        <5>1. SubSeq(w, 1, Len(w)) = w BY SubSeqFull
        <5> QED BY <3>1, <4>2, <5>1
      <4>4. PICK z : z = s \o v /\ z \in Seq(S) BY <4>2, ConcatProperties
      <4>5. s \o w = Append(z, p)
        <5>1. PICK e : e = <<p>> OBVIOUS
        <5>2. v \in Seq(S) /\ z \in Seq(S) /\ p \in S BY <4>2, <4>4
        <5>3. Append(v, p) = v \o <<p>> BY ONLY <5>2, AppendIsConcat
        <5>4. Append(z, p) = z \o <<p>> BY ONLY <5>2, AppendIsConcat
        <5>5. (s \o v) \o e = s \o (v \o e)
          <6>1. e \in Seq(S) BY <5>1, <5>2
          <6>2. \A x, y, o \in Seq(S) : (x \o y) \o o = x \o (y \o o) BY ConcatAssociative
          <6> QED BY <5>2, <6>1, <6>2
        <5> QED BY <4>3, <4>4, <5>1, <5>3, <5>4, <5>5
      <4>6. Gathered(f, z) = Gathered(f, s) \o Gathered(f, v) BY <3>0, <4>2, <4>4
      <4>7. /\ Gathered(f, Append(z, p)) = Gathered(f, z) \o f[p]
            /\ Gathered(f, Append(v, p)) = Gathered(f, v) \o f[p]
            /\ Gathered(f, s) \in Seq(T) /\ Gathered(f, v) \in Seq(T) /\ f[p] \in Seq(T)
        BY <1>0, <4>2, <4>4
      <4>8. PICK a, b, c : a = Gathered(f, s) /\ b = Gathered(f, v) /\ c = f[p] OBVIOUS
      <4>9. (a \o b) \o c = a \o (b \o c)
        <5>1. a \in Seq(T) /\ b \in Seq(T) /\ c \in Seq(T) BY <4>7, <4>8
        <5>2. \A x, y, o \in Seq(T) : (x \o y) \o o = x \o (y \o o) BY ConcatAssociative
        <5> QED BY <5>1, <5>2
      <4>10. Gathered(f, s \o w) = (a \o b) \o c BY <4>5, <4>6, <4>7, <4>8
      <4>11. Gathered(f, w) = b \o c BY <4>3, <4>7, <4>8
      <4> QED BY <4>8, <4>9, <4>10, <4>11
    <3>2. m + 1 \in Nat /\ Q(m + 1) BY <3>0, <3>1
    <3> QED BY <3>2
  <2> HIDE DEF N
  <2>3. N \in SUBSET Nat BY DEF N
  <2> QED BY <2>1, <2>2, <2>3, Induction
<1> QED BY <1>1, <1>2

-----------------------------------------------------------------------------
(* A MAC key that fills a block starts with what it was.                   *)
LEMMA BlockKeyStarts ==
    ASSUME fn \in MdFunctions, NEW n \in Nat, NEW k \in Seq(Names(n)), Len(k) <= fn.block,
           NEW l \in Nat, Len(k) = l
    PROVE  /\ BlockKey(k) \in Seq(Names(n)) /\ Len(BlockKey(k)) = fn.block
           /\ \A x \in 1 .. l : BlockKey(k)[x] = k[x]
           /\ SubSeq(BlockKey(k), 1, l) = k
<1>1. PICK S : S = Names(n) OBVIOUS
<1>2. k \in Seq(S) /\ k \in Seq(Nat) BY <1>1, NamesSeq
<1>3. Len(BlockKey(k)) = fn.block BY <1>2, BlockKeyType
<1>4. PICK z \in Nat : z = fn.block - l
  <2>1. fn.block \in Nat BY MdNumbers
  <2>2. fn.block - l \in Nat BY <2>1
  <2> QED BY <2>2
<1>5. PICK w, e : w = k \o e /\ e = Zeros(z) OBVIOUS
<1>6. BlockKey(k) = w BY <1>4, <1>5 DEF BlockKey
<1>7. e \in Seq(S)
  <2>1. e \in Seq(Byte) BY <1>5, ZerosType
  <2> QED BY <1>1, <2>1, NamesSeq
<1>8. w \in Seq(S) /\ IsConcat(w, k, e) BY <1>2, <1>5, <1>7, ConcatParts
<1>9. l <= Len(w) /\ \A x \in 1 .. l : w[x] = k[x] BY <1>8 DEF IsConcat
<1>10. SubSeq(w, 1, l) = k
  <2>1. PICK o \in Nat : o = 0 OBVIOUS
  <2>2. o + l <= Len(w) /\ 1 = o + 1 /\ l = o + l BY <1>9, <2>1
  <2>3. /\ SubSeq(w, 1, l) \in Seq(S) /\ Len(SubSeq(w, 1, l)) = l
        /\ \A x \in 1 .. l : SubSeq(w, 1, l)[x] = w[o + x]
    BY ONLY <1>8, <2>2, l \in Nat, o \in Nat, PieceOf
  <2>4. \A x \in 1 .. l : SubSeq(w, 1, l)[x] = k[x] BY <1>9, <2>1, <2>3
  <2> QED BY <1>2, <2>3, <2>4, SeqEqual
<1> QED BY <1>1, <1>3, <1>6, <1>8, <1>9, <1>10

(* A state of the generator, with what went into its keys; the first one,  *)
(* and what one HMAC makes of a state.                                     *)
Holds(k, v, ins) == [key |-> k, v |-> v, inputs |-> ins]

Ones == [j \in 1 .. HashLen |-> 1]

MadeV(v) == v = Ones \/ \E j, k, m : IsMac(j, k, m) /\ v = DigestBytes(j)

HoldsWell(s) ==
    /\ s \in [key : Seq(Nat), v : Seq(Nat), inputs : Seq(Seq(Nat))]
    /\ Len(s.key) = HashLen /\ Len(s.v) = HashLen /\ MadeV(s.v)

LinkV(a, b) ==
    /\ b.key = a.key /\ b.inputs = a.inputs
    /\ \E j : IsMac(j, a.key, a.v) /\ b.v = DigestBytes(j)

LinkKey(a, b) ==
    /\ b.v = a.v
    /\ \E j : \E x \in Seq(Nat) : /\ IsMac(j, a.key, a.v \o x) /\ b.key = DigestBytes(j)
                                  /\ b.inputs = Append(a.inputs, x)

IsChain(c, l) ==
    /\ l \in Nat /\ c[0] = Holds(Zeros(HashLen), Ones, <<>>)
    /\ \A x \in 0 .. l : HoldsWell(c[x])
    /\ \A x \in 1 .. l : LinkV(c[x - 1], c[x]) \/ LinkKey(c[x - 1], c[x])

(* What went into a key and a v since the seeding.                         *)
Came(k, v, ins) == \E c, l : IsChain(c, l) /\ c[l] = Holds(k, v, ins)

(* The first v.                                                            *)
LEMMA OnesType ==
    Ones \in Seq(Nat) /\ Len(Ones) = HashLen /\ HashLen \in Nat /\ Ones[1] \in Byte
<1>1. HashLen \in Nat /\ HashLen > 0 BY DigestAssumption
<1>2. Ones \in [1 .. HashLen -> Nat] BY DEF Ones
<1>3. 1 \in Byte BY Numbers DEF Byte
<1>4. Ones[1] = 1 BY <1>1 DEF Ones
<1> QED BY <1>1, <1>2, <1>3, <1>4, StringLength

(* Nothing has come into the first state, ...                              *)
LEMMA CameFirst ==
    Came(Zeros(HashLen), Ones, <<>>)
<1>1. PICK s : s = Holds(Zeros(HashLen), Ones, <<>>) OBVIOUS
<1>2. /\ Zeros(HashLen) \in Seq(Nat) /\ Len(Zeros(HashLen)) = HashLen
  BY OnesType, ZerosType
<1>3. HoldsWell(s)
  <2>1. <<>> \in Seq(Seq(Nat)) BY EmptySeq
  <2> QED BY <1>1, <1>2, <2>1, OnesType DEF Holds, HoldsWell, MadeV
<1>4. PICK c : c = [x \in 0 .. 0 |-> s] OBVIOUS
<1>5. IsChain(c, 0) /\ c[0] = s BY <1>1, <1>3, <1>4 DEF IsChain
<1> QED BY <1>1, <1>5 DEF Came

(* ... an HMAC adds its input ...                                          *)
LEMMA CameMore ==
    ASSUME NEW k, NEW v, NEW ins, Came(k, v, ins), NEW b, HoldsWell(b),
           LinkV(Holds(k, v, ins), b) \/ LinkKey(Holds(k, v, ins), b)
    PROVE  Came(b.key, b.v, b.inputs)
<1>1. PICK c, l : IsChain(c, l) /\ c[l] = Holds(k, v, ins) BY DEF Came
<1>2. PICK a : a = Holds(k, v, ins) OBVIOUS
<1>3. l \in Nat BY <1>1 DEF IsChain
<1>4. PICK m \in Nat : m = l + 1 BY <1>3
<1>5. PICK d : d = [x \in 0 .. m |-> IF x = m THEN b ELSE c[x]] OBVIOUS
<1>6. d[m] = b /\ \A x \in 0 .. l : d[x] = c[x] BY <1>3, <1>4, <1>5
<1>7. d[0] = Holds(Zeros(HashLen), Ones, <<>>) BY <1>1, <1>3, <1>6 DEF IsChain
<1>8. \A x \in 0 .. m : HoldsWell(d[x])
  <2>1. \A x \in 0 .. m : x = m \/ x \in 0 .. l BY <1>3, <1>4
  <2> QED BY <1>1, <1>6, <2>1 DEF IsChain
<1>9. ASSUME NEW x \in 1 .. m PROVE LinkV(d[x - 1], d[x]) \/ LinkKey(d[x - 1], d[x])
  <2>1. CASE x = m
    <3>1. x - 1 = l BY <1>3, <1>4, <2>1
    <3>2. d[x - 1] = a BY <1>1, <1>2, <1>3, <1>6, <3>1
    <3> QED BY <1>2, <1>6, <2>1, <3>2
  <2>2. CASE x # m
    <3>1. x \in 1 .. l /\ x \in 0 .. l /\ x - 1 \in 0 .. l BY <1>3, <1>4, <2>2
    <3>2. d[x] = c[x] /\ d[x - 1] = c[x - 1] BY <1>6, <3>1
    <3> QED BY <1>1, <3>1, <3>2 DEF IsChain
  <2> QED BY <2>1, <2>2
<1>10. IsChain(d, m) BY <1>4, <1>7, <1>8, <1>9 DEF IsChain
<1>11. b = Holds(b.key, b.v, b.inputs) BY DEF HoldsWell, Holds
<1> QED BY <1>6, <1>10, <1>11 DEF Came

(* ... and no other step changes what has come.                            *)
LEMMA CameStays ==
    ASSUME Grows, NEW k, NEW v, NEW ins, Came(k, v, ins)
    PROVE  Came(k, v, ins)'
<1>1. PICK c, l : IsChain(c, l) /\ c[l] = Holds(k, v, ins) BY DEF Came
<1>2. \A j, x, m : IsMac(j, x, m) => IsMac(j, x, m)' BY MacStays
<1>3. \A j : DigestBytes(j)' = DigestBytes(j) BY DEF DigestBytes
<1>4. Ones' = Ones BY DEF Ones
<1>5. \A s : HoldsWell(s) => HoldsWell(s)' BY <1>2, <1>3, <1>4 DEF HoldsWell, MadeV
<1>6. \A a, b : LinkV(a, b) => LinkV(a, b)' BY <1>2, <1>3 DEF LinkV
<1>7. \A a, b : LinkKey(a, b) => LinkKey(a, b)' BY <1>2, <1>3 DEF LinkKey
<1>8. IsChain(c, l)'
  <2>1. Holds(Zeros(HashLen), Ones, <<>>)' = Holds(Zeros(HashLen), Ones, <<>>)
    BY <1>4 DEF Holds, Zeros
  <2> QED BY <1>1, <1>5, <1>6, <1>7, <2>1 DEF IsChain
<1> QED BY <1>1, <1>8 DEF Came, Holds

(* The first byte of a digest, and of nothing older.                       *)
LEMMA DigestFirst ==
    ASSUME NEW j \in Nat, j > 0
    PROVE  /\ DigestBytes(j)[1] \notin Byte
           /\ \A n \in Nat : DigestBytes(j)[1] \in Names(n) => j <= n
<1>1. PICK q \in Nat : q = j - 1 OBVIOUS
<1>2. PICK z \in Nat : z = Size(q) /\ Base <= z BY SizeType
<1>3. DigestBytes(j)[1] = z
  <2>1. PICK h \in Nat : h = HashLen /\ h > 0 BY DigestAssumption
  <2>2. 1 \in 1 .. h BY <2>1
  <2>3. \A x \in 1 .. h : DigestBytes(j)[x] = z + x - 1 BY <1>1, <1>2, <2>1, DigestNames
  <2> QED BY <2>2, <2>3
<1>4. z \notin Byte BY <1>2, Numbers DEF Byte
<1>5. ASSUME NEW n \in Nat, z \in Names(n) PROVE j <= n
  <2>1. PICK y \in Nat : y = Size(n) BY SizeType
  <2>2. z < y BY <1>5, <2>1 DEF Names
  <2>3. SUFFICES ASSUME n <= q PROVE FALSE BY <1>1
  <2>4. y <= z BY <1>2, <2>1, <2>3, SizeGrows
  <2> QED BY <1>2, <2>1, <2>2, <2>4
<1> QED BY <1>3, <1>4, <1>5

(* A part of a string that ends it or starts it.                           *)
LEMMA CutAt ==
    ASSUME NEW S, NEW v \in Seq(S), NEW x \in Seq(S), NEW l \in Nat, Len(v) = l,
           NEW m, m = v \o x
    PROVE  SubSeq(m, 1, l) = v /\ SubSeq(m, l + 1, Len(m)) = x
<1>1. m \in Seq(S) /\ IsConcat(m, v, x) BY ConcatParts
<1>2. PICK n \in Nat, o \in Nat : n = Len(x) /\ o = 0 BY LenProperties
<1>3. /\ Len(m) = l + n /\ \A y \in 1 .. l : m[o + y] = v[y]
      /\ \A y \in 1 .. n : m[l + y] = x[y]
  BY <1>1, <1>2 DEF IsConcat
<1>4. SubSeq(m, 1, l) = v
  <2>1. o + l <= Len(m) /\ 1 = o + 1 /\ l = o + l BY <1>2, <1>3
  <2>2. /\ SubSeq(m, 1, l) \in Seq(S) /\ Len(SubSeq(m, 1, l)) = l
        /\ \A y \in 1 .. l : SubSeq(m, 1, l)[y] = m[o + y]
    BY ONLY <1>1, <2>1, l \in Nat, o \in Nat, PieceOf
  <2>3. \A y \in 1 .. l : SubSeq(m, 1, l)[y] = v[y] BY <1>3, <2>2
  <2> QED BY <2>2, <2>3, SeqEqual
<1>5. SubSeq(m, l + 1, Len(m)) = x
  <2>1. PICK a, b : a = l + 1 /\ b = Len(m) OBVIOUS
  <2>2. l + n <= Len(m) /\ a = l + 1 /\ b = l + n /\ m \in Seq(S) BY <1>1, <1>3, <2>1
  <2>3. /\ SubSeq(m, a, b) \in Seq(S) /\ Len(SubSeq(m, a, b)) = n
        /\ \A y \in 1 .. n : SubSeq(m, a, b)[y] = m[l + y]
    BY ONLY <2>2, l \in Nat, n \in Nat, PieceOf
  <2>4. \A y \in 1 .. n : SubSeq(m, a, b)[y] = x[y] BY <1>3, <2>3
  <2>5. SubSeq(m, a, b) = x BY <1>2, <2>3, <2>4, SeqEqual
  <2> QED BY <2>1, <2>5
<1> QED BY <1>4, <1>5

(* What is opened first is the last that was made: an HMAC that made v ... *)
LEMMA VUnmade ==
    ASSUME fn \in MdFunctions, known \in Seq(States), Grounded,
           NEW a, NEW b, HoldsWell(a), HoldsWell(b), LinkV(a, b),
           NEW ins
    PROVE  Unmade(Holds(b.key, b.v, ins)) = Holds(a.key, a.v, ins)
<1>1. PICK j : IsMac(j, a.key, a.v) /\ b.v = DigestBytes(j) BY DEF LinkV
<1>2. j \in Nat /\ j > 0 BY <1>1, MacNames
<1>3. b.v[1] \notin Byte BY <1>1, <1>2, DigestFirst
<1>4. Opened(b.v) = <<BlockKey(a.key), BlockKey(a.key), a.v>> BY <1>1, MacOpened
<1>5. Opened(b.v)[1] = BlockKey(b.key) /\ Opened(b.v)[3] = a.v BY <1>4 DEF LinkV
<1>6. PICK s : s = Holds(b.key, b.v, ins) OBVIOUS
<1>7. s.key = b.key /\ s.v = b.v BY <1>6 DEF Holds
<1>8. Unmade(s) = [s EXCEPT !.v = Opened(s.v)[3]] BY <1>3, <1>5, <1>7 DEF Unmade
<1>9. [s EXCEPT !.v = a.v] = Holds(a.key, a.v, ins) BY <1>6 DEF Holds, LinkV
<1> QED BY <1>5, <1>6, <1>7, <1>8, <1>9

(* ... or the one that made the key, which no older v can contain.         *)
LEMMA KeyUnmade ==
    ASSUME fn \in MdFunctions, known \in Seq(States), Grounded,
           NEW a, NEW b, HoldsWell(a), HoldsWell(b), LinkKey(a, b),
           NEW ins
    PROVE  \E x \in Seq(Nat) : /\ Unmade(Holds(b.key, b.v, ins)) = Holds(a.key, a.v, <<x>> \o ins)
                               /\ b.inputs = Append(a.inputs, x)
<1>0. PICK j : \E x \in Seq(Nat) : /\ IsMac(j, a.key, a.v \o x) /\ b.key = DigestBytes(j)
                                   /\ b.inputs = Append(a.inputs, x)
  BY DEF LinkKey
<1>1. PICK x \in Seq(Nat) : /\ IsMac(j, a.key, a.v \o x) /\ b.key = DigestBytes(j)
                            /\ b.inputs = Append(a.inputs, x)
  BY <1>0
<1>2. b.v = a.v BY DEF LinkKey
<1>3. PICK m : m = a.v \o x OBVIOUS
<1>4. IsMac(j, a.key, m) BY <1>1, <1>3
<1>5. /\ j \in Nat /\ j > 0 /\ j - 1 \in Nat
      /\ a.key \in Seq(Names(j - 1)) /\ m \in Seq(Names(j - 1))
  BY <1>4, MacNames
<1>6. PICK q \in Nat : q = j - 1 BY <1>5
<1>7. b.key[1] \notin Byte BY <1>1, <1>5, DigestFirst
<1>8. a.v \in Seq(Nat) /\ Len(a.v) = HashLen /\ a.key \in Seq(Nat) /\ Len(a.key) = HashLen
  BY DEF HoldsWell
<1>9. PICK h \in Nat : h = HashLen BY OnesType
<1>10. h <= fn.block BY <1>9, MdNumbers
<1>11. a.v \in Seq(Names(q))
  <2>1. IsConcat(m, a.v, x) BY <1>1, <1>3, <1>8, ConcatParts
  <2>2. PICK o \in Nat : o = 0 OBVIOUS
  <2>3. o + Len(a.v) <= Len(m) /\ \A y \in 1 .. Len(a.v) : m[o + y] = a.v[y]
    BY <2>1, <2>2 DEF IsConcat
  <2>4. a.v \in Seq(Int) BY <1>8, Strings
  <2> QED BY <1>5, <1>6, <2>2, <2>3, <2>4, PlacedOver
<1>12. ~(b.v[1] \notin Byte /\ Opened(b.v)[1] = BlockKey(b.key))
  <2> SUFFICES ASSUME b.v[1] \notin Byte, Opened(b.v)[1] = BlockKey(b.key) PROVE FALSE
    OBVIOUS
  <2>1. b.v # Ones BY OnesType
  <2>2. PICK d, k, u : IsMac(d, k, u) /\ b.v = DigestBytes(d) BY <2>1 DEF HoldsWell, MadeV
  <2>3. d \in Nat /\ d > 0 /\ d - 1 \in Nat /\ k \in Seq(Names(d - 1)) BY <2>2, MacNames
  <2>4. PICK p \in Nat : p = d - 1 BY <2>3
  <2>5. Opened(b.v) = <<BlockKey(k), BlockKey(k), u>> BY <2>2, MacOpened
  <2>6. BlockKey(k) = BlockKey(b.key) BY <2>5
  <2>7. Len(k) <= fn.block /\ Len(k) \in Nat BY <2>2, <2>3, LenProperties DEF IsMac
  <2>8. PICK w : w = BlockKey(k) OBVIOUS
  <2>9. w \in Seq(Names(p)) /\ Len(w) = fn.block
    BY <2>3, <2>4, <2>7, <2>8, BlockKeyStarts
  <2>10. 1 \in 1 .. Len(w) /\ 1 \in 1 .. h
    <3>1. fn.block \in Nat /\ fn.block > 0 /\ HashLen > 0 BY MdNumbers
    <3> QED BY <1>9, <2>9, <3>1
  <2>11. w[1] \in Names(p) BY <2>9, <2>10, ElementOfSeq
  <2>12. BlockKey(b.key)[1] = b.key[1]
    <3>1. j <= j BY <1>5
    <3>2. b.key \in Seq(Names(j)) /\ Len(b.key) = h BY <1>1, <1>5, <1>9, <3>1, DigestNames
    <3>3. \A y \in 1 .. h : BlockKey(b.key)[y] = b.key[y]
      BY <1>5, <1>10, <3>2, BlockKeyStarts
    <3> QED BY <2>10, <3>3
  <2>13. DigestBytes(j)[1] \in Names(p) BY <1>1, <2>6, <2>8, <2>11, <2>12
  <2>14. j <= p BY <1>5, <2>13, DigestFirst
  <2>15. DigestBytes(d) \in Seq(Masks(q)) BY <1>2, <1>6, <1>11, <2>2, NamesSeq
  <2>16. d <= q BY <2>3, <2>15, DigestBelow
  <2> QED BY <1>5, <1>6, <2>3, <2>4, <2>14, <2>16
<1>13. Opened(b.key) = <<BlockKey(a.key), BlockKey(a.key), m>> BY <1>1, <1>4, MacOpened
<1>14. PICK mac : mac = Opened(b.key) OBVIOUS
<1>15. mac[1] = BlockKey(a.key) /\ mac[3] = m BY <1>13, <1>14
<1>16. SubSeq(BlockKey(a.key), 1, h) = a.key
  BY <1>5, <1>6, <1>8, <1>9, <1>10, BlockKeyStarts
<1>17. SubSeq(m, 1, h) = a.v /\ SubSeq(m, h + 1, Len(m)) = x
  BY <1>1, <1>3, <1>8, <1>9, CutAt
<1>18. PICK s : s = Holds(b.key, b.v, ins) OBVIOUS
<1>19. s.key = b.key /\ s.v = b.v /\ s.inputs = ins BY <1>18 DEF Holds
<1>20. Unmade(s) = [key |-> SubSeq(mac[1], 1, HashLen), v |-> SubSeq(mac[3], 1, HashLen),
                    inputs |-> <<SubSeq(mac[3], HashLen + 1, Len(mac[3]))>> \o s.inputs]
  BY <1>7, <1>12, <1>14, <1>19 DEF Unmade
<1>21. Unmade(s) = Holds(a.key, a.v, <<x>> \o ins)
  BY <1>9, <1>15, <1>16, <1>17, <1>19, <1>20 DEF Holds
<1> QED BY <1>1, <1>18, <1>21

(* The first state is never opened.                                        *)
LEMMA FirstUnmade ==
    ASSUME NEW ins
    PROVE  Unmade(Holds(Zeros(HashLen), Ones, ins)) = Holds(Zeros(HashLen), Ones, ins)
<1>1. Ones[1] \in Byte BY OnesType
<1>2. Zeros(HashLen)[1] \in Byte
  <2>1. HashLen \in Nat /\ HashLen > 0 BY DigestAssumption
  <2>2. 1 \in 1 .. HashLen BY <2>1
  <2> QED BY <2>1, <2>2, ZerosType, Numbers
<1>3. PICK s : s = Holds(Zeros(HashLen), Ones, ins) OBVIOUS
<1>4. s.key = Zeros(HashLen) /\ s.v = Ones BY <1>3 DEF Holds
<1>5. Unmade(s) = s BY <1>1, <1>2, <1>4 DEF Unmade
<1> QED BY <1>3, <1>5

(* A chain has no more links than there are digests to make them of.       *)
LEMMA ChainBound ==
    ASSUME fn \in MdFunctions, known \in Seq(States), Grounded, NEW c, NEW l, IsChain(c, l)
    PROVE  \A x \in 0 .. l : \A n \in Nat :
               c[x].key \in Seq(Names(n)) /\ c[x].v \in Seq(Names(n)) => x <= n
<1> DEFINE Q(x) == \A n \in Nat : c[x].key \in Seq(Names(n)) /\ c[x].v \in Seq(Names(n)) => x <= n
           N == {x \in Nat : x <= l => Q(x)}
<1>0. l \in Nat BY DEF IsChain
<1>1. 0 \in N OBVIOUS
<1>2. ASSUME NEW y \in N PROVE y + 1 \in N
  <2>1. y \in Nat /\ (y <= l => Q(y)) OBVIOUS
  <2>2. SUFFICES ASSUME y + 1 <= l PROVE Q(y + 1) BY <2>1
  <2>3. Q(y) BY <1>0, <2>1, <2>2
  <2>4. PICK x : x = y + 1 OBVIOUS
  <2>5. x \in 1 .. l /\ x - 1 = y /\ x \in 0 .. l /\ y \in 0 .. l BY <1>0, <2>1, <2>2, <2>4
  <2>6. PICK a, b : a = c[y] /\ b = c[x] OBVIOUS
  <2>7. HoldsWell(a) /\ HoldsWell(b) /\ (LinkV(a, b) \/ LinkKey(a, b))
    BY <2>5, <2>6 DEF IsChain
  <2>8. ASSUME NEW n \in Nat, b.key \in Seq(Names(n)), b.v \in Seq(Names(n)) PROVE x <= n
    <3>1. PICK j, d, m : /\ IsMac(j, a.key, a.v \o d) /\ d \in Seq(Nat)
                         /\ m = DigestBytes(j) /\ m \in Seq(Names(n))
      <4>1. CASE LinkV(a, b)
        <5>1. PICK j : IsMac(j, a.key, a.v) /\ b.v = DigestBytes(j) BY <4>1 DEF LinkV
        <5>2. a.v \o <<>> = a.v
          <6>1. a.v \in Seq(Nat) BY <2>7 DEF HoldsWell
          <6> QED BY <6>1, ConcatEmptySeq
        <5>3. <<>> \in Seq(Nat) BY Strings
        <5> QED BY <2>8, <5>1, <5>2, <5>3
      <4>2. CASE LinkKey(a, b) BY <2>8, <4>2 DEF LinkKey
      <4> QED BY <2>7, <4>1, <4>2
    <3>2. PICK w : w = a.v \o d OBVIOUS
    <3>3. /\ j \in Nat /\ j > 0 /\ j - 1 \in Nat
          /\ a.key \in Seq(Names(j - 1)) /\ w \in Seq(Names(j - 1))
      BY <3>1, <3>2, MacNames
    <3>4. j <= n
      <4>1. DigestBytes(j) \in Seq(Masks(n)) BY <3>1, NamesSeq
      <4> QED BY <3>3, <4>1, DigestBelow
    <3>5. a.v \in Seq(Names(j - 1))
      <4>1. a.v \in Seq(Nat) /\ a.v \in Seq(Int) BY <2>7, Strings DEF HoldsWell
      <4>2. IsConcat(w, a.v, d) BY <3>1, <3>2, <4>1, ConcatParts
      <4>3. PICK o \in Nat : o = 0 OBVIOUS
      <4>4. o + Len(a.v) <= Len(w) /\ \A z \in 1 .. Len(a.v) : w[o + z] = a.v[z]
        BY <4>2, <4>3 DEF IsConcat
      <4> QED BY <3>3, <4>1, <4>3, <4>4, PlacedOver
    <3>6. y <= j - 1 BY <2>3, <2>6, <3>3, <3>5
    <3> QED BY <2>1, <2>4, <3>3, <3>4, <3>6
  <2> QED BY <2>4, <2>6, <2>8
<1>3. N = Nat
  <2> HIDE DEF N
  <2>1. N \in SUBSET Nat BY DEF N
  <2> QED BY <1>1, <1>2, <2>1, Induction
<1>4. ASSUME NEW x \in 0 .. l PROVE Q(x)
  <2>1. x \in Nat /\ x <= l BY <1>0
  <2> QED BY <1>3, <2>1
<1> QED BY <1>4

(* Inputs() finds what went in.                                            *)
LEMMA InputsAre ==
    ASSUME fn \in MdFunctions, known \in Seq(States), Grounded,
           NEW k \in Seq(Names(Len(known))), NEW v \in Seq(Names(Len(known))),
           NEW ins, Came(k, v, ins)
    PROVE  Inputs(k, v) = ins
<1>1. PICK c, l : IsChain(c, l) /\ c[l] = Holds(k, v, ins) BY DEF Came
<1>2. PICK m \in Nat : m = Len(known) BY LenProperties
<1>3. l \in Nat /\ \A y \in 0 .. l : HoldsWell(c[y]) BY <1>1 DEF IsChain
<1>4. l <= m
  <2>1. l \in 0 .. l BY <1>3
  <2>2. c[l].key = k /\ c[l].v = v BY <1>1 DEF Holds
  <2> QED BY <1>1, <1>2, <2>1, <2>2, ChainBound
<1> DEFINE S == [key : Seq(Nat), v : Seq(Nat), inputs : Seq(Seq(Nat))]
           At(n, s) == \E y \in 0 .. l : /\ y + n = l \/ (y = 0 /\ l <= n)
                                         /\ \E u \in Seq(Seq(Nat)) :
                                               /\ s = Holds(c[y].key, c[y].v, u)
                                               /\ c[y].inputs \o u = ins
<1>5. PICK o : o = <<>> /\ o \in Seq(Seq(Nat)) BY EmptySeq
<1>6. PICK s0 : s0 = Holds(k, v, <<>>) OBVIOUS
<1>7. At(0, s0) /\ s0 \in S
  <2>1. l \in 0 .. l /\ l + 0 = l BY <1>3
  <2>2. c[l].key = k /\ c[l].v = v /\ c[l].inputs = ins BY <1>1 DEF Holds
  <2>3. k \in Seq(Nat) /\ v \in Seq(Nat) /\ ins \in Seq(Seq(Nat))
    BY <1>3, <2>1, <2>2 DEF HoldsWell
  <2>4. ins \o o = ins BY <1>5, <2>3, ConcatEmptySeq
  <2> QED BY <1>5, <1>6, <2>1, <2>2, <2>3, <2>4 DEF Holds
<1>8. ASSUME NEW n \in Nat, NEW s, At(n, s)
      PROVE  Unmade(s) \in S /\ At(n + 1, Unmade(s))
  <2>1. PICK y \in 0 .. l : /\ y + n = l \/ (y = 0 /\ l <= n)
                            /\ \E u \in Seq(Seq(Nat)) : /\ s = Holds(c[y].key, c[y].v, u)
                                                        /\ c[y].inputs \o u = ins
    BY <1>8
  <2>2. PICK u \in Seq(Seq(Nat)) : s = Holds(c[y].key, c[y].v, u) /\ c[y].inputs \o u = ins
    BY <2>1
  <2>3. ASSUME NEW x \in 0 .. l, NEW w \in Seq(Seq(Nat))
        PROVE  Holds(c[x].key, c[x].v, w) \in S
    BY <1>3 DEF HoldsWell, Holds
  <2>4. CASE y = 0
    <3>1. c[y].key = Zeros(HashLen) /\ c[y].v = Ones BY <1>1, <2>4 DEF IsChain, Holds
    <3>2. Unmade(s) = s BY <2>2, <3>1, FirstUnmade
    <3>3. l <= n + 1 BY <1>3, <2>1, <2>4
    <3> QED BY <2>2, <2>3, <2>4, <3>2, <3>3
  <2>5. CASE y # 0
    <3>1. PICK x \in 0 .. l : x = y - 1 /\ y \in 1 .. l BY <1>3, <2>5
    <3>2. x + (n + 1) = l BY <1>3, <2>1, <2>5, <3>1
    <3>3. PICK a, b : a = c[x] /\ b = c[y] OBVIOUS
    <3>4. HoldsWell(a) /\ HoldsWell(b) /\ (LinkV(a, b) \/ LinkKey(a, b))
      BY <1>1, <1>3, <3>1, <3>3 DEF IsChain
    <3>5. \E w \in Seq(Seq(Nat)) : Unmade(s) = Holds(a.key, a.v, w) /\ a.inputs \o w = ins
      <4>1. CASE LinkV(a, b)
        <5>1. Unmade(s) = Holds(a.key, a.v, u) BY <2>2, <3>3, <3>4, <4>1, VUnmade
        <5> QED BY <2>2, <3>3, <4>1, <5>1 DEF LinkV
      <4>2. CASE LinkKey(a, b)
        <5>1. PICK d \in Seq(Nat) :
                 /\ Unmade(Holds(b.key, b.v, u)) = Holds(a.key, a.v, <<d>> \o u)
                 /\ b.inputs = Append(a.inputs, d)
          BY <3>4, <4>2, KeyUnmade
        <5>2. PICK e, z, w : e = <<d>> /\ z = a.inputs /\ w = e \o u OBVIOUS
        <5>3. e \in Seq(Seq(Nat)) /\ z \in Seq(Seq(Nat)) BY <3>4, <5>2 DEF HoldsWell
        <5>4. w \in Seq(Seq(Nat)) BY <5>2, <5>3, ConcatProperties
        <5>5. b.inputs = z \o e BY <5>1, <5>2, <5>3, AppendIsConcat
        <5>6. (z \o e) \o u = z \o w
          <6>1. PICK T : T = Seq(Nat) OBVIOUS
          <6>2. z \in Seq(T) /\ e \in Seq(T) /\ u \in Seq(T) BY <5>3, <6>1
          <6>3. (z \o e) \o u = z \o (e \o u) BY ONLY <6>2, ConcatAssociative
          <6> QED BY <5>2, <6>3
        <5> QED BY <2>2, <3>3, <5>1, <5>2, <5>4, <5>5, <5>6
      <4> QED BY <3>4, <4>1, <4>2
    <3>6. PICK w \in Seq(Seq(Nat)) : Unmade(s) = Holds(c[x].key, c[x].v, w)
                                     /\ c[x].inputs \o w = ins
      BY <3>3, <3>5
    <3>7. Unmade(s) \in S BY <2>3, <3>6
    <3> QED BY <3>2, <3>6, <3>7
  <2> QED BY <2>4, <2>5
<1>9. \A s : At(m, s) => s.inputs = ins
  <2>1. ASSUME NEW s, At(m, s) PROVE s.inputs = ins
    <3>1. PICK y \in 0 .. l : /\ y + m = l \/ (y = 0 /\ l <= m)
                              /\ \E u \in Seq(Seq(Nat)) : /\ s = Holds(c[y].key, c[y].v, u)
                                                          /\ c[y].inputs \o u = ins
      BY <2>1
    <3>2. PICK u \in Seq(Seq(Nat)) : s = Holds(c[y].key, c[y].v, u) /\ c[y].inputs \o u = ins
      BY <3>1
    <3>3. y = 0 BY <1>3, <1>4, <3>1
    <3>4. c[y].inputs = <<>> BY <1>1, <3>3 DEF IsChain, Holds
    <3>5. <<>> \o u = u BY ConcatEmptySeq
    <3> QED BY <3>2, <3>4, <3>5 DEF Holds
  <2> QED BY <2>1
<1> HIDE DEF At, S
<1> DEFINE next == [n \in Nat |-> [s \in S |-> IF Unmade(s) \in S THEN Unmade(s) ELSE s]]
<1>10. next \in [Nat -> [S -> S]] OBVIOUS
<1>11. PICK nx : nx = next OBVIOUS
<1>12. nx \in [Nat -> [S -> S]]
       /\ \A n \in Nat, s \in S : Unmade(s) \in S => nx[n][s] = Unmade(s)
  BY <1>10, <1>11
<1> HIDE DEF next
<1>13. PICK g : IsRecursive(g, S, s0, nx) BY <1>7, <1>12, RecursiveFunction
<1>14. \A n \in Nat : g[n] \in S /\ At(n, g[n])
  <2> DEFINE N == {n \in Nat : g[n] \in S /\ At(n, g[n])}
  <2>1. 0 \in N BY <1>7, <1>13 DEF IsRecursive
  <2>2. ASSUME NEW n \in N PROVE n + 1 \in N
    <3>1. n \in Nat /\ n + 1 \in Nat /\ g[n] \in S /\ At(n, g[n]) OBVIOUS
    <3>2. Unmade(g[n]) \in S /\ At(n + 1, Unmade(g[n])) BY <1>8, <3>1
    <3>3. g[n + 1] = Unmade(g[n]) BY <1>12, <1>13, <3>1, <3>2 DEF IsRecursive
    <3> QED BY <3>1, <3>2, <3>3
  <2> HIDE DEF N
  <2>3. N \in SUBSET Nat BY DEF N
  <2>4. N = Nat BY <2>1, <2>2, <2>3, Induction
  <2> QED BY <2>4 DEF N
<1>15. \A n \in Nat : g[n + 1] = Unmade(g[n])
  <2>1. ASSUME NEW n \in Nat PROVE g[n + 1] = Unmade(g[n])
    <3>1. g[n] \in S /\ At(n, g[n]) BY <1>14
    <3>2. Unmade(g[n]) \in S BY <1>8, <3>1
    <3> QED BY <1>12, <1>13, <3>1, <3>2 DEF IsRecursive
  <2> QED BY <2>1
<1> DEFINE Is(h) == h = [n \in 0 .. Len(known) |->
                           IF n = 0 THEN [key |-> k, v |-> v, inputs |-> <<>>]
                           ELSE Unmade(h[n - 1])]
           f == CHOOSE h : Is(h)
<1>16. Is([n \in 0 .. m |-> g[n]])
  <2>1. PICK h : h = [n \in 0 .. m |-> g[n]] OBVIOUS
  <2>2. ASSUME NEW n \in 0 .. m
        PROVE  h[n] = IF n = 0 THEN [key |-> k, v |-> v, inputs |-> <<>>] ELSE Unmade(h[n - 1])
    <3>1. CASE n = 0
      <4>1. h[0] = s0 BY <1>2, <1>13, <2>1 DEF IsRecursive
      <4> QED BY <1>6, <3>1, <4>1 DEF Holds
    <3>2. CASE n # 0
      <4>1. PICK q \in Nat : q = n - 1 /\ n = q + 1 /\ q \in 0 .. m BY <1>2, <3>2
      <4>2. h[n] = g[n] /\ h[q] = g[q] BY <2>1, <4>1
      <4> QED BY <1>15, <3>2, <4>1, <4>2
    <3> QED BY <3>1, <3>2
  <2>3. PICK e : e = [n \in 0 .. Len(known) |->
                        IF n = 0 THEN [key |-> k, v |-> v, inputs |-> <<>>]
                        ELSE Unmade(h[n - 1])]
    OBVIOUS
  <2>4. h = e
    <3>1. e = [n \in 0 .. m |-> e[n]] /\ h = [n \in 0 .. m |-> h[n]] BY <1>2, <2>1, <2>3
    <3>2. \A n \in 0 .. m : e[n] = h[n] BY <1>2, <2>2, <2>3
    <3> QED BY <3>1, <3>2
  <2> QED BY <2>1, <2>3, <2>4
<1>17. Is(f)
  <2> HIDE DEF Is
  <2> QED BY <1>16
<1>18. PICK h : h = f /\ Is(h) BY <1>17
<1>19. Inputs(k, v) = f[Len(known)].inputs BY DEF Inputs
<1> HIDE DEF f
<1>20. \A n \in Nat : n <= m => h[n] = g[n]
  <2>1. \A n \in 0 .. m : h[n] = IF n = 0 THEN s0 ELSE Unmade(h[n - 1])
    BY <1>2, <1>6, <1>18 DEF Holds
  <2> DEFINE N == {n \in Nat : n <= m => h[n] = g[n]}
  <2>2. 0 \in N
    <3>1. 0 \in 0 .. m OBVIOUS
    <3>2. h[0] = s0 BY <2>1, <3>1
    <3> QED BY <1>13, <3>2 DEF IsRecursive
  <2>3. ASSUME NEW n \in N PROVE n + 1 \in N
    <3>1. PICK q \in Nat : q = n + 1 /\ n \in Nat OBVIOUS
    <3>2. SUFFICES ASSUME q <= m PROVE h[q] = g[q] BY <3>1
    <3>3. n <= m /\ q \in 0 .. m /\ q # 0 /\ q - 1 = n BY <3>1, <3>2
    <3>4. h[n] = g[n] BY <3>3
    <3>5. h[q] = Unmade(h[n]) BY <2>1, <3>3
    <3> QED BY <1>15, <3>1, <3>4, <3>5
  <2> HIDE DEF N
  <2>4. N \in SUBSET Nat BY DEF N
  <2>5. N = Nat BY <2>2, <2>3, <2>4, Induction
  <2> QED BY <2>5 DEF N
<1>21. h[m] = g[m] BY <1>2, <1>20
<1>22. g[m].inputs = ins BY <1>2, <1>9, <1>14
<1> QED BY <1>2, <1>18, <1>19, <1>21, <1>22

-----------------------------------------------------------------------------
(* What the tasks of a call mix in, and what inputs come to.               *)
KeyArg == [p \in Tasks |-> IF p.target = "key" THEN <<p.arg>> ELSE <<>>]
KeyArgs(s) == Gathered(KeyArg, s)

Twices == [d \in Seq(Nat) |-> Twice(d)]
Total(s) == Gathered(Twices, s)

(* The input of a task, ...                                                *)
LEMMA KeyArgGathers ==
    /\ Gathers(KeyArg, Tasks, Seq(Nat))
    /\ \A p \in Tasks : p.target = "key" => p.arg \in Seq(Nat) /\ KeyArg[p] = <<p.arg>>
    /\ \A p \in Tasks : p.target # "key" => KeyArg[p] = <<>>
<1>1. ASSUME NEW p \in Tasks PROVE KeyArg[p] \in Seq(Seq(Nat))
  <2>1. CASE p.target = "key"
    <3>1. PICK a \in Seq(Nat) : a = p.arg BY <2>1 DEF Tasks
    <3>2. KeyArg[p] = <<a>> BY <2>1, <3>1 DEF KeyArg
    <3> QED BY <3>2
  <2>2. CASE p.target # "key"
    <3>1. KeyArg[p] = <<>> BY <2>2 DEF KeyArg
    <3> QED BY <3>1, EmptySeq
  <2> QED BY <2>1, <2>2
<1>2. KeyArg \in [Tasks -> Seq(Seq(Nat))]
  <2>1. KeyArg = [p \in Tasks |-> KeyArg[p]] BY DEF KeyArg
  <2> QED BY <1>1, <2>1
<1>3. \A p \in Tasks : p.target = "key" => p.arg \in Seq(Nat) BY DEF Tasks
<1> QED BY <1>2, <1>3 DEF Gathers, KeyArg

(* ... and of _update(), are strings of strings.                           *)
LEMMA TwicesGathers ==
    /\ Gathers(Twices, Seq(Nat), Seq(Nat))
    /\ \A d \in Seq(Nat) : Twices[d] = Twice(d) /\ Twice(d) \in Seq(Seq(Nat))
<1>1. ASSUME NEW d \in Seq(Nat) PROVE Twice(d) \in Seq(Seq(Nat))
  <2>1. PICK a, b, c : a = <<0>> /\ b = <<0>> \o d /\ c = <<1>> \o d OBVIOUS
  <2>2. a \in Seq(Nat) /\ b \in Seq(Nat) /\ c \in Seq(Nat)
    <3>1. <<0>> \in Seq(Nat) /\ <<1>> \in Seq(Nat) OBVIOUS
    <3> QED BY <2>1, <3>1, Strings
  <2>3. Twice(d) = IF d = <<>> THEN <<a>> ELSE <<b, c>> BY <2>1 DEF Twice
  <2>4. <<a>> \in Seq(Seq(Nat)) /\ <<b, c>> \in Seq(Seq(Nat)) BY <2>2
  <2> QED BY <2>3, <2>4
<1>2. Twices \in [Seq(Nat) -> Seq(Seq(Nat))]
  <2>1. PICK z : z = [d \in Seq(Nat) |-> Twice(d)] OBVIOUS
  <2>2. z \in [Seq(Nat) -> Seq(Seq(Nat))] BY <1>1, <2>1
  <2> QED BY <2>1, <2>2 DEF Twices
<1>3. \A d \in Seq(Nat) : Twices[d] = Twice(d) BY DEF Twices
<1> QED BY <1>1, <1>2, <1>3 DEF Gathers

(* What is known of Gathered, in one place.                                *)
LEMMA GatheredIs ==
    ASSUME NEW S, NEW T, NEW f, Gathers(f, S, T)
    PROVE  /\ Gathered(f, <<>>) = <<>> /\ \A p \in S : Gathered(f, <<p>>) = f[p]
           /\ \A s \in Seq(S) : Gathered(f, s) \in Seq(T)
           /\ \A s, u \in Seq(S) : Gathered(f, s \o u) = Gathered(f, s) \o Gathered(f, u)
<1>1. ASSUME NEW s \in Seq(S) PROVE Gathered(f, s) \in Seq(T)
  <2>1. CASE s = <<>>
    <3>1. <<>> \in Seq(T) BY EmptySeq
    <3> QED BY <2>1, <3>1, GatheredFew
  <2>2. CASE s # <<>>
    <3>1. PICK p \in S : p = Head(s) BY <2>2, HeadTailProperties
    <3> QED BY <3>1, GatheredAppend
  <2> QED BY <2>1, <2>2
<1> QED BY <1>1, GatheredFew, GatheredConcat

(* What tasks mix in, task by task.                                        *)
LEMMA KeyArgsParts ==
    /\ KeyArgs(<<>>) = <<>> /\ \A p \in Tasks : KeyArgs(<<p>>) = KeyArg[p]
    /\ \A s \in Seq(Tasks) : KeyArgs(s) \in Seq(Seq(Nat))
    /\ \A s, u \in Seq(Tasks) : KeyArgs(s \o u) = KeyArgs(s) \o KeyArgs(u)
BY KeyArgGathers, GatheredIs DEF KeyArgs

(* What inputs come to, input by input.                                    *)
LEMMA TotalParts ==
    /\ Total(<<>>) = <<>> /\ \A d \in Seq(Nat) : Total(<<d>>) = Twice(d)
    /\ \A s \in Seq(Seq(Nat)) : Total(s) \in Seq(Seq(Nat))
    /\ \A s, u \in Seq(Seq(Nat)) : Total(s \o u) = Total(s) \o Total(u)
<1>1. PICK S, f : S = Seq(Nat) /\ f = Twices OBVIOUS
<1>2. Gathers(f, S, Seq(Nat)) /\ \A d \in S : f[d] = Twice(d) BY <1>1, TwicesGathers
<1>3. /\ Gathered(f, <<>>) = <<>> /\ \A d \in S : Gathered(f, <<d>>) = f[d]
      /\ \A s \in Seq(S) : Gathered(f, s) \in Seq(Seq(Nat))
      /\ \A s, u \in Seq(S) : Gathered(f, s \o u) = Gathered(f, s) \o Gathered(f, u)
  <2>1. PICK T : T = Seq(Nat) OBVIOUS
  <2>2. Gathers(f, S, T) BY <1>2, <2>1
  <2>3. /\ Gathered(f, <<>>) = <<>> /\ \A d \in S : Gathered(f, <<d>>) = f[d]
        /\ \A s \in Seq(S) : Gathered(f, s) \in Seq(T)
        /\ \A s, u \in Seq(S) : Gathered(f, s \o u) = Gathered(f, s) \o Gathered(f, u)
    BY ONLY <2>2, GatheredIs
  <2> QED BY <2>1, <2>3
<1> QED BY <1>1, <1>2, <1>3 DEF Total

(* The first task and the rest of a string of tasks.                       *)
LEMMA KeyArgsTail ==
    ASSUME NEW s \in Seq(Tasks), s # <<>>
    PROVE  /\ Head(s) \in Tasks /\ Tail(s) \in Seq(Tasks)
           /\ KeyArgs(s) = KeyArg[Head(s)] \o KeyArgs(Tail(s))
           /\ \A u \in Seq(Tasks) :
                 s \o u # <<>> /\ Head(s \o u) = Head(s) /\ Tail(s \o u) = Tail(s) \o u
<1>1. PICK p, z : p = Head(s) /\ z = Tail(s) OBVIOUS
<1>2. p \in Tasks /\ z \in Seq(Tasks) /\ Len(z) = Len(s) - 1 BY <1>1, HeadTailProperties
<1>3. \A x \in 1 .. Len(z) : z[x] = s[x + 1] BY <1>1, HeadTailProperties
<1>4. PICK n \in Nat : n = Len(s) /\ n > 0 BY LenProperties, EmptySeq
<1>5. PICK o : o = <<p>> OBVIOUS
<1>6. o \in Seq(Tasks) /\ Len(o) = 1 /\ o[1] = p
  <2>1. PICK e \in Tasks : e = p BY <1>2
  <2>2. o = <<e>> BY <1>5, <2>1
  <2> QED BY <2>1, <2>2
<1>7. s = o \o z
  <2>1. PICK w : w = o \o z OBVIOUS
  <2>2. w \in Seq(Tasks) /\ IsConcat(w, o, z) BY <1>2, <1>6, <2>1, ConcatParts
  <2>3. Len(w) = n /\ w[1] = p /\ \A x \in 1 .. n - 1 : w[1 + x] = z[x]
    BY <1>2, <1>4, <1>6, <2>2 DEF IsConcat
  <2>4. ASSUME NEW y \in 1 .. n PROVE w[y] = s[y]
    <3>1. CASE y = 1
      <4>1. s[1] = p BY <1>1
      <4> QED BY <2>3, <3>1, <4>1
    <3>2. CASE y # 1
      <4>1. PICK x \in 1 .. n - 1 : x = y - 1 /\ y = 1 + x /\ y = x + 1 BY <1>4, <3>2
      <4>2. s[y] = z[x] BY <1>2, <1>3, <1>4, <4>1
      <4>3. w[y] = z[x] BY <2>3, <4>1
      <4> QED BY <4>2, <4>3
    <3> QED BY <3>1, <3>2
  <2>5. w = s BY <1>4, <2>2, <2>3, <2>4, SeqEqual
  <2> QED BY <2>1, <2>5
<1>8. KeyArgs(s) = KeyArg[p] \o KeyArgs(z) BY <1>2, <1>5, <1>6, <1>7, KeyArgsParts
<1>9. ASSUME NEW u \in Seq(Tasks)
      PROVE  s \o u # <<>> /\ Head(s \o u) = p /\ Tail(s \o u) = z \o u
  <2>1. PICK w, v : w = z \o u /\ v = s \o u OBVIOUS
  <2>2. w \in Seq(Tasks) /\ v \in Seq(Tasks) /\ IsConcat(v, s, u) /\ IsConcat(w, z, u)
    BY <1>2, <2>1, ConcatParts
  <2>3. PICK m \in Nat : m = Len(u) BY LenProperties
  <2>4. /\ Len(v) = n + m /\ \A x \in 1 .. n : v[x] = s[x]
        /\ \A x \in 1 .. m : v[n + x] = u[x]
        /\ Len(w) = (n - 1) + m /\ \A x \in 1 .. n - 1 : w[x] = z[x]
        /\ \A x \in 1 .. m : w[(n - 1) + x] = u[x]
    BY <1>2, <1>4, <2>2, <2>3 DEF IsConcat
  <2>5. v # <<>> /\ 1 \in 1 .. n /\ v[1] = p
    <3>1. Len(v) # 0 /\ 1 \in 1 .. n BY <1>4, <2>4
    <3>2. s[1] = p BY <1>1
    <3> QED BY <2>4, <3>1, <3>2, EmptySeq
  <2>6. PICK y : y = Tail(v) OBVIOUS
  <2>7. /\ y \in Seq(Tasks) /\ Len(y) = (n + m) - 1
        /\ \A x \in 1 .. (n + m) - 1 : y[x] = v[x + 1]
    BY <2>2, <2>4, <2>5, <2>6, HeadTailProperties
  <2>8. ASSUME NEW x \in 1 .. (n + m) - 1 PROVE y[x] = w[x]
    <3>1. CASE x <= n - 1
      <4>1. x \in 1 .. n - 1 /\ x + 1 \in 1 .. n BY <1>4, <3>1
      <4>2. s[x + 1] = z[x] BY <1>2, <1>3, <1>4, <4>1
      <4> QED BY <2>4, <2>7, <4>1, <4>2
    <3>2. CASE ~(x <= n - 1)
      <4>1. PICK e \in 1 .. m : x + 1 = n + e /\ x = (n - 1) + e
        <5>1. (x + 1) - n \in 1 .. m /\ x + 1 = n + ((x + 1) - n)
              /\ x = (n - 1) + ((x + 1) - n)
          BY <1>4, <3>2
        <5> QED BY <5>1
      <4> QED BY <2>4, <2>7, <4>1
    <3> QED BY <3>1, <3>2
  <2>9. y = w
    <3>1. Len(w) = (n + m) - 1 BY <1>4, <2>4
    <3> QED BY <2>2, <2>7, <2>8, <3>1, SeqEqual
  <2>10. Head(v) = p BY <2>5
  <2> QED BY <2>1, <2>5, <2>6, <2>9, <2>10
<1> QED BY <1>1, <1>2, <1>8, <1>9

(* Tasks that mix nothing in.                                              *)
LEMMA KeyArgsNone ==
    ASSUME NEW s \in Seq(Tasks), \A x \in 1 .. Len(s) : s[x].target # "key"
    PROVE  KeyArgs(s) = <<>>
<1>1. PICK n \in Nat : n = Len(s) BY LenProperties
<1>2. PICK e : e = [x \in 1 .. n |-> KeyArg[s[x]]] OBVIOUS
<1>3. \A x \in 1 .. n : e[x] = <<>> BY <1>1, <1>2, KeyArgGathers, ElementOfSeq
<1>4. e \in Seq(Seq(Seq(Nat))) /\ Len(e) = n
  <2>1. PICK o : o = <<>> /\ o \in Seq(Seq(Nat)) BY EmptySeq
  <2>2. e \in [1 .. n -> Seq(Seq(Nat))] BY <1>2, <1>3, <2>1
  <2> QED BY <2>2, StringLength
<1>5. PICK w : w = FlattenSeq(e) OBVIOUS
<1>6. w \in Seq(Seq(Nat)) /\ Len(w) = 0 * n
  <2>1. PICK l \in Nat : l = 0 OBVIOUS
  <2>2. Len(<<>>) = 0 OBVIOUS
  <2>3. \A k \in 1 .. Len(e) : Len(e[k]) = l BY <1>3, <1>4, <2>1, <2>2
  <2>4. PICK S : S = Seq(Nat) OBVIOUS
  <2>5. e \in Seq(Seq(S)) BY <1>4, <2>4
  <2>6. w \in Seq(S) /\ Len(w) = l * Len(e) BY ONLY <1>5, <2>3, <2>5, l \in Nat, FlattenEven
  <2> QED BY <1>4, <2>1, <2>4, <2>6
<1>7. w = <<>> BY <1>6, EmptySeq
<1> QED BY <1>1, <1>2, <1>5, <1>7 DEF KeyArgs, Gathered

(* Two elements are one behind the other.                                  *)
LEMMA PairIs ==
    ASSUME NEW S, NEW p \in S, NEW q \in S
    PROVE  <<p>> \in Seq(S) /\ <<p, q>> \in Seq(S) /\ <<p>> \o <<q>> = <<p, q>>
<1>1. PICK u, w, z : u = <<p>> /\ w = <<q>> /\ z = <<p, q>> OBVIOUS
<1>2. u \in Seq(S) /\ w \in Seq(S) /\ z \in Seq(S) BY <1>1
<1>3. /\ Len(u) = 1 /\ u[1] = p /\ Len(w) = 1 /\ w[1] = q
      /\ Len(z) = 2 /\ z[1] = p /\ z[2] = q
  BY <1>1
<1>4. PICK v : v = u \o w OBVIOUS
<1>5. v \in Seq(S) /\ IsConcat(v, u, w) BY <1>2, <1>4, ConcatParts
<1>6. Len(v) = 2 /\ v[1] = p /\ v[1 + 1] = q BY <1>3, <1>5 DEF IsConcat
<1>7. \A x \in 1 .. 2 : v[x] = z[x]
  <2>1. \A x \in 1 .. 2 : x = 1 \/ x = 2 OBVIOUS
  <2> QED BY <1>3, <1>6, <2>1
<1>8. v = z BY <1>2, <1>3, <1>5, <1>6, <1>7, SeqEqual
<1> QED BY <1>1, <1>2, <1>4, <1>8

(* The tasks of _update() mix in what they were called with, twice; those  *)
(* of a request do so before and after the check.                          *)
LEMMA KeyArgsUpdate ==
    ASSUME NEW s \in Seq(Nat)
    PROVE  KeyArgs(Update(s)) = Twice(s)
<1>1. PICK d, e : d = <<0>> \o s /\ e = <<1>> \o s OBVIOUS
<1>2. d \in Seq(Nat) /\ e \in Seq(Nat) /\ <<>> \in Seq(Nat)
  <2>1. <<0>> \in Seq(Nat) /\ <<1>> \in Seq(Nat) OBVIOUS
  <2> QED BY <1>1, <2>1, Strings
<1>3. PICK a, b, c : a = Task("key", d) /\ b = Task("key", e) /\ c = Task("v", <<>>) OBVIOUS
<1>4. a \in Tasks /\ b \in Tasks /\ c \in Tasks BY <1>2, <1>3, TaskType
<1>5. KeyArg[a] = <<d>> /\ KeyArg[b] = <<e>> /\ KeyArg[c] = <<>>
  BY <1>3, <1>4, TaskType, KeyArgGathers
<1>6. ASSUME NEW p \in Tasks, NEW x \in Seq(Nat), KeyArg[p] = <<x>>
      PROVE  <<p, c>> \in Seq(Tasks) /\ KeyArgs(<<p, c>>) = <<x>>
  <2>1. PICK u, w, z : u = <<p>> /\ w = <<c>> /\ z = <<p, c>> OBVIOUS
  <2>2. u \in Seq(Tasks) /\ w \in Seq(Tasks) /\ z \in Seq(Tasks) BY <1>4, <2>1
  <2>3. z = u \o w BY <1>4, <2>1, PairIs
  <2>4. KeyArgs(z) = KeyArg[p] \o KeyArg[c] BY <1>4, <2>1, <2>2, <2>3, KeyArgsParts
  <2>5. PICK y : y = <<x>> /\ y \in Seq(Seq(Nat))
    <3>1. PICK S : S = Seq(Nat) OBVIOUS
    <3>2. x \in S BY <3>1
    <3>3. <<x>> \in Seq(S) BY <3>2, PairIs
    <3> QED BY <3>1, <3>3
  <2>6. y \o <<>> = y BY <2>5, ConcatEmptySeq
  <2> QED BY <1>5, <1>6, <2>1, <2>2, <2>4, <2>5, <2>6
<1>7. PICK p, q : p = <<a, c>> /\ q = <<b, c>> OBVIOUS
<1>8. /\ p \in Seq(Tasks) /\ q \in Seq(Tasks) /\ KeyArgs(p) = <<d>> /\ KeyArgs(q) = <<e>>
  BY <1>2, <1>4, <1>5, <1>6, <1>7
<1>9. Update(s) = p \o (IF s = <<>> THEN <<>> ELSE q) BY <1>1, <1>3, <1>7 DEF Update
<1>10. CASE s = <<>>
  <2>1. p \o <<>> = p BY <1>8, ConcatEmptySeq
  <2>2. <<0>> \o <<>> = <<0>>
    <3>1. PICK z : z = <<0>> /\ z \in Seq(Nat)
      <4>1. <<0>> \in Seq(Nat) OBVIOUS
      <4> QED BY <4>1
    <3>2. z \o <<>> = z BY <3>1, ConcatEmptySeq
    <3> QED BY <3>1, <3>2
  <2> QED BY <1>1, <1>8, <1>9, <1>10, <2>1, <2>2 DEF Twice
<1>11. CASE s # <<>>
  <2>1. KeyArgs(p \o q) = KeyArgs(p) \o KeyArgs(q) BY <1>8, KeyArgsParts
  <2>2. <<d>> \o <<e>> = <<d, e>>
    <3>1. PICK S : S = Seq(Nat) OBVIOUS
    <3>2. d \in S /\ e \in S BY <1>2, <3>1
    <3> QED BY <3>2, PairIs
  <2> QED BY <1>1, <1>8, <1>9, <1>11, <2>1, <2>2 DEF Twice
<1> QED BY <1>10, <1>11

(* A request: what it mixes in before the check, and after it.             *)
LEMMA KeyArgsRequest ==
    ASSUME NEW s \in Seq(Nat), NEW n \in Nat
    PROVE  \E pre, post \in Seq(Tasks) :
               /\ UpdateIfAny(s) \o <<Task("check", <<>>)>> \o Outs(n) \o AfterRequest(s)
                     = pre \o post
               /\ Targets(pre, {"key", "v"})
               /\ Head(post).target = "check"
               /\ Targets(Tail(post), {"key", "v", "out", "count"})
               /\ KeyArgs(pre) = Total(IF s = <<>> THEN <<>> ELSE <<s>>)
               /\ KeyArgs(post) = Total(<<s>>)
<1>1. PICK a, b, c, u, v : /\ a = <<Task("check", <<>>)>> /\ b = <<Task("count", <<>>)>>
                           /\ c = Outs(n) /\ u = UpdateIfAny(s) /\ v = Update(s)
  OBVIOUS
<1>2. u \in Seq(Tasks) /\ v \in Seq(Tasks) BY <1>1, UpdateType
<1>3. /\ a \in Seq(Tasks) /\ b \in Seq(Tasks) /\ Targets(b, {"key", "v", "out", "count"})
      /\ a # <<>> /\ Head(a).target = "check" /\ Tail(a) = <<>>
      /\ KeyArgs(a) = <<>> /\ KeyArgs(b) = <<>>
  <2>1. <<>> \in Seq(Nat) BY Strings
  <2>2. PICK p, q : p = Task("check", <<>>) /\ q = Task("count", <<>>) OBVIOUS
  <2>3. p \in Tasks /\ q \in Tasks /\ p.target = "check" /\ q.target = "count"
    BY <2>1, <2>2, TaskType
  <2>4. a = <<p>> /\ b = <<q>> BY <1>1, <2>2
  <2>5. a \in Seq(Tasks) /\ b \in Seq(Tasks) BY <2>3, <2>4
  <2>6. /\ Len(a) = 1 /\ Len(b) = 1 /\ a[1] = p /\ b[1] = q /\ Head(a) = p /\ a # <<>>
        /\ Tail(a) = <<>>
    BY <2>4
  <2>7. KeyArgs(a) = <<>> /\ KeyArgs(b) = <<>> BY <2>3, <2>5, <2>6, KeyArgsNone
  <2> QED BY <2>3, <2>5, <2>6, <2>7 DEF Targets
<1>4. c \in Seq(Tasks) /\ Targets(c, {"out"}) /\ KeyArgs(c) = <<>>
  <2>1. c \in Seq(Tasks) /\ \A x \in 1 .. Len(c) : c[x].target = "out" BY <1>1, OutsType
  <2>2. KeyArgs(c) = <<>> BY <2>1, KeyArgsNone
  <2> QED BY <2>1, <2>2 DEF Targets
<1>5. Targets(u, {"key", "v"}) /\ Targets(v, {"key", "v", "out", "count"})
  BY <1>1, UpdateTargets DEF Targets
<1>6. PICK z, d, post : z = v \o b /\ d = c \o z /\ post = a \o d OBVIOUS
<1>7. /\ z \in Seq(Tasks) /\ d \in Seq(Tasks) /\ post \in Seq(Tasks)
      /\ Targets(d, {"key", "v", "out", "count"})
  <2>1. z \in Seq(Tasks) /\ Targets(z, {"key", "v", "out", "count"})
    BY <1>2, <1>3, <1>5, <1>6, TargetsConcat, ConcatProperties
  <2>2. Targets(c, {"key", "v", "out", "count"}) BY <1>4 DEF Targets
  <2> QED BY <1>3, <1>4, <1>6, <2>1, <2>2, TargetsConcat, ConcatProperties
<1>8. Head(post).target = "check" /\ Tail(post) = d
  <2>1. Head(post) = Head(a) /\ Tail(post) = Tail(a) \o d BY <1>3, <1>6, <1>7, KeyArgsTail
  <2>2. <<>> \o d = d BY <1>7, ConcatEmptySeq
  <2> QED BY <1>3, <2>1, <2>2
<1>9. KeyArgs(v) = Twice(s) /\ Twice(s) \in Seq(Seq(Nat)) BY <1>1, KeyArgsUpdate, TwicesGathers
<1>10. Total(<<s>>) = Twice(s) /\ Total(<<>>) = <<>> BY TotalParts
<1>11. KeyArgs(post) = Twice(s)
  <2>1. /\ KeyArgs(z) = KeyArgs(v) \o KeyArgs(b) /\ KeyArgs(d) = KeyArgs(c) \o KeyArgs(z)
        /\ KeyArgs(post) = KeyArgs(a) \o KeyArgs(d)
    BY <1>2, <1>3, <1>4, <1>6, <1>7, KeyArgsParts
  <2>2. PICK w : w = Twice(s) OBVIOUS
  <2>3. w \in Seq(Seq(Nat)) BY <1>9, <2>2
  <2>4. w \o <<>> = w /\ <<>> \o w = w BY <2>3, ConcatEmptySeq
  <2> QED BY <1>3, <1>4, <1>9, <2>1, <2>2, <2>4
<1>12. KeyArgs(u) = Total(IF s = <<>> THEN <<>> ELSE <<s>>)
  <2>1. u = IF s = <<>> THEN <<>> ELSE v BY <1>1 DEF UpdateIfAny
  <2>2. KeyArgs(<<>>) = <<>> BY KeyArgsParts
  <2> QED BY <1>9, <1>10, <2>1, <2>2
<1>13. UpdateIfAny(s) \o <<Task("check", <<>>)>> \o Outs(n) \o AfterRequest(s) = u \o post
  <2>1. \A x, y, w \in Seq(Tasks) : (x \o y) \o w = x \o (y \o w) BY ConcatAssociative
  <2>2. PICK ua : ua = u \o a /\ ua \in Seq(Tasks) BY <1>2, <1>3, ConcatProperties
  <2>3. (ua \o c) \o z = ua \o d
    <3>1. ua \in Seq(Tasks) /\ c \in Seq(Tasks) /\ z \in Seq(Tasks) BY <1>4, <1>7, <2>2
    <3>2. (ua \o c) \o z = ua \o (c \o z) BY ONLY <2>1, <3>1
    <3> QED BY <1>6, <3>2
  <2>4. ua \o d = u \o post
    <3>1. u \in Seq(Tasks) /\ a \in Seq(Tasks) /\ d \in Seq(Tasks) BY <1>2, <1>3, <1>7
    <3>2. (u \o a) \o d = u \o (a \o d) BY ONLY <2>1, <3>1
    <3> QED BY <1>6, <2>2, <3>2
  <2> QED BY <1>1, <1>6, <2>2, <2>3, <2>4 DEF AfterRequest
<1> QED BY <1>2, <1>5, <1>7, <1>8, <1>10, <1>11, <1>12, <1>13

(* A call is what comes before the check of the interval and it with all   *)
(* that follows, which is dropped if the interval is over.                 *)
CallShape(pre, post) ==
    /\ Targets(pre, {"key", "v", "out", "count"})
    /\ post # <<>> => /\ Head(post).target = "check"
                      /\ Targets(Tail(post), {"key", "v", "out", "count"})
                      /\ Targets(pre, {"key", "v"})

Due(n, post) == IF n > ReseedInterval THEN <<>> ELSE KeyArgs(post)

(* What was fed has come, and comes with the tasks that are left.          *)
FedBy(k, v, n, s, fd) ==
    /\ fd \in Seq(Seq(Nat))
    /\ \E ins \in Seq(Seq(Nat)) : \E pre, post \in Seq(Tasks) :
          /\ Came(k, v, ins) /\ s = pre \o post /\ CallShape(pre, post)
          /\ Total(fd) = ins \o (KeyArgs(pre) \o Due(n, post))

Feeding == stage \in {"drbg", "mac"} => FedBy(gen.key, gen.v, gen.count, todo, fed)

(* What was fed stays when digests are added.                              *)
LEMMA FedStays ==
    ASSUME Grows, NEW k, NEW v, NEW n, NEW s, NEW fd, FedBy(k, v, n, s, fd)
    PROVE  FedBy(k, v, n, s, fd)'
<1>1. \A ins : Came(k, v, ins) => Came(k, v, ins)' BY CameStays
<1>2. Tasks' = Tasks BY DEF Tasks
<1>3. \A x, y : CallShape(x, y)' = CallShape(x, y) BY DEF CallShape, Targets
<1>4. \A x : KeyArgs(x)' = KeyArgs(x) BY DEF KeyArgs, KeyArg, Gathered, Tasks
<1>5. \A y : Due(n, y)' = Due(n, y) BY <1>4 DEF Due
<1>6. Total(fd)' = Total(fd) BY DEF Total, Twices, Twice, Gathered
<1> QED BY <1>1, <1>2, <1>3, <1>4, <1>5, <1>6 DEF FedBy

(* What has come has led to a key and a v of the right length.             *)
LEMMA CameHolds ==
    ASSUME NEW k, NEW v, NEW ins, Came(k, v, ins)
    PROVE  /\ HoldsWell(Holds(k, v, ins)) /\ ins \in Seq(Seq(Nat)) /\ MadeV(v)
           /\ k \in Seq(Nat) /\ Len(k) = HashLen /\ v \in Seq(Nat) /\ Len(v) = HashLen
<1>1. PICK c, l : IsChain(c, l) /\ c[l] = Holds(k, v, ins) BY DEF Came
<1>2. l \in 0 .. l
  <2>1. l \in Nat BY <1>1 DEF IsChain
  <2> QED BY <2>1
<1>3. HoldsWell(Holds(k, v, ins)) BY <1>1, <1>2 DEF IsChain
<1> QED BY <1>3 DEF HoldsWell, Holds

(* Nothing left is nothing left of either part.                            *)
LEMMA NothingLeft ==
    ASSUME NEW p \in Seq(Tasks), NEW q \in Seq(Tasks), p \o q = <<>>
    PROVE  p = <<>> /\ q = <<>>
<1>1. p = <<>>
  <2> SUFFICES ASSUME p # <<>> PROVE FALSE OBVIOUS
  <2> QED BY KeyArgsTail
<1>2. <<>> \o q = q BY ConcatEmptySeq
<1> QED BY <1>1, <1>2

(* A seed is mixed in twice, ...                                           *)
LEMMA FedSeed ==
    ASSUME NEW s \in Seq(Nat)
    PROVE  FedBy(Zeros(HashLen), Ones, 1, Update(s), <<s>>)
<1>1. PICK pre, o : pre = Update(s) /\ o = <<>> OBVIOUS
<1>2. pre \in Seq(Tasks) /\ o \in Seq(Tasks) /\ o \in Seq(Seq(Nat))
  BY <1>1, UpdateType, EmptySeq
<1>3. pre = pre \o o BY <1>1, <1>2, ConcatEmptySeq
<1>4. CallShape(pre, o) BY <1>1, UpdateTargets DEF CallShape, Targets
<1>5. Came(Zeros(HashLen), Ones, o) BY <1>1, CameFirst
<1>6. KeyArgs(pre) = Twice(s) /\ Total(<<s>>) = Twice(s) /\ KeyArgs(o) = o
  BY <1>1, KeyArgsUpdate, TotalParts, KeyArgsParts
<1>7. Due(1, o) = o BY <1>1, <1>6 DEF Due
<1>8. Total(<<s>>) = o \o (KeyArgs(pre) \o Due(1, o))
  <2>1. PICK w : w = Twice(s) OBVIOUS
  <2>2. w \in Seq(Seq(Nat)) BY <2>1, TwicesGathers
  <2>3. w \o <<>> = w /\ <<>> \o w = w BY <2>2, ConcatEmptySeq
  <2> QED BY <1>1, <1>6, <1>7, <2>1, <2>3
<1>9. <<s>> \in Seq(Seq(Nat))
  <2>1. PICK S : S = Seq(Nat) OBVIOUS
  <2>2. s \in S BY <2>1
  <2> QED BY <2>1, <2>2, PairIs
<1> QED BY <1>1, <1>2, <1>3, <1>4, <1>5, <1>8, <1>9 DEF FedBy

(* ... when nothing is left to do, all that was fed has come, ...          *)
LEMMA FedEnd ==
    ASSUME NEW k, NEW v, NEW n, NEW fd, FedBy(k, v, n, <<>>, fd)
    PROVE  fd \in Seq(Seq(Nat)) /\ Total(fd) \in Seq(Seq(Nat)) /\ Came(k, v, Total(fd))
<1>1. PICK ins \in Seq(Seq(Nat)) : \E pre, post \in Seq(Tasks) :
          /\ Came(k, v, ins) /\ <<>> = pre \o post
          /\ Total(fd) = ins \o (KeyArgs(pre) \o Due(n, post))
  BY DEF FedBy
<1>2. PICK pre \in Seq(Tasks), post \in Seq(Tasks) :
          /\ Came(k, v, ins) /\ <<>> = pre \o post
          /\ Total(fd) = ins \o (KeyArgs(pre) \o Due(n, post))
  BY <1>1
<1>3. pre = <<>> /\ post = <<>> BY <1>2, NothingLeft
<1>4. KeyArgs(pre) = <<>> /\ Due(n, post) = <<>> BY <1>3, KeyArgsParts DEF Due
<1>5. PICK o : o = <<>> /\ o \in Seq(Seq(Nat)) BY EmptySeq
<1>6. <<>> \o o = o /\ ins \o <<>> = ins BY <1>5, ConcatEmptySeq
<1>7. Total(fd) = ins BY <1>2, <1>4, <1>5, <1>6
<1> QED BY <1>2, <1>7 DEF FedBy

(* ... and a request adds its input before and after the check.            *)
LEMMA FedRequest ==
    ASSUME NEW k, NEW v, NEW n, NEW fd, FedBy(k, v, n, <<>>, fd),
           NEW s \in Seq(Nat), NEW m \in Nat
    PROVE  FedBy(k, v, n,
                 UpdateIfAny(s) \o <<Task("check", <<>>)>> \o Outs(m) \o AfterRequest(s),
                 fd \o (IF s = <<>> THEN <<>> ELSE <<s>>)
                    \o (IF n > ReseedInterval THEN <<>> ELSE <<s>>))
<1>1. PICK ins : ins = Total(fd) OBVIOUS
<1>2. fd \in Seq(Seq(Nat)) /\ ins \in Seq(Seq(Nat)) /\ Came(k, v, ins) BY <1>1, FedEnd
<1>3. PICK pre \in Seq(Tasks), post \in Seq(Tasks) :
          /\ UpdateIfAny(s) \o <<Task("check", <<>>)>> \o Outs(m) \o AfterRequest(s)
                = pre \o post
          /\ Targets(pre, {"key", "v"}) /\ Head(post).target = "check"
          /\ Targets(Tail(post), {"key", "v", "out", "count"})
          /\ KeyArgs(pre) = Total(IF s = <<>> THEN <<>> ELSE <<s>>)
          /\ KeyArgs(post) = Total(<<s>>)
  BY KeyArgsRequest
<1>4. CallShape(pre, post) BY <1>3 DEF CallShape, Targets
<1>5. PICK a, b : /\ a = (IF s = <<>> THEN <<>> ELSE <<s>>)
                  /\ b = (IF n > ReseedInterval THEN <<>> ELSE <<s>>)
  OBVIOUS
<1>6. a \in Seq(Seq(Nat)) /\ b \in Seq(Seq(Nat))
  <2>1. PICK S : S = Seq(Nat) OBVIOUS
  <2>2. s \in S BY <2>1
  <2>3. <<s>> \in Seq(S) /\ <<>> \in Seq(S) BY <2>2, PairIs, EmptySeq
  <2> QED BY <1>5, <2>1, <2>3
<1>7. Total(b) = Due(n, post) BY <1>3, <1>5, TotalParts DEF Due
<1>8. PICK c, e : c = fd \o a /\ e = c \o b OBVIOUS
<1>9. c \in Seq(Seq(Nat)) /\ e \in Seq(Seq(Nat)) BY <1>2, <1>6, <1>8, ConcatProperties
<1>10. Total(e) = (ins \o Total(a)) \o Total(b) BY <1>1, <1>2, <1>6, <1>8, <1>9, TotalParts
<1>11. (ins \o Total(a)) \o Total(b) = ins \o (Total(a) \o Total(b))
  <2>1. PICK x, y, S : x = Total(a) /\ y = Total(b) /\ S = Seq(Nat) OBVIOUS
  <2>2. x \in Seq(S) /\ y \in Seq(S) /\ ins \in Seq(S) BY <1>2, <1>6, <2>1, TotalParts
  <2>3. (ins \o x) \o y = ins \o (x \o y) BY ONLY <2>2, ConcatAssociative
  <2> QED BY <2>1, <2>3
<1>12. Total(e) = ins \o (KeyArgs(pre) \o Due(n, post)) BY <1>3, <1>5, <1>7, <1>10, <1>11
<1> QED BY <1>2, <1>3, <1>4, <1>5, <1>8, <1>9, <1>12 DEF FedBy

(* The first task is one of those before the check, or the check.          *)
IsCall(s, pre, post) ==
    pre \in Seq(Tasks) /\ post \in Seq(Tasks) /\ CallShape(pre, post) /\ s = pre \o post

(* A task that is not the check is one of those before it.                 *)
LEMMA FirstTask ==
    ASSUME NEW s, NEW pre, NEW post, IsCall(s, pre, post), s # <<>>, Head(s).target # "check"
    PROVE  /\ Head(s) \in Tasks /\ Tail(pre) \in Seq(Tasks) /\ Tail(s) = Tail(pre) \o post
           /\ KeyArgs(pre) = KeyArg[Head(s)] \o KeyArgs(Tail(pre))
           /\ CallShape(Tail(pre), post)
           /\ Head(s).target = "count" => post = <<>>
<1>0. pre \in Seq(Tasks) /\ post \in Seq(Tasks) /\ CallShape(pre, post) /\ s = pre \o post
  BY DEF IsCall
<1>1. pre # <<>>
  <2> SUFFICES ASSUME pre = <<>> PROVE FALSE OBVIOUS
  <2>1. <<>> \o post = post BY <1>0, ConcatEmptySeq
  <2>2. s = post BY <1>0, <2>1
  <2> QED BY <1>0, <2>2 DEF CallShape
<1>2. /\ Head(s) = Head(pre) /\ Tail(s) = Tail(pre) \o post
      /\ Head(pre) \in Tasks /\ Tail(pre) \in Seq(Tasks)
      /\ KeyArgs(pre) = KeyArg[Head(pre)] \o KeyArgs(Tail(pre))
  BY <1>0, <1>1, KeyArgsTail
<1>3. PICK n \in Nat : n = Len(pre) /\ n > 0 BY <1>0, <1>1, LenProperties, EmptySeq
<1>4. PICK u : u = Tail(pre) OBVIOUS
<1>5. Len(u) = n - 1 /\ \A x \in 1 .. n - 1 : u[x] = pre[x + 1]
  BY <1>0, <1>1, <1>3, <1>4, HeadTailProperties
<1>6. ASSUME NEW T, Targets(pre, T) PROVE Targets(u, T) /\ Head(pre).target \in T
  <2>1. \A x \in 1 .. n - 1 : x + 1 \in 1 .. n BY <1>3
  <2>2. 1 \in 1 .. n /\ Head(pre) = pre[1] BY <1>0, <1>3
  <2> QED BY <1>3, <1>5, <1>6, <2>1, <2>2 DEF Targets
<1>7. Targets(u, {"key", "v", "out", "count"})
  <2>1. Targets(pre, {"key", "v", "out", "count"}) BY <1>0 DEF CallShape
  <2> QED BY <1>6, <2>1
<1>8. post # <<>> => Targets(u, {"key", "v"}) /\ Head(pre).target # "count"
  <2>1. SUFFICES ASSUME post # <<>>
                 PROVE  Targets(u, {"key", "v"}) /\ Head(pre).target # "count"
    OBVIOUS
  <2>2. Targets(pre, {"key", "v"}) BY <1>0, <2>1 DEF CallShape
  <2>3. Targets(u, {"key", "v"}) /\ Head(pre).target \in {"key", "v"} BY <1>6, <2>2
  <2> QED BY <2>3
<1>9. CallShape(u, post) BY <1>0, <1>7, <1>8 DEF CallShape
<1> QED BY <1>2, <1>4, <1>8, <1>9

(* At the check, nothing is left of the tasks before it.                   *)
LEMMA CheckTask ==
    ASSUME NEW s, NEW pre, NEW post, IsCall(s, pre, post), s # <<>>, Head(s).target = "check"
    PROVE  /\ pre = <<>> /\ Tail(s) \in Seq(Tasks) /\ KeyArgs(post) = KeyArgs(Tail(s))
           /\ CallShape(Tail(s), <<>>)
<1>0. pre \in Seq(Tasks) /\ post \in Seq(Tasks) /\ CallShape(pre, post) /\ s = pre \o post
  BY DEF IsCall
<1>1. pre = <<>>
  <2> SUFFICES ASSUME pre # <<>> PROVE FALSE OBVIOUS
  <2>1. Head(s) = Head(pre) BY <1>0, KeyArgsTail
  <2>2. 1 \in 1 .. Len(pre) /\ Head(pre) = pre[1]
    <3>1. PICK n \in Nat : n = Len(pre) /\ n > 0 BY <1>0, LenProperties, EmptySeq
    <3> QED BY <1>0, <3>1
  <2>3. Head(pre).target \in {"key", "v", "out", "count"} BY <1>0, <2>2 DEF CallShape, Targets
  <2> QED BY <2>1, <2>3
<1>2. s = post
  <2>1. <<>> \o post = post BY <1>0, ConcatEmptySeq
  <2> QED BY <1>0, <1>1, <2>1
<1>3. CallShape(Tail(s), <<>>) BY <1>0, <1>2 DEF CallShape
<1>4. /\ Head(s) \in Tasks /\ Tail(s) \in Seq(Tasks)
      /\ KeyArgs(s) = KeyArg[Head(s)] \o KeyArgs(Tail(s))
  BY <1>0, <1>2, KeyArgsTail
<1>5. KeyArg[Head(s)] = <<>> BY <1>4, KeyArgGathers
<1>6. PICK w : w = KeyArgs(Tail(s)) /\ w \in Seq(Seq(Nat)) BY <1>4, KeyArgsParts
<1>7. <<>> \o w = w BY <1>6, ConcatEmptySeq
<1> QED BY <1>1, <1>2, <1>3, <1>4, <1>5, <1>6, <1>7

(* The check drops the tasks behind it with the input that they had.       *)
LEMMA FedCheck ==
    ASSUME NEW k, NEW v, NEW n, NEW s, NEW fd, FedBy(k, v, n, s, fd),
           s # <<>>, Head(s).target = "check"
    PROVE  FedBy(k, v, n, IF n > ReseedInterval THEN <<>> ELSE Tail(s), fd)
<1>1. PICK ins \in Seq(Seq(Nat)) : \E pre, post \in Seq(Tasks) :
          /\ Came(k, v, ins) /\ s = pre \o post /\ CallShape(pre, post)
          /\ Total(fd) = ins \o (KeyArgs(pre) \o Due(n, post))
  BY DEF FedBy
<1>2. PICK pre \in Seq(Tasks), post \in Seq(Tasks) :
          /\ Came(k, v, ins) /\ s = pre \o post /\ CallShape(pre, post)
          /\ Total(fd) = ins \o (KeyArgs(pre) \o Due(n, post))
  BY <1>1
<1>3. /\ pre = <<>> /\ Tail(s) \in Seq(Tasks) /\ KeyArgs(post) = KeyArgs(Tail(s))
      /\ CallShape(Tail(s), <<>>)
  <2>1. IsCall(s, pre, post) BY <1>2 DEF IsCall
  <2> QED BY <2>1, CheckTask
<1>4. PICK o : o = <<>> /\ o \in Seq(Tasks) BY EmptySeq
<1>5. PICK u : u = (IF n > ReseedInterval THEN <<>> ELSE Tail(s)) OBVIOUS
<1>6. u \in Seq(Tasks) BY <1>3, <1>4, <1>5
<1>7. CallShape(u, o)
  <2>1. CallShape(o, o) BY <1>4 DEF CallShape, Targets
  <2> QED BY <1>3, <1>4, <1>5, <2>1
<1>8. u = u \o o BY <1>4, <1>6, ConcatEmptySeq
<1>9. KeyArgs(o) = <<>> /\ KeyArgs(pre) = <<>> BY <1>3, <1>4, KeyArgsParts
<1>10. KeyArgs(u) = Due(n, post) BY <1>3, <1>4, <1>5, <1>9 DEF Due
<1>11. Due(n, o) = <<>> BY <1>9 DEF Due
<1>12. KeyArgs(pre) \o Due(n, post) = KeyArgs(u) \o Due(n, o)
  <2>1. PICK w : w = KeyArgs(u) /\ w \in Seq(Seq(Nat)) BY <1>6, KeyArgsParts
  <2>2. w \o <<>> = w /\ <<>> \o w = w BY <2>1, ConcatEmptySeq
  <2> QED BY <1>9, <1>10, <1>11, <2>1, <2>2
<1>13. Total(fd) = ins \o (KeyArgs(u) \o Due(n, o)) BY <1>2, <1>12
<1>14. FedBy(k, v, n, u, fd) BY <1>2, <1>4, <1>6, <1>7, <1>8, <1>13 DEF FedBy
<1> QED BY <1>5, <1>14

(* A task that mixes nothing in, and one that does.                        *)
LEMMA FedOther ==
    ASSUME NEW k, NEW v, NEW n, NEW s, NEW fd, FedBy(k, v, n, s, fd),
           s # <<>>, Head(s).target \in {"v", "out", "count"},
           NEW w, \A ins : Came(k, v, ins) => Came(k, w, ins),
           NEW m, m = n \/ Head(s).target = "count"
    PROVE  FedBy(k, w, m, Tail(s), fd)
<1>1. PICK ins \in Seq(Seq(Nat)) : \E pre, post \in Seq(Tasks) :
          /\ Came(k, v, ins) /\ s = pre \o post /\ CallShape(pre, post)
          /\ Total(fd) = ins \o (KeyArgs(pre) \o Due(n, post))
  BY DEF FedBy
<1>2. PICK pre \in Seq(Tasks), post \in Seq(Tasks) :
          /\ Came(k, v, ins) /\ s = pre \o post /\ CallShape(pre, post)
          /\ Total(fd) = ins \o (KeyArgs(pre) \o Due(n, post))
  BY <1>1
<1>3. Head(s).target # "check" OBVIOUS
<1>4. /\ Head(s) \in Tasks /\ Tail(pre) \in Seq(Tasks) /\ Tail(s) = Tail(pre) \o post
      /\ KeyArgs(pre) = KeyArg[Head(s)] \o KeyArgs(Tail(pre))
      /\ CallShape(Tail(pre), post) /\ (Head(s).target = "count" => post = <<>>)
  <2>1. IsCall(s, pre, post) BY <1>2 DEF IsCall
  <2> QED BY <1>3, <2>1, FirstTask
<1>5. KeyArgs(pre) = KeyArgs(Tail(pre))
  <2>1. KeyArg[Head(s)] = <<>> BY <1>4, KeyArgGathers
  <2>2. PICK x : x = KeyArgs(Tail(pre)) /\ x \in Seq(Seq(Nat)) BY <1>4, KeyArgsParts
  <2>3. <<>> \o x = x BY <2>2, ConcatEmptySeq
  <2> QED BY <1>4, <2>1, <2>2, <2>3
<1>6. Due(m, post) = Due(n, post)
  <2>1. CASE m = n BY <2>1
  <2>2. CASE Head(s).target = "count"
    <3>1. KeyArgs(post) = <<>> BY <1>4, <2>2, KeyArgsParts
    <3> QED BY <3>1 DEF Due
  <2> QED BY <2>1, <2>2
<1>7. Total(fd) = ins \o (KeyArgs(Tail(pre)) \o Due(m, post)) BY <1>2, <1>5, <1>6
<1>8. Came(k, w, ins) BY <1>2
<1> QED BY <1>4, <1>7, <1>8 DEF FedBy

(* An HMAC for the key adds its input.                                     *)
LEMMA FedKey ==
    ASSUME NEW k, NEW v, NEW n, NEW s, NEW fd, FedBy(k, v, n, s, fd),
           s # <<>>, Head(s).target = "key",
           NEW w, \A ins : Came(k, v, ins) => Came(w, v, Append(ins, Head(s).arg))
    PROVE  FedBy(w, v, n, Tail(s), fd)
<1>1. PICK ins \in Seq(Seq(Nat)) : \E pre, post \in Seq(Tasks) :
          /\ Came(k, v, ins) /\ s = pre \o post /\ CallShape(pre, post)
          /\ Total(fd) = ins \o (KeyArgs(pre) \o Due(n, post))
  BY DEF FedBy
<1>2. PICK pre \in Seq(Tasks), post \in Seq(Tasks) :
          /\ Came(k, v, ins) /\ s = pre \o post /\ CallShape(pre, post)
          /\ Total(fd) = ins \o (KeyArgs(pre) \o Due(n, post))
  BY <1>1
<1>3. Head(s).target # "check" OBVIOUS
<1>4. /\ Head(s) \in Tasks /\ Tail(pre) \in Seq(Tasks) /\ Tail(s) = Tail(pre) \o post
      /\ KeyArgs(pre) = KeyArg[Head(s)] \o KeyArgs(Tail(pre))
      /\ CallShape(Tail(pre), post)
  <2>1. IsCall(s, pre, post) BY <1>2 DEF IsCall
  <2> QED BY <1>3, <2>1, FirstTask
<1>5. PICK S, a : S = Seq(Nat) /\ a = Head(s).arg OBVIOUS
<1>6. a \in S /\ KeyArg[Head(s)] = <<a>> BY <1>4, <1>5, KeyArgGathers
<1>7. PICK e, x, y, z : /\ e = <<a>> /\ x = KeyArgs(Tail(pre)) /\ y = Due(n, post)
                        /\ z = Append(ins, a)
  OBVIOUS
<1>8. e \in Seq(S) /\ x \in Seq(S) /\ y \in Seq(S) /\ ins \in Seq(S) /\ z \in Seq(S)
  <2>1. e \in Seq(S) BY <1>6, <1>7, PairIs
  <2>2. x \in Seq(S) BY <1>4, <1>5, <1>7, KeyArgsParts
  <2>3. KeyArgs(post) \in Seq(S) /\ <<>> \in Seq(S) BY <1>5, KeyArgsParts, EmptySeq
  <2>4. y \in Seq(S) BY <1>7, <2>3 DEF Due
  <2>5. ins \in Seq(S) BY <1>5
  <2>6. z \in Seq(S) BY <1>6, <1>7, <2>5, AppendProperties
  <2> QED BY <2>1, <2>2, <2>4, <2>5, <2>6
<1>9. z = ins \o e
  <2>1. Append(ins, a) = ins \o <<a>> BY ONLY <1>6, <1>8, AppendIsConcat
  <2> QED BY <1>7, <2>1
<1>10. ins \o ((e \o x) \o y) = z \o (x \o y)
  <2>1. \A b, c, d \in Seq(S) : (b \o c) \o d = b \o (c \o d) BY ConcatAssociative
  <2>2. PICK xy : xy = x \o y /\ xy \in Seq(S) BY <1>8, ConcatProperties
  <2>3. (e \o x) \o y = e \o xy BY <1>8, <2>1, <2>2
  <2>4. (ins \o e) \o xy = ins \o (e \o xy) BY ONLY <1>8, <2>1, <2>2
  <2> QED BY <1>9, <2>2, <2>3, <2>4
<1>11. Total(fd) = z \o (x \o y) BY <1>2, <1>4, <1>6, <1>7, <1>10
<1>12. Came(w, v, z) BY <1>2, <1>5, <1>7
<1> QED BY <1>4, <1>5, <1>7, <1>8, <1>11, <1>12 DEF FedBy

(* A step of the generator takes the new v or the new key, ...             *)
LEMMA TaskFeeding ==
    ASSUME DerivationInv, AllFit, HashStrung, GenCalls, Feeding, DrbgTake
    PROVE  FedBy(gen'.key, gen'.v, gen'.count, todo', fed')
<1>0. StageTypes BY DEF DerivationInv
<1>1. /\ stage = "mac" /\ todo' = Tail(todo) /\ fed' = fed
      /\ IF Head(todo).target = "key"
         THEN gen' = [gen EXCEPT !.key = out] ELSE gen' = [gen EXCEPT !.v = out]
  BY DEF DrbgTake
<1>2. /\ todo \in Seq(Tasks) /\ todo # <<>> /\ gen \in [key : Seq(Nat), v : Seq(Nat), count : Nat]
  BY <1>0, <1>1 DEF StageTypes
<1>3. PICK j \in Nat : /\ j > 0 /\ out = DigestBytes(j)
                       /\ IsMac(j, gen.key, gen.v \o Given(Head(todo)))
  BY TaskMade
<1>4. PICK b : b = DigestBytes(j) /\ b = out BY <1>3
<1>5. b \in Seq(Nat) /\ Len(b) = HashLen /\ MadeV(b)
  <2>1. Len(b) = HashLen /\ b \in Seq(Nat) BY <1>3, <1>4, DigestBytesType
  <2> QED BY <1>3, <1>4, <2>1 DEF MadeV
<1>6. FedBy(gen.key, gen.v, gen.count, todo, fed) BY <1>1 DEF Feeding
<1>7. Head(todo).target \in {"key", "v", "out"} BY <1>1 DEF GenCalls
<1>8. PICK k, v, p : k = gen.key /\ v = gen.v /\ p = Head(todo) OBVIOUS
<1>9. k \in Seq(Nat) /\ v \in Seq(Nat) /\ p \in Tasks BY <1>2, <1>8, HeadTailProperties
<1>10. CASE p.target = "key"
  <2>1. gen'.key = b /\ gen'.v = v /\ gen'.count = gen.count BY <1>1, <1>2, <1>4, <1>8, <1>10
  <2>2. PICK x \in Seq(Nat) : x = p.arg BY <1>9, <1>10, KeyArgGathers
  <2>3. IsMac(j, k, v \o x) BY <1>3, <1>8, <1>10, <2>2 DEF Given
  <2>4. ASSUME NEW ins, Came(k, v, ins) PROVE Came(b, v, Append(ins, x))
    <3>1. PICK s, z : s = Holds(b, v, z) /\ z = Append(ins, x) OBVIOUS
    <3>2. /\ ins \in Seq(Seq(Nat)) /\ MadeV(v) /\ Len(v) = HashLen BY <2>4, CameHolds
    <3>3. z \in Seq(Seq(Nat))
      <4>1. PICK S : S = Seq(Nat) OBVIOUS
      <4>2. x \in S /\ ins \in Seq(S) BY <2>2, <3>2, <4>1
      <4>3. Append(ins, x) \in Seq(S) BY ONLY <4>2, AppendProperties
      <4> QED BY <3>1, <4>1, <4>3
    <3>4. HoldsWell(s) BY <1>5, <1>9, <3>1, <3>2, <3>3 DEF Holds, HoldsWell
    <3>5. LinkKey(Holds(k, v, ins), s)
      BY <1>4, <2>2, <2>3, <3>1 DEF LinkKey, Holds
    <3>6. Came(s.key, s.v, s.inputs) BY <2>4, <3>4, <3>5, CameMore
    <3> QED BY <3>1, <3>6 DEF Holds
  <2>5. FedBy(k, v, gen.count, todo, fed) BY <1>6, <1>8
  <2>6. PICK n, s, fd : n = gen.count /\ s = todo /\ fd = fed OBVIOUS
  <2>7. FedBy(b, v, n, Tail(s), fd)
    <3>1. /\ FedBy(k, v, n, s, fd) /\ s # <<>> /\ Head(s).target = "key"
          /\ \A ins : Came(k, v, ins) => Came(b, v, Append(ins, Head(s).arg))
      BY <1>2, <1>8, <1>10, <2>2, <2>4, <2>5, <2>6
    <3> QED BY ONLY <3>1, FedKey
  <2> QED BY <1>1, <2>1, <2>6, <2>7
<1>11. CASE p.target # "key"
  <2>1. gen'.key = k /\ gen'.v = b /\ gen'.count = gen.count BY <1>1, <1>2, <1>4, <1>8, <1>11
  <2>2. IsMac(j, k, v)
    <3>1. v \o <<>> = v BY <1>9, ConcatEmptySeq
    <3> QED BY <1>3, <1>8, <1>11, <3>1 DEF Given
  <2>3. ASSUME NEW ins, Came(k, v, ins) PROVE Came(k, b, ins)
    <3>1. PICK s : s = Holds(k, b, ins) OBVIOUS
    <3>2. ins \in Seq(Seq(Nat)) /\ Len(k) = HashLen BY <2>3, CameHolds
    <3>3. HoldsWell(s) BY <1>5, <1>9, <3>1, <3>2 DEF Holds, HoldsWell
    <3>4. LinkV(Holds(k, v, ins), s) BY <1>4, <2>2, <3>1 DEF LinkV, Holds
    <3>5. Came(s.key, s.v, s.inputs) BY <2>3, <3>3, <3>4, CameMore
    <3> QED BY <3>1, <3>5 DEF Holds
  <2>4. PICK n, s, fd : n = gen.count /\ s = todo /\ fd = fed OBVIOUS
  <2>5. FedBy(k, b, n, Tail(s), fd)
    <3>1. /\ FedBy(k, v, n, s, fd) /\ s # <<>> /\ Head(s).target \in {"v", "out", "count"}
          /\ \A ins : Came(k, v, ins) => Came(k, b, ins)
      BY <1>2, <1>6, <1>7, <1>8, <1>11, <2>3, <2>4
    <3> QED BY ONLY <3>1, FedOther
  <2> QED BY <1>1, <2>1, <2>4, <2>5
<1> QED BY <1>10, <1>11

(* ... and every other step leaves what they contain.                      *)
LEMMA FeedingNext ==
    ASSUME DerivationInv, AllFit, HashStrung, GenCalls, Feeding, [Next]_vars
    PROVE  Feeding'
<1>0. StageTypes /\ HashInv BY DEF DerivationInv
<1>1. todo \in Seq(Tasks) /\ gen \in [key : Seq(Nat), v : Seq(Nat), count : Nat]
  BY <1>0 DEF StageTypes
<1>2. ASSUME Grows, FedBy(gen'.key, gen'.v, gen'.count, todo', fed')
      PROVE  Feeding'
  <2>1. PICK k, v, n, s, fd : /\ k = gen'.key /\ v = gen'.v /\ n = gen'.count
                              /\ s = todo' /\ fd = fed'
    OBVIOUS
  <2>2. FedBy(k, v, n, s, fd) BY <1>2, <2>1
  <2>3. FedBy(k, v, n, s, fd)' BY <1>2, <2>2, FedStays
  <2> QED BY <2>1, <2>3 DEF Feeding, FedBy
<1>3. UNCHANGED hashVars => Grows BY <1>0, SameGrows DEF hashVars, args
<1>4. CASE GenSame
  <2>1. Grows /\ UNCHANGED <<stage, gen, todo, fed>> BY <1>4 DEF GenSame
  <2>2. CASE stage \in {"drbg", "mac"}
    <3>1. FedBy(gen'.key, gen'.v, gen'.count, todo', fed') BY <2>1, <2>2 DEF Feeding
    <3> QED BY <1>2, <2>1, <3>1
  <2>3. CASE stage \notin {"drbg", "mac"} BY <2>1, <2>3 DEF Feeding
  <2> QED BY <2>2, <2>3
<1>5. CASE GenStart
  <2>1. PICK s \in Seq(Nat) : Seed(s) /\ UNCHANGED hashVars BY <1>5 DEF GenStart
  <2>2. /\ todo' = Update(s) /\ fed' = <<s>>
        /\ gen' = [key |-> Zeros(HashLen), v |-> [j \in 1 .. HashLen |-> 1], count |-> 1]
    BY <2>1, SeedLeaves
  <2>3. gen'.key = Zeros(HashLen) /\ gen'.v = Ones /\ gen'.count = 1 BY <2>2 DEF Ones
  <2>4. FedBy(Zeros(HashLen), Ones, 1, Update(s), <<s>>) BY FedSeed
  <2> QED BY <1>2, <1>3, <2>1, <2>2, <2>3, <2>4
<1>6. CASE GenElse BY <1>6 DEF GenElse, Feeding
<1>7. CASE Request
  <2>1. PICK m \in Requests, a \in Additional :
            /\ todo' = UpdateIfAny(a) \o <<Task("check", <<>>)>>
                         \o [x \in 1 .. Blocks(m) |->
                                Task("out", Least(HashLen, m - HashLen * (x - 1)))]
                         \o AfterRequest(a)
            /\ fed' = fed \o (IF a = <<>> THEN <<>> ELSE <<a>>)
                          \o (IF gen.count > ReseedInterval THEN <<>> ELSE <<a>>)
    BY <1>7 DEF Request
  <2>2. /\ stage = "drbg" /\ todo = <<>> /\ UNCHANGED <<hashVars, gen>>
    BY <1>7 DEF Request, Ready
  <2>3. m \in Nat /\ a \in Seq(Nat) BY DerivationAssumption, Strings
  <2>4. PICK k, v, n, fd : k = gen.key /\ v = gen.v /\ n = gen.count /\ fd = fed OBVIOUS
  <2>5. FedBy(k, v, n, <<>>, fd) BY <2>2, <2>4 DEF Feeding
  <2>6. FedBy(k, v, n,
              UpdateIfAny(a) \o <<Task("check", <<>>)>> \o Outs(m) \o AfterRequest(a),
              fd \o (IF a = <<>> THEN <<>> ELSE <<a>>)
                 \o (IF n > ReseedInterval THEN <<>> ELSE <<a>>))
    BY ONLY <2>3, <2>5, FedRequest
  <2>7. FedBy(gen'.key, gen'.v, gen'.count, todo', fed') BY <2>1, <2>2, <2>4, <2>6 DEF Outs
  <2> QED BY <1>2, <1>3, <2>2, <2>7
<1>8. CASE RequestStep
  <2>1. stage = "drbg" /\ todo # <<>> /\ UNCHANGED <<hashVars, fed>> BY <1>8 DEF RequestStep
  <2>2. PICK k, v, n, s, fd : /\ k = gen.key /\ v = gen.v /\ n = gen.count
                              /\ s = todo /\ fd = fed
    OBVIOUS
  <2>3. FedBy(k, v, n, s, fd) /\ s # <<>> BY <2>1, <2>2 DEF Feeding
  <2>4. CASE /\ Head(todo).target = "check" /\ gen' = gen
             /\ todo' = IF gen.count > ReseedInterval THEN <<>> ELSE Tail(todo)
    <3>1. Head(s).target = "check" BY <2>2, <2>4
    <3>2. FedBy(k, v, n, IF n > ReseedInterval THEN <<>> ELSE Tail(s), fd)
      BY ONLY <2>3, <3>1, FedCheck
    <3>3. FedBy(gen'.key, gen'.v, gen'.count, todo', fed') BY <2>1, <2>2, <2>4, <3>2
    <3> QED BY <1>2, <1>3, <2>1, <3>3
  <2>5. CASE /\ Head(todo).target = "count" /\ gen' = [gen EXCEPT !.count = @ + 1]
             /\ todo' = Tail(todo)
    <3>1. Head(s).target = "count" BY <2>2, <2>5
    <3>2. PICK m : m = n + 1 OBVIOUS
    <3>3. FedBy(k, v, m, Tail(s), fd)
      <4>1. Head(s).target \in {"v", "out", "count"} BY <3>1
      <4>2. \A ins : Came(k, v, ins) => Came(k, v, ins) OBVIOUS
      <4> QED BY ONLY <2>3, <3>1, <4>1, <4>2, FedOther
    <3>4. gen'.key = k /\ gen'.v = v /\ gen'.count = m BY <1>1, <2>2, <2>5, <3>2
    <3>5. FedBy(gen'.key, gen'.v, gen'.count, todo', fed') BY <2>1, <2>2, <2>5, <3>3, <3>4
    <3> QED BY <1>2, <1>3, <2>1, <3>5
  <2> QED BY <1>8, <2>4, <2>5 DEF RequestStep
<1>9. CASE DrbgMac
  <2>1. /\ stage = "drbg" /\ UNCHANGED <<gen, todo, fed>>
        /\ CallHmac(gen.key, gen.v \o Given(Head(todo)))
    BY <1>9 DEF DrbgMac, drbgVars, Given
  <2>2. Grows BY <1>0, <2>1, CallHmacGrows
  <2>3. FedBy(gen'.key, gen'.v, gen'.count, todo', fed') BY <2>1 DEF Feeding
  <2> QED BY <1>2, <2>2, <2>3
<1>10. CASE DrbgTake
  <2>1. UNCHANGED hashVars BY <1>10 DEF DrbgTake
  <2>2. FedBy(gen'.key, gen'.v, gen'.count, todo', fed') BY <1>10, TaskFeeding
  <2> QED BY <1>2, <1>3, <2>1, <2>2
<1> QED BY <1>4, <1>5, <1>6, <1>7, <1>8, <1>9, <1>10, GenCases

(* Between two calls nothing is left to be mixed in.                       *)
LEMMA FeedingShows ==
    ASSUME DerivationInv, Strung, Feeding
    PROVE  InputsInState
<1> SUFFICES ASSUME stage = "drbg", todo = <<>>
             PROVE  Inputs(gen.key, gen.v) = FlattenSeq([j \in DOMAIN fed |-> Twice(fed[j])])
  BY DEF InputsInState
<1>0. HashInv /\ StageTypes /\ HashStrung /\ DeriveStrung BY DEF DerivationInv, Strung
<1>1. IsMd(fn) BY <1>0 DEF StageTypes
<1>2. fn \in MdFunctions
  <2>1. fn \in MdFunctions \cup Sponges BY <1>0 DEF HashInv, HashTypes
  <2> QED BY <1>1, <2>1, SpongeNumbers
<1>3. known \in Seq(States) /\ Grounded BY <1>0, <1>1 DEF HashInv, Knowing, HashStrung
<1>4. PICK k, v, n, fd : k = gen.key /\ v = gen.v /\ n = gen.count /\ fd = fed OBVIOUS
<1>5. k \in Seq(Names(Len(known))) /\ v \in Seq(Names(Len(known)))
  BY <1>0, <1>1, <1>4 DEF DeriveStrung, StrungOver
<1>6. FedBy(k, v, n, <<>>, fd) BY <1>4 DEF Feeding
<1>7. fd \in Seq(Seq(Nat)) /\ Came(k, v, Total(fd)) BY <1>6, FedEnd
<1>8. Inputs(k, v) = Total(fd) BY <1>2, <1>3, <1>5, <1>7, InputsAre
<1>9. Total(fd) = FlattenSeq([j \in DOMAIN fd |-> Twice(fd[j])])
  <2>1. DOMAIN fd = 1 .. Len(fd) BY <1>7
  <2>2. \A j \in 1 .. Len(fd) : Twices[fd[j]] = Twice(fd[j])
    BY <1>7, TwicesGathers, ElementOfSeq
  <2>3. [j \in 1 .. Len(fd) |-> Twices[fd[j]]] = [j \in DOMAIN fd |-> Twice(fd[j])]
    BY <2>1, <2>2
  <2> QED BY <2>3 DEF Total, Gathered
<1> QED BY <1>4, <1>8, <1>9

(* Between two calls the state of the generator contains, in order, each   *)
(* input since its seeding, twice, and nothing from before: nothing that   *)
(* was given to it is lost and reseed() leaves nothing of the old state,   *)
(* as long as the lengths of all that is hashed can be written behind it.  *)
THEOREM InputsAlwaysInState ==
    Spec => ([]AllFit => []InputsInState)
<1> DEFINE GenInv == DerivationInv /\ Strung /\ GenCalls /\ Feeding
<1>1. ASSUME Init PROVE Strung /\ GenCalls /\ Feeding
  <2>1. stage = "idle" BY <1>1 DEF Init
  <2>2. Strung BY <1>1, InitStrung
  <2> QED BY <2>1, <2>2 DEF GenCalls, Feeding
<1>2. ASSUME GenInv, AllFit, [Next]_vars PROVE Strung' /\ GenCalls' /\ Feeding'
  <2>1. HashStrung BY <1>2 DEF Strung
  <2> QED BY <1>2, <2>1, NextStrung, GenCallsNext, FeedingNext
<1>3. GenInv => InputsInState BY FeedingShows
<1> QED BY <1>1, <1>2, <1>3, AlwaysDerivationInv, PTL DEF Spec
=============================================================================
