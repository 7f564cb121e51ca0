------------------------- MODULE Derivations_proofs -------------------------
(***************************************************************************)
(* Proofs about Digests and Derivations: whatever HKDF, PBKDF2 or the      *)
(* generator asks of HMAC, what a hash function has hashed can be read     *)
(* back from the blocks, and key and message from a MAC; the blocks are    *)
(* those of the standards except for the lengths of Boundary, and the      *)
(* output of a sponge is the standard's.                                   *)
(*                                                                         *)
(* The blocks are seen as the words of one sequence of whole blocks        *)
(* (Filled), which is cut and joined again; the invariant says that the    *)
(* state is made of these blocks, that each digest given out is that of a  *)
(* known state, and where the hashes of hmac_...() are.                    *)
(***************************************************************************)
EXTENDS Derivations, Recursion_proofs, TLAPS

-----------------------------------------------------------------------------
(* Numbers.                                                                *)
LEMMA Numbers ==
    Base \in Nat /\ Base > 1 /\ 0 \in Byte /\ Byte \subseteq Nat
<1>1. Base \in Nat \ {0, 1} BY BytesAssumption
<1> QED BY <1>1 DEF Byte

(* The powers of the base are what they are defined to be.                 *)
LEMMA PowerDefined ==
    Powers(Base, Power) /\ \A n \in Nat : Power[n] \in Nat /\ Power[n] > 0
<1>1. Base \in Nat /\ Base > 1 BY Numbers
<1>2. \E P : Powers(Base, P) /\ P = [n \in Nat |-> IF n = 0 THEN 1 ELSE Base * P[n - 1]]
  BY <1>1, PowersExist
<1>3. Power = CHOOSE P : P = [n \in Nat |-> IF n = 0 THEN 1 ELSE Base * P[n - 1]]
  BY DEF Power
<1>4. Power = [n \in Nat |-> IF n = 0 THEN 1 ELSE Base * Power[n - 1]]
  BY <1>2, <1>3
<1>5. Powers(Base, Power) BY ONLY <1>1, <1>4, PowersKnown
<1> QED BY <1>1, <1>5, PowersPositive

(* The digits of a number are bytes, ...                                   *)
LEMMA ToBytesType ==
    ASSUME NEW k \in Nat, NEW n \in Nat
    PROVE  /\ ToBytes(k, n) \in [1 .. n -> Byte]
           /\ ToBytes(k, n) \in Seq(Byte) /\ Len(ToBytes(k, n)) = n
<1>1. Base \in Nat /\ Base > 1 BY Numbers
<1>2. \A j \in 1 .. n : (k \div Power[n - j]) % Base \in Byte
  <2> TAKE j \in 1 .. n
  <2>1. n - j \in Nat BY <1>1
  <2>2. Power[n - j] \in Nat /\ Power[n - j] > 0 BY <2>1, PowerDefined
  <2> DEFINE p == Power[n - j]
  <2>3. p \in Nat /\ p > 0 BY <2>2
  <2> HIDE DEF p
  <2>4. k \div p \in Int BY <2>3
  <2>5. (k \div p) % Base \in 0 .. Base - 1 BY <1>1, <2>4
  <2> QED BY <2>5 DEF p, Byte
<1>3. ToBytes(k, n) \in [1 .. n -> Byte] BY <1>2 DEF ToBytes
<1> QED BY <1>3, StringLength

(* ... of which the number is read again, if it fits.                      *)
LEMMA BytesRead ==
    ASSUME NEW k \in Nat, NEW n \in Nat, k < Power[n], NEW s, s = ToBytes(k, n)
    PROVE  ToNumber(s) = k
<1> DEFINE Is(f) == f = [m \in 0 .. Len(s) |-> IF m = 0 THEN 0 ELSE Base * f[m - 1] + s[m]]
           value == CHOOSE f : Is(f)
           next == [m \in Nat |-> [v \in Nat |-> Base * v + (IF m < n THEN s[m + 1] ELSE 0)]]
<1>0. Base \in Nat /\ Base > 1 /\ Base > 0 /\ 0 \in Byte /\ Byte \subseteq Nat BY Numbers
<1>1. s \in [1 .. n -> Byte] /\ Len(s) = n BY ToBytesType
<1>2. next \in [Nat -> [Nat -> Nat]]
  <2>1. \A m \in Nat : m < n => s[m + 1] \in Nat
    <3> SUFFICES ASSUME NEW m \in Nat, m < n PROVE s[m + 1] \in Nat OBVIOUS
    <3>1. m + 1 \in 1 .. n OBVIOUS
    <3>2. s[m + 1] \in Byte BY <1>1, <3>1
    <3> QED BY <1>0, <3>2
  <2> DEFINE d == [m \in Nat |-> IF m < n THEN s[m + 1] ELSE 0]
  <2>2. \A m \in Nat : d[m] \in Nat BY <2>1
  <2>3. \A m \in Nat : \A v \in Nat : Base * v + d[m] \in Nat
    <3> HIDE DEF d
    <3> QED BY <1>0, <2>2
  <2>4. \A m \in Nat : d[m] = IF m < n THEN s[m + 1] ELSE 0 OBVIOUS
  <2> HIDE DEF d
  <2> QED BY <2>3, <2>4
<1>3. \A m \in Nat : \A v \in Nat : m < n => next[m][v] = Base * v + s[m + 1] OBVIOUS
<1> HIDE DEF next
<1>4. 0 \in Nat OBVIOUS
<1>5. PICK g : IsRecursive(g, Nat, 0, next) BY ONLY <1>2, <1>4, RecursiveFunction
<1>6. g \in [Nat -> Nat] /\ g[0] = 0 /\ \A m \in Nat : g[m + 1] = next[m][g[m]]
  BY <1>5 DEF IsRecursive
<1>7. \A m \in Nat : m < n => g[m + 1] = Base * g[m] + s[m + 1] BY <1>3, <1>6
<1>8. \E f : Is(f)
  <2> DEFINE f == [m \in 0 .. n |-> g[m]]
  <2>1. \A m \in 0 .. n : f[m] = IF m = 0 THEN 0 ELSE Base * f[m - 1] + s[m]
    <3> TAKE m \in 0 .. n
    <3>1. CASE m = 0 BY <1>6, <3>1
    <3>2. CASE m # 0
      <4>1. m - 1 \in Nat /\ m - 1 < n /\ (m - 1) + 1 = m /\ m - 1 \in 0 .. n BY <3>2
      <4>2. f[m] = g[m] /\ f[m - 1] = g[m - 1] BY <4>1
      <4> QED BY <1>7, <3>2, <4>1, <4>2
    <3> QED BY <3>1, <3>2
  <2>2. DOMAIN f = 0 .. Len(s) BY <1>1
  <2>3. f = [m \in 0 .. n |-> f[m]] OBVIOUS
  <2> HIDE DEF f
  <2>4. f = [m \in 0 .. n |-> IF m = 0 THEN 0 ELSE Base * f[m - 1] + s[m]] BY <2>1, <2>3
  <2>5. Is(f) BY <1>1, <2>4
  <2> QED BY <2>5
<1>9. Is(value) BY <1>8
<1>10. ToNumber(s) = value[Len(s)] BY DEF ToNumber
<1> HIDE DEF value
<1>11. \A m \in 0 .. n : value[m] = IF m = 0 THEN 0 ELSE Base * value[m - 1] + s[m]
  BY <1>1, <1>9
<1>12. value[0] = 0 BY <1>11
<1>13. \A m \in Nat : m < n => value[m + 1] = Base * value[m] + ((k \div Power[n - (m + 1)]) % Base)
  <2> SUFFICES ASSUME NEW m \in Nat, m < n
               PROVE  value[m + 1] = Base * value[m] + ((k \div Power[n - (m + 1)]) % Base)
    OBVIOUS
  <2>1. m + 1 \in 1 .. n /\ m + 1 \in 0 .. n /\ m + 1 # 0 /\ (m + 1) - 1 = m OBVIOUS
  <2>2. s[m + 1] = (k \div Power[n - (m + 1)]) % Base BY <2>1 DEF ToBytes
  <2> QED BY <1>11, <2>1, <2>2
<1>14. Powers(Base, Power) BY PowerDefined
<1>15. value[n] = k % Power[n] BY ONLY <1>0, <1>12, <1>13, <1>14, DigitsValue, k \in Nat, n \in Nat
<1>16. k % Power[n] = k
  <2>1. Power[n] \in Nat /\ Power[n] > 0 BY PowerDefined
  <2> DEFINE p == Power[n]
  <2>2. p \in Nat /\ p > 0 /\ k < p BY <2>1
  <2> HIDE DEF p
  <2>3. k % p = k BY <2>2
  <2> QED BY <2>3 DEF p
<1> QED BY <1>1, <1>10, <1>15, <1>16

-----------------------------------------------------------------------------
(* Places in a sequence of pieces.                                         *)
LEMMA Multiples ==
    ASSUME NEW b \in Nat, NEW m \in Nat, NEW n \in Nat, m <= n
    PROVE  b * m <= b * n
<1>1. PICK d \in Nat : n = m + d
  <2>1. n - m \in Nat /\ n = m + (n - m) OBVIOUS
  <2> QED BY <2>1
<1>2. b * n = b * m + b * d BY <1>1
<1>3. b * d \in Nat BY <1>1
<1> QED BY <1>2, <1>3

(* A place in a piece is one in the whole, ...                             *)
LEMMA Inside ==
    ASSUME NEW b \in Nat, NEW n \in Nat, NEW k \in 1 .. n, NEW x \in 1 .. b
    PROVE  b * (k - 1) + x \in 1 .. b * n /\ b * (k - 1) \in Nat
<1>1. k \in Nat /\ k - 1 \in Nat /\ k <= n OBVIOUS
<1>2. b * k <= b * n BY <1>1, Multiples
<1>3. b * (k - 1) = b * k - b /\ b * (k - 1) \in Nat BY <1>1
<1> QED BY <1>1, <1>2, <1>3

(* ... and each place in the whole is one in a piece.                      *)
LEMMA SomePlace ==
    ASSUME NEW b \in Nat, b > 0, NEW n \in Nat, NEW y \in 1 .. b * n
    PROVE  \E k \in 1 .. n, x \in 1 .. b : y = b * (k - 1) + x
<1>1. PICK z \in Nat : z = y - 1 OBVIOUS
<1>2. PICK q, r : q = z \div b /\ r = z % b OBVIOUS
<1>3. q \in Nat /\ r \in 0 .. b - 1 /\ z = b * q + r BY <1>1, <1>2, Division
<1>4. q < n
  <2> SUFFICES ASSUME n <= q PROVE FALSE BY <1>3
  <2>1. b * n <= b * q BY <1>3, Multiples
  <2>2. z < b * n BY <1>1
  <2>3. b * q \in Nat /\ b * n \in Nat BY <1>3
  <2> QED BY <1>1, <1>3, <2>1, <2>2, <2>3
<1>5. q + 1 \in 1 .. n /\ r + 1 \in 1 .. b /\ (q + 1) - 1 = q BY <1>3, <1>4
<1>6. y = b * ((q + 1) - 1) + (r + 1) BY <1>1, <1>3
<1> QED BY <1>5, <1>6

-----------------------------------------------------------------------------
(* A string cut into blocks, and each block into words.                    *)
Cut(p, o, n) == [x \in 1 .. n |-> p[o + x]]

CutInto(p, c, B, U, W) ==
    [b \in 1 .. c |-> [w \in 1 .. W |-> [x \in 1 .. U |-> p[B * (b - 1) + U * (w - 1) + x]]]]

Joined(blocks) == FlattenSeq([b \in DOMAIN blocks |-> FlattenSeq(blocks[b])])

(* One that is made of pieces of one length, each of them as in another.   *)
Pieces(s, l, n, p, o) ==
    \A k \in 1 .. n : Len(s[k]) = l /\ \A x \in 1 .. l : s[k][x] = p[o + l * (k - 1) + x]

(* Joined, the pieces of a sequence are a piece of it.                     *)
LEMMA SamePieces ==
    ASSUME NEW s \in Seq(Seq(Int)), NEW l \in Nat, l > 0, NEW n \in Nat, Len(s) = n,
           NEW p, NEW o \in Nat, Pieces(s, l, n, p, o)
    PROVE  /\ FlattenSeq(s) \in Seq(Int) /\ Len(FlattenSeq(s)) = l * n
           /\ \A y \in 1 .. l * n : FlattenSeq(s)[y] = p[o + y]
<1>1. PICK w : w = FlattenSeq(s) OBVIOUS
<1>2. \A k \in 1 .. Len(s) : Len(s[k]) = l BY DEF Pieces
<1>3. /\ w \in Seq(Int) /\ Len(w) = l * Len(s)
      /\ \A k \in 1 .. Len(s) : Placed(w, l * (k - 1), s[k])
  BY <1>1, <1>2, FlattenEven
<1>4. ASSUME NEW y \in 1 .. l * n PROVE w[y] = p[o + y]
  <2>1. PICK k \in 1 .. n, x \in 1 .. l : y = l * (k - 1) + x BY SomePlace
  <2>2. w[l * (k - 1) + x] = s[k][x] BY <1>2, <1>3, <2>1 DEF Placed
  <2>3. s[k][x] = p[o + l * (k - 1) + x] BY <2>1 DEF Pieces
  <2>4. l * (k - 1) \in Nat BY <2>1
  <2>5. o + l * (k - 1) + x = o + y BY <2>1, <2>4
  <2> QED BY <2>1, <2>2, <2>3, <2>5
<1> QED BY <1>1, <1>3, <1>4

(* Words of blocks are sequences of sequences of numbers.                  *)
LEMMA CutType ==
    ASSUME NEW p \in Seq(Int), NEW c \in Nat, NEW B \in Nat, NEW U \in Nat, NEW W \in Nat,
           B = U * W, Len(p) = B * c
    PROVE  /\ CutInto(p, c, B, U, W) \in [1 .. c -> [1 .. W -> [1 .. U -> Int]]]
           /\ CutInto(p, c, B, U, W) \in Seq(Seq(Seq(Int)))
<1>1. \A b \in 1 .. c : \A w \in 1 .. W : \A x \in 1 .. U : p[B * (b - 1) + U * (w - 1) + x] \in Int
  <2> TAKE b \in 1 .. c
  <2> TAKE w \in 1 .. W
  <2> TAKE x \in 1 .. U
  <2>1. PICK y \in 1 .. B : y = U * (w - 1) + x BY Inside
  <2>2. PICK z \in 1 .. B * c : z = B * (b - 1) + y BY Inside
  <2>3. p[z] \in Int BY <2>2, ElementOfSeq
  <2>4. B * (b - 1) \in Nat /\ U * (w - 1) \in Nat OBVIOUS
  <2>5. z = B * (b - 1) + U * (w - 1) + x BY <2>1, <2>2, <2>4
  <2> QED BY <2>3, <2>5
<1>2. CutInto(p, c, B, U, W) \in [1 .. c -> [1 .. W -> [1 .. U -> Int]]] BY <1>1 DEF CutInto
<1> DEFINE A == [1 .. U -> Int]
           D == [1 .. W -> A]
<1>3. A \subseteq Seq(Int)
  <2> SUFFICES ASSUME NEW a \in A PROVE a \in Seq(Int) OBVIOUS
  <2> QED BY StringLength
<1>4. D \subseteq Seq(Seq(Int))
  <2> SUFFICES ASSUME NEW d \in D PROVE d \in Seq(Seq(Int)) OBVIOUS
  <2> HIDE DEF A
  <2>1. d \in Seq(A) BY StringLength
  <2> QED BY <1>3, <2>1, SeqMonotonic
<1> HIDE DEF D
<1>5. CutInto(p, c, B, U, W) \in Seq(D)
  <2>1. CutInto(p, c, B, U, W) \in [1 .. c -> D] BY <1>2 DEF D
  <2> QED BY <2>1, StringLength
<1>6. CutInto(p, c, B, U, W) \in Seq(Seq(Seq(Int)))
  <2> DEFINE Q == Seq(Seq(Int))
  <2>1. D \subseteq Q BY <1>4
  <2> HIDE DEF Q
  <2>2. CutInto(p, c, B, U, W) \in Seq(Q) BY <1>5, <2>1, SeqMonotonic
  <2> QED BY <2>2 DEF Q
<1> QED BY <1>2, <1>6

(* Put together again, it is the string.                                   *)
LEMMA CutJoined ==
    ASSUME NEW p \in Seq(Int), NEW c \in Nat, NEW B \in Nat, B > 0, NEW U \in Nat, U > 0,
           NEW W \in Nat, B = U * W, Len(p) = B * c
    PROVE  Joined(CutInto(p, c, B, U, W)) = p
<1>1. PICK f : f = CutInto(p, c, B, U, W) OBVIOUS
<1>2. f \in [1 .. c -> [1 .. W -> [1 .. U -> Int]]] BY <1>1, CutType
<1>3. \A b \in 1 .. c : \A w \in 1 .. W : \A x \in 1 .. U :
          f[b][w][x] = p[B * (b - 1) + U * (w - 1) + x]
  BY <1>1 DEF CutInto
<1>4. ASSUME NEW b \in 1 .. c
      PROVE  /\ FlattenSeq(f[b]) \in Seq(Int) /\ Len(FlattenSeq(f[b])) = B
             /\ \A y \in 1 .. B : FlattenSeq(f[b])[y] = p[B * (b - 1) + y]
  <2>1. PICK e : e = f[b] OBVIOUS
  <2> DEFINE A == [1 .. U -> Int]
  <2>2. e \in [1 .. W -> A] BY <1>2, <2>1
  <2>3. \A w \in 1 .. W : e[w] \in Seq(Int) /\ Len(e[w]) = U
    <3> TAKE w \in 1 .. W
    <3>1. e[w] \in [1 .. U -> Int] BY <2>2
    <3> QED BY <3>1, StringLength
  <2> HIDE DEF A
  <2>4. e \in Seq(Seq(Int)) /\ Len(e) = W
    <3> DEFINE Q == Seq(Int)
    <3>1. e \in [1 .. W -> Q]
      <4>1. DOMAIN e = 1 .. W /\ e = [w \in 1 .. W |-> e[w]] BY <2>2
      <4>2. \A w \in 1 .. W : e[w] \in Q BY <2>3
      <4> HIDE DEF Q
      <4>3. PICK h : h = [w \in 1 .. W |-> e[w]] OBVIOUS
      <4>4. h \in [1 .. W -> Q] BY <4>2, <4>3
      <4>5. h = e BY <4>1, <4>3
      <4> QED BY <4>4, <4>5
    <3> HIDE DEF Q
    <3>2. e \in Seq(Q) /\ Len(e) = W BY <3>1, StringLength
    <3> QED BY <3>2 DEF Q
  <2>5. PICK o \in Nat : o = B * (b - 1)
    <3>1. B * (b - 1) \in Nat OBVIOUS
    <3> QED BY <3>1
  <2>6. \A w \in 1 .. W : Len(e[w]) = U /\ \A x \in 1 .. U : e[w][x] = p[o + U * (w - 1) + x]
    BY <1>3, <2>1, <2>3, <2>5
  <2>8. Pieces(e, U, W, p, o) BY <2>6 DEF Pieces
  <2>7. /\ FlattenSeq(e) \in Seq(Int) /\ Len(FlattenSeq(e)) = U * W
        /\ \A y \in 1 .. U * W : FlattenSeq(e)[y] = p[o + y]
    BY ONLY <2>4, <2>8, o \in Nat, U \in Nat, U > 0, W \in Nat, SamePieces
  <2> QED BY <2>1, <2>5, <2>7
<1> DEFINE g == [b \in 1 .. c |-> FlattenSeq(f[b])]
<1>5. g \in Seq(Seq(Int)) /\ Len(g) = c
  <2> DEFINE Q == Seq(Int)
  <2>1. \A b \in 1 .. c : FlattenSeq(f[b]) \in Q BY <1>4
  <2> HIDE DEF Q
  <2>2. g \in [1 .. c -> Q] BY <2>1
  <2> HIDE DEF g
  <2>3. g \in Seq(Q) /\ Len(g) = c BY <2>2, StringLength
  <2> QED BY <2>3 DEF Q
<1>8. PICK o \in Nat : o = 0 OBVIOUS
<1>6. \A b \in 1 .. c : Len(g[b]) = B /\ \A y \in 1 .. B : g[b][y] = p[o + B * (b - 1) + y]
  <2>1. \A b \in 1 .. c : g[b] = FlattenSeq(f[b]) OBVIOUS
  <2> HIDE DEF g
  <2> SUFFICES ASSUME NEW b \in 1 .. c
               PROVE  Len(g[b]) = B /\ \A y \in 1 .. B : g[b][y] = p[o + B * (b - 1) + y]
    OBVIOUS
  <2>2. Len(g[b]) = B BY <1>4, <2>1
  <2>3. ASSUME NEW y \in 1 .. B PROVE g[b][y] = p[o + B * (b - 1) + y]
    <3>1. o + B * (b - 1) + y = B * (b - 1) + y BY <1>8
    <3> QED BY <1>4, <2>1, <3>1
  <2> QED BY <2>2, <2>3
<1>7. Joined(f) = FlattenSeq(g) BY <1>2 DEF Joined
<1>12. Pieces(g, B, c, p, o)
  <2> HIDE DEF g
  <2> QED BY <1>6 DEF Pieces
<1> HIDE DEF g
<1>9. /\ FlattenSeq(g) \in Seq(Int) /\ Len(FlattenSeq(g)) = B * c
      /\ \A y \in 1 .. B * c : FlattenSeq(g)[y] = p[o + y]
  BY ONLY <1>5, <1>8, <1>12, B \in Nat, B > 0, c \in Nat, SamePieces
<1>10. \A y \in 1 .. B * c : o + y = y BY <1>8
<1>11. FlattenSeq(g) = p BY ONLY <1>9, <1>10, p \in Seq(Int), Len(p) = B * c, SeqEqual
<1> QED BY <1>1, <1>7, <1>11

-----------------------------------------------------------------------------
(* Slices of data.                                                         *)
IsSlice(e, s, o, n) ==
    e \in Seq(Int) /\ Len(e) = n /\ \A x \in 1 .. n : e[x] = s[o + x]

(* A slice of the code, when it does not end behind the data.              *)
LEMMA SliceOf ==
    ASSUME NEW s \in Seq(Int), NEW l \in Nat, l > 0, NEW k \in Nat, NEW n \in 0 .. l,
           NEW o, o = l * k, o + n = Least(l * k + l, Len(s)), o + n <= Len(s)
    PROVE  IsSlice(Slice(s, l, k), s, o, n)
<1>1. o \in Nat /\ n \in Nat OBVIOUS
<1>2. l * (k + 1) = l * k + l OBVIOUS
<1>3. PICK g, h : g = o + 1 /\ h = o + n OBVIOUS
<1>4. /\ SubSeq(s, g, h) \in Seq(Int) /\ Len(SubSeq(s, g, h)) = n
      /\ \A x \in 1 .. n : SubSeq(s, g, h)[x] = s[o + x]
  BY ONLY <1>1, <1>3, o + n <= Len(s), s \in Seq(Int), PieceOf
<1>5. l * k + 1 = g /\ Least(l * (k + 1), Len(s)) = h BY <1>2, <1>3
<1>6. Slice(s, l, k) = SubSeq(s, g, h) BY <1>5 DEF Slice
<1> QED BY <1>4, <1>6 DEF IsSlice

(* Zeros are bytes.                                                        *)
LEMMA ZerosType ==
    ASSUME NEW n \in Nat
    PROVE  Zeros(n) \in Seq(Int) /\ Zeros(n) \in Seq(Nat) /\ Zeros(n) \in Seq(Byte)
           /\ Len(Zeros(n)) = n /\ \A j \in 1 .. n : Zeros(n)[j] = 0
<1>1. /\ Zeros(n) \in [1 .. n -> Int] /\ Zeros(n) \in [1 .. n -> Nat]
      /\ \A j \in 1 .. n : Zeros(n)[j] = 0
  BY DEF Zeros
<1>2. Zeros(n) \in [1 .. n -> Byte] BY Numbers DEF Zeros
<1> QED BY <1>1, <1>2, StringLength

(* A word is full, or one byte short.                                      *)
LEMMA WordOf ==
    ASSUME NEW s \in Seq(Int), NEW u \in Nat, u > 0, Len(s) = u \/ Len(s) = u - 1
    PROVE  Word(s, u) = [x \in 1 .. u |-> IF Len(s) = u THEN s[x]
                                          ELSE IF x = 1 THEN 0 ELSE s[x - 1]]
<1>0. Len(s) \in Nat BY LenProperties
<1>1. PICK z \in Nat : z = u - Len(s)
  <2>1. u - Len(s) \in Nat BY <1>0
  <2> QED BY <2>1
<1>2. Zeros(z) \in Seq(Int) /\ Len(Zeros(z)) = z /\ \A j \in 1 .. z : Zeros(z)[j] = 0
  BY ZerosType
<1>3. PICK v : v = Zeros(z) OBVIOUS
<1>4. PICK w : w = v \o s OBVIOUS
<1>5. w \in Seq(Int) /\ IsConcat(w, v, s) BY <1>2, <1>3, <1>4, ConcatParts
<1>6. Len(w) = u
  <2>1. Len(v) = z BY <1>2, <1>3
  <2>2. Len(w) = Len(v) + Len(s) BY <1>5 DEF IsConcat
  <2> QED BY <1>0, <1>1, <2>1, <2>2
<1>7. \A x \in 1 .. u : w[x] = IF Len(s) = u THEN s[x] ELSE IF x = 1 THEN 0 ELSE s[x - 1]
  <2> TAKE x \in 1 .. u
  <2>1. CASE Len(s) = u
    <3>1. z = 0 /\ Len(v) = 0 BY <1>1, <1>2, <1>3, <2>1
    <3>2. w[Len(v) + x] = s[x] BY <1>5, <2>1 DEF IsConcat
    <3>3. Len(v) + x = x BY <3>1
    <3> QED BY <2>1, <3>2, <3>3
  <2>2. CASE Len(s) # u /\ x = 1
    <3>1. z = 1 BY <1>1, <2>2
    <3>2. 1 \in 1 .. z BY <3>1
    <3>3. v[1] = 0 BY <1>2, <1>3, <3>2
    <3>4. w[1] = v[1] BY <1>2, <1>3, <1>5, <3>2 DEF IsConcat
    <3> QED BY <2>2, <3>3, <3>4
  <2>3. CASE Len(s) # u /\ x # 1
    <3>1. z = 1 /\ Len(v) = z BY <1>1, <1>2, <1>3, <2>3
    <3>2. PICK y \in 1 .. Len(s) : y = x - 1
      <4>1. Len(s) = u - 1 /\ x - 1 \in 1 .. Len(s) BY <2>3
      <4> QED BY <4>1
    <3>3. w[Len(v) + y] = s[y] BY <1>5 DEF IsConcat
    <3>4. Len(v) + y = x BY <3>1, <3>2
    <3> QED BY <2>3, <3>2, <3>3, <3>4
  <2> QED BY <2>1, <2>2, <2>3
<1>8. w = [x \in 1 .. u |-> w[x]]
  <2>1. w \in [1 .. u -> Int] BY <1>5, <1>6, LenProperties
  <2> QED BY <2>1
<1>9. Word(s, u) = w BY <1>1, <1>3, <1>4 DEF Word
<1> QED BY <1>7, <1>8, <1>9

-----------------------------------------------------------------------------
(* The padding is one byte short of whole blocks, and the last word has a  *)
(* zero before it: where the padding has a byte more.                      *)
Shifted(w, u) ==
    [y \in 1 .. Len(w) + 1 |-> IF y <= Len(w) + 1 - u THEN w[y]
                               ELSE IF y = Len(w) + 2 - u THEN 0 ELSE w[y - 1]]

LEMMA ShiftedType ==
    ASSUME NEW w \in Seq(Int), NEW u \in Nat, u > 0, u <= Len(w)
    PROVE  Shifted(w, u) \in Seq(Int) /\ Len(Shifted(w, u)) = Len(w) + 1
<1>1. PICK n \in Nat : n = Len(w) + 1 BY LenProperties
<1>2. \A y \in 1 .. n : (IF y <= Len(w) + 1 - u THEN w[y]
                         ELSE IF y = Len(w) + 2 - u THEN 0 ELSE w[y - 1]) \in Int
  <2> TAKE y \in 1 .. n
  <2>1. \A j \in 1 .. Len(w) : w[j] \in Int BY ElementOfSeq
  <2>2. y <= Len(w) + 1 - u => y \in 1 .. Len(w) BY <1>1
  <2>3. ~(y <= Len(w) + 1 - u) /\ y # Len(w) + 2 - u => y - 1 \in 1 .. Len(w) BY <1>1
  <2> QED BY <2>1, <2>2, <2>3
<1>3. Shifted(w, u) \in [1 .. n -> Int] BY <1>1, <1>2 DEF Shifted
<1> QED BY <1>1, <1>3, StringLength

(* Where a word is in the whole: only the last one is at the end.          *)
LEMMA WordPlace ==
    ASSUME NEW B \in Nat, NEW U \in Nat, U > 0, NEW W \in Nat, B = U * W, NEW c \in Nat,
           NEW b \in 1 .. c, NEW j \in 1 .. W, NEW o, o = B * (b - 1), NEW r, r = U * (j - 1)
    PROVE  /\ o \in Nat /\ r \in Nat /\ B * b = o + B /\ U * j = r + U
           /\ U * j <= B /\ B * b <= B * c
           /\ b # c => B * b <= B * c - B
           /\ j # W => U * j <= B - U
           /\ U <= B
<1>1. o \in Nat /\ r \in Nat /\ B * b = o + B /\ U * j = r + U OBVIOUS
<1>2. U * j <= U * W /\ B * b <= B * c BY Multiples
<1>3. b # c => B * b <= B * c - B
  <2> SUFFICES ASSUME b # c PROVE B * b <= B * c - B OBVIOUS
  <2>1. c - 1 \in Nat /\ b <= c - 1 /\ b \in Nat OBVIOUS
  <2>2. B * b <= B * (c - 1) BY <2>1, Multiples
  <2>3. B * (c - 1) = B * c - B OBVIOUS
  <2> QED BY <2>2, <2>3
<1>4. j # W => U * j <= U * W - U
  <2> SUFFICES ASSUME j # W PROVE U * j <= U * W - U OBVIOUS
  <2>1. W - 1 \in Nat /\ j <= W - 1 /\ j \in Nat OBVIOUS
  <2>2. U * j <= U * (W - 1) BY <2>1, Multiples
  <2>3. U * (W - 1) = U * W - U OBVIOUS
  <2> QED BY <2>2, <2>3
<1>5. U <= U * W
  <2>1. 1 <= W /\ 1 \in Nat OBVIOUS
  <2>2. U * 1 <= U * W BY <2>1, Multiples
  <2> QED BY <2>2
<1> QED BY <1>1, <1>2, <1>3, <1>4, <1>5

HasShape(B, U, W, c) ==
    B \in Nat /\ B > 0 /\ U \in Nat /\ U > 0 /\ W \in Nat /\ B = U * W /\ c \in Nat

IsShort(w, B, c) == w \in Seq(Int) /\ Len(w) = B * c - 1

IsWhole(w, B, c) == w \in Seq(Int) /\ Len(w) = B * c

PlaceOf(B, U, b, j) == B * (b - 1) + U * (j - 1)

(* The words of the code, from data that is one byte short.                *)
LEMMA MdWord ==
    ASSUME NEW w, NEW B, NEW U, NEW W, NEW c, HasShape(B, U, W, c), U > 1, IsShort(w, B, c),
           NEW b \in 1 .. c, NEW j \in 1 .. W
    PROVE  Word(Slice(Slice(w, B, b - 1), U, j - 1), U) = Cut(Shifted(w, U), PlaceOf(B, U, b, j), U)
<1> USE DEF HasShape, IsShort
<1>1. PICK o, r : o = B * (b - 1) /\ r = U * (j - 1) OBVIOUS
<1>2. /\ o \in Nat /\ r \in Nat /\ B * b = o + B /\ U * j = r + U
      /\ U * j <= B /\ B * b <= B * c
      /\ b # c => B * b <= B * c - B
      /\ j # W => U * j <= B - U
      /\ U <= B
  BY <1>1, WordPlace
<1>0. B > 0 /\ U > 0 BY <1>2
<1>3. PICK d \in Nat : d = B * c BY <1>2
<1>4. PICK n \in 0 .. B : n = IF b = c THEN B - 1 ELSE B BY <1>2
<1>5. o + n = Least(o + B, Len(w)) /\ o + n <= Len(w) /\ b - 1 \in Nat
  <2>1. CASE b = c
    <3>1. o + B = d BY <1>2, <1>3, <2>1
    <3> QED BY <1>2, <1>3, <1>4, <2>1, <3>1 DEF Least
  <2>2. CASE b # c BY <1>2, <1>3, <1>4, <2>2 DEF Least
  <2> QED BY <2>1, <2>2
<1>6. PICK e : e = Slice(w, B, b - 1) OBVIOUS
<1>7. IsSlice(e, w, o, n)
  <2>1. PICK k \in Nat : k = b - 1 OBVIOUS
  <2>2. o = B * k BY <1>1, <2>1
  <2>3. IsSlice(Slice(w, B, k), w, o, n) BY <1>0, <1>2, <1>5, <2>2, SliceOf
  <2> QED BY <1>6, <2>1, <2>3
<1>8. PICK m \in 0 .. U : m = IF b = c /\ j = W THEN U - 1 ELSE U OBVIOUS
<1>9. e \in Seq(Int) /\ Len(e) = n BY <1>7 DEF IsSlice
<1>10. r + m = Least(r + U, Len(e)) /\ r + m <= Len(e) /\ j - 1 \in Nat
  <2>1. CASE b = c /\ j = W
    <3>1. r + U = B BY <1>2, <2>1
    <3> QED BY <1>2, <1>4, <1>8, <1>9, <2>1, <3>1 DEF Least
  <2>2. CASE b = c /\ j # W BY <1>2, <1>4, <1>8, <1>9, <2>2 DEF Least
  <2>3. CASE b # c
    <3>1. r + U <= B BY <1>2
    <3>2. n = B /\ m = U BY <1>4, <1>8, <2>3
    <3>3. Least(r + U, n) = r + U BY <1>2, <3>1, <3>2 DEF Least
    <3> QED BY <1>2, <1>9, <3>1, <3>2, <3>3
  <2> QED BY <2>1, <2>2, <2>3
<1>11. PICK f : f = Slice(e, U, j - 1) OBVIOUS
<1>12. IsSlice(f, e, r, m)
  <2>1. PICK k \in Nat : k = j - 1 OBVIOUS
  <2>2. r = U * k BY <1>1, <2>1
  <2>3. IsSlice(Slice(e, U, k), e, r, m) BY <1>0, <1>2, <1>9, <1>10, <2>2, SliceOf
  <2> QED BY <1>11, <2>1, <2>3
<1>13. f \in Seq(Int) /\ Len(f) = m /\ \A x \in 1 .. m : f[x] = w[o + r + x]
  <2>1. f \in Seq(Int) /\ Len(f) = m /\ \A x \in 1 .. m : f[x] = e[r + x]
    BY <1>12 DEF IsSlice
  <2>2. ASSUME NEW x \in 1 .. m PROVE f[x] = w[o + r + x]
    <3>1. PICK y \in 1 .. n : y = r + x BY <1>2, <1>9, <1>10
    <3>2. e[y] = w[o + y] BY <1>7 DEF IsSlice
    <3>3. o + y = o + r + x BY <1>2, <3>1
    <3> QED BY <2>1, <3>1, <3>2, <3>3
  <2> QED BY <2>1, <2>2
<1>14. Word(f, U) = [x \in 1 .. U |-> IF Len(f) = U THEN f[x] ELSE IF x = 1 THEN 0 ELSE f[x - 1]]
  <2>1. Len(f) = U \/ Len(f) = U - 1 BY <1>8, <1>13
  <2> QED BY <1>13, <2>1, WordOf
<1>15. \A x \in 1 .. U : (IF Len(f) = U THEN f[x] ELSE IF x = 1 THEN 0 ELSE f[x - 1])
                            = Shifted(w, U)[o + r + x]
  <2> TAKE x \in 1 .. U
  <2>0. \A y \in 1 .. d : Shifted(w, U)[y] = IF y <= d - U THEN w[y]
                                             ELSE IF y = d + 1 - U THEN 0 ELSE w[y - 1]
    <3>1. Len(w) + 1 = d /\ Len(w) + 2 - U = d + 1 - U BY <1>3
    <3> QED BY <3>1 DEF Shifted
  <2>1. PICK y \in Nat : y = o + r + x BY <1>2
  <2>2. y \in 1 .. d BY <1>2, <1>3, <2>1
  <2>3. CASE ~(b = c /\ j = W)
    <3>1. Len(f) = U BY <1>8, <1>13, <2>3
    <3>2. f[x] = w[y] BY <1>8, <1>13, <2>1, <2>3
    <3>3. y <= d - U BY <1>2, <1>3, <2>1, <2>3
    <3> QED BY <2>0, <2>1, <2>2, <3>1, <3>2, <3>3
  <2>4. CASE b = c /\ j = W
    <3>1. m = U - 1 /\ Len(f) # U BY <1>8, <1>13, <2>4
    <3>2. o + r = d - U BY <1>2, <1>3, <2>4
    <3>3. CASE x = 1
      <4>1. ~(y <= d - U) /\ y = d + 1 - U BY <2>1, <3>2, <3>3
      <4> QED BY <2>0, <2>1, <2>2, <3>1, <3>3, <4>1
    <3>4. CASE x # 1
      <4>1. PICK v \in 1 .. m : v = x - 1 BY <3>1, <3>4
      <4>2. f[v] = w[o + r + v] BY <1>13
      <4>3. o + r + v = y - 1 BY <1>2, <2>1, <4>1
      <4>4. ~(y <= d - U) /\ y # d + 1 - U BY <2>1, <3>2, <3>4
      <4> QED BY <2>0, <2>1, <2>2, <3>1, <3>4, <4>1, <4>2, <4>3, <4>4
    <3> QED BY <3>3, <3>4
  <2> QED BY <2>3, <2>4
<1>16. PlaceOf(B, U, b, j) = o + r BY <1>1 DEF PlaceOf
<1> QED BY <1>6, <1>11, <1>14, <1>15, <1>16 DEF Cut

(* And the lanes, from data that is whole.                                 *)
LEMMA LaneOf ==
    ASSUME NEW w, NEW B, NEW U, NEW W, NEW c, HasShape(B, U, W, c), IsWhole(w, B, c),
           NEW b \in 1 .. c, NEW j \in 1 .. W
    PROVE  Slice(Slice(w, B, b - 1), U, j - 1) = Cut(w, PlaceOf(B, U, b, j), U)
<1> USE DEF HasShape, IsWhole
<1>1. PICK o, r : o = B * (b - 1) /\ r = U * (j - 1) OBVIOUS
<1>2. /\ o \in Nat /\ r \in Nat /\ B * b = o + B /\ U * j = r + U
      /\ U * j <= B /\ B * b <= B * c
  BY <1>1, WordPlace
<1>3. PICK d \in Nat : d = B * c BY <1>2
<1>4. PICK n \in 0 .. B : n = B OBVIOUS
<1>5. o + n = Least(o + B, Len(w)) /\ o + n <= Len(w) BY <1>2, <1>3, <1>4 DEF Least
<1>6. PICK e : e = Slice(w, B, b - 1) OBVIOUS
<1>7. IsSlice(e, w, o, n)
  <2>1. PICK k \in Nat : k = b - 1 OBVIOUS
  <2>2. o = B * k BY <1>1, <2>1
  <2>3. IsSlice(Slice(w, B, k), w, o, n) BY <1>2, <1>5, <2>2, SliceOf
  <2> QED BY <1>6, <2>1, <2>3
<1>8. e \in Seq(Int) /\ Len(e) = n BY <1>7 DEF IsSlice
<1>9. PICK m \in 0 .. U : m = U OBVIOUS
<1>10. r + m = Least(r + U, Len(e)) /\ r + m <= Len(e)
  <2>1. r + U <= B BY <1>2
  <2>2. Least(r + U, n) = r + U BY <1>2, <1>4, <2>1 DEF Least
  <2> QED BY <1>2, <1>4, <1>8, <1>9, <2>1, <2>2
<1>11. PICK f : f = Slice(e, U, j - 1) OBVIOUS
<1>12. IsSlice(f, e, r, m)
  <2>1. PICK k \in Nat : k = j - 1 OBVIOUS
  <2>2. r = U * k BY <1>1, <2>1
  <2>3. IsSlice(Slice(e, U, k), e, r, m) BY <1>2, <1>8, <1>10, <2>2, SliceOf
  <2> QED BY <1>11, <2>1, <2>3
<1>13. f \in Seq(Int) /\ Len(f) = m /\ \A x \in 1 .. m : f[x] = e[r + x] BY <1>12 DEF IsSlice
<1>14. ASSUME NEW x \in 1 .. U PROVE f[x] = w[o + r + x]
  <2>1. PICK y \in 1 .. n : y = r + x BY <1>2, <1>4
  <2>2. e[y] = w[o + y] BY <1>7 DEF IsSlice
  <2>3. o + y = o + r + x BY <1>2, <2>1
  <2> QED BY <1>9, <1>13, <2>1, <2>2, <2>3
<1>15. f = [x \in 1 .. U |-> f[x]]
  <2>1. f \in [1 .. U -> Int] BY <1>9, <1>13, LenProperties
  <2> QED BY <2>1
<1>16. PlaceOf(B, U, b, j) = o + r BY <1>1 DEF PlaceOf
<1> QED BY <1>6, <1>11, <1>14, <1>15, <1>16 DEF Cut

-----------------------------------------------------------------------------
(* What a hash function has for numbers.                                   *)
Unit == IF IsMd(fn) THEN fn.word ELSE fn.lane

(* Division without remainder.                                             *)
LEMMA Multiple ==
    ASSUME NEW a \in Nat, NEW b \in Nat, b > 0, a % b = 0, a > 0
    PROVE  a \div b \in Nat /\ a = b * (a \div b) /\ a \div b > 0
<1>1. PICK q, r : q = a \div b /\ r = a % b OBVIOUS
<1>2. q \in Nat /\ r \in 0 .. b - 1 /\ a = b * q + r BY <1>1, Division
<1>3. r = 0 BY <1>1
<1>4. q # 0
  <2>1. b * 0 = 0 OBVIOUS
  <2> QED BY <1>2, <1>3, <2>1
<1> QED BY <1>1, <1>2, <1>3, <1>4

(* SHA-1 and SHA-2.                                                        *)
LEMMA MdNumbers ==
    ASSUME fn \in MdFunctions
    PROVE  /\ IsMd(fn) /\ Step = fn.block /\ Unit = fn.word
           /\ fn.block \in Nat /\ fn.block > 0 /\ fn.word \in Nat /\ fn.word > 1
           /\ fn.len \in Nat /\ fn.word <= fn.len /\ fn.len < fn.block
           /\ fn.block \div fn.word \in Nat /\ fn.block = fn.word * (fn.block \div fn.word)
           /\ HashLen \in Nat /\ HashLen > 0 /\ HashLen <= fn.block
           /\ Width \in Nat /\ Width > 0 /\ Width * (fn.block + HashLen) < Power[fn.len]
<1>1. fn \in [block : Nat, len : Nat, word : Nat \ {0, 1}] BY DigestAssumption
<1>2. IsMd(fn) BY <1>1 DEF IsMd
<1>3. fn.block \in Nat /\ fn.len \in Nat /\ fn.word \in Nat /\ fn.word > 1 BY <1>1
<1>4. /\ fn.block % fn.word = 0 /\ fn.len \in fn.word .. fn.block - 1
      /\ HashLen <= fn.block /\ Width * (fn.block + HashLen) < Power[fn.len]
      /\ HashLen \in Nat \ {0} /\ Width \in Nat \ {0}
  BY DigestAssumption
<1>5. fn.block > 0 /\ fn.word > 0 BY <1>3, <1>4
<1>6. fn.block \div fn.word \in Nat /\ fn.block = fn.word * (fn.block \div fn.word)
  <2>1. PICK a \in Nat, b \in Nat : a = fn.block /\ b = fn.word BY <1>3
  <2>2. b > 0 /\ a % b = 0 /\ a > 0 BY <1>4, <1>5, <2>1
  <2>3. a \div b \in Nat /\ a = b * (a \div b) BY <2>2, Multiple
  <2> QED BY <2>1, <2>3
<1> QED BY <1>2, <1>3, <1>4, <1>5, <1>6 DEF Step, Unit

(* SHA-3 and SHAKE.                                                        *)
LEMMA SpongeNumbers ==
    ASSUME fn \in Sponges
    PROVE  /\ ~IsMd(fn) /\ Step = fn.rate /\ Unit = fn.lane
           /\ fn.rate \in Nat /\ fn.rate > 1 /\ fn.lane \in Nat /\ fn.lane > 0
           /\ fn.rate \div fn.lane \in Nat /\ fn.rate = fn.lane * (fn.rate \div fn.lane)
           /\ fn.rate \div fn.lane > 0
           /\ fn.domain \in Byte /\ fn.domain > 0 /\ Mark \in Byte /\ Mark > 0
           /\ fn.domain < Mark
<1>1. fn \in [rate : Nat \ {0, 1}, lane : Nat \ {0}, domain : 1 .. Mark - 1]
  BY DigestAssumption
<1>2. ~IsMd(fn) BY <1>1 DEF IsMd
<1>3. /\ fn.rate \in Nat /\ fn.rate > 1 /\ fn.lane \in Nat /\ fn.lane > 0
      /\ fn.domain \in 1 .. Mark - 1
  BY <1>1
<1>4. fn.rate % fn.lane = 0 BY DigestAssumption
<1>5. /\ fn.rate \div fn.lane \in Nat /\ fn.rate = fn.lane * (fn.rate \div fn.lane)
      /\ fn.rate \div fn.lane > 0
  <2>1. PICK a \in Nat, b \in Nat : a = fn.rate /\ b = fn.lane BY <1>3
  <2>2. b > 0 /\ a % b = 0 /\ a > 0 BY <1>3, <1>4, <2>1
  <2>3. a \div b \in Nat /\ a = b * (a \div b) /\ a \div b > 0 BY <2>2, Multiple
  <2> QED BY <2>1, <2>3
<1>6. Mark \in 1 .. Base - 1
  <2>1. Base \in Nat /\ Base > 1 BY Numbers
  <2>2. \A m \in Nat : m > 1 => m \div 2 \in 1 .. m - 1 OBVIOUS
  <2> QED BY <2>1, <2>2 DEF Mark
<1>7. Base \in Nat BY Numbers
<1>8. fn.domain \in 0 .. Base - 1 /\ Mark \in 0 .. Base - 1 BY <1>3, <1>6, <1>7
<1> QED BY <1>2, <1>3, <1>5, <1>6, <1>8 DEF Step, Unit, Byte

(* Either way, a block has a number of units.                              *)
LEMMA StepNumbers ==
    ASSUME fn \in MdFunctions \cup Sponges
    PROVE  /\ Step \in Nat /\ Step > 0 /\ Unit \in Nat /\ Unit > 0
           /\ Step \div Unit \in Nat /\ Step = Unit * (Step \div Unit)
<1>1. CASE fn \in MdFunctions
  <2>1. fn.word > 0 BY <1>1, MdNumbers
  <2> QED BY <1>1, <2>1, MdNumbers
<1>2. CASE fn \in Sponges
  <2>1. fn.rate > 0 BY <1>2, SpongeNumbers
  <2> QED BY <1>2, <2>1, SpongeNumbers
<1> QED BY <1>1, <1>2

(* b"\x80".                                                                *)
LEMMA MarkIsByte ==
    Mark \in Byte
<1>1. Base \in Nat /\ Base > 1 BY Numbers
<1>2. \A m \in Nat : m > 1 => m \div 2 \in 0 .. m - 1 OBVIOUS
<1> QED BY <1>1, <1>2 DEF Mark, Byte

-----------------------------------------------------------------------------
(* Data, a mark, zeros, and what ends them.                                *)
IsPadded(w, s, m, z, e) ==
    /\ w \in Seq(Int) /\ Len(w) = Len(s) + 1 + z + Len(e)
    /\ \A j \in 1 .. Len(s) : w[j] = s[j]
    /\ w[Len(s) + 1] = m
    /\ \A j \in 1 .. z : w[Len(s) + 1 + j] = 0
    /\ \A j \in 1 .. Len(e) : w[Len(s) + 1 + z + j] = e[j]

LEMMA PaddedParts ==
    ASSUME NEW s \in Seq(Int), NEW m \in Int, NEW z \in Nat, NEW e \in Seq(Int)
    PROVE  IsPadded(Append(s, m) \o Zeros(z) \o e, s, m, z, e)
<1>1. Len(s) \in Nat /\ Len(e) \in Nat BY LenProperties
<1>2. PICK v : v = Append(s, m) OBVIOUS
<1>3. /\ v \in Seq(Int) /\ Len(v) = Len(s) + 1 /\ v[Len(s) + 1] = m
      /\ \A j \in 1 .. Len(s) : v[j] = s[j]
  BY <1>1, <1>2, AppendProperties
<1>4. PICK o : o = Zeros(z) OBVIOUS
<1>5. o \in Seq(Int) /\ Len(o) = z /\ \A j \in 1 .. z : o[j] = 0 BY <1>4, ZerosType
<1>6. PICK u : u = v \o o OBVIOUS
<1>7. u \in Seq(Int) /\ IsConcat(u, v, o) BY <1>3, <1>5, <1>6, ConcatParts
<1>8. PICK w : w = u \o e OBVIOUS
<1>9. w \in Seq(Int) /\ IsConcat(w, u, e) BY <1>7, <1>8, ConcatParts
<1>10. Len(u) = Len(s) + 1 + z BY <1>3, <1>5, <1>7 DEF IsConcat
<1>11. Len(w) = Len(s) + 1 + z + Len(e) BY <1>9, <1>10 DEF IsConcat
<1>12. \A j \in 1 .. Len(s) + 1 : w[j] = v[j]
  <2> TAKE j \in 1 .. Len(s) + 1
  <2>1. j \in 1 .. Len(v) /\ j \in 1 .. Len(u) BY <1>1, <1>3, <1>10
  <2>2. u[j] = v[j] BY <1>7, <2>1 DEF IsConcat
  <2>3. w[j] = u[j] BY <1>9, <2>1 DEF IsConcat
  <2> QED BY <2>2, <2>3
<1>13. \A j \in 1 .. z : w[Len(s) + 1 + j] = 0
  <2> TAKE j \in 1 .. z
  <2>1. Len(s) + 1 + j \in 1 .. Len(u) BY <1>1, <1>10
  <2>2. w[Len(s) + 1 + j] = u[Len(s) + 1 + j] BY <1>9, <2>1 DEF IsConcat
  <2>3. u[Len(v) + j] = o[j] BY <1>5, <1>7 DEF IsConcat
  <2> QED BY <1>3, <1>5, <2>2, <2>3
<1>14. \A j \in 1 .. Len(e) : w[Len(s) + 1 + z + j] = e[j]
  <2> TAKE j \in 1 .. Len(e)
  <2>1. w[Len(u) + j] = e[j] BY <1>9 DEF IsConcat
  <2> QED BY <1>10, <2>1
<1>15. \A j \in 1 .. Len(s) : w[j] = s[j] BY <1>1, <1>3, <1>12
<1>16. w[Len(s) + 1] = m BY <1>1, <1>3, <1>12
<1>17. IsPadded(w, s, m, z, e) BY <1>9, <1>11, <1>13, <1>14, <1>15, <1>16 DEF IsPadded
<1> QED BY <1>2, <1>4, <1>6, <1>8, <1>17

(* As many zeros as are missing in the last block.                         *)
Fills(z, b, l) == z \in 0 .. b - 1 /\ \E c \in Nat : c > 0 /\ l + z = b * c

LEMMA Missing ==
    ASSUME NEW b \in Nat, b > 0, NEW l \in Nat, l > 0, NEW z, z = (b - l) % b
    PROVE  Fills(z, b, l)
<1>1. PICK x \in Int : x = b - l OBVIOUS
<1>2. PICK q \in Int : q = x \div b OBVIOUS
<1>3. z \in 0 .. b - 1 /\ x = b * q + z BY <1>1, <1>2
<1>4. l + z = b - b * q BY <1>1, <1>3
<1>5. b - b * q = b * (1 - q) OBVIOUS
<1>6. 1 - q > 0
  <2> SUFFICES ASSUME q >= 1 PROVE FALSE OBVIOUS
  <2>1. 1 \in Nat /\ q \in Nat /\ 1 <= q OBVIOUS
  <2>2. b * 1 <= b * q BY <2>1, Multiples
  <2>3. b * 1 = b OBVIOUS
  <2>4. l + z > 0 BY <1>3
  <2> QED BY <1>4, <2>2, <2>3, <2>4
<1>7. PICK c \in Nat : c = 1 - q
  <2>1. 1 - q \in Nat BY <1>6
  <2> QED BY <2>1
<1>8. c > 0 /\ l + z = b * c BY <1>4, <1>5, <1>6, <1>7
<1> QED BY <1>3, <1>8 DEF Fills

(* What the code pads with: the byte that is missing at the end of the     *)
(* last word has its place before that word.                               *)
MdPaddedWith(s, z, c) ==
    /\ c > 0 /\ z < fn.block
    /\ IsPadded(MdPadded(fn, s), s, Mark, z, ToBytes(Width * Len(s), fn.len))
    /\ z = (fn.block - fn.len - 1 - (Len(s) + 1)) % fn.block
    /\ Len(MdPadded(fn, s)) = fn.block * c - 1

LEMMA MdPaddedParts ==
    ASSUME fn \in MdFunctions, NEW s \in Seq(Int)
    PROVE  \E z \in Nat, c \in Nat : MdPaddedWith(s, z, c)
<1>1. /\ fn.block \in Nat /\ fn.block > 0 /\ fn.len \in Nat /\ Width \in Nat
  BY MdNumbers
<1>2. Len(s) \in Nat BY LenProperties
<1>3. PICK b \in Nat, k \in Nat, n \in Nat : b = fn.block /\ k = fn.len /\ n = Len(s)
  BY <1>1, <1>2
<1>4. PICK l \in Nat : l = n + 1 + k + 1
  <2>1. n + 1 + k + 1 \in Nat OBVIOUS
  <2> QED BY <2>1
<1>18. l > 0 BY <1>4
<1>5. PICK z : z = (b - l) % b OBVIOUS
<1>19. b > 0 BY <1>1, <1>3
<1>20. Fills(z, b, l) BY ONLY b \in Nat, <1>19, <1>5, <1>18, l \in Nat, Missing
<1>6. z \in 0 .. b - 1 /\ \E c \in Nat : c > 0 /\ l + z = b * c BY <1>20 DEF Fills
<1>7. PICK c \in Nat : c > 0 /\ l + z = b * c BY <1>6
<1>8. b - k - 1 - (n + 1) = b - l BY <1>4
<1>9. z = (fn.block - fn.len - 1 - (Len(s) + 1)) % fn.block BY <1>3, <1>5, <1>8
<1>10. Len(Append(s, Mark)) = Len(s) + 1 BY MarkIsByte, AppendProperties
<1>11. PICK e : e = ToBytes(Width * Len(s), fn.len) OBVIOUS
<1>12. e \in Seq(Int) /\ Len(e) = k
  <2>1. PICK v \in Nat : v = Width * Len(s)
    <3>1. Width * Len(s) \in Nat BY <1>1, <1>2
    <3> QED BY <3>1
  <2>2. e \in Seq(Byte) /\ Len(e) = k BY <1>3, <1>11, <2>1, ToBytesType
  <2>3. Byte \subseteq Int BY Numbers
  <2> QED BY <2>2, <2>3, SeqMonotonic
<1>13. MdPadded(fn, s) = Append(s, Mark) \o Zeros(z) \o e
  BY <1>9, <1>10, <1>11 DEF MdPadded
<1>14. Mark \in Int /\ z \in Nat /\ z < b BY <1>3, <1>6, MarkIsByte, Numbers
<1>15. IsPadded(MdPadded(fn, s), s, Mark, z, e) BY <1>12, <1>13, <1>14, PaddedParts
<1>16. Len(MdPadded(fn, s)) = b * c - 1
  <2>1. Len(MdPadded(fn, s)) = n + 1 + z + k BY <1>3, <1>12, <1>15 DEF IsPadded
  <2>2. n + 1 + z + k = l + z - 1 BY <1>4, <1>14
  <2>3. PICK d \in Nat : d = b * c OBVIOUS
  <2>4. l + z = d BY <1>7, <2>3
  <2> QED BY <1>14, <2>1, <2>2, <2>3, <2>4
<1>17. MdPaddedWith(s, z, c)
  BY <1>3, <1>7, <1>9, <1>11, <1>14, <1>15, <1>16 DEF MdPaddedWith
<1> QED BY <1>14, <1>17

SpongePaddedWith(s, z, c) ==
    /\ c > 0 /\ z < fn.rate
    /\ IsPadded(SpongePadded(fn, s), s, fn.domain, z, <<Mark>>)
    /\ z = (fn.rate - 1 - (Len(s) + 1)) % fn.rate
    /\ Len(SpongePadded(fn, s)) = fn.rate * c

LEMMA SpongePaddedParts ==
    ASSUME fn \in Sponges, NEW s \in Seq(Int)
    PROVE  \E z \in Nat, c \in Nat : SpongePaddedWith(s, z, c)
<1>1. /\ fn.rate \in Nat /\ fn.rate > 0 /\ fn.domain \in Int /\ Mark \in Int
  <2>1. fn.rate \in Nat /\ fn.rate > 1 /\ fn.domain \in Byte /\ Mark \in Byte
    BY SpongeNumbers
  <2>2. Byte \subseteq Nat BY Numbers
  <2>3. fn.domain \in Nat /\ Mark \in Nat BY ONLY <2>1, <2>2
  <2>4. PICK r \in Nat : r = fn.rate /\ r > 1 BY <2>1
  <2> QED BY <2>3, <2>4
<1>2. Len(s) \in Nat BY LenProperties
<1>3. PICK b \in Nat, n \in Nat : b = fn.rate /\ n = Len(s) BY <1>1, <1>2
<1>4. PICK l \in Nat : l = n + 1 + 1
  <2>1. n + 1 + 1 \in Nat OBVIOUS
  <2> QED BY <2>1
<1>18. l > 0 BY <1>4
<1>5. PICK z : z = (b - l) % b OBVIOUS
<1>19. b > 0 BY <1>1, <1>3
<1>20. Fills(z, b, l) BY ONLY b \in Nat, <1>19, <1>5, <1>18, l \in Nat, Missing
<1>6. z \in 0 .. b - 1 /\ \E c \in Nat : c > 0 /\ l + z = b * c BY <1>20 DEF Fills
<1>7. PICK c \in Nat : c > 0 /\ l + z = b * c BY <1>6
<1>8. b - 1 - (n + 1) = b - l BY <1>4
<1>9. z = (fn.rate - 1 - (Len(s) + 1)) % fn.rate BY <1>3, <1>5, <1>8
<1>10. Len(Append(s, fn.domain)) = Len(s) + 1 BY <1>1, AppendProperties
<1>11. PICK e : e = Append(<<>>, Mark) OBVIOUS
<1>12. e = <<Mark>> /\ e \in Seq(Int) /\ Len(e) = 1
  <2>1. Len(<<>>) = 0 /\ <<>> \in Seq(Int) BY EmptySeq
  <2>2. Len(Append(<<>>, Mark)) = Len(<<>>) + 1 BY ONLY <1>1, <2>1, AppendProperties
  <2>3. Len(e) = 1 BY <1>11, <2>1, <2>2
  <2>4. e = <<Mark>> BY <1>11
  <2>5. e \in Seq(Int) BY ONLY <1>1, <1>11, <2>1, AppendProperties
  <2> QED BY <2>3, <2>4, <2>5
<1>13. SpongePadded(fn, s) = Append(s, fn.domain) \o Zeros(z) \o e
  BY <1>9, <1>10, <1>12 DEF SpongePadded
<1>14. z \in Nat /\ z < b BY <1>3, <1>6
<1>15. IsPadded(SpongePadded(fn, s), s, fn.domain, z, e) BY <1>1, <1>12, <1>13, <1>14, PaddedParts
<1>16. Len(SpongePadded(fn, s)) = b * c
  <2>1. Len(SpongePadded(fn, s)) = n + 1 + z + Len(e) BY <1>3, <1>15 DEF IsPadded
  <2>2. n + 1 + z + 1 = l + z BY <1>4, <1>14
  <2> QED BY <1>7, <1>12, <2>1, <2>2
<1>17. SpongePaddedWith(s, z, c)
  BY <1>3, <1>7, <1>9, <1>12, <1>14, <1>15, <1>16 DEF SpongePaddedWith
<1> QED BY <1>14, <1>17

-----------------------------------------------------------------------------
(* The blocks of the data, however it is padded.                           *)
Made(c) == [b \in 1 .. c |-> Words(Slice(Padded, Step, b - 1))]

Filled == IF IsMd(fn) THEN Shifted(Padded, fn.word) ELSE Padded

AreBlocks(c) ==
    /\ c \in Nat /\ c > 0
    /\ Step * (c - 1) < Len(Padded) /\ Len(Padded) <= Step * c
    /\ Filled \in Seq(Int) /\ Len(Filled) = Step * c
    /\ Made(c) = CutInto(Filled, c, Step, Unit, Step \div Unit)

LEMMA BlocksMade ==
    ASSUME fn \in MdFunctions \cup Sponges, data \in Seq(Int)
    PROVE  \E c \in Nat : AreBlocks(c)
<1>1. CASE fn \in MdFunctions
  <2>1. /\ IsMd(fn) /\ Step = fn.block /\ Unit = fn.word
        /\ fn.block \in Nat /\ fn.block > 0 /\ fn.word \in Nat /\ fn.word > 1
        /\ fn.len \in Nat /\ fn.word <= fn.len /\ fn.len < fn.block
        /\ fn.block \div fn.word \in Nat /\ fn.block = fn.word * (fn.block \div fn.word)
    BY <1>1, MdNumbers
  <2>2. PICK B \in Nat, U \in Nat, W \in Nat :
            B = fn.block /\ U = fn.word /\ W = fn.block \div fn.word
    BY <2>1
  <2>3. B > 0 /\ U > 1 /\ B = U * W /\ U < B BY <2>1, <2>2
  <2>4. PICK w : w = Padded OBVIOUS
  <2>5. w = MdPadded(fn, data) BY <2>1, <2>4 DEF Padded
  <2>11. PICK z \in Nat, c \in Nat : MdPaddedWith(data, z, c) BY <1>1, MdPaddedParts
  <2>6. c > 0 /\ Len(w) = B * c - 1 /\ w \in Seq(Int)
    BY <2>2, <2>5, <2>11 DEF IsPadded, MdPaddedWith
  <2>7. Made(c) = CutInto(Shifted(w, U), c, B, U, W)
    <3>1. ASSUME NEW b \in 1 .. c
          PROVE  Words(Slice(w, B, b - 1))
                   = [j \in 1 .. W |-> [x \in 1 .. U |->
                        Shifted(w, U)[B * (b - 1) + U * (j - 1) + x]]]
      <4>1. Words(Slice(w, B, b - 1))
              = [j \in 1 .. W |-> Word(Slice(Slice(w, B, b - 1), U, j - 1), U)]
        BY <2>1, <2>2 DEF Words
      <4>2. ASSUME NEW j \in 1 .. W
            PROVE  Word(Slice(Slice(w, B, b - 1), U, j - 1), U)
                     = [x \in 1 .. U |-> Shifted(w, U)[B * (b - 1) + U * (j - 1) + x]]
        <5>1. HasShape(B, U, W, c)
          BY ONLY <2>3, B \in Nat, U \in Nat, W \in Nat, c \in Nat DEF HasShape
        <5>2. IsShort(w, B, c) BY <2>6 DEF IsShort
        <5>3. Word(Slice(Slice(w, B, b - 1), U, j - 1), U)
                = Cut(Shifted(w, U), PlaceOf(B, U, b, j), U)
          BY ONLY <2>3, <5>1, <5>2, MdWord, b \in 1 .. c, j \in 1 .. W
        <5> QED BY <5>3 DEF Cut, PlaceOf
      <4> QED BY <4>1, <4>2
    <3>2. Made(c) = [b \in 1 .. c |-> Words(Slice(w, B, b - 1))] BY <2>1, <2>2, <2>4 DEF Made
    <3> QED BY <3>1, <3>2 DEF CutInto
  <2>8. Shifted(w, U) \in Seq(Int) /\ Len(Shifted(w, U)) = B * c
    <3>1. B <= B * c
      <4>1. 1 \in Nat /\ 1 <= c BY <2>6
      <4>2. B * 1 <= B * c BY <4>1, Multiples
      <4> QED BY <4>2
    <3>2. U <= Len(w)
      <4>1. PICK d \in Nat : d = B * c OBVIOUS
      <4>2. B <= d /\ Len(w) = d - 1 BY <2>6, <3>1, <4>1
      <4> QED BY <2>3, <4>2
    <3>3. Shifted(w, U) \in Seq(Int) /\ Len(Shifted(w, U)) = Len(w) + 1
      BY <2>3, <2>6, <3>2, ShiftedType
    <3> QED BY <2>6, <3>3
  <2>9. B * (c - 1) < Len(w) /\ Len(w) <= B * c
    <3>1. B * (c - 1) = B * c - B OBVIOUS
    <3> QED BY <2>3, <2>6, <3>1
  <2>10. Filled = Shifted(w, U) BY <2>1, <2>2, <2>4 DEF Filled
  <2> QED BY <2>1, <2>2, <2>4, <2>6, <2>7, <2>8, <2>9, <2>10 DEF AreBlocks
<1>2. CASE fn \in Sponges
  <2>1. /\ ~IsMd(fn) /\ Step = fn.rate /\ Unit = fn.lane
        /\ fn.rate \in Nat /\ fn.rate > 1 /\ fn.lane \in Nat /\ fn.lane > 0
        /\ fn.rate \div fn.lane \in Nat /\ fn.rate = fn.lane * (fn.rate \div fn.lane)
    BY <1>2, SpongeNumbers
  <2>2. PICK B \in Nat, U \in Nat, W \in Nat :
            B = fn.rate /\ U = fn.lane /\ W = fn.rate \div fn.lane
    BY <2>1
  <2>3. B > 0 /\ U > 0 /\ B = U * W BY <2>1, <2>2
  <2>4. PICK w : w = Padded OBVIOUS
  <2>5. w = SpongePadded(fn, data) BY <2>1, <2>4 DEF Padded
  <2>10. PICK z \in Nat, c \in Nat : SpongePaddedWith(data, z, c) BY <1>2, SpongePaddedParts
  <2>6. c > 0 /\ Len(w) = B * c /\ w \in Seq(Int)
    BY <2>2, <2>5, <2>10 DEF IsPadded, SpongePaddedWith
  <2>7. Made(c) = CutInto(w, c, B, U, W)
    <3>1. ASSUME NEW b \in 1 .. c
          PROVE  Words(Slice(w, B, b - 1))
                   = [j \in 1 .. W |-> [x \in 1 .. U |-> w[B * (b - 1) + U * (j - 1) + x]]]
      <4>1. Words(Slice(w, B, b - 1)) = [j \in 1 .. W |-> Slice(Slice(w, B, b - 1), U, j - 1)]
        BY <2>1, <2>2 DEF Words
      <4>2. ASSUME NEW j \in 1 .. W
            PROVE  Slice(Slice(w, B, b - 1), U, j - 1)
                     = [x \in 1 .. U |-> w[B * (b - 1) + U * (j - 1) + x]]
        <5>1. HasShape(B, U, W, c)
          BY ONLY <2>3, B \in Nat, U \in Nat, W \in Nat, c \in Nat DEF HasShape
        <5>2. IsWhole(w, B, c) BY <2>6 DEF IsWhole
        <5>3. Slice(Slice(w, B, b - 1), U, j - 1) = Cut(w, PlaceOf(B, U, b, j), U)
          BY ONLY <2>3, <5>1, <5>2, LaneOf, b \in 1 .. c, j \in 1 .. W
        <5> QED BY <5>3 DEF Cut, PlaceOf
      <4> QED BY <4>1, <4>2
    <3>2. Made(c) = [b \in 1 .. c |-> Words(Slice(w, B, b - 1))] BY <2>1, <2>2, <2>4 DEF Made
    <3> QED BY <3>1, <3>2 DEF CutInto
  <2>8. B * (c - 1) < Len(w) /\ Len(w) <= B * c
    <3>1. B * (c - 1) = B * c - B OBVIOUS
    <3> QED BY <2>3, <2>6, <3>1
  <2>9. Filled = w BY <2>1, <2>4 DEF Filled
  <2> QED BY <2>1, <2>2, <2>4, <2>6, <2>7, <2>8, <2>9 DEF AreBlocks
<1> QED BY <1>1, <1>2

(* All the blocks in a row are the data, as they are filled.               *)
LEMMA JoinedBlocks ==
    ASSUME fn \in MdFunctions \cup Sponges, NEW c, AreBlocks(c)
    PROVE  /\ Joined(Made(c)) = Filled /\ Filled \in Seq(Int) /\ Len(Filled) \in Nat
           /\ Len(Filled) = Step * c /\ Len(Filled) > 0
<1>1. /\ Step \in Nat /\ Step > 0 /\ Unit \in Nat /\ Unit > 0
      /\ Step \div Unit \in Nat /\ Step = Unit * (Step \div Unit)
  BY StepNumbers
<1>2. PICK B \in Nat, U \in Nat, W \in Nat : B = Step /\ U = Unit /\ W = Step \div Unit BY <1>1
<1>3. B > 0 /\ U > 0 /\ B = U * W BY <1>1, <1>2
<1>4. PICK p : p = Filled OBVIOUS
<1>5. /\ c \in Nat /\ c > 0 /\ p \in Seq(Int) /\ Len(p) = B * c
      /\ Made(c) = CutInto(p, c, B, U, W)
  BY <1>2, <1>4 DEF AreBlocks
<1>6. Joined(CutInto(p, c, B, U, W)) = p BY <1>3, <1>5, CutJoined
<1>7. B * 1 <= B * c
  <2>1. 1 <= c /\ 1 \in Nat BY <1>5
  <2> QED BY <1>5, <2>1, Multiples
<1>8. B * c \in Nat /\ B * c > 0 BY <1>3, <1>5, <1>7
<1> QED BY <1>2, <1>4, <1>5, <1>6, <1>8

(* A byte more, and it is gone again.                                      *)
LEMMA ShiftedBack ==
    ASSUME NEW w \in Seq(Int), NEW u \in Nat, u > 0, u <= Len(w), NEW n, n = Len(w) + 1
    PROVE  RemoveAt(Shifted(w, u), (n - u) + 1) = w
<1>1. PICK p : p = Shifted(w, u) OBVIOUS
<1>2. p \in Seq(Int) /\ Len(p) = n BY <1>1, ShiftedType
<1>3. Len(w) \in Nat /\ n \in Nat BY LenProperties
<1>4. PICK h \in Nat : h = n - u BY <1>3
<1>5. PICK o \in Nat : o = 0 OBVIOUS
<1>6. PICK a : a = SubSeq(p, 1, h) OBVIOUS
<1>7. a \in Seq(Int) /\ Len(a) = h /\ \A x \in 1 .. h : a[x] = p[x]
  <2>1. o + h <= Len(p) BY <1>2, <1>3, <1>4, <1>5
  <2>2. 1 = o + 1 /\ h = o + h BY <1>4, <1>5
  <2>3. a \in Seq(Int) /\ Len(a) = h /\ \A x \in 1 .. h : a[x] = p[o + x]
    BY ONLY <1>2, <1>6, <2>1, <2>2, o \in Nat, h \in Nat, PieceOf
  <2>4. \A x \in 1 .. h : o + x = x BY <1>5
  <2> QED BY <2>3, <2>4
<1>8. PICK k \in Nat : k = u - 1 OBVIOUS
<1>9. PICK m \in Nat : m = h + 1 OBVIOUS
<1>10. PICK b : b = SubSeq(p, m + 1, n) OBVIOUS
<1>11. b \in Seq(Int) /\ Len(b) = k /\ \A x \in 1 .. k : b[x] = p[m + x]
  <2>1. m + k <= Len(p) /\ n = m + k BY <1>2, <1>3, <1>4, <1>8, <1>9
  <2>2. PICK g : g = m + 1 OBVIOUS
  <2>3. b = SubSeq(p, g, n) BY <1>10, <2>2
  <2> QED BY ONLY <1>2, <2>1, <2>2, <2>3, m \in Nat, k \in Nat, PieceOf
<1>12. PICK v : v = a \o b OBVIOUS
<1>13. v \in Seq(Int) /\ IsConcat(v, a, b) BY <1>7, <1>11, <1>12, ConcatParts
<1>14. Len(v) = Len(w) BY <1>3, <1>4, <1>7, <1>8, <1>11, <1>13 DEF IsConcat
<1>15. \A y \in 1 .. n : p[y] = IF y <= n - u THEN w[y]
                                ELSE IF y = (n - u) + 1 THEN 0 ELSE w[y - 1]
  <2>1. n - u = Len(w) + 1 - u /\ (n - u) + 1 = Len(w) + 2 - u BY <1>3
  <2> QED BY <1>1, <2>1 DEF Shifted
<1>16. ASSUME NEW j \in 1 .. Len(w) PROVE v[j] = w[j]
  <2>1. CASE j <= h
    <3>1. j \in 1 .. h /\ j \in 1 .. n /\ j <= n - u BY <1>3, <1>4, <2>1
    <3>2. v[j] = a[j] BY <1>7, <1>13, <3>1 DEF IsConcat
    <3> QED BY <1>7, <1>15, <3>1, <3>2
  <2>2. CASE ~(j <= h)
    <3>1. PICK x \in 1 .. k : j = h + x
      <4>1. j - h \in 1 .. k /\ j = h + (j - h) BY <1>3, <1>4, <1>8, <2>2
      <4> QED BY <4>1
    <3>2. v[h + x] = b[x] BY <1>7, <1>11, <1>13, <3>1 DEF IsConcat
    <3>3. m + x \in 1 .. n /\ ~(m + x <= n - u) /\ m + x # (n - u) + 1 /\ (m + x) - 1 = j
      BY <1>3, <1>4, <1>8, <1>9, <3>1
    <3>4. p[m + x] = w[j] BY <1>15, <3>3
    <3> QED BY <1>11, <3>1, <3>2, <3>4
  <2> QED BY <2>1, <2>2
<1>17. v = w BY <1>13, <1>14, <1>16, SeqEqual
<1>18. h = ((n - u) + 1) - 1 /\ m + 1 = ((n - u) + 1) + 1 BY <1>3, <1>4, <1>9
<1>19. RemoveAt(p, (n - u) + 1) = v BY <1>2, <1>6, <1>10, <1>12, <1>18 DEF RemoveAt
<1> QED BY <1>1, <1>17, <1>19

(* What was padded, and what ends it, are pieces of the whole.             *)
LEMMA StartOfPadded ==
    ASSUME NEW w, NEW s \in Seq(Int), NEW m, NEW z, NEW e, IsPadded(w, s, m, z, e),
           Len(e) \in Nat, z \in Nat
    PROVE  SubSeq(w, 1, Len(s)) = s
<1>1. PICK l \in Nat : l = Len(s) BY LenProperties
<1>2. PICK d \in Nat : d = Len(e) OBVIOUS
<1>3. w \in Seq(Int) /\ Len(w) = l + 1 + z + d /\ \A j \in 1 .. l : w[j] = s[j]
  BY <1>1, <1>2 DEF IsPadded
<1>4. PICK o \in Nat : o = 0 OBVIOUS
<1>5. o + l <= Len(w) /\ 1 = o + 1 /\ l = o + l BY <1>3, <1>4
<1>6. PICK v : v = SubSeq(w, 1, l) OBVIOUS
<1>7. v \in Seq(Int) /\ Len(v) = l /\ \A x \in 1 .. l : v[x] = w[o + x]
  BY ONLY <1>3, <1>5, <1>6, o \in Nat, l \in Nat, PieceOf
<1>8. \A x \in 1 .. l : o + x = x BY <1>4
<1>9. v = s BY <1>1, <1>3, <1>7, <1>8, SeqEqual
<1> QED BY <1>1, <1>6, <1>9

EndsWith(w, s, z, e) == SubSeq(w, Len(s) + 1 + z + 1, Len(s) + 1 + z + Len(e)) = e

LEMMA EndOfPadded ==
    ASSUME NEW w, NEW s \in Seq(Int), NEW m, NEW z \in Nat, NEW e \in Seq(Int),
           IsPadded(w, s, m, z, e)
    PROVE  EndsWith(w, s, z, e)
<1>8. PICK o \in Nat : o = Len(s) + 1 + z
  <2>1. Len(s) \in Nat BY LenProperties
  <2>2. Len(s) + 1 + z \in Nat BY <2>1
  <2> QED BY <2>2
<1>9. PICK g, h : g = o + 1 /\ h = o + Len(e) OBVIOUS
<1>0. o = Len(s) + 1 + z /\ g = o + 1 /\ h = o + Len(e) BY <1>8, <1>9
<1>1. PICK d \in Nat : d = Len(e) BY LenProperties
<1>2. /\ w \in Seq(Int) /\ Len(w) = o + d
      /\ \A j \in 1 .. d : w[o + j] = e[j]
  BY <1>0, <1>1 DEF IsPadded
<1>3. o + d <= Len(w) BY <1>2
<1>4. PICK v : v = SubSeq(w, g, h) OBVIOUS
<1>5. g = o + 1 /\ h = o + d BY <1>0, <1>1
<1>6. v \in Seq(Int) /\ Len(v) = d /\ \A x \in 1 .. d : v[x] = w[o + x]
  BY ONLY <1>2, <1>3, <1>4, <1>5, o \in Nat, d \in Nat, PieceOf
<1>7. v = e BY <1>1, <1>2, <1>6, SeqEqual
<1> QED BY <1>0, <1>4, <1>7 DEF EndsWith

(* The length at the end tells where the data end, if it fits, ...         *)
LengthFits(s) == IsMd(fn) => Width * Len(s) < Power[fn.len]

LEMMA MdUndone ==
    ASSUME fn \in MdFunctions, data \in Seq(Int), LengthFits(data), NEW c, AreBlocks(c)
    PROVE  Undone(Made(c)) = data
<1>1. /\ IsMd(fn) /\ fn.word \in Nat /\ fn.word > 1 /\ fn.len \in Nat /\ fn.word <= fn.len
      /\ Width \in Nat /\ Width > 0
  BY MdNumbers
<1>2. PICK z \in Nat, d \in Nat : MdPaddedWith(data, z, d) BY MdPaddedParts
<1>3. PICK k \in Nat, u \in Nat : k = fn.len /\ u = fn.word BY <1>1
<1>4. PICK v \in Nat : v = Width * Len(data)
  <2>1. Len(data) \in Nat BY LenProperties
  <2>2. Width * Len(data) \in Nat BY <1>1, <2>1
  <2> QED BY <2>2
<1>5. PICK e : e = ToBytes(v, k) OBVIOUS
<1>6. e \in Seq(Int) /\ Len(e) = k
  <2>1. e \in Seq(Byte) /\ Len(e) = k BY <1>5, ToBytesType
  <2>2. Byte \subseteq Int BY Numbers
  <2> QED BY <2>1, <2>2, SeqMonotonic
<1>7. ToNumber(e) = v
  <2>1. v < Power[k] BY <1>1, <1>3, <1>4 DEF LengthFits
  <2> QED BY <1>5, <2>1, BytesRead
<1>8. v \div Width = Len(data)
  <2>1. PICK q \in Nat : q = Len(data) BY LenProperties
  <2>2. PICK a \in Nat : a = Width BY <1>1
  <2>3. a > 0 /\ 0 \in 0 .. a - 1 BY <1>1, <2>2
  <2>4. (a * q + 0) \div a = q BY <2>3, DivisionUnique
  <2>5. a * q + 0 = v BY <1>4, <2>1, <2>2
  <2> QED BY <2>1, <2>2, <2>4, <2>5
<1>9. PICK w : w = MdPadded(fn, data) OBVIOUS
<1>10. IsPadded(w, data, Mark, z, e) BY <1>2, <1>3, <1>4, <1>5, <1>9 DEF MdPaddedWith
<1>11. w \in Seq(Int) /\ Len(w) = Len(data) + 1 + z + k BY <1>6, <1>10 DEF IsPadded
<1>12. Filled = Shifted(w, u) BY <1>1, <1>3, <1>9 DEF Filled, Padded
<1>13. PICK p, n : p = Joined(Made(c)) /\ n = Len(p) OBVIOUS
<1>14. p = Shifted(w, u) BY <1>12, <1>13, JoinedBlocks
<1>15. u > 0 /\ u <= Len(w)
  <2>1. Len(data) \in Nat BY LenProperties
  <2> QED BY <1>1, <1>3, <1>11, <2>1
<1>16. n = Len(w) + 1 BY <1>11, <1>13, <1>14, <1>15, ShiftedType
<1>17. RemoveAt(p, (n - u) + 1) = w BY <1>11, <1>14, <1>15, <1>16, ShiftedBack
<1>18. SubSeq(w, n - k, n - 1) = e
  <2>1. PICK o \in Nat : o = Len(data) + 1 + z
    <3>1. Len(data) \in Nat BY LenProperties
    <3>2. Len(data) + 1 + z \in Nat BY <3>1
    <3> QED BY <3>2
  <2>2. PICK g, h : g = n - k /\ h = n - 1 OBVIOUS
  <2>3. Len(w) = o + k BY <1>11, <2>1
  <2>4. g = o + 1 /\ h = o + Len(e) BY <1>6, <1>16, <2>2, <2>3
  <2>6. EndsWith(w, data, z, e) BY <1>6, <1>10, EndOfPadded
  <2>5. SubSeq(w, g, h) = e BY <2>1, <2>4, <2>6 DEF EndsWith
  <2> QED BY ONLY <2>2, <2>5
<1>19. SubSeq(w, 1, Len(data)) = data BY <1>6, <1>10, StartOfPadded
<1>20. n - fn.word + 1 = (n - u) + 1 /\ n - fn.len = n - k
  <2>1. Len(data) \in Nat BY LenProperties
  <2> QED BY <1>3, <1>11, <1>16, <2>1
<1>21. Undone(Made(c)) = SubSeq(w, 1, ToNumber(e) \div Width)
  BY <1>1, <1>13, <1>17, <1>18, <1>20 DEF Undone, Joined
<1> QED BY <1>7, <1>8, <1>19, <1>21

(* ... and so does the domain byte, the last but one that is not zero.     *)
LEMMA SpongeUndone ==
    ASSUME fn \in Sponges, data \in Seq(Int), NEW c, AreBlocks(c)
    PROVE  Undone(Made(c)) = data
<1>1. ~IsMd(fn) /\ fn.domain \in Byte /\ fn.domain > 0 /\ Mark \in Byte BY SpongeNumbers
<1>2. PICK z \in Nat, d \in Nat : SpongePaddedWith(data, z, d) BY SpongePaddedParts
<1>3. PICK e : e = <<Mark>> OBVIOUS
<1>4. e \in Seq(Int) /\ Len(e) = 1
  <2>1. Mark \in Int BY <1>1, Numbers
  <2>2. e = [x \in 1 .. 1 |-> Mark] BY <1>3
  <2>3. [x \in 1 .. 1 |-> Mark] \in [1 .. 1 -> Int] BY <2>1
  <2> QED BY <2>2, <2>3, StringLength
<1>5. PICK w : w = SpongePadded(fn, data) OBVIOUS
<1>6. IsPadded(w, data, fn.domain, z, e) BY <1>2, <1>3, <1>5 DEF SpongePaddedWith
<1>7. Filled = w BY <1>1, <1>5 DEF Filled, Padded
<1>8. PICK p, n : p = Joined(Made(c)) /\ n = Len(p) OBVIOUS
<1>9. p = w BY <1>7, <1>8, JoinedBlocks
<1>10. PICK l \in Nat : l = Len(data) BY LenProperties
<1>11. n = l + 1 + z + 1 BY <1>4, <1>6, <1>8, <1>9, <1>10 DEF IsPadded
<1>12. p[l + 1] # 0 /\ \A x \in 1 .. z : p[l + 1 + x] = 0
  <2>1. p[l + 1] = fn.domain /\ \A x \in 1 .. z : p[l + 1 + x] = 0
    BY ONLY <1>6, <1>9, <1>10 DEF IsPadded
  <2>2. PICK g : g = fn.domain OBVIOUS
  <2>3. g \in Nat /\ g > 0 BY <1>1, <2>2, Numbers
  <2>4. p[l + 1] # 0 BY <2>1, <2>2, <2>3
  <2> QED BY ONLY <2>1, <2>4
<1> DEFINE Ends(j) == (p[j] # 0 \/ j = 1) /\ \A x \in j + 1 .. n - 1 : p[x] = 0
<1>13. l + 1 \in 1 .. n - 1 /\ Ends(l + 1)
  <2>1. l + 1 \in 1 .. n - 1 BY <1>11
  <2>2. ASSUME NEW x \in (l + 1) + 1 .. n - 1 PROVE p[x] = 0
    <3>1. PICK y \in 1 .. z : x = l + 1 + y
      <4>1. x - (l + 1) \in 1 .. z /\ x = l + 1 + (x - (l + 1)) BY <1>11
      <4> QED BY <4>1
    <3> QED BY <1>12, <3>1
  <2> QED BY <1>12, <2>1, <2>2
<1>14. \A j \in 1 .. n - 1 : Ends(j) => j = l + 1
  <2> SUFFICES ASSUME NEW j \in 1 .. n - 1, Ends(j), j # l + 1 PROVE FALSE OBVIOUS
  <2>1. CASE j < l + 1
    <3>1. l + 1 \in j + 1 .. n - 1 BY <1>11, <2>1
    <3> QED BY <1>12, <3>1
  <2>2. CASE j > l + 1
    <3>1. PICK y \in 1 .. z : j = l + 1 + y
      <4>1. j - (l + 1) \in 1 .. z /\ j = l + 1 + (j - (l + 1)) BY <1>11, <2>2
      <4> QED BY <4>1
    <3>2. p[l + 1 + y] = 0 BY <1>12
    <3>3. j # 1 BY <2>2
    <3> QED BY <3>1, <3>2, <3>3
  <2> QED BY <1>11, <2>1, <2>2
<1>15. PICK last : last = CHOOSE j \in 1 .. n - 1 : Ends(j) OBVIOUS
<1> HIDE DEF Ends
<1>16. last = l + 1 BY ONLY <1>13, <1>14, <1>15
<1> USE DEF Ends
<1>17. Undone(Made(c)) = SubSeq(p, 1, last - 1) BY <1>1, <1>8, <1>15 DEF Undone, Joined
<1>18. last - 1 = Len(data) BY <1>10, <1>16
<1>19. SubSeq(w, 1, Len(data)) = data BY <1>4, <1>6, StartOfPadded
<1> QED BY <1>9, <1>17, <1>18, <1>19

(* Whatever the hash function, what was hashed can be read back.           *)
LEMMA BlocksUndone ==
    ASSUME fn \in MdFunctions \cup Sponges, data \in Seq(Int), LengthFits(data),
           NEW c, AreBlocks(c)
    PROVE  Undone(Made(c)) = data
BY MdUndone, SpongeUndone

-----------------------------------------------------------------------------
(* The calls of the hash functions.                                        *)
HashTypes ==
    /\ fn \in MdFunctions \cup Sponges
    /\ use \in {"called", "hash", "key", "inner", "outer"}
    /\ pc \in {"absorb", "squeeze", "done"}
    /\ {key, message, shortKey} \subseteq Seq(Nat) /\ data \in Seq(Int) /\ i \in Nat
    /\ IsMd(fn) => pc # "squeeze"
    /\ use \in {"key", "inner", "outer"} => IsMd(fn)
    /\ pc # "done" => use # "called"

(* The loop over the blocks has seen some of them, and at its end all.     *)
Absorbing ==
    /\ pc = "absorb" => state = Made(i) /\ (i = 0 \/ Step * (i - 1) < Len(Padded))
    /\ Hashed => \E c \in Nat : AreBlocks(c) /\ state = Made(c)

(* The loop ends when there is no block left.                              *)
LEMMA AllAbsorbed ==
    ASSUME HashTypes, Absorbing, pc = "absorb", Step * i >= Len(Padded)
    PROVE  AreBlocks(i) /\ state = Made(i)
<1>1. PICK c \in Nat : AreBlocks(c) BY BlocksMade DEF HashTypes
<1>2. /\ c > 0 /\ Step * (c - 1) < Len(Padded) /\ Len(Padded) <= Step * c
      /\ Filled \in Seq(Int) /\ Len(Filled) = Step * c
  BY <1>1 DEF AreBlocks
<1>3. Step \in Nat /\ Step > 0
  <2>1. CASE fn \in MdFunctions BY <2>1, MdNumbers
  <2>2. CASE fn \in Sponges BY <2>2, SpongeNumbers
  <2> QED BY <2>1, <2>2 DEF HashTypes
<1>4. PICK b \in Nat, n \in Nat : b = Step /\ n = i BY <1>3 DEF HashTypes
<1>5. PICK l \in Int : l = Len(Padded)
  <2>1. CASE fn \in MdFunctions
    <3>1. PICK z \in Nat, d \in Nat : MdPaddedWith(data, z, d)
      BY <2>1, MdPaddedParts DEF HashTypes
    <3>2. Padded = MdPadded(fn, data) BY <2>1, MdNumbers DEF Padded
    <3>3. Padded \in Seq(Int) BY <3>1, <3>2 DEF MdPaddedWith, IsPadded
    <3> QED BY <3>3, LenProperties
  <2>2. CASE fn \in Sponges
    <3>1. PICK z \in Nat, d \in Nat : SpongePaddedWith(data, z, d)
      BY <2>2, SpongePaddedParts DEF HashTypes
    <3>2. Padded = SpongePadded(fn, data) BY <2>2, SpongeNumbers DEF Padded
    <3>3. Padded \in Seq(Int) BY <3>1, <3>2 DEF SpongePaddedWith, IsPadded
    <3> QED BY <3>3, LenProperties
  <2> QED BY <2>1, <2>2 DEF HashTypes
<1>6. b > 0 /\ b * (c - 1) < l /\ l <= b * c /\ b * n >= l /\ (n = 0 \/ b * (n - 1) < l)
  BY <1>2, <1>3, <1>4, <1>5 DEF Absorbing
<1>7. c <= n
  <2> SUFFICES ASSUME n <= c - 1 PROVE FALSE BY <1>2
  <2>1. c - 1 \in Nat BY <1>2
  <2>2. b * n <= b * (c - 1) BY <2>1, Multiples
  <2>3. b * n \in Int /\ b * (c - 1) \in Int BY <2>1
  <2> QED BY ONLY <1>6, <2>2, <2>3, l \in Int
<1>8. n <= c
  <2> SUFFICES ASSUME c <= n - 1 PROVE FALSE OBVIOUS
  <2>1. n - 1 \in Nat BY <1>2
  <2>2. b * c <= b * (n - 1) BY <2>1, Multiples
  <2>3. n # 0 BY <1>2
  <2>4. b * c \in Int /\ b * (n - 1) \in Int BY <2>1
  <2> QED BY ONLY <1>6, <2>2, <2>3, <2>4, l \in Int
<1> QED BY <1>1, <1>4, <1>7, <1>8 DEF Absorbing

(* While a hash function runs, its blocks stay what they are.              *)
LEMMA SameBlocks ==
    ASSUME UNCHANGED <<fn, data>>
    PROVE  /\ Padded' = Padded /\ Step' = Step
           /\ \A n : Made(n)' = Made(n)
           /\ \A c : AreBlocks(c)' = AreBlocks(c)
<1>1. Padded' = Padded /\ Step' = Step BY DEF Padded, Step, IsMd
<1>2. Unit' = Unit /\ Filled' = Filled BY <1>1 DEF Unit, Filled, IsMd
<1>3. \A b : Words(b)' = Words(b) BY DEF Words, IsMd
<1>4. \A n : Made(n)' = Made(n) BY <1>1, <1>3 DEF Made
<1> QED BY <1>1, <1>2, <1>4 DEF AreBlocks

(* One more block.                                                         *)
LEMMA OneMoreBlock ==
    ASSUME NEW n \in Nat
    PROVE  Append(Made(n), Words(Slice(Padded, Step, n))) = Made(n + 1)
<1> DEFINE e(k) == Words(Slice(Padded, Step, k))
           S == {e(k) : k \in Nat}
<1>1. \A k \in Nat : e(k) \in S OBVIOUS
<1>2. \A b \in 1 .. n + 1 : b - 1 \in Nat OBVIOUS
<1> HIDE DEF e, S
<1>3. \A m \in 0 .. n + 1 : [b \in 1 .. m |-> e(b - 1)] \in [1 .. m -> S] BY <1>1, <1>2
<1>4. PICK s, u : s = [b \in 1 .. n |-> e(b - 1)] /\ u = [b \in 1 .. n + 1 |-> e(b - 1)] OBVIOUS
<1>5. s \in Seq(S) /\ Len(s) = n
  <2>1. s \in [1 .. n -> S] BY <1>3, <1>4
  <2> QED BY <2>1, StringLength
<1>6. u \in Seq(S) /\ Len(u) = n + 1
  <2>1. u \in [1 .. n + 1 -> S] BY <1>3, <1>4
  <2>2. n + 1 \in Nat OBVIOUS
  <2> QED BY <2>1, <2>2, StringLength
<1>7. PICK v : v = Append(s, e(n)) OBVIOUS
<1>8. /\ v \in Seq(S) /\ Len(v) = n + 1 /\ v[n + 1] = e(n)
      /\ \A b \in 1 .. n : v[b] = s[b]
  BY <1>1, <1>5, <1>7, AppendProperties
<1>9. \A b \in 1 .. n + 1 : v[b] = u[b]
  <2> TAKE b \in 1 .. n + 1
  <2>1. u[b] = e(b - 1) BY <1>4
  <2>2. CASE b = n + 1
    <3>1. b - 1 = n BY <2>2
    <3> QED BY <1>8, <2>1, <2>2, <3>1
  <2>3. CASE b # n + 1
    <3>1. b \in 1 .. n BY <2>3
    <3>2. s[b] = e(b - 1) BY <1>4, <3>1
    <3> QED BY <1>8, <2>1, <3>1, <3>2
  <2> QED BY <2>2, <2>3
<1>10. v = u BY <1>6, <1>8, <1>9, SeqEqual
<1> QED BY <1>4, <1>7, <1>10 DEF Made, e

-----------------------------------------------------------------------------
(* The strings of hmac_...(): digests, and keys behind a mask.             *)
LEMMA DigestBytesType ==
    ASSUME NEW k \in Nat, k > 0
    PROVE  DigestBytes(k) \in Seq(Nat) /\ Len(DigestBytes(k)) = HashLen
<1>1. HashLen \in Nat /\ Base \in Nat
  <2>1. HashLen \in Nat BY DigestAssumption
  <2> QED BY <2>1, Numbers
<1>2. PICK n \in Nat : n = HashLen * (k - 1)
  <2>1. k - 1 \in Nat OBVIOUS
  <2>2. HashLen * (k - 1) \in Nat BY <1>1, <2>1
  <2> QED BY <2>2
<1>3. \A j \in 1 .. HashLen : Base + n + j - 1 \in Nat BY <1>1
<1>4. DigestBytes(k) = [j \in 1 .. HashLen |-> Base + n + j - 1] BY <1>2 DEF DigestBytes
<1>5. DigestBytes(k) \in [1 .. HashLen -> Nat] BY <1>3, <1>4
<1> QED BY <1>1, <1>5, StringLength

(* The key of HMAC, filled up, is a block.                                 *)
LEMMA BlockKeyType ==
    ASSUME fn \in MdFunctions, NEW k \in Seq(Nat), Len(k) <= fn.block
    PROVE  BlockKey(k) \in Seq(Nat) /\ Len(BlockKey(k)) = fn.block
<1>1. PICK b \in Nat : b = fn.block BY MdNumbers
<1>2. PICK n \in Nat : n = Len(k) BY LenProperties
<1>3. PICK z \in Nat : z = b - n
  <2>1. b - n \in Nat BY <1>1, <1>2
  <2> QED BY <2>1
<1>4. Zeros(z) \in Seq(Nat) /\ Len(Zeros(z)) = z BY ZerosType
<1>5. PICK v : v = k \o Zeros(z) OBVIOUS
<1>6. v \in Seq(Nat) /\ IsConcat(v, k, Zeros(z)) BY <1>4, <1>5, ConcatParts
<1>7. Len(v) = b BY <1>2, <1>3, <1>4, <1>6 DEF IsConcat
<1>8. BlockKey(k) = v BY <1>1, <1>2, <1>3, <1>5 DEF BlockKey
<1> QED BY <1>1, <1>6, <1>7, <1>8

(* A mask is taken off again, be the byte one of a digest or not.          *)
LEMMA MaskedType ==
    ASSUME NEW s \in Seq(Nat), NEW pad \in Byte
    PROVE  /\ Masked(s, pad) \in Seq(Int) /\ Len(Masked(s, pad)) = Len(s)
           /\ Unmasked(Masked(s, pad), pad) = s
<1>1. PICK n \in Nat : n = Len(s) BY LenProperties
<1>2. Base \in Nat /\ Base > 0 /\ Byte \subseteq Nat /\ Byte = 0 .. Base - 1
  BY Numbers DEF Byte
<1>3. PICK b \in Nat, p \in Nat : b = Base /\ p = pad BY <1>2
<1>4. \A x \in Byte : XorByte[<<x, pad>>] \in Byte /\ XorByte[<<XorByte[<<x, pad>>], pad>>] = x
  <2> TAKE x \in Byte
  <2>1. <<x, pad>> \in Byte \X Byte OBVIOUS
  <2> QED BY <2>1, BytesAssumption
<1>5. PICK m : m = Masked(s, pad) OBVIOUS
<1>6. \A j \in 1 .. n : /\ s[j] \in Nat
                        /\ m[j] = IF s[j] \in Byte THEN XorByte[<<s[j], pad>>]
                                  ELSE -(b * s[j] + p)
  BY <1>1, <1>3, <1>5, ElementOfSeq DEF Masked
<1>7. \A x \in Nat : /\ -(b * x + p) \in Int
                     /\ (-(-(b * x + p)) - p) \div b = x
                     /\ x \notin Byte => -(b * x + p) \notin Byte
  <2> TAKE x \in Nat
  <2>1. PICK y \in Nat : y = b * x OBVIOUS
  <2>2. -(y + p) \in Int /\ -(-(y + p)) - p = y OBVIOUS
  <2>3. b > 0 /\ 0 \in 0 .. b - 1 BY <1>2, <1>3
  <2>4. (b * x + 0) \div b = x BY <2>3, DivisionUnique
  <2>5. y \div b = x
    <3>1. b * x + 0 = y BY <2>1
    <3> QED BY <2>4, <3>1
  <2>6. x \notin Byte => -(y + p) \notin Byte
    <3> SUFFICES ASSUME x \notin Byte, -(y + p) \in Byte PROVE FALSE OBVIOUS
    <3>1. -(y + p) >= 0 BY <1>2
    <3>2. y = 0 BY <3>1
    <3>3. x >= b BY <1>2, <1>3
    <3>4. x > 0 BY <2>3, <3>3
    <3>5. b * 1 <= b * x
      <4>1. 1 \in Nat /\ 1 <= x BY <3>4
      <4> QED BY <4>1, Multiples
    <3>6. b <= y BY <2>1, <3>5
    <3> QED BY <2>3, <3>2, <3>6
  <2>7. -(b * x + p) = -(y + p) BY <2>1
  <2> QED BY <2>2, <2>5, <2>6, <2>7
<1>8. \A j \in 1 .. n : /\ m[j] \in Int
                        /\ (IF m[j] \in Byte THEN XorByte[<<m[j], pad>>]
                            ELSE (-m[j] - p) \div b) = s[j]
  <2> TAKE j \in 1 .. n
  <2>1. CASE s[j] \in Byte
    <3>1. m[j] = XorByte[<<s[j], pad>>] BY <1>6, <2>1
    <3>2. m[j] \in Byte /\ XorByte[<<m[j], pad>>] = s[j] BY <1>4, <2>1, <3>1
    <3>3. m[j] \in Int BY <1>2, <3>2
    <3> QED BY <3>2, <3>3
  <2>2. CASE s[j] \notin Byte
    <3>1. PICK x \in Nat : x = s[j] BY <1>6
    <3>2. m[j] = -(b * x + p) BY <1>6, <2>2, <3>1
    <3>3. m[j] \in Int /\ m[j] \notin Byte /\ (-m[j] - p) \div b = x
      BY ONLY <1>7, <2>2, <3>1, <3>2, x \in Nat
    <3> QED BY <3>1, <3>3
  <2> QED BY <2>1, <2>2
<1>9. m \in Seq(Int) /\ Len(m) = n
  <2>1. m = [j \in 1 .. n |-> m[j]] BY <1>1, <1>5 DEF Masked
  <2>2. [j \in 1 .. n |-> m[j]] \in [1 .. n -> Int] BY <1>8
  <2>3. m \in [1 .. n -> Int] BY <2>1, <2>2
  <2> QED BY <2>3, StringLength
<1>10. Unmasked(m, pad) = s
  <2>1. PICK u : u = [j \in 1 .. n |-> IF m[j] \in Byte THEN XorByte[<<m[j], pad>>]
                                       ELSE (-m[j] - p) \div b] OBVIOUS
  <2>2. u = [j \in 1 .. n |-> s[j]] BY <1>8, <2>1
  <2>3. s = [j \in 1 .. n |-> s[j]] BY <1>1, LenProperties
  <2>4. Unmasked(m, pad) = u BY <1>3, <1>9, <2>1 DEF Unmasked
  <2> QED BY <2>2, <2>3, <2>4
<1> QED BY <1>1, <1>5, <1>9, <1>10

(* What is hashed for an HMAC.                                             *)
LEMMA MacDataType ==
    ASSUME fn \in MdFunctions, NEW k \in Seq(Nat), Len(k) <= fn.block, NEW m \in Seq(Nat),
           NEW pad \in Byte, NEW v, v = Masked(BlockKey(k), pad)
    PROVE  /\ v \o m \in Seq(Int) /\ IsConcat(v \o m, v, m) /\ v \in Seq(Int)
           /\ Len(v) = fn.block /\ Len(v \o m) = fn.block + Len(m)
           /\ Unmasked(v, pad) = BlockKey(k)
<1>1. BlockKey(k) \in Seq(Nat) /\ Len(BlockKey(k)) = fn.block BY BlockKeyType
<1>2. v \in Seq(Int) /\ Len(v) = fn.block /\ Unmasked(v, pad) = BlockKey(k)
  BY <1>1, MaskedType
<1>3. m \in Seq(Int)
  <2>1. Nat \subseteq Int OBVIOUS
  <2> QED BY <2>1, SeqMonotonic
<1>4. v \o m \in Seq(Int) /\ IsConcat(v \o m, v, m) BY <1>2, <1>3, ConcatParts
<1> QED BY <1>2, <1>4 DEF IsConcat

-----------------------------------------------------------------------------
(* A digest tells its state, and the state what was hashed.                *)
States == Seq(Seq(Seq(Int)))

Knowing ==
    /\ known \in Seq(States)
    /\ IsMd(fn) /\ Hashed =>
          \E k \in 1 .. Len(known) : known[k] = state /\ out = DigestBytes(k)

(* The lengths of what hmac_...() hashes can be written behind it.         *)
LengthsFit ==
    IsMd(fn) => /\ Width * (fn.block + Len(message)) < Power[fn.len]
                /\ Width * Len(key) < Power[fn.len]

(* A digest from which, were it to be inverted, data can be read back.     *)
TellsOf(digest, s) ==
    \E k \in 1 .. Len(known) : digest = DigestBytes(k) /\ (LengthsFit => Undone(known[k]) = s)

InnerData == Masked(BlockKey(shortKey), IPad) \o message

(* The hashes of hmac_...() one after the other.                           *)
MacStages ==
    /\ use = "key" => data = key /\ Len(key) > fn.block
    /\ use \in {"inner", "outer"} =>
          /\ Len(shortKey) <= fn.block
          /\ Len(key) <= fn.block => shortKey = key
          /\ Len(key) > fn.block => TellsOf(shortKey, key)
    /\ use = "inner" => data = InnerData
    /\ use = "outer" => \E d \in Seq(Nat) :
          /\ Len(d) = HashLen /\ TellsOf(d, InnerData)
          /\ data = Masked(BlockKey(shortKey), OPad) \o d

HashInv == HashTypes /\ Absorbing /\ Knowing /\ MacStages

(* At the end of the loop, the digest is that of all the blocks.           *)
LEMMA StateType ==
    ASSUME fn \in MdFunctions \cup Sponges, NEW c, AreBlocks(c)
    PROVE  Made(c) \in States
<1>1. /\ Step \in Nat /\ Step > 0 /\ Unit \in Nat /\ Unit > 0
      /\ Step \div Unit \in Nat /\ Step = Unit * (Step \div Unit)
  BY StepNumbers
<1>2. PICK B \in Nat, U \in Nat, W \in Nat : B = Step /\ U = Unit /\ W = Step \div Unit BY <1>1
<1>3. B > 0 /\ U > 0 /\ B = U * W BY <1>1, <1>2
<1>4. PICK p : p = Filled OBVIOUS
<1>5. /\ c \in Nat /\ p \in Seq(Int) /\ Len(p) = B * c
      /\ Made(c) = CutInto(p, c, B, U, W)
  BY <1>2, <1>4 DEF AreBlocks
<1>6. CutInto(p, c, B, U, W) \in Seq(Seq(Seq(Int))) BY <1>3, <1>5, CutType
<1> QED BY <1>5, <1>6 DEF States

(* What a call of a hash function begins with.                             *)
LEMMA CallBegins ==
    ASSUME HashTypes, NEW s \in Seq(Int), Call(s), fn' = fn,
           {key, message, shortKey}' \subseteq Seq(Nat),
           use' \in {"hash", "key", "inner", "outer"}, use' # "hash" => IsMd(fn)
    PROVE  HashTypes' /\ Absorbing' /\ data' = s /\ ~Hashed'
<1>1. data' = s /\ pc' = "absorb" /\ i' = 0 /\ state' = <<>> BY DEF Call
<1>2. HashTypes' BY <1>1 DEF HashTypes, IsMd
<1>3. Absorbing'
  <2>1. Made(i)' = <<>> BY <1>1 DEF Made
  <2> QED BY <1>1, <2>1 DEF Absorbing, Hashed
<1> QED BY <1>1, <1>2, <1>3 DEF Hashed

(* A call of hmac_...() is in its first stage.                             *)
LEMMA CallHmacBegins ==
    ASSUME HashInv, IsMd(fn), NEW k \in Seq(Nat), NEW m \in Seq(Nat), CallHmac(k, m)
    PROVE  HashInv' /\ use' \in {"key", "inner"} /\ pc' = "absorb" /\ fn' = fn
<1>1. /\ key' = k /\ message' = m /\ shortKey' = k
      /\ UNCHANGED <<fn, wanted, known>>
  BY DEF CallHmac
<1>2. fn \in MdFunctions
  <2>1. fn \in MdFunctions \cup Sponges BY DEF HashInv, HashTypes
  <2> QED BY <2>1, SpongeNumbers
<1>3. IPad \in Byte BY DigestAssumption
<1>4. Knowing' = (known \in Seq(States) /\ (IsMd(fn) /\ Hashed' =>
          \E j \in 1 .. Len(known) : known[j] = state' /\ out' = DigestBytes(j)))
  BY <1>1 DEF Knowing, IsMd
<1>5. CASE TooLong(k)
  <2>1. use' = "key" /\ Call(k) BY <1>5 DEF CallHmac
  <2>2. k \in Seq(Int)
    <3>1. Nat \subseteq Int OBVIOUS
    <3> QED BY <3>1, SeqMonotonic
  <2>3. HashTypes' /\ Absorbing' /\ data' = k /\ ~Hashed'
    BY <1>1, <2>1, <2>2, CallBegins DEF HashInv
  <2>4. MacStages' BY <1>1, <1>5, <2>1, <2>3 DEF MacStages, TooLong
  <2>5. Knowing' BY <1>4, <2>3 DEF HashInv, Knowing
  <2>6. pc' = "absorb" BY <2>1 DEF Call
  <2> QED BY <1>1, <2>1, <2>3, <2>4, <2>5, <2>6 DEF HashInv
<1>6. CASE ~TooLong(k)
  <2>1. use' = "inner" /\ Call(Masked(BlockKey(k), IPad) \o m) BY <1>6 DEF CallHmac
  <2>2. Len(k) <= fn.block
    <3>1. Len(k) \in Nat BY LenProperties
    <3>2. fn.block \in Nat BY <1>2, MdNumbers
    <3> QED BY <1>6, <3>1, <3>2 DEF TooLong
  <2>3. PICK s : s = Masked(BlockKey(k), IPad) \o m OBVIOUS
  <2>4. s \in Seq(Int) BY <1>2, <1>3, <2>2, <2>3, MacDataType
  <2>5. HashTypes' /\ Absorbing' /\ data' = s /\ ~Hashed'
    BY <1>1, <2>1, <2>3, <2>4, CallBegins DEF HashInv
  <2>6. MacStages'
    <3>1. InnerData' = s BY <1>1, <2>3 DEF InnerData, Masked, BlockKey
    <3>2. Len(k) \in Nat /\ fn.block \in Nat BY <1>2, LenProperties, MdNumbers
    <3> QED BY <1>1, <2>1, <2>2, <2>5, <3>1, <3>2 DEF MacStages
  <2>7. Knowing' BY <1>4, <2>5 DEF HashInv, Knowing
  <2>8. pc' = "absorb" BY <2>1 DEF Call
  <2> QED BY <1>1, <2>1, <2>5, <2>6, <2>7, <2>8 DEF HashInv
<1> QED BY <1>5, <1>6

(* And a call of a hash function has nothing to do with keys.              *)
LEMMA CallHashBegins ==
    ASSUME HashInv, NEW s \in Seq(Int), Call(s), use' = "hash",
           UNCHANGED <<args, shortKey, known>>
    PROVE  HashInv' /\ pc' = "absorb" /\ fn' = fn
<1>1. UNCHANGED <<fn, key, message, shortKey, known>> BY DEF args
<1>2. HashTypes' /\ Absorbing' /\ ~Hashed'
  <2>1. {key, message, shortKey}' \subseteq Seq(Nat) BY <1>1 DEF HashInv, HashTypes
  <2> QED BY <1>1, <2>1, CallBegins DEF HashInv
<1>3. Knowing' BY <1>1, <1>2 DEF HashInv, Knowing
<1>4. MacStages' BY DEF MacStages
<1>5. pc' = "absorb" BY DEF Call
<1> QED BY <1>1, <1>2, <1>3, <1>4, <1>5 DEF HashInv

(* What is known stays known.                                              *)
LEMMA TellsOfStays ==
    ASSUME NEW d, NEW s, TellsOf(d, s), UNCHANGED <<fn, key, message>>,
           Len(known) \in Nat, Len(known') \in Nat, Len(known) <= Len(known'),
           \A k \in 1 .. Len(known) : known'[k] = known[k]
    PROVE  TellsOf(d, s)'
<1>1. PICK k \in 1 .. Len(known) : d = DigestBytes(k) /\ (LengthsFit => Undone(known[k]) = s)
  BY DEF TellsOf
<1>2. LengthsFit' = LengthsFit BY DEF LengthsFit, IsMd
<1>3. k \in 1 .. Len(known') /\ known'[k] = known[k] BY <1>1
<1>4. PICK x : x = known[k] OBVIOUS
<1>5. \A y : Undone(y)' = Undone(y) BY DEF Undone, IsMd
<1> QED BY <1>1, <1>2, <1>3, <1>5 DEF TellsOf

(* The stages of hmac_...() while a hash function runs.                    *)
LEMMA MacStagesStay ==
    ASSUME MacStages, UNCHANGED <<fn, key, message, shortKey, use, data>>,
           Len(known) \in Nat, Len(known') \in Nat, Len(known) <= Len(known'),
           \A k \in 1 .. Len(known) : known'[k] = known[k]
    PROVE  MacStages'
<1>1. InnerData' = InnerData BY DEF InnerData, Masked, BlockKey
<1>2. \A d, s : TellsOf(d, s) => TellsOf(d, s)' BY TellsOfStays
<1>3. Masked(BlockKey(shortKey), OPad)' = Masked(BlockKey(shortKey), OPad)
  BY DEF Masked, BlockKey
<1>4. TellsOf(shortKey, key) => TellsOf(shortKey, key)' BY <1>2
<1>5. ASSUME use = "outer"
      PROVE  \E d \in Seq(Nat) : /\ Len(d) = HashLen /\ TellsOf(d, InnerData)'
                                 /\ data' = Masked(BlockKey(shortKey), OPad)' \o d
  <2>1. PICK d \in Seq(Nat) : /\ Len(d) = HashLen /\ TellsOf(d, InnerData)
                              /\ data = Masked(BlockKey(shortKey), OPad) \o d
    BY <1>5 DEF MacStages
  <2>2. TellsOf(d, InnerData)'
    <3>1. PICK s : s = InnerData OBVIOUS
    <3>2. TellsOf(d, s)' BY <1>2, <2>1, <3>1
    <3>3. s = InnerData' BY <1>1, <3>1
    <3> QED BY <3>2, <3>3 DEF TellsOf
  <2> QED BY <1>3, <2>1, <2>2
<1> QED BY <1>1, <1>4, <1>5 DEF MacStages

(* The steps of the hash functions keep the invariant, one by one.         *)
LEMMA AbsorbKeeps ==
    ASSUME HashInv, Absorb
    PROVE  HashInv'
<1>1. /\ pc = "absorb" /\ Step * i < Len(Padded) /\ i' = i + 1
      /\ state' = Append(state, Words(Slice(Padded, Step, i)))
      /\ UNCHANGED <<fn, key, message, wanted, use, shortKey, data, pc, out, known>>
  BY DEF Absorb, args
<1>2. i \in Nat BY DEF HashInv, HashTypes
<1>3. HashTypes' BY <1>1, <1>2 DEF HashInv, HashTypes, IsMd
<1>4. Absorbing'
  <2>1. state = Made(i) BY <1>1 DEF HashInv, Absorbing
  <2>2. state' = Made(i + 1) BY <1>1, <1>2, <2>1, OneMoreBlock
  <2>3. Padded' = Padded /\ Step' = Step /\ \A n : Made(n)' = Made(n) BY <1>1, SameBlocks
  <2>4. Made(i)' = Made(i + 1)
    <3>1. PICK n : n = i + 1 OBVIOUS
    <3>2. Made(n)' = Made(n) BY <2>3
    <3> QED BY <1>1, <3>1, <3>2 DEF Made
  <2>5. i' - 1 = i BY <1>1, <1>2
  <2> QED BY <1>1, <2>2, <2>3, <2>4, <2>5 DEF Absorbing, Hashed
<1>5. Knowing' BY <1>1 DEF HashInv, Knowing, Hashed
<1>6. MacStages'
  <2>1. Len(known) \in Nat BY LenProperties DEF HashInv, Knowing
  <2> QED BY <1>1, <2>1, MacStagesStay DEF HashInv
<1> QED BY <1>3, <1>4, <1>5, <1>6 DEF HashInv

(* A new digest is known, and an old one is that of the same state.        *)
LEMMA DigestKeeps ==
    ASSUME HashInv, Digest
    PROVE  HashInv'
<1>1. /\ pc = "absorb" /\ IsMd(fn) /\ Step * i >= Len(Padded)
      /\ known' = IF Contains(known, state) THEN known ELSE Append(known, state)
      /\ out' = DigestBytes(CHOOSE k \in DOMAIN known' : known'[k] = state)
      /\ pc' = "done"
      /\ UNCHANGED <<fn, key, message, wanted, use, shortKey, data, i, state>>
  BY DEF Digest, args
<1>2. HashTypes' BY <1>1 DEF HashInv, HashTypes, IsMd
<1>3. AreBlocks(i) /\ state = Made(i) BY <1>1, AllAbsorbed DEF HashInv
<1>4. i \in Nat /\ fn \in MdFunctions \cup Sponges BY DEF HashInv, HashTypes
<1>5. state \in States BY <1>3, <1>4, StateType
<1>6. Absorbing'
  <2>1. /\ \A n : Made(n)' = Made(n)
        /\ \A c : AreBlocks(c)' = AreBlocks(c)
    BY <1>1, SameBlocks
  <2>2. PICK c \in Nat : c = i BY <1>4
  <2>3. AreBlocks(c)' /\ state' = Made(c)' BY <1>1, <1>3, <2>1, <2>2
  <2>4. \E d \in Nat : AreBlocks(d)' /\ state' = Made(d)' BY <2>3
  <2> QED BY <1>1, <2>4 DEF Absorbing
<1>7. known \in Seq(States) BY DEF HashInv, Knowing
<1>8. Len(known) \in Nat BY <1>7, LenProperties
<1>9. /\ known' \in Seq(States) /\ Len(known) <= Len(known')
      /\ \A k \in 1 .. Len(known) : known'[k] = known[k]
      /\ \E k \in 1 .. Len(known') : known'[k] = state
  <2>1. CASE Contains(known, state) BY <1>1, <1>7, <1>8, <2>1 DEF Contains
  <2>2. CASE ~Contains(known, state)
    <3>1. known' = Append(known, state) BY <1>1, <2>2
    <3>2. PICK l \in Nat : l = Len(known) BY <1>8
    <3>3. /\ known' \in Seq(States) /\ Len(known') = l + 1 /\ known'[l + 1] = state
          /\ \A k \in 1 .. l : known'[k] = known[k]
      BY <1>5, <1>7, <3>1, <3>2, AppendProperties
    <3>4. l + 1 \in 1 .. Len(known') BY <3>3
    <3> QED BY <3>2, <3>3, <3>4
  <2> QED BY <2>1, <2>2
<1>10. Len(known') \in Nat /\ DOMAIN known' = 1 .. Len(known') BY <1>9, LenProperties
<1>11. PICK k : k = CHOOSE j \in DOMAIN known' : known'[j] = state OBVIOUS
<1>12. k \in 1 .. Len(known') /\ known'[k] = state BY <1>9, <1>10, <1>11
<1>13. out' = DigestBytes(k) BY <1>1, <1>11
<1>14. Knowing'
  <2>1. \E j \in 1 .. Len(known') : known'[j] = state' /\ out' = DigestBytes(j)
    BY <1>1, <1>12, <1>13
  <2>2. \A j : DigestBytes(j)' = DigestBytes(j) BY DEF DigestBytes
  <2> QED BY <1>9, <2>1, <2>2 DEF Knowing
<1>15. MacStages' BY <1>1, <1>8, <1>9, <1>10, MacStagesStay DEF HashInv
<1> QED BY <1>2, <1>6, <1>14, <1>15 DEF HashInv

(* The digest of what was hashed, from which that can be read back.        *)
LEMMA DigestTells ==
    ASSUME HashInv, pc = "done", use # "called", IsMd(fn)
    PROVE  /\ out \in Seq(Nat) /\ Len(out) = HashLen
           /\ (LengthsFit => LengthFits(data)) => TellsOf(out, data)
<1>1. Hashed BY DEF Hashed
<1>2. PICK k \in 1 .. Len(known) : known[k] = state /\ out = DigestBytes(k)
  BY <1>1 DEF HashInv, Knowing
<1>3. k \in Nat /\ k > 0
  <2>1. Len(known) \in Nat BY LenProperties DEF HashInv, Knowing
  <2> QED BY <2>1
<1>4. out \in Seq(Nat) /\ Len(out) = HashLen BY <1>2, <1>3, DigestBytesType
<1>5. PICK c \in Nat : AreBlocks(c) /\ state = Made(c) BY <1>1 DEF HashInv, Absorbing
<1>6. fn \in MdFunctions \cup Sponges /\ data \in Seq(Int) BY DEF HashInv, HashTypes
<1>7. LengthFits(data) => Undone(known[k]) = data BY <1>2, <1>5, <1>6, BlocksUndone
<1> QED BY <1>2, <1>4, <1>7 DEF TellsOf

(* The next hash of hmac_...() hashes what its stage says.                 *)
LEMMA HmacNextKeeps ==
    ASSUME HashInv, HmacNext
    PROVE  HashInv'
<1>1. /\ pc = "done" /\ use \in {"key", "inner"}
      /\ UNCHANGED <<fn, key, message, wanted, known>>
  BY DEF HmacNext, args
<1>2. IsMd(fn) /\ fn \in MdFunctions
  <2>1. IsMd(fn) /\ fn \in MdFunctions \cup Sponges BY <1>1 DEF HashInv, HashTypes
  <2> QED BY <2>1, SpongeNumbers
<1>3. /\ out \in Seq(Nat) /\ Len(out) = HashLen
      /\ (LengthsFit => LengthFits(data)) => TellsOf(out, data)
  BY <1>1, <1>2, DigestTells
<1>4. HashLen <= fn.block /\ fn.block \in Nat /\ HashLen \in Nat BY <1>2, MdNumbers
<1>5. IPad \in Byte /\ OPad \in Byte BY DigestAssumption
<1>6. {key, message, shortKey} \subseteq Seq(Nat) /\ known \in Seq(States)
  BY DEF HashInv, HashTypes, Knowing
<1>7. Len(known) \in Nat BY <1>6, LenProperties
<1>8. \A d, s : TellsOf(d, s) => TellsOf(d, s)'
  <2> TAKE d, s
  <2>1. Len(known') = Len(known) /\ \A k \in 1 .. Len(known) : known'[k] = known[k] BY <1>1
  <2> QED BY <1>1, <1>7, <2>1, TellsOfStays
<1>9. CASE use = "key"
  <2>1. /\ use' = "inner" /\ shortKey' = out
        /\ Call(Masked(BlockKey(out), IPad) \o message)
    BY <1>9 DEF HmacNext
  <2>2. PICK s : s = Masked(BlockKey(out), IPad) \o message OBVIOUS
  <2>3. s \in Seq(Int) BY <1>2, <1>3, <1>4, <1>5, <1>6, <2>2, MacDataType
  <2>4. {key, message, shortKey}' \subseteq Seq(Nat) BY <1>1, <1>3, <1>6, <2>1
  <2>5. HashTypes' /\ Absorbing' /\ data' = s /\ ~Hashed'
    BY <1>1, <1>2, <2>1, <2>2, <2>3, <2>4, CallBegins DEF HashInv
  <2>6. Knowing' BY <1>1, <1>6, <2>5 DEF Knowing
  <2>7. data = key /\ Len(key) > fn.block BY <1>9 DEF HashInv, MacStages
  <2>8. LengthsFit => LengthFits(data) BY <1>2, <2>7 DEF LengthsFit, LengthFits
  <2>11. PICK d, u : d = out /\ u = key OBVIOUS
  <2>9. TellsOf(d, u)'
    <3>1. TellsOf(d, u) BY <1>3, <2>7, <2>8, <2>11
    <3> QED BY <1>8, <3>1
  <2>10. MacStages'
    <3>1. InnerData' = s BY <1>1, <2>1, <2>2 DEF InnerData, Masked, BlockKey
    <3>2. TellsOf(shortKey, key)'
      <4>1. d = shortKey' /\ u = key' BY <1>1, <2>1, <2>11
      <4> QED BY <2>9, <4>1 DEF TellsOf
    <3>3. Len(key') > fn'.block /\ ~(Len(key') <= fn'.block)
      <4>1. Len(key) \in Nat BY <1>6, LenProperties
      <4> QED BY <1>1, <1>4, <2>7, <4>1
    <3>4. Len(shortKey') <= fn'.block BY <1>1, <1>3, <1>4, <2>1
    <3> QED BY <2>1, <2>5, <3>1, <3>2, <3>3, <3>4 DEF MacStages
  <2> QED BY <2>5, <2>6, <2>10 DEF HashInv
<1>10. CASE use = "inner"
  <2>1. /\ use' = "outer" /\ UNCHANGED shortKey
        /\ Call(Masked(BlockKey(shortKey), OPad) \o out)
    BY <1>10 DEF HmacNext
  <2>2. PICK s : s = Masked(BlockKey(shortKey), OPad) \o out OBVIOUS
  <2>3. Len(shortKey) <= fn.block BY <1>10 DEF HashInv, MacStages
  <2>4. s \in Seq(Int) BY <1>2, <1>3, <1>5, <1>6, <2>2, <2>3, MacDataType
  <2>5. {key, message, shortKey}' \subseteq Seq(Nat) BY <1>1, <1>6, <2>1
  <2>6. HashTypes' /\ Absorbing' /\ data' = s /\ ~Hashed'
    BY <1>1, <1>2, <2>1, <2>2, <2>4, <2>5, CallBegins DEF HashInv
  <2>7. Knowing' BY <1>1, <1>6, <2>6 DEF Knowing
  <2>8. data = InnerData BY <1>10 DEF HashInv, MacStages
  <2>9. LengthsFit => LengthFits(data)
    <3>1. Len(data) = fn.block + Len(message)
      BY <1>2, <1>5, <1>6, <2>3, <2>8, MacDataType DEF InnerData
    <3> QED BY <1>2, <3>1 DEF LengthsFit, LengthFits
  <2>10. TellsOf(out, InnerData) BY <1>3, <2>8, <2>9
  <2>11. MacStages'
    <3>1. InnerData' = InnerData BY <1>1, <2>1 DEF InnerData, Masked, BlockKey
    <3>2. PICK v : v = InnerData OBVIOUS
    <3>4. v = InnerData' BY <3>1, <3>2
    <3>5. \E d \in Seq(Nat) : /\ Len(d) = HashLen /\ TellsOf(d, InnerData)'
                              /\ data' = Masked(BlockKey(shortKey), OPad)' \o d
      <4>1. PICK d \in Seq(Nat) : d = out BY <1>3
      <4>2. TellsOf(d, InnerData)'
        <5>1. PICK k \in 1 .. Len(known) :
                  d = DigestBytes(k) /\ (LengthsFit => Undone(known[k]) = v)
          BY <2>10, <3>2, <4>1 DEF TellsOf
        <5>2. TellsOf(d, v) BY <5>1 DEF TellsOf
        <5>3. TellsOf(d, v)' BY <1>8, <5>2
        <5> QED BY <3>4, <5>3 DEF TellsOf
      <4>3. Masked(BlockKey(shortKey), OPad)' = Masked(BlockKey(shortKey), OPad)
        BY <1>1, <2>1 DEF Masked, BlockKey
      <4> QED BY <1>3, <2>2, <2>6, <4>1, <4>2, <4>3
    <3>6. /\ Len(shortKey') <= fn'.block
          /\ Len(key') <= fn'.block => shortKey' = key'
      BY <1>1, <1>10, <2>1, <2>3 DEF HashInv, MacStages
    <3>7. Len(key') > fn'.block => TellsOf(shortKey, key)'
      <4> SUFFICES ASSUME Len(key') > fn'.block PROVE TellsOf(shortKey, key)' OBVIOUS
      <4>1. TellsOf(shortKey, key) BY <1>1, <1>10 DEF HashInv, MacStages
      <4>2. PICK d, u : d = shortKey /\ u = key OBVIOUS
      <4>3. TellsOf(d, u) BY <4>1, <4>2
      <4>4. TellsOf(d, u)' BY <1>8, <4>3
      <4>5. d = shortKey' /\ u = key' BY <1>1, <2>1, <4>2
      <4> QED BY <4>4, <4>5 DEF TellsOf
    <3> QED BY <2>1, <3>5, <3>6, <3>7 DEF MacStages
  <2> QED BY <2>6, <2>7, <2>11 DEF HashInv
<1> QED BY <1>1, <1>9, <1>10

(* Output of a sponge does not touch what it was made from.                *)
LEMMA SqueezeKeeps ==
    ASSUME HashInv, Squeeze \/ SqueezeEnd
    PROVE  HashInv'
<1>1. /\ Absorbed /\ pc' \in {"squeeze", "done"} /\ i' \in Nat
      /\ UNCHANGED <<fn, key, message, wanted, use, shortKey, data, state, known>>
  <2>1. i \in Nat BY DEF HashInv, HashTypes
  <2> QED BY <2>1 DEF Squeeze, SqueezeEnd, args
<1>2. ~IsMd(fn) /\ pc \in {"absorb", "squeeze"} /\ (pc = "absorb" => Step * i >= Len(Padded))
  BY <1>1 DEF Absorbed
<1>3. HashTypes' BY <1>1, <1>2 DEF HashInv, HashTypes, IsMd
<1>4. \E c \in Nat : AreBlocks(c) /\ state = Made(c)
  <2>1. CASE pc = "absorb"
    <3>1. AreBlocks(i) /\ state = Made(i) BY <1>2, <2>1, AllAbsorbed DEF HashInv
    <3>2. i \in Nat BY DEF HashInv, HashTypes
    <3> QED BY <3>1, <3>2
  <2>2. CASE pc = "squeeze" /\ use # "called"
    BY <2>2 DEF HashInv, Absorbing, Hashed
  <2>3. CASE pc = "squeeze" /\ use = "called"
    <3>1. FALSE BY <2>3 DEF HashInv, HashTypes
    <3> QED BY <3>1
  <2> QED BY <1>2, <2>1, <2>2, <2>3
<1>5. Absorbing'
  <2>1. PICK c \in Nat : AreBlocks(c) /\ state = Made(c) BY <1>4
  <2>2. /\ \A n : Made(n)' = Made(n)
        /\ \A d : AreBlocks(d)' = AreBlocks(d)
    BY <1>1, SameBlocks
  <2>3. AreBlocks(c)' /\ state' = Made(c)' BY <1>1, <2>1, <2>2
  <2>4. \E d \in Nat : AreBlocks(d)' /\ state' = Made(d)' BY <2>3
  <2> QED BY <1>1, <2>4 DEF Absorbing
<1>6. Knowing' BY <1>1, <1>2 DEF HashInv, Knowing, IsMd
<1>7. MacStages'
  <2>1. Len(known) \in Nat BY LenProperties DEF HashInv, Knowing
  <2> QED BY <1>1, <2>1, MacStagesStay DEF HashInv
<1> QED BY <1>3, <1>5, <1>6, <1>7 DEF HashInv

(* Any step of a hash function, ...                                        *)
LEMMA HashNextKeeps ==
    ASSUME HashInv, HashNext
    PROVE  HashInv'
BY AbsorbKeeps, DigestKeeps, HmacNextKeeps, SqueezeKeeps DEF HashNext

(* ... and any step of something else.                                     *)
LEMMA HashStays ==
    ASSUME HashInv, UNCHANGED hashVars
    PROVE  HashInv'
<1>1. /\ UNCHANGED <<fn, key, message, wanted, use, shortKey, data, pc, i, state, out, known>>
  BY DEF hashVars, args
<1>2. HashTypes' BY <1>1 DEF HashInv, HashTypes, IsMd
<1>3. Absorbing'
  <2>1. /\ Padded' = Padded /\ Step' = Step
        /\ \A n : Made(n)' = Made(n)
        /\ \A d : AreBlocks(d)' = AreBlocks(d)
    BY <1>1, SameBlocks
  <2>2. pc = "absorb" => state' = Made(i)'
    <3>1. PICK n : n = i OBVIOUS
    <3>2. Made(n)' = Made(n) BY <2>1
    <3>3. Made(i)' = Made(n)' BY <1>1, <3>1 DEF Made
    <3> QED BY <1>1, <3>1, <3>2, <3>3 DEF HashInv, Absorbing
  <2>3. ASSUME Hashed PROVE \E d \in Nat : AreBlocks(d)' /\ state' = Made(d)'
    <3>1. PICK c \in Nat : AreBlocks(c) /\ state = Made(c) BY <2>3 DEF HashInv, Absorbing
    <3>2. AreBlocks(c)' /\ state' = Made(c)' BY <1>1, <2>1, <3>1
    <3> QED BY <3>2
  <2>4. Hashed' = Hashed BY <1>1 DEF Hashed
  <2> QED BY <1>1, <2>1, <2>2, <2>3, <2>4 DEF HashInv, Absorbing
<1>4. Knowing' BY <1>1 DEF HashInv, Knowing, Hashed, IsMd, DigestBytes
<1>5. MacStages'
  <2>1. Len(known) \in Nat BY LenProperties DEF HashInv, Knowing
  <2> QED BY <1>1, <2>1, MacStagesStay DEF HashInv
<1> QED BY <1>2, <1>3, <1>4, <1>5 DEF HashInv

-----------------------------------------------------------------------------
(* What was hashed is read back.                                           *)
LEMMA FirstOfDigest ==
    ASSUME NEW k \in Nat, k > 0
    PROVE  DigestOf(DigestBytes(k)[1]) = k
<1>1. PICK h \in Nat : h = HashLen /\ h > 0 BY DigestAssumption
<1>2. PICK b \in Nat : b = Base BY Numbers
<1>3. PICK q \in Nat : q = k - 1 OBVIOUS
<1>4. PICK n \in Nat : n = h * q OBVIOUS
<1>5. 1 \in 1 .. HashLen BY <1>1
<1>6. DigestBytes(k)[1] = b + n
  <2>1. DigestBytes(k)[1] = Base + HashLen * (k - 1) + 1 - 1 BY <1>5 DEF DigestBytes
  <2>2. HashLen * (k - 1) = n BY <1>1, <1>3, <1>4
  <2> QED BY <1>2, <2>1, <2>2
<1>7. (h * q + 0) \div h = q
  <2>1. 0 \in 0 .. h - 1 BY <1>1
  <2> QED BY <1>1, <2>1, DivisionUnique
<1>8. ((b + n) - b) \div h = q
  <2>1. (b + n) - b = h * q + 0 BY <1>4
  <2> QED BY <1>7, <2>1
<1>9. DigestOf(b + n) = q + 1 BY <1>1, <1>2, <1>8 DEF DigestOf
<1> QED BY <1>3, <1>6, <1>9

(* A digest tells what was hashed.                                         *)
LEMMA DigestUndone ==
    ASSUME known \in Seq(States), NEW d, NEW s, TellsOf(d, s), LengthsFit
    PROVE  Undone(known[DigestOf(d[1])]) = s
<1>1. PICK k \in 1 .. Len(known) : d = DigestBytes(k) /\ Undone(known[k]) = s BY DEF TellsOf
<1>2. Len(known) \in Nat BY LenProperties
<1>3. k \in Nat /\ k > 0 BY <1>2
<1>4. DigestOf(d[1]) = k BY <1>1, <1>3, FirstOfDigest
<1> QED BY <1>1, <1>4

(* Key and message behind a mask.                                          *)
LEMMA MacDataParts ==
    ASSUME fn \in MdFunctions, NEW k \in Seq(Nat), Len(k) <= fn.block, NEW m \in Seq(Nat),
           NEW pad \in Byte, NEW w, w = Masked(BlockKey(k), pad) \o m
    PROVE  /\ Unmasked(SubSeq(w, 1, fn.block), pad) = BlockKey(k)
           /\ SubSeq(w, fn.block + 1, Len(w)) = m
           /\ Placed(w, fn.block, m)
<1>1. PICK v : v = Masked(BlockKey(k), pad) OBVIOUS
<1>2. PICK b \in Nat, n \in Nat : b = fn.block /\ n = Len(m)
  <2>1. Len(m) \in Nat BY LenProperties
  <2>2. fn.block \in Nat BY MdNumbers
  <2> QED BY <2>1, <2>2
<1>3. /\ w \in Seq(Int) /\ IsConcat(w, v, m) /\ v \in Seq(Int)
      /\ Len(v) = b /\ Len(w) = b + n /\ Unmasked(v, pad) = BlockKey(k)
  BY <1>1, <1>2, MacDataType
<1>4. /\ \A j \in 1 .. b : w[j] = v[j]
      /\ \A j \in 1 .. n : w[b + j] = m[j]
  BY <1>2, <1>3 DEF IsConcat
<1>5. SubSeq(w, 1, b) = v
  <2>1. PICK o \in Nat : o = 0 OBVIOUS
  <2>2. PICK u : u = SubSeq(w, 1, b) OBVIOUS
  <2>3. o + b <= Len(w) /\ 1 = o + 1 /\ b = o + b BY <1>3, <2>1
  <2>4. u \in Seq(Int) /\ Len(u) = b /\ \A x \in 1 .. b : u[x] = w[o + x]
    BY ONLY <1>3, <2>2, <2>3, o \in Nat, b \in Nat, PieceOf
  <2>5. \A x \in 1 .. b : o + x = x BY <2>1
  <2>6. u = v BY <1>3, <1>4, <2>4, <2>5, SeqEqual
  <2> QED BY <2>2, <2>6
<1>6. SubSeq(w, b + 1, b + n) = m
  <2>1. PICK g, h : g = b + 1 /\ h = b + n OBVIOUS
  <2>2. PICK u : u = SubSeq(w, g, h) OBVIOUS
  <2>3. b + n <= Len(w) BY <1>3
  <2>4. u \in Seq(Int) /\ Len(u) = n /\ \A x \in 1 .. n : u[x] = w[b + x]
    BY ONLY <1>3, <2>1, <2>2, <2>3, b \in Nat, n \in Nat, PieceOf
  <2>5. m \in Seq(Int)
    <3>1. Nat \subseteq Int OBVIOUS
    <3> QED BY <3>1, SeqMonotonic
  <2>6. u = m BY <1>2, <1>4, <2>4, <2>5, SeqEqual
  <2> QED BY <2>1, <2>2, <2>6
<1> QED BY <1>2, <1>3, <1>4, <1>5, <1>6 DEF Placed

(* So a MAC is opened by reading back two hashes, or three.                *)
LEMMA HashInvOpens ==
    ASSUME HashInv, LengthsFit
    PROVE  MacOpens
<1> SUFFICES ASSUME pc = "done", use = "outer"
             PROVE  /\ Opened(out) = <<BlockKey(shortKey), BlockKey(shortKey), message>>
                    /\ IF Len(key) <= fn.block THEN shortKey = key
                       ELSE Undone(known[DigestOf(shortKey[1])]) = key
  BY DEF MacOpens
<1>1. IsMd(fn) /\ fn \in MdFunctions
  <2>1. IsMd(fn) /\ fn \in MdFunctions \cup Sponges BY DEF HashInv, HashTypes
  <2> QED BY <2>1, SpongeNumbers
<1>2. {key, message, shortKey} \subseteq Seq(Nat) /\ known \in Seq(States)
  BY DEF HashInv, HashTypes, Knowing
<1>3. IPad \in Byte /\ OPad \in Byte BY DigestAssumption
<1>4. Len(shortKey) <= fn.block BY DEF HashInv, MacStages
<1>5. PICK d \in Seq(Nat) : /\ Len(d) = HashLen /\ TellsOf(d, InnerData)
                            /\ data = Masked(BlockKey(shortKey), OPad) \o d
  BY DEF HashInv, MacStages
<1>6. /\ HashLen \in Nat /\ HashLen > 0 /\ fn.block \in Nat /\ Width \in Nat
      /\ Width * (fn.block + HashLen) < Power[fn.len]
  BY <1>1, MdNumbers
<1>7. LengthFits(data)
  <2>1. Len(data) = fn.block + HashLen BY <1>1, <1>2, <1>3, <1>4, <1>5, MacDataType
  <2> QED BY <1>6, <2>1 DEF LengthFits
<1>8. TellsOf(out, data) BY <1>1, <1>7, DigestTells
<1>9. PICK outer : outer = Undone(known[DigestOf(out[1])]) OBVIOUS
<1>10. outer = data BY <1>2, <1>8, <1>9, DigestUndone
<1>11. /\ Unmasked(SubSeq(outer, 1, fn.block), OPad) = BlockKey(shortKey)
       /\ Placed(outer, fn.block, d)
  BY <1>1, <1>2, <1>3, <1>4, <1>5, <1>10, MacDataParts
<1>12. outer[fn.block + 1] = d[1]
  <2>1. 1 \in 1 .. Len(d) BY <1>5, <1>6
  <2> QED BY <1>11, <2>1 DEF Placed
<1>13. PICK inner : inner = Undone(known[DigestOf(outer[fn.block + 1])]) OBVIOUS
<1>14. inner = InnerData BY <1>2, <1>5, <1>12, <1>13, DigestUndone
<1>15. inner = Masked(BlockKey(shortKey), IPad) \o message BY <1>14 DEF InnerData
<1>16. /\ Unmasked(SubSeq(inner, 1, fn.block), IPad) = BlockKey(shortKey)
       /\ SubSeq(inner, fn.block + 1, Len(inner)) = message
  BY <1>1, <1>2, <1>3, <1>4, <1>15, MacDataParts
<1>17. Opened(out) = <<BlockKey(shortKey), BlockKey(shortKey), message>>
  BY <1>9, <1>11, <1>13, <1>16 DEF Opened
<1>18. IF Len(key) <= fn.block THEN shortKey = key
       ELSE Undone(known[DigestOf(shortKey[1])]) = key
  <2>1. Len(key) \in Nat /\ fn.block \in Nat BY <1>2, <1>6, LenProperties
  <2>2. CASE Len(key) <= fn.block BY <2>2 DEF HashInv, MacStages
  <2>3. CASE ~(Len(key) <= fn.block)
    <3>1. Len(key) > fn.block BY <2>1, <2>3
    <3>2. TellsOf(shortKey, key) BY <3>1 DEF HashInv, MacStages
    <3> QED BY <1>2, <2>3, <3>2, DigestUndone
  <2> QED BY <2>2, <2>3
<1> QED BY <1>17, <1>18

(* And the blocks are read back at once.                                   *)
LEMMA HashInvUndone ==
    ASSUME HashInv, LengthFits(data)
    PROVE  PaddingUndone
<1> SUFFICES ASSUME Hashed PROVE Undone(state) = data BY DEF PaddingUndone
<1>1. PICK c \in Nat : AreBlocks(c) /\ state = Made(c) BY DEF HashInv, Absorbing
<1>2. fn \in MdFunctions \cup Sponges /\ data \in Seq(Int) BY DEF HashInv, HashTypes
<1> QED BY <1>1, <1>2, BlocksUndone

-----------------------------------------------------------------------------
(* What the derivations and the generator give to hmac_...() are strings.  *)
Tasks ==
    [target : {"key", "v", "check", "count"}, arg : Seq(Nat)] \cup [target : {"out"}, arg : Int]

StageTypes ==
    /\ stage \notin {"idle", "plain"} => IsMd(fn)
    /\ stage \in {"extract", "expand", "expanding"} => job \in HkdfCalls
    /\ stage \in {"blocks", "mixing"} => job \in Pbkdf2Calls
    /\ stage = "nonce" => {job.entropy, job.personalization} \subseteq Seq(Nat)
    /\ {prk, t} \subseteq Seq(Nat) /\ block \in Nat
    /\ gen \in [key : Seq(Nat), v : Seq(Nat), count : Nat]
    /\ todo \in Seq(Tasks) /\ (stage = "mac" => todo # <<>>)

DerivationInv == HashInv /\ StageTypes

(* A string is one of numbers.                                             *)
LEMMA Strings ==
    /\ Seq(Byte) \subseteq Seq(Nat) /\ Seq(Nat) \subseteq Seq(Int) /\ <<>> \in Seq(Nat)
    /\ \A s, u \in Seq(Nat) : s \o u \in Seq(Nat)
<1>1. Byte \subseteq Nat BY Numbers
<1>2. Seq(Byte) \subseteq Seq(Nat) BY <1>1, SeqMonotonic
<1>3. Nat \subseteq Int OBVIOUS
<1>4. Seq(Nat) \subseteq Seq(Int) BY <1>3, SeqMonotonic
<1>5. \A s, u \in Seq(Nat) : s \o u \in Seq(Nat) BY ConcatProperties
<1> QED BY <1>2, <1>4, <1>5, EmptySeq

(* How many blocks of output there are.                                    *)
LEMMA BlocksType ==
    ASSUME NEW n \in Nat
    PROVE  Blocks(n) \in Nat
<1>1. PICK h \in Nat : h = HashLen /\ h > 0 BY DigestAssumption
<1>2. PICK a \in Nat : a = (n + h) - 1 BY <1>1
<1>3. a \div h \in Nat BY <1>1
<1>4. n + HashLen - 1 = a BY <1>1, <1>2
<1> QED BY <1>1, <1>3, <1>4 DEF Blocks

(* What is left to do is a task.                                           *)
LEMMA TaskType ==
    /\ \A x \in {"key", "v", "check", "count"} : \A s \in Seq(Nat) : Task(x, s) \in Tasks
    /\ \A n \in Int : Task("out", n) \in Tasks
    /\ \A x, s : Task(x, s).target = x /\ Task(x, s).arg = s
BY DEF Task, Tasks

(* The tasks of _update() ...                                              *)
LEMMA UpdateType ==
    ASSUME NEW s \in Seq(Nat)
    PROVE  Update(s) \in Seq(Tasks) /\ UpdateIfAny(s) \in Seq(Tasks)
<1>1. \A k \in Nat : <<k>> \in Seq(Nat) OBVIOUS
<1>2. <<0>> \o s \in Seq(Nat) /\ <<1>> \o s \in Seq(Nat) /\ <<>> \in Seq(Nat)
  BY <1>1, Strings
<1>3. PICK a, b, c : /\ a = Task("key", <<0>> \o s) /\ b = Task("key", <<1>> \o s)
                     /\ c = Task("v", <<>>)
  OBVIOUS
<1>4. a \in Tasks /\ b \in Tasks /\ c \in Tasks BY <1>2, <1>3, TaskType
<1>5. <<a, c>> \in Seq(Tasks) /\ <<b, c>> \in Seq(Tasks) BY <1>4
<1>6. <<>> \in Seq(Tasks) BY EmptySeq
<1>7. <<a, c>> \o (IF s = <<>> THEN <<>> ELSE <<b, c>>) \in Seq(Tasks)
  BY <1>5, <1>6, ConcatProperties
<1>8. Update(s) \in Seq(Tasks) BY <1>3, <1>7 DEF Update
<1> QED BY <1>6, <1>8 DEF UpdateIfAny

(* ... and of random_bytes().                                              *)
LEMMA RequestType ==
    ASSUME NEW n \in Nat, NEW s \in Seq(Nat)
    PROVE  UpdateIfAny(s) \o <<Task("check", <<>>)>>
             \o [j \in 1 .. Blocks(n) |-> Task("out", Least(HashLen, n - HashLen * (j - 1)))]
             \o AfterRequest(s) \in Seq(Tasks)
<1>1. <<>> \in Seq(Nat) BY Strings
<1>2. PICK a, b : a = Task("check", <<>>) /\ b = Task("count", <<>>) OBVIOUS
<1>3. a \in Tasks /\ b \in Tasks BY <1>1, <1>2, TaskType
<1>4. <<a>> \in Seq(Tasks) /\ <<b>> \in Seq(Tasks) BY <1>3
<1>5. UpdateIfAny(s) \in Seq(Tasks) /\ Update(s) \in Seq(Tasks) BY UpdateType
<1>6. PICK m \in Nat : m = Blocks(n) BY BlocksType
<1>7. PICK u : u = [j \in 1 .. m |-> Task("out", Least(HashLen, n - HashLen * (j - 1)))]
  OBVIOUS
<1>8. \A j \in 1 .. m : Least(HashLen, n - HashLen * (j - 1)) \in Int
  <2>1. HashLen \in Int BY DigestAssumption
  <2>2. \A j \in 1 .. m : n - HashLen * (j - 1) \in Int BY <2>1
  <2> QED BY <2>1, <2>2 DEF Least
<1>9. u \in [1 .. m -> Tasks] BY <1>7, <1>8, TaskType
<1>10. u \in Seq(Tasks) BY <1>9, StringLength
<1>11. AfterRequest(s) \in Seq(Tasks)
  <2>1. Update(s) \o <<b>> \in Seq(Tasks) BY <1>4, <1>5, ConcatProperties
  <2> QED BY <1>2, <2>1 DEF AfterRequest
<1>12. UpdateIfAny(s) \o <<a>> \in Seq(Tasks) BY <1>4, <1>5, ConcatProperties
<1>13. (UpdateIfAny(s) \o <<a>>) \o u \in Seq(Tasks) BY <1>10, <1>12, ConcatProperties
<1>14. ((UpdateIfAny(s) \o <<a>>) \o u) \o AfterRequest(s) \in Seq(Tasks)
  BY <1>11, <1>13, ConcatProperties
<1> QED BY <1>2, <1>6, <1>7, <1>14

(* A digest that was returned is a string.                                 *)
LEMMA ReturnedType ==
    ASSUME HashInv, Returned, IsMd(fn)
    PROVE  out \in Seq(Nat)
BY DigestTells DEF Returned

(* The invariant holds at the start, and each action keeps it.             *)
LEMMA InitInv ==
    ASSUME Init
    PROVE  DerivationInv
<1>1. <<>> \in Seq(Nat) /\ <<>> \in Seq(Int) /\ <<>> \in Seq(Tasks) /\ <<>> \in Seq(States)
  BY EmptySeq
<1>2. HashTypes BY <1>1 DEF Init, HashInit, HashTypes
<1>3. Absorbing /\ Knowing /\ MacStages
  BY <1>1 DEF Init, HashInit, Absorbing, Knowing, MacStages, Hashed
<1>4. StageTypes BY <1>1 DEF Init, StageTypes
<1> QED BY <1>2, <1>3, <1>4 DEF DerivationInv, HashInv

-----------------------------------------------------------------------------
(* Steps of the derivations, one lemma for each of them.                   *)
LEMMA PlainKeeps ==
    ASSUME DerivationInv, Plain
    PROVE  DerivationInv'
<1>1. stage' = "plain" /\ UNCHANGED <<job, deriveVars, drbgVars>> BY DEF Plain
<1>2. HashInv' /\ fn' = fn
  <2>1. CASE Hash
    <3>1. PICK s \in Texts : Call(s) BY <2>1 DEF Hash
    <3>2. s \in Seq(Int) BY DigestAssumption, Strings
    <3>3. use' = "hash" /\ UNCHANGED <<args, shortKey, known>> BY <2>1 DEF Hash
    <3> QED BY <3>1, <3>2, <3>3, CallHashBegins DEF DerivationInv
  <2>2. CASE Hmac
    <3>1. PICK k \in Keys, m \in Messages : CallHmac(k, m) BY <2>2 DEF Hmac
    <3>2. k \in Seq(Nat) /\ m \in Seq(Nat) BY DigestAssumption, Strings
    <3>3. IsMd(fn) BY <2>2 DEF Hmac
    <3> QED BY <3>1, <3>2, <3>3, CallHmacBegins DEF DerivationInv
  <2> QED BY <2>1, <2>2 DEF Plain
<1>3. StageTypes' BY <1>1 DEF DerivationInv, StageTypes, deriveVars, drbgVars
<1> QED BY <1>2, <1>3 DEF DerivationInv

(* A step of the hash function that a derivation waits for.                *)
LEMMA HashStep ==
    ASSUME DerivationInv, HashNext, UNCHANGED <<stage, job, deriveVars, drbgVars>>
    PROVE  DerivationInv'
<1>1. HashInv' BY HashNextKeeps DEF DerivationInv
<1>2. fn' = fn
  BY DEF HashNext, Absorb, Digest, HmacNext, Squeeze, SqueezeEnd, args
<1>3. StageTypes' BY <1>2 DEF DerivationInv, StageTypes, IsMd, deriveVars, drbgVars
<1> QED BY <1>1, <1>3 DEF DerivationInv

(* hkdf_extract() and hkdf_expand().                                       *)
LEMMA HkdfKeeps ==
    ASSUME DerivationInv, HkdfExtract \/ HkdfExpand \/ HkdfBlock \/ HkdfTake
    PROVE  DerivationInv'
<1>0. HashInv /\ StageTypes BY DEF DerivationInv
<1>1. CASE HkdfExtract
  <2>1. PICK c \in HkdfCalls :
            job' = c /\ CallHmac(IF c.salt = <<>> THEN Zeros(HashLen) ELSE c.salt, c.ikm)
    BY <1>1 DEF HkdfExtract
  <2>2. IsMd(fn) /\ stage' = "extract" /\ UNCHANGED <<deriveVars, drbgVars>>
    BY <1>1 DEF HkdfExtract
  <2>3. PICK k, m : k = (IF c.salt = <<>> THEN Zeros(HashLen) ELSE c.salt) /\ m = c.ikm OBVIOUS
  <2>4. k \in Seq(Nat) /\ m \in Seq(Nat)
    <3>1. c.salt \in Seq(Nat) /\ c.ikm \in Seq(Nat) BY DerivationAssumption, Strings
    <3>2. HashLen \in Nat BY DigestAssumption
    <3>3. Zeros(HashLen) \in Seq(Nat) BY <3>2, ZerosType
    <3> QED BY <2>3, <3>1, <3>3
  <2>5. HashInv' /\ fn' = fn BY <1>0, <2>1, <2>2, <2>3, <2>4, CallHmacBegins
  <2>6. StageTypes' BY <1>0, <2>1, <2>2, <2>5 DEF StageTypes, IsMd, deriveVars, drbgVars
  <2> QED BY <2>5, <2>6 DEF DerivationInv
<1>2. CASE HkdfExpand
  <2>1. /\ stage = "extract" /\ Returned /\ prk' = out /\ stage' \in {"refused", "expand"}
        /\ UNCHANGED <<hashVars, job, t, okm, block, round, mixed, drbgVars>>
    BY <1>2 DEF HkdfExpand
  <2>2. IsMd(fn) /\ out \in Seq(Nat) BY <1>0, <2>1, ReturnedType DEF StageTypes
  <2>3. HashInv' BY <1>0, <2>1, HashStays
  <2>4. StageTypes'
    BY <1>0, <2>1, <2>2 DEF StageTypes, IsMd, hashVars, args, drbgVars
  <2> QED BY <2>3, <2>4 DEF DerivationInv
<1>3. CASE HkdfBlock
  <2>1. /\ stage = "expand" /\ CallHmac(prk, t \o job.info \o ToBytes(block + 1, 1))
        /\ block' = block + 1 /\ stage' = "expanding"
        /\ UNCHANGED <<job, prk, t, okm, round, mixed, drbgVars>>
    BY <1>3 DEF HkdfBlock
  <2>2. IsMd(fn) /\ job \in HkdfCalls /\ prk \in Seq(Nat) /\ t \in Seq(Nat) /\ block \in Nat
    BY <1>0, <2>1 DEF StageTypes
  <2>3. job.info \in Seq(Nat) BY <2>2, DerivationAssumption, Strings
  <2>4. ToBytes(block + 1, 1) \in Seq(Nat)
    <3>1. block + 1 \in Nat /\ 1 \in Nat BY <2>2
    <3> QED BY <3>1, ToBytesType, Strings
  <2>5. PICK m : m = t \o job.info \o ToBytes(block + 1, 1) OBVIOUS
  <2>6. m \in Seq(Nat) BY <2>2, <2>3, <2>4, <2>5, Strings
  <2>7. HashInv' /\ fn' = fn BY <1>0, <2>1, <2>2, <2>5, <2>6, CallHmacBegins
  <2>8. StageTypes' BY <1>0, <2>1, <2>2, <2>7 DEF StageTypes, IsMd, drbgVars
  <2> QED BY <2>7, <2>8 DEF DerivationInv
<1>4. CASE HkdfTake
  <2>1. /\ stage = "expanding" /\ Returned /\ t' = out /\ stage' = "expand"
        /\ UNCHANGED <<hashVars, job, prk, block, round, mixed, drbgVars>>
    BY <1>4 DEF HkdfTake
  <2>2. IsMd(fn) /\ out \in Seq(Nat) BY <1>0, <2>1, ReturnedType DEF StageTypes
  <2>3. HashInv' BY <1>0, <2>1, HashStays
  <2>4. StageTypes'
    BY <1>0, <2>1, <2>2 DEF StageTypes, IsMd, hashVars, args, drbgVars
  <2> QED BY <2>3, <2>4 DEF DerivationInv
<1> QED BY <1>1, <1>2, <1>3, <1>4

(* pbkdf2_hmac().                                                          *)
LEMMA Pbkdf2Keeps ==
    ASSUME DerivationInv, Pbkdf2 \/ Pbkdf2Block \/ Pbkdf2Mix \/ DeriveEnd
    PROVE  DerivationInv'
<1>0. HashInv /\ StageTypes BY DEF DerivationInv
<1>1. CASE Pbkdf2
  <2>1. /\ IsMd(fn) /\ job' \in Pbkdf2Calls /\ stage' \in {"refused", "blocks"}
        /\ UNCHANGED <<hashVars, deriveVars, drbgVars>>
    BY <1>1 DEF Pbkdf2
  <2>2. HashInv' BY <1>0, <2>1, HashStays
  <2>3. StageTypes'
    BY <1>0, <2>1 DEF StageTypes, IsMd, hashVars, args, deriveVars, drbgVars
  <2> QED BY <2>2, <2>3 DEF DerivationInv
<1>2. CASE Pbkdf2Block
  <2>1. /\ stage = "blocks" /\ CallHmac(job.password, SaltOfBlock(block + 1))
        /\ block' = block + 1 /\ stage' = "mixing"
        /\ UNCHANGED <<job, prk, t, okm, drbgVars>>
    BY <1>2 DEF Pbkdf2Block
  <2>2. IsMd(fn) /\ job \in Pbkdf2Calls /\ block \in Nat BY <1>0, <2>1 DEF StageTypes
  <2>3. job.password \in Seq(Nat) /\ job.salt \in Seq(Nat)
    BY <2>2, DerivationAssumption, Strings
  <2>4. SaltOfBlock(block + 1) \in Seq(Nat)
    <3>1. block + 1 \in Nat /\ CounterLen \in Nat BY <2>2, DerivationAssumption
    <3>2. ToBytes(block + 1, CounterLen) \in Seq(Nat) BY <3>1, ToBytesType, Strings
    <3> QED BY <2>3, <3>2, Strings DEF SaltOfBlock
  <2>5. HashInv' /\ fn' = fn BY <1>0, <2>1, <2>2, <2>3, <2>4, CallHmacBegins
  <2>6. StageTypes' BY <1>0, <2>1, <2>2, <2>5 DEF StageTypes, IsMd, drbgVars
  <2> QED BY <2>5, <2>6 DEF DerivationInv
<1>3. CASE Pbkdf2Mix
  <2>1. stage = "mixing" /\ Returned /\ UNCHANGED <<job, prk, t, block, drbgVars>>
    BY <1>3 DEF Pbkdf2Mix
  <2>2. IsMd(fn) /\ job \in Pbkdf2Calls /\ out \in Seq(Nat)
    BY <1>0, <2>1, ReturnedType DEF StageTypes
  <2>3. job.password \in Seq(Nat) BY <2>2, DerivationAssumption, Strings
  <2>4. HashInv' /\ fn' = fn /\ stage' \in {"mixing", "blocks"}
    <3>1. CASE CallHmac(job.password, out) /\ UNCHANGED stage
      BY <1>0, <2>1, <2>2, <2>3, <3>1, CallHmacBegins
    <3>2. CASE UNCHANGED hashVars /\ stage' = "blocks"
      <4>1. HashInv' BY <1>0, <3>2, HashStays
      <4> QED BY <3>2, <4>1 DEF hashVars, args
    <3> QED BY <1>3, <3>1, <3>2 DEF Pbkdf2Mix
  <2>5. StageTypes' BY <1>0, <2>1, <2>2, <2>4 DEF StageTypes, IsMd, drbgVars
  <2> QED BY <2>4, <2>5 DEF DerivationInv
<1>4. CASE DeriveEnd
  <2>1. /\ stage \in {"expand", "blocks"} /\ stage' = "ended"
        /\ UNCHANGED <<hashVars, job, prk, t, block, round, mixed, drbgVars>>
    BY <1>4 DEF DeriveEnd
  <2>2. HashInv' BY <1>0, <2>1, HashStays
  <2>3. StageTypes' BY <1>0, <2>1 DEF StageTypes, IsMd, hashVars, args, drbgVars
  <2> QED BY <2>2, <2>3 DEF DerivationInv
<1> QED BY <1>1, <1>2, <1>3, <1>4

(* The generator is seeded.                                                *)
LEMMA SeedTypes ==
    ASSUME NEW s \in Seq(Nat), Seed(s)
    PROVE  /\ gen' \in [key : Seq(Nat), v : Seq(Nat), count : Nat]
           /\ todo' \in Seq(Tasks) /\ stage' = "drbg"
<1>1. HashLen \in Nat BY DigestAssumption
<1>2. Zeros(HashLen) \in Seq(Nat) BY <1>1, ZerosType
<1>3. [j \in 1 .. HashLen |-> 1] \in Seq(Nat)
  <2>1. [j \in 1 .. HashLen |-> 1] \in [1 .. HashLen -> Nat] OBVIOUS
  <2> QED BY <1>1, <2>1, StringLength
<1>4. Update(s) \in Seq(Tasks) BY UpdateType
<1> QED BY <1>2, <1>3, <1>4 DEF Seed

(* HMAC_DRBG_SHA256() and reseed().                                        *)
LEMMA SeedingKeeps ==
    ASSUME DerivationInv, Instantiate \/ NonceMade \/ Reseed
    PROVE  DerivationInv'
<1>0. HashInv /\ StageTypes BY DEF DerivationInv
<1>1. CASE Instantiate
  <2>1. IsMd(fn) BY <1>0, <1>1 DEF Instantiate, Ready, StageTypes
  <2>2. PICK e \in Entropies, p \in Personalizations :
            /\ Len(e) >= SeedLen
            /\ \/ /\ \E nonce \in Nonces : Seed(e \o nonce \o p)
                  /\ UNCHANGED <<hashVars, job>>
               \/ /\ job' = [entropy |-> e, personalization |-> p]
                  /\ Call(NonceTag \o SubSeq(e, 1, SeedLen)) /\ use' = "hash"
                  /\ stage' = "nonce"
                  /\ UNCHANGED <<args, shortKey, known, gen, todo, fed, handed>>
    BY <1>1 DEF Instantiate
  <2>3. e \in Seq(Nat) /\ p \in Seq(Nat) /\ NonceTag \in Seq(Nat)
    BY DerivationAssumption, Strings
  <2>4. UNCHANGED deriveVars BY <1>1 DEF Instantiate
  <2>5. CASE (\E nonce \in Nonces : Seed(e \o nonce \o p)) /\ UNCHANGED <<hashVars, job>>
    <3>1. PICK nonce \in Nonces : Seed(e \o nonce \o p) BY <2>5
    <3>2. e \o nonce \o p \in Seq(Nat)
      <4>1. nonce \in Seq(Nat) BY DerivationAssumption, Strings
      <4> QED BY <2>3, <4>1, Strings
    <3>3. PICK s : s = e \o nonce \o p OBVIOUS
    <3>4. /\ gen' \in [key : Seq(Nat), v : Seq(Nat), count : Nat]
          /\ todo' \in Seq(Tasks) /\ stage' = "drbg"
      BY <3>1, <3>2, <3>3, SeedTypes
    <3>5. HashInv' BY <1>0, <2>5, HashStays
    <3>6. StageTypes'
      BY <1>0, <2>1, <2>4, <2>5, <3>4 DEF StageTypes, IsMd, hashVars, args, deriveVars
    <3> QED BY <3>5, <3>6 DEF DerivationInv
  <2>6. CASE /\ job' = [entropy |-> e, personalization |-> p]
             /\ Call(NonceTag \o SubSeq(e, 1, SeedLen)) /\ use' = "hash"
             /\ stage' = "nonce"
             /\ UNCHANGED <<args, shortKey, known, gen, todo, fed, handed>>
    <3>1. SubSeq(e, 1, SeedLen) \in Seq(Nat)
      <4>1. PICK n \in Nat, o \in Nat : n = SeedLen /\ o = 0 BY DerivationAssumption
      <4>2. o + n <= Len(e) /\ 1 = o + 1 /\ n = o + n
        <5>1. Len(e) \in Nat BY <2>3, LenProperties
        <5> QED BY <2>2, <4>1, <5>1
      <4>3. SubSeq(e, 1, n) \in Seq(Nat)
        BY ONLY <2>3, <4>2, o \in Nat, n \in Nat, PieceOf
      <4> QED BY <4>1, <4>3
    <3>2. PICK s : s = NonceTag \o SubSeq(e, 1, SeedLen) OBVIOUS
    <3>3. s \in Seq(Int) BY <2>3, <3>1, <3>2, Strings
    <3>4. HashInv' /\ fn' = fn BY <1>0, <2>6, <3>2, <3>3, CallHashBegins
    <3>5. job'.entropy = e /\ job'.personalization = p BY <2>6
    <3>6. StageTypes'
      BY <1>0, <2>1, <2>3, <2>4, <2>6, <3>4, <3>5 DEF StageTypes, IsMd, deriveVars
    <3> QED BY <3>4, <3>6 DEF DerivationInv
  <2> QED BY <2>2, <2>5, <2>6
<1>2. CASE NonceMade
  <2>1. /\ stage = "nonce" /\ Returned
        /\ Seed(job.entropy \o out \o job.personalization)
        /\ UNCHANGED <<hashVars, job, deriveVars, calls>>
    BY <1>2 DEF NonceMade
  <2>2. IsMd(fn) /\ out \in Seq(Nat) BY <1>0, <2>1, ReturnedType DEF StageTypes
  <2>3. job.entropy \in Seq(Nat) /\ job.personalization \in Seq(Nat)
    BY <1>0, <2>1 DEF StageTypes
  <2>4. PICK s : s = job.entropy \o out \o job.personalization OBVIOUS
  <2>5. s \in Seq(Nat) BY <2>2, <2>3, <2>4, Strings
  <2>6. /\ gen' \in [key : Seq(Nat), v : Seq(Nat), count : Nat]
        /\ todo' \in Seq(Tasks) /\ stage' = "drbg"
    BY <2>1, <2>4, <2>5, SeedTypes
  <2>7. HashInv' BY <1>0, <2>1, HashStays
  <2>8. StageTypes'
    BY <1>0, <2>1, <2>2, <2>6 DEF StageTypes, IsMd, hashVars, args, deriveVars
  <2> QED BY <2>7, <2>8 DEF DerivationInv
<1>3. CASE Reseed
  <2>1. PICK e \in Entropies, a \in Additional : Seed(e \o a) BY <1>3 DEF Reseed
  <2>2. stage = "drbg" /\ UNCHANGED <<hashVars, job, deriveVars>> BY <1>3 DEF Reseed, Ready
  <2>3. PICK s : s = e \o a OBVIOUS
  <2>4. s \in Seq(Nat)
    <3>1. e \in Seq(Nat) /\ a \in Seq(Nat) BY DerivationAssumption, Strings
    <3> QED BY <2>3, <3>1, Strings
  <2>5. /\ gen' \in [key : Seq(Nat), v : Seq(Nat), count : Nat]
        /\ todo' \in Seq(Tasks) /\ stage' = "drbg"
    BY <2>1, <2>3, <2>4, SeedTypes
  <2>6. HashInv' BY <1>0, <2>2, HashStays
  <2>7. StageTypes'
    BY <1>0, <2>2, <2>5 DEF StageTypes, IsMd, hashVars, args, deriveVars
  <2> QED BY <2>6, <2>7 DEF DerivationInv
<1> QED BY <1>1, <1>2, <1>3

(* random_bytes().                                                         *)
LEMMA RequestKeeps ==
    ASSUME DerivationInv, Request \/ RequestStep \/ DrbgMac \/ DrbgTake
    PROVE  DerivationInv'
<1>0. HashInv /\ StageTypes BY DEF DerivationInv
<1>1. CASE Request
  <2>1. PICK n \in Requests, a \in Additional :
            todo' = UpdateIfAny(a) \o <<Task("check", <<>>)>>
                      \o [j \in 1 .. Blocks(n) |->
                             Task("out", Least(HashLen, n - HashLen * (j - 1)))]
                      \o AfterRequest(a)
    BY <1>1 DEF Request
  <2>2. stage = "drbg" /\ UNCHANGED <<hashVars, stage, job, deriveVars, gen, handed>>
    BY <1>1 DEF Request, Ready
  <2>3. n \in Nat /\ a \in Seq(Nat) BY DerivationAssumption, Strings
  <2>4. todo' \in Seq(Tasks) BY <2>1, <2>3, RequestType
  <2>5. HashInv' BY <1>0, <2>2, HashStays
  <2>6. StageTypes'
    BY <1>0, <2>2, <2>4 DEF StageTypes, IsMd, hashVars, args, deriveVars
  <2> QED BY <2>5, <2>6 DEF DerivationInv
<1>2. CASE RequestStep
  <2>1. stage = "drbg" /\ todo # <<>> /\ UNCHANGED <<hashVars, stage, job, deriveVars>>
    BY <1>2 DEF RequestStep
  <2>2. todo \in Seq(Tasks) /\ gen \in [key : Seq(Nat), v : Seq(Nat), count : Nat]
    BY <1>0 DEF StageTypes
  <2>3. Tail(todo) \in Seq(Tasks) /\ <<>> \in Seq(Tasks)
    BY <2>1, <2>2, HeadTailProperties, EmptySeq
  <2>4. todo' \in Seq(Tasks) BY <1>2, <2>3 DEF RequestStep
  <2>5. gen' \in [key : Seq(Nat), v : Seq(Nat), count : Nat]
    <3>1. PICK n \in Nat : n = gen.count + 1 BY <2>2
    <3>2. [gen EXCEPT !.count = n] \in [key : Seq(Nat), v : Seq(Nat), count : Nat] BY <2>2
    <3>3. gen' = gen \/ gen' = [gen EXCEPT !.count = n] BY <1>2, <3>1 DEF RequestStep
    <3> QED BY <2>2, <3>2, <3>3
  <2>6. HashInv' BY <1>0, <2>1, HashStays
  <2>7. StageTypes'
    BY <1>0, <2>1, <2>4, <2>5 DEF StageTypes, IsMd, hashVars, args, deriveVars
  <2> QED BY <2>6, <2>7 DEF DerivationInv
<1>3. CASE DrbgMac
  <2>1. /\ stage = "drbg" /\ todo # <<>> /\ stage' = "mac"
        /\ CallHmac(gen.key, gen.v \o IF Head(todo).target = "key" THEN Head(todo).arg ELSE <<>>)
        /\ UNCHANGED <<job, deriveVars, drbgVars>>
    BY <1>3 DEF DrbgMac
  <2>2. /\ IsMd(fn) /\ todo \in Seq(Tasks)
        /\ gen \in [key : Seq(Nat), v : Seq(Nat), count : Nat]
    BY <1>0, <2>1 DEF StageTypes
  <2>3. gen.key \in Seq(Nat) /\ gen.v \in Seq(Nat) BY <2>2
  <2>4. Head(todo) \in Tasks BY <2>1, <2>2, HeadTailProperties
  <2>5. Head(todo).target = "key" => Head(todo).arg \in Seq(Nat) BY <2>4 DEF Tasks
  <2>6. PICK m : m = gen.v \o IF Head(todo).target = "key" THEN Head(todo).arg ELSE <<>>
    OBVIOUS
  <2>7. m \in Seq(Nat) BY <2>3, <2>5, <2>6, Strings
  <2>8. HashInv' /\ fn' = fn BY <1>0, <2>1, <2>2, <2>3, <2>6, <2>7, CallHmacBegins
  <2>9. StageTypes' BY <1>0, <2>1, <2>2, <2>8 DEF StageTypes, IsMd, deriveVars, drbgVars
  <2> QED BY <2>8, <2>9 DEF DerivationInv
<1>4. CASE DrbgTake
  <2>1. /\ stage = "mac" /\ Returned /\ stage' = "drbg" /\ todo' = Tail(todo)
        /\ UNCHANGED <<hashVars, job, deriveVars, calls, fed>>
    BY <1>4 DEF DrbgTake
  <2>2. /\ IsMd(fn) /\ todo \in Seq(Tasks) /\ todo # <<>>
        /\ gen \in [key : Seq(Nat), v : Seq(Nat), count : Nat] /\ out \in Seq(Nat)
    BY <1>0, <2>1, ReturnedType DEF StageTypes
  <2>3. Tail(todo) \in Seq(Tasks) BY <2>2, HeadTailProperties
  <2>4. gen' \in [key : Seq(Nat), v : Seq(Nat), count : Nat] BY <1>4, <2>2 DEF DrbgTake
  <2>5. HashInv' BY <1>0, <2>1, HashStays
  <2>6. StageTypes'
    BY <1>0, <2>1, <2>2, <2>3, <2>4 DEF StageTypes, IsMd, hashVars, args, deriveVars
  <2> QED BY <2>5, <2>6 DEF DerivationInv
<1> QED BY <1>1, <1>2, <1>3, <1>4

(* The invariant.                                                          *)
LEMMA AlwaysDerivationInv ==
    Spec => []DerivationInv
<1>1. Init => DerivationInv BY InitInv
<1>2. DerivationInv /\ [Next]_vars => DerivationInv'
  <2> SUFFICES ASSUME DerivationInv, [Next]_vars PROVE DerivationInv' OBVIOUS
  <2>1. CASE Next
    BY <2>1, HashStep, PlainKeeps, HkdfKeeps, Pbkdf2Keeps, SeedingKeeps, RequestKeeps DEF Next
  <2>2. CASE UNCHANGED vars
    <3>1. HashInv' BY <2>2, HashStays DEF DerivationInv, vars
    <3>2. StageTypes'
      BY <2>2 DEF DerivationInv, StageTypes, IsMd, vars, hashVars, args, deriveVars, drbgVars
    <3> QED BY <3>1, <3>2 DEF DerivationInv
  <2> QED BY <2>1, <2>2
<1> QED BY <1>1, <1>2, PTL DEF Spec

(* hashing/sha2.py, hashing/sha3.py: as long as the length of the data can *)
(* be written behind them, what was hashed can be read back from the       *)
(* blocks, whatever the function, the data and the derivation they are of. *)
THEOREM PaddingAlwaysUndone ==
    Spec => [](LengthFits(data) => PaddingUndone)
<1>1. DerivationInv => (LengthFits(data) => PaddingUndone) BY HashInvUndone DEF DerivationInv
<1> QED BY <1>1, AlwaysDerivationInv, PTL

(* hmac_...(): key and message can always be read back from the MAC.       *)
THEOREM MacAlwaysOpens ==
    Spec => [](LengthsFit => MacOpens)
<1>1. DerivationInv => (LengthsFit => MacOpens) BY HashInvOpens DEF DerivationInv
<1> QED BY <1>1, AlwaysDerivationInv, PTL

-----------------------------------------------------------------------------
(* The padding of the standards.                                           *)
LEMMA PowerStep ==
    ASSUME NEW n \in Nat
    PROVE  Power[n + 1] = Base * Power[n] /\ Power[n] <= Power[n + 1]
<1>1. Base \in Nat /\ Base > 1 BY Numbers
<1>2. Power[n] \in Nat /\ Power[n + 1] = Base * Power[n] BY PowerDefined DEF Powers
<1>3. PICK p \in Nat, b \in Nat : p = Power[n] /\ b = Base BY <1>1, <1>2
<1>4. p * 1 <= p * b
  <2>1. 1 \in Nat /\ 1 <= b BY <1>1, <1>3
  <2> QED BY <2>1, Multiples
<1>5. p <= b * p BY <1>4
<1> QED BY <1>2, <1>3, <1>5

(* A number that is smaller than a power has no digits from there on, ...  *)
LEMMA NoDigit ==
    ASSUME NEW v \in Nat, NEW n \in Nat, v < Power[n]
    PROVE  v \div Power[n] = 0
<1>1. PICK p \in Nat : p = Power[n] /\ p > 0 BY PowerDefined
<1>2. v \in 0 .. p - 1 /\ p * 0 + v = v /\ 0 \in Int BY <1>1
<1>3. (p * 0 + v) \div p = 0 BY ONLY <1>1, <1>2, p \in Nat, v \in Nat, DivisionUnique
<1> QED BY <1>1, <1>2, <1>3

(* A number below a power is below all later ones.                         *)
LEMMA StaysBelow ==
    ASSUME NEW v \in Nat, NEW m \in Nat, v < Power[m]
    PROVE  \A d \in Nat : v < Power[m + d]
<1> DEFINE T == {d \in Nat : v < Power[m + d]}
<1>1. 0 \in T OBVIOUS
<1>2. \A d \in T : d + 1 \in T
  <2> TAKE d \in T
  <2>1. m + d \in Nat OBVIOUS
  <2>2. PICK n \in Nat : n = m + d BY <2>1
  <2>3. Power[n] \in Nat /\ Power[n + 1] \in Nat /\ Power[n] <= Power[n + 1]
    BY <2>2, PowerStep, PowerDefined
  <2>4. v < Power[n] BY <2>2
  <2>5. v < Power[n + 1] BY <2>3, <2>4
  <2>6. m + (d + 1) = n + 1 BY <2>2
  <2> QED BY <2>5, <2>6
<1>3. T \in SUBSET Nat OBVIOUS
<1>4. T = Nat
  <2> HIDE DEF T
  <2> QED BY <1>1, <1>2, <1>3, Induction
<1> QED BY <1>4

(* ... and one without digits from there on is smaller.                    *)
LEMMA GoesBelow ==
    ASSUME NEW v \in Nat, NEW n \in Nat, v < Power[n + 1], (v \div Power[n]) % Base = 0
    PROVE  v < Power[n]
<1>1. PICK b \in Nat : b = Base /\ b > 1 BY Numbers
<1>2. PICK p \in Nat : p = Power[n] /\ p > 0 BY PowerDefined
<1>3. PICK q, r : q = v \div p /\ r = v % p OBVIOUS
<1>4. q \in Nat /\ r \in 0 .. p - 1 /\ v = p * q + r BY <1>2, <1>3, Division
<1>5. v < b * p BY <1>1, <1>2, PowerStep
<1>6. q < b
  <2> SUFFICES ASSUME b <= q PROVE FALSE BY <1>4
  <2>1. p * b <= p * q BY <1>4, Multiples
  <2>2. p * b = b * p /\ b * p \in Nat /\ p * q \in Nat BY <1>4
  <2> QED BY ONLY <1>4, <1>5, <2>1, <2>2, v \in Nat, p \in Nat
<1>7. q = q % b BY <1>1, <1>4, <1>6
<1>8. q = 0 BY <1>1, <1>2, <1>3, <1>7
<1> QED BY <1>2, <1>4, <1>8

(* The first digits are zero exactly if the number is that small.          *)
LEMMA LeadingZeros ==
    ASSUME NEW v \in Nat, NEW k \in Nat, v < Power[k], NEW m \in 0 .. k,
           NEW e, e = ToBytes(v, k)
    PROVE  (\A x \in 1 .. k - m : e[x] = 0) <=> v < Power[m]
<1>1. \A x \in 1 .. k : e[x] = (v \div Power[k - x]) % Base BY DEF ToBytes
<1>2. ASSUME v < Power[m] PROVE \A x \in 1 .. k - m : e[x] = 0
  <2> TAKE x \in 1 .. k - m
  <2>1. PICK d \in Nat : d = (k - x) - m
    <3>1. (k - x) - m \in Nat OBVIOUS
    <3> QED BY <3>1
  <2>2. k - x = m + d /\ x \in 1 .. k /\ k - x \in Nat BY <2>1
  <2>3. PICK n \in Nat : n = k - x BY <2>2
  <2>4. v < Power[n] BY <1>2, <2>2, <2>3, StaysBelow
  <2>5. v \div Power[n] = 0 BY <2>4, NoDigit
  <2>6. 0 % Base = 0 BY Numbers
  <2> QED BY <1>1, <2>2, <2>3, <2>5, <2>6
<1>3. ASSUME \A x \in 1 .. k - m : e[x] = 0 PROVE v < Power[m]
  <2> DEFINE T == {d \in Nat : d <= k - m => v < Power[k - d]}
  <2>1. 0 \in T OBVIOUS
  <2>2. \A d \in T : d + 1 \in T
    <3> SUFFICES ASSUME NEW d \in T, d + 1 <= k - m PROVE v < Power[k - (d + 1)] OBVIOUS
    <3>1. PICK n \in Nat : n = k - (d + 1)
      <4>1. k - (d + 1) \in Nat OBVIOUS
      <4> QED BY <4>1
    <3>2. k - d = n + 1 BY <3>1
    <3>3. v < Power[n + 1] BY <3>2
    <3>4. d + 1 \in 1 .. k - m /\ d + 1 \in 1 .. k OBVIOUS
    <3>5. e[d + 1] = 0 BY <1>3, <3>4
    <3>6. e[d + 1] = (v \div Power[n]) % Base BY <1>1, <3>1, <3>4
    <3>7. v < Power[n] BY <3>3, <3>5, <3>6, GoesBelow
    <3> QED BY <3>1, <3>7
  <2>3. T \in SUBSET Nat OBVIOUS
  <2>4. T = Nat
    <3> HIDE DEF T
    <3> QED BY <2>1, <2>2, <2>3, Induction
  <2>5. PICK g \in Nat : g = k - m OBVIOUS
  <2>6. g \in T BY <2>4
  <2>7. g <= k - m /\ k - g = m BY <2>5
  <2> QED BY <2>6, <2>7
<1> QED BY <1>2, <1>3

(* How many zeros there are, in the code and in the standard.              *)
LEMMA ZerosMissing ==
    ASSUME NEW b \in Nat, b > 0, NEW x \in Int, NEW y \in Int, y = x - 1
    PROVE  /\ x % b = 0 => y % b = b - 1
           /\ x % b # 0 => x % b = (y % b) + 1
<1>1. PICK q \in Int, r \in 0 .. b - 1 : q = x \div b /\ r = x % b OBVIOUS
<1>2. x = b * q + r BY <1>1
<1>3. CASE r = 0
  <2>1. PICK p \in Int : p = q - 1 OBVIOUS
  <2>2. b * p = b * q - b BY <2>1
  <2>3. y = b * p + (b - 1) BY <1>2, <1>3, <2>2
  <2>4. b - 1 \in 0 .. b - 1 OBVIOUS
  <2>5. (b * p + (b - 1)) % b = b - 1 BY <2>4, DivisionUnique
  <2> QED BY <1>1, <1>3, <2>3, <2>5
<1>4. CASE r # 0
  <2>1. PICK s \in 0 .. b - 1 : s = r - 1
    <3>1. r - 1 \in 0 .. b - 1 BY <1>4
    <3> QED BY <3>1
  <2>2. y = b * q + s BY <1>2, <2>1
  <2>3. (b * q + s) % b = s BY DivisionUnique
  <2> QED BY <1>1, <1>4, <2>1, <2>2, <2>3
<1> QED BY <1>3, <1>4

(* Blocks that are cut from the padding of the standard.                   *)
LEMMA StandardCut ==
    ASSUME fn \in MdFunctions \cup Sponges, NEW s, NEW p, p = StandardPadded(s), p \in Seq(Int),
           NEW d \in Nat, Len(p) = Step * d
    PROVE  StandardBlocks(s) = CutInto(p, d, Step, Unit, Step \div Unit)
<1>1. /\ Step \in Nat /\ Step > 0 /\ Unit \in Nat /\ Unit > 0
      /\ Step \div Unit \in Nat /\ Step = Unit * (Step \div Unit)
  BY StepNumbers
<1>2. PICK B \in Nat, U \in Nat, W \in Nat : B = Step /\ U = Unit /\ W = Step \div Unit BY <1>1
<1>3. B > 0 /\ U > 0 /\ B = U * W BY <1>1, <1>2
<1>4. Len(p) \div B = d
  <2>1. 0 \in 0 .. B - 1 BY <1>3
  <2>2. (B * d + 0) \div B = d BY <1>3, <2>1, DivisionUnique
  <2>3. Len(p) = B * d + 0 BY <1>2
  <2> QED BY <2>2, <2>3
<1>5. ASSUME NEW b \in 1 .. d, NEW w \in 1 .. W
      PROVE  SubSeq(p, B * (b - 1) + U * (w - 1) + 1, B * (b - 1) + U * w)
               = [x \in 1 .. U |-> p[B * (b - 1) + U * (w - 1) + x]]
  <2>1. PICK o, r : o = B * (b - 1) /\ r = U * (w - 1) OBVIOUS
  <2>2. /\ o \in Nat /\ r \in Nat /\ B * b = o + B /\ U * w = r + U
        /\ U * w <= B /\ B * b <= B * d
    BY <1>3, <2>1, WordPlace
  <2>3. PICK n \in Nat : n = o + r BY <2>2
  <2>4. PICK g, h : g = n + 1 /\ h = n + U OBVIOUS
  <2>5. PICK l \in Nat : l = B * d OBVIOUS
  <2>6. n + U <= Len(p)
    <3>1. Len(p) = l BY <1>2, <2>5
    <3>2. o + B <= l /\ r + U <= B BY <2>2, <2>5
    <3> QED BY ONLY <2>2, <2>3, <3>1, <3>2, U \in Nat, B \in Nat, l \in Nat
  <2>7. PICK v : v = SubSeq(p, g, h) OBVIOUS
  <2>8. v \in Seq(Int) /\ Len(v) = U /\ \A x \in 1 .. U : v[x] = p[n + x]
    BY ONLY <2>4, <2>6, <2>7, p \in Seq(Int), n \in Nat, U \in Nat, PieceOf
  <2>9. v = [x \in 1 .. U |-> v[x]] BY <2>8, LenProperties
  <2>10. v = [x \in 1 .. U |-> p[n + x]] BY <2>8, <2>9
  <2>11. g = B * (b - 1) + U * (w - 1) + 1 /\ h = B * (b - 1) + U * w BY <2>1, <2>2, <2>3, <2>4
  <2>12. n = B * (b - 1) + U * (w - 1) BY <2>1, <2>3
  <2> QED BY <2>7, <2>10, <2>11, <2>12
<1>6. StandardBlocks(s) = [b \in 1 .. d |-> [w \in 1 .. W |->
          SubSeq(p, B * (b - 1) + U * (w - 1) + 1, B * (b - 1) + U * w)]]
  BY <1>2, <1>4 DEF StandardBlocks, Unit
<1>7. StandardBlocks(s) = CutInto(p, d, B, U, W) BY <1>5, <1>6 DEF CutInto
<1> QED BY <1>2, <1>7

(* So the blocks are the same if the padding is.                           *)
LEMMA SameBlocksIff ==
    ASSUME fn \in MdFunctions \cup Sponges, NEW c, AreBlocks(c),
           NEW s, NEW p, p = StandardPadded(s), p \in Seq(Int), NEW d \in Nat, Len(p) = Step * d
    PROVE  Made(c) = StandardBlocks(s) <=> Filled = p
<1>1. /\ Step \in Nat /\ Step > 0 /\ Unit \in Nat /\ Unit > 0
      /\ Step \div Unit \in Nat /\ Step = Unit * (Step \div Unit)
  BY StepNumbers
<1>2. PICK B \in Nat, U \in Nat, W \in Nat : B = Step /\ U = Unit /\ W = Step \div Unit BY <1>1
<1>3. B > 0 /\ U > 0 /\ B = U * W BY <1>1, <1>2
<1>4. StandardBlocks(s) = CutInto(p, d, B, U, W) BY <1>2, StandardCut
<1>5. Len(p) = B * d BY <1>2
<1>6. Joined(StandardBlocks(s)) = p BY <1>3, <1>4, <1>5, CutJoined
<1>7. Joined(Made(c)) = Filled BY JoinedBlocks
<1>8. Made(c) = CutInto(Filled, c, B, U, W) /\ c \in Nat /\ Len(Filled) = B * c
  BY <1>2 DEF AreBlocks
<1>9. ASSUME Filled = p PROVE Made(c) = StandardBlocks(s)
  <2>1. B * c = B * d BY <1>5, <1>8, <1>9
  <2>2. c = d
    <3>1. (B * c + 0) \div B = c /\ (B * d + 0) \div B = d
      <4>1. 0 \in 0 .. B - 1 BY <1>3
      <4> QED BY <1>3, <1>8, <4>1, DivisionUnique
    <3>2. B * c + 0 = B * d + 0 BY <2>1
    <3> QED BY <3>1, <3>2
  <2> QED BY <1>4, <1>8, <1>9, <2>2
<1> QED BY <1>6, <1>7, <1>9

(* Quotient and remainder.                                                 *)
IsDivided(n, b) == \E q \in Nat, r \in 0 .. b - 1 : q = n \div b /\ r = n % b /\ n = b * q + r

LEMMA Divided ==
    ASSUME NEW n \in Nat, NEW b \in Nat, b > 0
    PROVE  IsDivided(n, b)
<1>1. PICK q, r : q = n \div b /\ r = n % b OBVIOUS
<1>2. q \in Nat /\ r \in 0 .. b - 1 /\ n = b * q + r BY <1>1, Division
<1> QED BY <1>1, <1>2 DEF IsDivided

(* A number is missing none exactly if it is as many over.                 *)
IsMultiple(x, b, n, a) == x % b = 0 <=> n % b = a

LEMMA NoneMissing ==
    ASSUME NEW b \in Nat, b > 0, NEW n \in Nat, NEW a \in 0 .. b - 1, NEW x \in Int, x = a - n
    PROVE  IsMultiple(x, b, n, a)
<1>1. ASSUME n % b = a PROVE x % b = 0
  <2>1. PICK q \in Nat : q = n \div b
    <3>1. n \div b \in Nat BY Division
    <3> QED BY <3>1
  <2>2. n = b * q + a BY <1>1, <2>1, Division
  <2>3. PICK g \in Int : g = 0 - q OBVIOUS
  <2>4. b * g = 0 - b * q BY <2>3
  <2>5. x = b * g + 0 /\ 0 \in 0 .. b - 1 BY <2>2, <2>4
  <2>6. (b * g + 0) % b = 0 BY <2>5, DivisionUnique
  <2> QED BY <2>5, <2>6
<1>2. ASSUME x % b = 0 PROVE n % b = a
  <2>1. PICK q \in Int : q = x \div b OBVIOUS
  <2>2. x = b * q + 0 BY <1>2, <2>1
  <2>3. PICK g \in Int : g = 0 - q OBVIOUS
  <2>4. b * g = 0 - b * q BY <2>3
  <2>5. n = b * g + a BY <2>2, <2>4
  <2>6. (b * g + a) % b = a BY DivisionUnique
  <2> QED BY <2>5, <2>6
<1> QED BY <1>1, <1>2 DEF IsMultiple

(* A length field that starts a byte early, and has a zero before its last *)
(* word, is one that starts in time if the bytes before that are zero.     *)
LEMMA ShiftedIs ==
    ASSUME NEW w, NEW p, NEW s \in Seq(Int), NEW m, NEW z \in Nat, NEW y, y = z + 1,
           NEW k \in Nat, NEW e \in Seq(Int), Len(e) = k, NEW u \in Nat, u > 0, u <= k,
           IsPadded(w, s, m, z, e), IsPadded(p, s, m, y, e)
    PROVE  Shifted(w, u) = p <=> \A x \in 1 .. k - (u - 1) : e[x] = 0
<1>1. PICK o \in Nat : o = Len(s) + 1 + z
  <2>1. Len(s) \in Nat BY LenProperties
  <2>2. Len(s) + 1 + z \in Nat BY <2>1
  <2> QED BY <2>2
<1>2. PICK g \in Nat : g = k - u
  <2>1. k - u \in Nat OBVIOUS
  <2> QED BY <2>1
<1>3. w \in Seq(Int) /\ Len(w) = o + k /\ \A x \in 1 .. k : w[o + x] = e[x]
  BY <1>1 DEF IsPadded
<1>4. PICK v : v = Shifted(w, u) OBVIOUS
<1>5. v \in Seq(Int) /\ Len(v) = o + k + 1
  <2>1. u <= Len(w) BY <1>3
  <2>2. v \in Seq(Int) /\ Len(v) = Len(w) + 1
    BY ONLY <1>3, <1>4, <2>1, u \in Nat, u > 0, ShiftedType
  <2> QED BY <1>3, <2>2
<1>6. /\ \A x \in 1 .. o + g + 1 : v[x] = w[x]
      /\ v[o + g + 2] = 0
      /\ \A x \in o + g + 3 .. o + k + 1 : v[x] = w[x - 1]
  <2>1. PICK l \in Nat : l = Len(w) + 1 BY <1>3
  <2>2. \A x \in 1 .. l : v[x] = IF x <= l - u THEN w[x]
                                ELSE IF x = l + 1 - u THEN 0 ELSE w[x - 1]
    <3>1. Len(w) + 1 - u = l - u /\ Len(w) + 2 - u = l + 1 - u BY <1>3, <2>1
    <3> QED BY <1>4, <2>1, <3>1 DEF Shifted
  <2>3. l = o + k + 1 /\ l - u = o + g + 1 /\ l + 1 - u = o + g + 2 /\ g + 1 <= k
    BY <1>2, <1>3, <2>1
  <2>4. \A x \in 1 .. o + g + 1 : v[x] = w[x] BY <2>2, <2>3
  <2>5. v[o + g + 2] = 0 BY <2>2, <2>3
  <2>6. \A x \in o + g + 3 .. o + k + 1 : v[x] = w[x - 1] BY <2>2, <2>3
  <2> QED BY <2>4, <2>5, <2>6
<1>7. /\ p \in Seq(Int) /\ Len(p) = o + 1 + k
      /\ p[o + 1] = 0
      /\ \A x \in 1 .. k : p[o + 1 + x] = e[x]
      /\ \A x \in 1 .. o : p[x] = w[x]
  <2>1. PICK n \in Nat : n = Len(s) BY LenProperties
  <2>2. /\ p \in Seq(Int) /\ Len(p) = n + 1 + y + k
        /\ \A x \in 1 .. n : p[x] = s[x]
        /\ p[n + 1] = m
        /\ \A x \in 1 .. y : p[n + 1 + x] = 0
        /\ \A x \in 1 .. k : p[n + 1 + y + x] = e[x]
    BY <2>1 DEF IsPadded
  <2>3. /\ \A x \in 1 .. n : w[x] = s[x]
        /\ w[n + 1] = m
        /\ \A x \in 1 .. z : w[n + 1 + x] = 0
    BY <2>1 DEF IsPadded
  <2>4. o = n + 1 + z /\ n + 1 + y = o + 1 BY <1>1, <2>1
  <2>5. p[o + 1] = 0
    <3>1. y \in 1 .. y /\ n + 1 + y = o + 1 BY <2>4
    <3> QED BY <2>2, <3>1
  <2>6. ASSUME NEW x \in 1 .. o PROVE p[x] = w[x]
    <3>1. CASE x <= n BY <2>2, <2>3, <3>1
    <3>2. CASE x = n + 1 BY <2>2, <2>3, <3>2
    <3>3. CASE x > n + 1
      <4>1. PICK d \in 1 .. z : x = n + 1 + d
        <5>1. x - (n + 1) \in 1 .. z /\ x = n + 1 + (x - (n + 1)) BY <2>4, <3>3
        <5> QED BY <5>1
      <4>2. d \in 1 .. y OBVIOUS
      <4> QED BY <2>2, <2>3, <4>1, <4>2
    <3> QED BY <3>1, <3>2, <3>3
  <2> QED BY <2>2, <2>4, <2>5, <2>6
<1>8. k - (u - 1) = g + 1 /\ g + 1 <= k BY <1>2
<1>9. ASSUME \A x \in 1 .. g + 1 : e[x] = 0 PROVE v = p
  <2>1. ASSUME NEW x \in 1 .. o + k + 1 PROVE v[x] = p[x]
    <3>1. CASE x <= o BY <1>2, <1>6, <1>7, <3>1
    <3>2. CASE x > o /\ x <= o + g + 1
      <4>1. PICK d \in 1 .. g + 1 : x = o + d
        <5>1. x - o \in 1 .. g + 1 /\ x = o + (x - o) BY <3>2
        <5> QED BY <5>1
      <4>2. v[x] = w[o + d] /\ d \in 1 .. k BY <1>6, <1>8, <3>2, <4>1
      <4>3. v[x] = 0 BY <1>3, <1>9, <4>2
      <4>4. p[x] = 0
        <5>1. CASE d = 1 BY <1>7, <4>1, <5>1
        <5>2. CASE d # 1
          <6>1. d - 1 \in 1 .. k /\ d - 1 \in 1 .. g + 1 /\ o + 1 + (d - 1) = x
            BY <1>8, <4>1, <5>2
          <6> QED BY <1>7, <1>9, <6>1
        <5> QED BY <5>1, <5>2
      <4> QED BY <4>3, <4>4
    <3>3. CASE x = o + g + 2
      <4>1. g + 1 \in 1 .. k /\ g + 1 \in 1 .. g + 1 /\ o + 1 + (g + 1) = x BY <1>8, <3>3
      <4>2. p[x] = 0 BY <1>7, <1>9, <4>1
      <4> QED BY <1>6, <3>3, <4>2
    <3>4. CASE x > o + g + 2
      <4>1. PICK d \in 1 .. k : x = o + 1 + d
        <5>1. x - (o + 1) \in 1 .. k /\ x = o + 1 + (x - (o + 1)) BY <3>4
        <5> QED BY <5>1
      <4>2. x \in o + g + 3 .. o + k + 1 /\ x - 1 = o + d BY <3>4, <4>1
      <4>3. v[x] = w[o + d] BY <1>6, <4>2
      <4> QED BY <1>3, <1>7, <4>1, <4>3
    <3> QED BY <3>1, <3>2, <3>3, <3>4
  <2>2. o + k + 1 = o + 1 + k OBVIOUS
  <2> QED BY <1>5, <1>7, <2>1, <2>2, SeqEqual
<1>10. ASSUME v = p PROVE \A x \in 1 .. g + 1 : e[x] = 0
  <2> DEFINE T == {d \in Nat : d <= g => e[d + 1] = 0}
  <2>1. 0 \in T
    <3>1. o + 1 \in 1 .. o + g + 1 /\ 1 \in 1 .. k BY <1>8
    <3>2. v[o + 1] = e[1] BY <1>3, <1>6, <3>1
    <3> QED BY <1>7, <1>10, <3>2
  <2>2. \A d \in T : d + 1 \in T
    <3> SUFFICES ASSUME NEW d \in T, d + 1 <= g PROVE e[(d + 1) + 1] = 0 OBVIOUS
    <3>1. e[d + 1] = 0 BY <1>2
    <3>2. PICK j \in Nat : j = d + 1 OBVIOUS
    <3>3. j \in 1 .. k /\ j + 1 \in 1 .. k /\ o + (j + 1) \in 1 .. o + g + 1 BY <1>8, <3>2
    <3>4. p[o + 1 + j] = e[j] BY <1>7, <3>3
    <3>5. v[o + (j + 1)] = e[j + 1] BY <1>3, <1>6, <3>3
    <3>6. o + 1 + j = o + (j + 1) OBVIOUS
    <3> QED BY <1>10, <3>1, <3>2, <3>4, <3>5, <3>6
  <2>3. T \in SUBSET Nat OBVIOUS
  <2>4. T = Nat
    <3> HIDE DEF T
    <3> QED BY <2>1, <2>2, <2>3, Induction
  <2> TAKE x \in 1 .. g + 1
  <2>5. PICK d \in Nat : d = x - 1
    <3>1. x - 1 \in Nat OBVIOUS
    <3> QED BY <3>1
  <2>6. d <= g /\ d + 1 = x BY <2>5
  <2>7. d \in T
    <3> HIDE DEF T
    <3> QED BY <2>4
  <2> QED BY <2>6, <2>7
<1> QED BY <1>4, <1>8, <1>9, <1>10

(* SHA-1 and SHA-2: the blocks are those of the standard, but for lengths  *)
(* where it has no zeros, or that take more than a word.                   *)
LEMMA MdStandard ==
    ASSUME fn \in MdFunctions, data \in Seq(Int), LengthFits(data), NEW c, AreBlocks(c)
    PROVE  Made(c) = StandardBlocks(data) <=> ~Boundary(Len(data))
<1>1. /\ IsMd(fn) /\ Step = fn.block /\ Unit = fn.word
      /\ fn.block \in Nat /\ fn.block > 0 /\ fn.word \in Nat /\ fn.word > 1
      /\ fn.len \in Nat /\ fn.word <= fn.len /\ fn.len < fn.block
      /\ Width \in Nat
  BY MdNumbers
<1>2. PICK z \in Nat, d \in Nat : MdPaddedWith(data, z, d) BY MdPaddedParts
<1>3. PICK b \in Nat, k \in Nat, u \in Nat : b = fn.block /\ k = fn.len /\ u = fn.word
  BY <1>1
<1>4. b > 0 /\ u > 1 /\ u > 0 /\ u <= k /\ k < b BY <1>1, <1>3
<1>5. PICK n \in Nat : n = Len(data) BY LenProperties
<1>6. PICK v \in Nat : v = Width * n
  <2>1. Width * n \in Nat BY <1>1
  <2> QED BY <2>1
<1>7. PICK e : e = ToBytes(v, k) OBVIOUS
<1>8. e \in Seq(Int) /\ Len(e) = k
  <2>1. e \in Seq(Byte) /\ Len(e) = k BY <1>7, ToBytesType
  <2>2. Byte \subseteq Int BY Numbers
  <2> QED BY <2>1, <2>2, SeqMonotonic
<1>9. v < Power[k] BY <1>1, <1>3, <1>5, <1>6 DEF LengthFits
<1>10. PICK w : w = MdPadded(fn, data) OBVIOUS
<1>11. IsPadded(w, data, Mark, z, e) BY <1>2, <1>3, <1>5, <1>6, <1>7, <1>10 DEF MdPaddedWith
<1>12. w \in Seq(Int) /\ Len(w) = n + 1 + z + k BY <1>5, <1>8, <1>11 DEF IsPadded
<1>13. Filled = Shifted(w, u) BY <1>1, <1>3, <1>10 DEF Filled, Padded
<1>14. PICK x \in Int, y \in Int : x = b - k - 1 - n /\ y = b - k - 1 - (n + 1) OBVIOUS
<1>15. z = y % b /\ y = x - 1
  <2>1. z = (b - k - 1 - (n + 1)) % b BY <1>2, <1>3, <1>5 DEF MdPaddedWith
  <2>2. y = x - 1 BY <1>14
  <2> QED BY <1>14, <2>1, <2>2
<1>16. PICK g : g = x % b OBVIOUS
<1>17. g \in 0 .. b - 1 BY <1>4, <1>16
<1>18. g = 0 <=> n % b = b - k - 1
  <2>1. PICK a \in 0 .. b - 1 : a = b - k - 1
    <3>1. b - k - 1 \in 0 .. b - 1 BY <1>4
    <3> QED BY <3>1
  <2>2. x = a - n BY <1>14, <2>1
  <2>3. IsMultiple(x, b, n, a)
    BY ONLY <1>4, <2>2, NoneMissing, b \in Nat, n \in Nat, a \in 0 .. b - 1, x \in Int
  <2> QED BY <1>16, <2>1, <2>3 DEF IsMultiple
<1>19. (g = 0 => z = b - 1) /\ (g # 0 => g = z + 1)
  BY <1>4, <1>15, <1>16, ZerosMissing
<1>20. PICK p : p = StandardPadded(data) OBVIOUS
<1>21. IsPadded(p, data, Mark, g, e)
  <2>1. p = Append(data, Mark) \o Zeros(g) \o e
    BY <1>1, <1>3, <1>5, <1>6, <1>7, <1>14, <1>16, <1>20 DEF StandardPadded
  <2>2. Mark \in Int /\ g \in Nat BY <1>17, MarkIsByte, Numbers
  <2> QED BY <1>8, <2>1, <2>2, PaddedParts
<1>22. p \in Seq(Int) /\ Len(p) = n + 1 + g + k BY <1>5, <1>8, <1>21 DEF IsPadded
<1>23. Len(w) = b * d - 1 BY <1>2, <1>3, <1>10 DEF MdPaddedWith
<1>24. PICK l \in Nat : l = b * d OBVIOUS
<1>25. u - 1 \in 0 .. k /\ u <= Len(w) BY <1>4, <1>12
<1>26. Boundary(n) <=> g = 0 \/ ~(v < Power[u - 1])
  <2>1. u - 1 \in Nat BY <1>25
  <2>2. PICK q \in Nat : q = Power[u - 1] BY <2>1, PowerDefined
  <2>3. Boundary(n) <=> n % b = b - k - 1 \/ v >= q
    BY <1>1, <1>3, <1>6, <2>2 DEF Boundary
  <2>4. v >= q <=> ~(v < q) OBVIOUS
  <2> QED BY <1>18, <2>2, <2>3, <2>4
<1>27. CASE g = 0
  <2>1. z = b - 1 BY <1>19, <1>27
  <2>2. Len(p) = n + 1 + k BY <1>22, <1>27
  <2>3. n + 1 + k = l - b BY <1>12, <1>23, <1>24, <2>1
  <2>4. d # 0
    <3>1. b * 0 = 0 OBVIOUS
    <3> QED BY <1>4, <1>24, <2>3, <3>1
  <2>5. PICK h \in Nat : h = d - 1
    <3>1. d - 1 \in Nat BY <2>4
    <3> QED BY <3>1
  <2>6. b * h = l - b BY <1>24, <2>5
  <2>7. Len(p) = Step * h BY <1>1, <1>3, <2>2, <2>3, <2>6
  <2>8. Made(c) = StandardBlocks(data) <=> Filled = p BY <1>20, <1>22, <2>7, SameBlocksIff
  <2>9. Len(Filled) = Len(w) + 1 BY <1>4, <1>12, <1>13, <1>25, ShiftedType
  <2>10. Len(Filled) # Len(p) BY <1>4, <1>12, <2>1, <2>2, <2>9
  <2> QED BY <1>5, <1>26, <1>27, <2>8, <2>10
<1>28. CASE g # 0
  <2>1. g = z + 1 BY <1>19, <1>28
  <2>2. Len(p) = l
    <3>1. Len(p) = Len(w) + 1 BY <1>12, <1>22, <2>1
    <3> QED BY <1>23, <1>24, <3>1
  <2>3. Len(p) = Step * d BY <1>1, <1>3, <1>24, <2>2
  <2>4. Made(c) = StandardBlocks(data) <=> Filled = p BY <1>20, <1>22, <2>3, SameBlocksIff
  <2>5. Shifted(w, u) = p <=> \A j \in 1 .. k - (u - 1) : e[j] = 0
    BY ONLY <1>4, <1>8, <1>11, <1>21, <2>1, ShiftedIs, data \in Seq(Int), z \in Nat, k \in Nat,
            u \in Nat
  <2>6. (\A j \in 1 .. k - (u - 1) : e[j] = 0) <=> v < Power[u - 1]
    <3>1. PICK m \in 0 .. k : m = u - 1 BY <1>25
    <3>2. (\A j \in 1 .. k - m : e[j] = 0) <=> v < Power[m] BY <1>7, <1>9, LeadingZeros
    <3> QED BY <3>1, <3>2
  <2> QED BY <1>5, <1>13, <1>26, <1>28, <2>4, <2>5, <2>6
<1> QED BY <1>27, <1>28

(* SHA-3 and SHAKE: the blocks are those of the standard, but for lengths  *)
(* with place for one byte more.                                           *)
LEMMA SpongeStandard ==
    ASSUME fn \in Sponges, data \in Seq(Int), NEW c, AreBlocks(c)
    PROVE  Made(c) = StandardBlocks(data) <=> ~Boundary(Len(data))
<1>1. /\ ~IsMd(fn) /\ Step = fn.rate /\ fn.rate \in Nat /\ fn.rate > 1
      /\ fn.domain \in Byte /\ Mark \in Byte
  BY SpongeNumbers
<1>2. fn.domain \in Int /\ Mark \in Int
  <2>1. Byte \subseteq Nat BY Numbers
  <2>2. fn.domain \in Nat /\ Mark \in Nat BY ONLY <1>1, <2>1
  <2> QED BY <2>2
<1>3. PICK z \in Nat, d \in Nat : SpongePaddedWith(data, z, d) BY SpongePaddedParts
<1>4. PICK b \in Nat : b = fn.rate /\ b > 1 BY <1>1
<1>5. PICK n \in Nat : n = Len(data) BY LenProperties
<1>6. PICK w : w = SpongePadded(fn, data) OBVIOUS
<1>7. Filled = w BY <1>1, <1>6 DEF Filled, Padded
<1>8. w \in Seq(Int) /\ Len(w) = b * d BY <1>3, <1>4, <1>6 DEF SpongePaddedWith, IsPadded
<1>9. PICK l \in Nat : l = b * d OBVIOUS
<1>10. Len(w) = n + 1 + z + 1
  <2>1. IsPadded(w, data, fn.domain, z, <<Mark>>) BY <1>3, <1>6 DEF SpongePaddedWith
  <2>2. Len(<<Mark>>) = 1 OBVIOUS
  <2> QED BY <1>5, <2>1, <2>2 DEF IsPadded
<1>11. PICK x \in Int, y \in Int : x = b - 1 - n /\ y = b - 1 - (n + 1) OBVIOUS
<1>12. z = y % b /\ y = x - 1
  <2>1. z = (b - 1 - (n + 1)) % b BY <1>3, <1>4, <1>5 DEF SpongePaddedWith
  <2>2. y = x - 1 BY <1>11
  <2> QED BY <1>11, <2>1, <2>2
<1>13. PICK q \in Nat, m \in 0 .. b - 1 : m = n % b /\ n = b * q + m
  <2>1. b > 0 BY <1>4
  <2>2. IsDivided(n, b) BY ONLY <2>1, n \in Nat, b \in Nat, Divided
  <2> QED BY <2>2 DEF IsDivided
<1>14. PICK g \in 0 .. b - 1 : g = b - 1 - m
  <2>1. b - 1 - m \in 0 .. b - 1 BY <1>4
  <2> QED BY <2>1
<1>15. x % b = g
  <2>1. PICK h \in Int : h = 0 - q OBVIOUS
  <2>2. b * h = 0 - b * q BY <2>1
  <2>3. PICK part \in Nat : part = b * q OBVIOUS
  <2>4. x = g - part
    <3>1. n = part + m BY <1>13, <2>3
    <3> QED BY <1>11, <1>14, <3>1
  <2>5. x = b * h + g BY <2>2, <2>3, <2>4
  <2>6. b > 0 BY <1>4
  <2>7. (b * h + g) % b = g
    BY ONLY <2>6, b \in Nat, h \in Int, g \in 0 .. b - 1, DivisionUnique
  <2> QED BY <2>5, <2>7
<1>16. (g = 0 => z = b - 1) /\ (g # 0 => g = z + 1)
  <2>1. b > 0 BY <1>4
  <2> QED BY <1>12, <1>15, <2>1, ZerosMissing
<1>17. Boundary(n) <=> g = 0
  <2>1. Boundary(n) <=> m = b - 1 BY <1>1, <1>4, <1>13 DEF Boundary
  <2> QED BY <1>4, <1>14, <2>1
<1>18. PICK p : p = StandardPadded(data) OBVIOUS
<1>19. g = fn.rate - 1 - (Len(data) % fn.rate) BY <1>4, <1>5, <1>13, <1>14
<1>20. CASE g = 0
  <2>1. PICK mark \in Int : mark = fn.domain + Mark BY <1>2
  <2>2. p = Append(data, mark) BY <1>1, <1>18, <1>19, <1>20, <2>1 DEF StandardPadded
  <2>3. p \in Seq(Int) /\ Len(p) = n + 1
    BY ONLY <1>5, <2>2, mark \in Int, data \in Seq(Int), AppendProperties
  <2>4. n + 1 = l - b BY <1>8, <1>9, <1>10, <1>16, <1>20
  <2>5. d # 0
    <3>1. b * 0 = 0 OBVIOUS
    <3> QED BY <1>4, <1>9, <2>4, <3>1
  <2>6. PICK h \in Nat : h = d - 1
    <3>1. d - 1 \in Nat BY <2>5
    <3> QED BY <3>1
  <2>7. b * h = l - b BY <1>9, <2>6
  <2>8. Len(p) = Step * h BY <1>1, <1>4, <2>3, <2>4, <2>7
  <2>9. Made(c) = StandardBlocks(data) <=> Filled = p BY <1>18, <2>3, <2>8, SameBlocksIff
  <2>10. Len(Filled) # Len(p) BY <1>4, <1>7, <1>8, <1>9, <2>3, <2>4
  <2> QED BY <1>5, <1>17, <1>20, <2>9, <2>10
<1>21. CASE g # 0
  <2>1. Len(Append(data, fn.domain)) = Len(data) + 1 BY <1>2, AppendProperties
  <2>2. z = (fn.rate - 1 - Len(Append(data, fn.domain))) % fn.rate
    BY <1>4, <1>5, <1>11, <1>12, <2>1
  <2>3. w = Append(data, fn.domain) \o Zeros(z) \o <<Mark>> BY <1>6, <2>2 DEF SpongePadded
  <2>4. g - 1 = z BY <1>16, <1>21
  <2>5. p = Append(data, fn.domain) \o Zeros(g - 1) \o <<Mark>>
    BY <1>1, <1>18, <1>19, <1>21 DEF StandardPadded
  <2>6. p = w BY <2>3, <2>4, <2>5
  <2>7. Len(p) = Step * d BY <1>1, <1>4, <1>8, <2>6
  <2>8. Made(c) = StandardBlocks(data) <=> Filled = p
    BY <1>8, <1>18, <2>6, <2>7, SameBlocksIff
  <2> QED BY <1>5, <1>7, <1>17, <1>21, <2>6, <2>8
<1> QED BY <1>20, <1>21

-----------------------------------------------------------------------------
(* The output of a sponge: each byte of the rate, permutation after        *)
(* permutation.                                                            *)
Place(y) == <<y \div fn.rate, (y % fn.rate) + 1>>

Places == {Place(y) : y \in Nat}

Output(n) == [j \in 1 .. n |-> Place(j - 1)]

LEMMA OutputType ==
    ASSUME NEW n \in Nat
    PROVE  Output(n) \in Seq(Places) /\ Len(Output(n)) = n
<1>1. \A j \in 1 .. n : Place(j - 1) \in Places
  <2> TAKE j \in 1 .. n
  <2>1. j - 1 \in Nat OBVIOUS
  <2> QED BY <2>1 DEF Places
<1>2. Output(n) \in [1 .. n -> Places] BY <1>1 DEF Output
<1> QED BY <1>2, StringLength

(* The lane that is next has the bytes that are next, ...                  *)
LEMMA LaneIsNext ==
    ASSUME fn \in Sponges, NEW n \in Nat, NEW x \in 1 .. fn.lane
    PROVE  SqueezedLane(n)[x] = Place(fn.lane * n + (x - 1))
<1>1. /\ fn.rate \in Nat /\ fn.lane \in Nat /\ fn.lane > 0 /\ Lanes \in Nat /\ Lanes > 0
      /\ fn.rate = fn.lane * Lanes
  BY SpongeNumbers DEF Lanes
<1>2. PICK r \in Nat, l \in Nat, m \in Nat : r = fn.rate /\ l = fn.lane /\ m = Lanes BY <1>1
<1>3. l > 0 /\ m > 0 /\ r = l * m BY <1>1, <1>2
<1>4. PICK q \in Nat, k \in 0 .. m - 1 : q = n \div m /\ k = n % m /\ n = m * q + k
  <2>1. m > 0 BY <1>3
  <2>2. IsDivided(n, m) BY ONLY <2>1, n \in Nat, m \in Nat, Divided
  <2> QED BY <2>2 DEF IsDivided
<1>5. q \in Nat /\ k \in 0 .. m - 1 /\ n = m * q + k BY <1>4
<1>6. PICK o \in Nat : o = l * k BY <1>5
<1>7. o <= r - l
  <2>1. m - 1 \in Nat /\ k \in Nat /\ k <= m - 1 BY <1>5
  <2>2. l * k <= l * (m - 1) BY <2>1, Multiples
  <2>3. l * (m - 1) = r - l BY <1>3
  <2> QED BY <1>6, <2>2, <2>3
<1>8. PICK y \in Nat : y = o + (x - 1)
  <2>1. x - 1 \in Nat OBVIOUS
  <2> QED BY <2>1
<1>9. y \in 0 .. r - 1 BY <1>2, <1>7, <1>8
<1>10. l * n = r * q + o
  <2>1. l * (m * q + k) = (l * m) * q + l * k BY <1>5
  <2> QED BY <1>3, <1>5, <1>6, <2>1
<1>11. PICK whole \in Nat : whole = r * q BY <1>5
<1>12. fn.lane * n + (x - 1) = r * q + y
  <2>1. l * n = whole + o BY <1>10, <1>11
  <2> QED BY <1>2, <1>8, <1>11, <2>1
<1>13. r > 0 BY <1>9
<1>14. (r * q + y) \div r = q /\ (r * q + y) % r = y
  BY ONLY <1>5, <1>9, <1>13, r \in Nat, DivisionUnique
<1>15. Place(fn.lane * n + (x - 1)) = <<q, y + 1>> BY <1>2, <1>12, <1>14 DEF Place
<1>16. SqueezedLane(n)[x] = <<q, o + x>> BY <1>2, <1>4, <1>6 DEF SqueezedLane
<1>17. y + 1 = o + x BY <1>8
<1> QED BY <1>15, <1>16, <1>17

(* ... so that none is skipped, and none is given out twice.               *)
LEMMA OutputGrows ==
    ASSUME fn \in Sponges, NEW n \in Nat
    PROVE  Output(fn.lane * n) \o SqueezedLane(n) = Output(fn.lane * (n + 1))
<1>1. PICK l \in Nat : l = fn.lane BY SpongeNumbers
<1>2. PICK o \in Nat, k \in Nat : o = l * n /\ k = o + l OBVIOUS
<1>3. k = l * (n + 1) BY <1>2
<1>4. PICK s, u, lanes : s = Output(o) /\ u = Output(k) /\ lanes = SqueezedLane(n) OBVIOUS
<1>5. s \in Seq(Places) /\ Len(s) = o /\ u \in Seq(Places) /\ Len(u) = k
  BY <1>4, OutputType
<1>6. \A x \in 1 .. l : lanes[x] = Place(o + (x - 1)) BY <1>1, <1>2, <1>4, LaneIsNext
<1>7. lanes \in Seq(Places) /\ Len(lanes) = l
  <2>1. \A x \in 1 .. l : lanes[x] \in Places
    <3> TAKE x \in 1 .. l
    <3>1. o + (x - 1) \in Nat OBVIOUS
    <3> QED BY <1>6, <3>1 DEF Places
  <2>2. lanes = [x \in 1 .. l |-> lanes[x]] BY <1>1, <1>4 DEF SqueezedLane
  <2>3. lanes \in [1 .. l -> Places] BY <2>1, <2>2
  <2> QED BY <2>3, StringLength
<1>8. PICK v : v = s \o lanes OBVIOUS
<1>9. v \in Seq(Places) /\ IsConcat(v, s, lanes) BY <1>5, <1>7, <1>8, ConcatParts
<1>10. Len(v) = k BY <1>2, <1>5, <1>7, <1>9 DEF IsConcat
<1>11. ASSUME NEW j \in 1 .. k PROVE v[j] = u[j]
  <2>1. u[j] = Place(j - 1) BY <1>4 DEF Output
  <2>2. CASE j <= o
    <3>1. j \in 1 .. o BY <2>2
    <3>2. v[j] = s[j] BY <1>5, <1>9, <3>1 DEF IsConcat
    <3>3. s[j] = Place(j - 1) BY <1>4, <3>1 DEF Output
    <3> QED BY <2>1, <3>2, <3>3
  <2>3. CASE ~(j <= o)
    <3>1. PICK x \in 1 .. l : x = j - o
      <4>1. j - o \in 1 .. l BY <1>2, <2>3
      <4> QED BY <4>1
    <3>2. v[o + x] = lanes[x] BY <1>5, <1>7, <1>9 DEF IsConcat
    <3>3. o + x = j /\ o + (x - 1) = j - 1 BY <3>1
    <3> QED BY <1>6, <2>1, <3>2, <3>3
  <2> QED BY <2>2, <2>3
<1>12. v = u BY <1>5, <1>9, <1>10, <1>11, SeqEqual
<1> QED BY <1>1, <1>2, <1>3, <1>4, <1>8, <1>12

(* The output is cut to the length that was asked for.                     *)
LEMMA OutputCut ==
    ASSUME NEW n \in Nat, NEW m \in Nat, m <= n
    PROVE  SubSeq(Output(n), 1, m) = Output(m)
<1>1. PICK s, u : s = Output(n) /\ u = Output(m) OBVIOUS
<1>2. s \in Seq(Places) /\ Len(s) = n /\ u \in Seq(Places) /\ Len(u) = m BY <1>1, OutputType
<1>3. PICK o \in Nat : o = 0 OBVIOUS
<1>4. o + m <= Len(s) /\ 1 = o + 1 /\ m = o + m BY <1>2, <1>3
<1>5. PICK v : v = SubSeq(s, 1, m) OBVIOUS
<1>6. v \in Seq(Places) /\ Len(v) = m /\ \A x \in 1 .. m : v[x] = s[o + x]
  BY ONLY <1>2, <1>4, <1>5, o \in Nat, m \in Nat, PieceOf
<1>7. ASSUME NEW x \in 1 .. m PROVE v[x] = u[x]
  <2>1. o + x = x /\ x \in 1 .. n BY <1>3
  <2>2. s[x] = Place(x - 1) /\ u[x] = Place(x - 1) BY <1>1, <2>1 DEF Output
  <2> QED BY <1>6, <2>1, <2>2
<1>8. v = u BY <1>2, <1>6, <1>7, SeqEqual
<1> QED BY <1>1, <1>5, <1>8

(* What the loop of squeeze() has taken, lane by lane, and what it         *)
(* returns.                                                                *)
Squeezed ==
    ~IsMd(fn) =>
        /\ wanted \in Nat
        /\ pc = "absorb" => out = <<>>
        /\ pc = "squeeze" => out = Output(fn.lane * i)
        /\ pc = "done" /\ use # "called" => out = Output(wanted)

(* Output depends on the rate only.                                        *)
LEMMA SameOutput ==
    ASSUME fn' = fn
    PROVE  \A n : Output(n)' = Output(n)
BY DEF Output, Place

(* A call has no output yet, ...                                           *)
LEMMA CallSqueezed ==
    ASSUME Squeezed, NEW s, Call(s), fn' = fn, wanted' = wanted
    PROVE  Squeezed'
<1>1. pc' = "absorb" /\ out' = <<>> BY DEF Call
<1> QED BY <1>1 DEF Squeezed, IsMd

(* ... and each lane and the end add to it what is next.                   *)
LEMMA SqueezeSqueezed ==
    ASSUME HashTypes, Squeezed, Squeeze \/ SqueezeEnd
    PROVE  Squeezed'
<1>1. ~IsMd(fn) /\ pc \in {"absorb", "squeeze"} /\ fn' = fn /\ wanted' = wanted
  BY DEF Squeeze, SqueezeEnd, Absorbed, args
<1>2. fn \in Sponges BY <1>1, MdNumbers DEF HashTypes
<1>3. PICK n \in Nat : n = IF pc = "absorb" THEN 0 ELSE i BY DEF HashTypes
<1>4. PICK l \in Nat : l = fn.lane BY <1>2, SpongeNumbers
<1>5. PICK w \in Nat : w = wanted BY <1>1 DEF Squeezed
<1>6. PICK m \in Nat : m = l * n OBVIOUS
<1>7. out = Output(m)
  <2>1. CASE pc = "absorb"
    <3>1. m = 0 BY <1>3, <1>6, <2>1
    <3>2. Output(0) = <<>> BY DEF Output
    <3> QED BY <1>1, <2>1, <3>1, <3>2 DEF Squeezed
  <2>2. CASE pc # "absorb"
    <3>1. m = fn.lane * i BY <1>3, <1>4, <1>6, <2>2
    <3> QED BY <1>1, <2>2, <3>1 DEF Squeezed
  <2> QED BY <2>1, <2>2
<1>8. CASE Squeeze
  <2>1. pc' = "squeeze" /\ i' = n + 1 /\ out' = out \o SqueezedLane(n)
    BY <1>3, <1>8 DEF Squeeze
  <2>2. Output(fn.lane * n) \o SqueezedLane(n) = Output(fn.lane * (n + 1))
    BY <1>2, OutputGrows
  <2>3. out' = Output(fn.lane * (n + 1)) BY <1>4, <1>6, <1>7, <2>1, <2>2
  <2>4. PICK k : k = fn.lane * (n + 1) OBVIOUS
  <2>5. Output(k)' = Output(k) BY <1>1, SameOutput
  <2>6. (fn.lane * i)' = k BY <1>1, <2>1, <2>4
  <2>7. Output(fn.lane * i)' = Output(k)' BY <2>6 DEF Output
  <2>8. out' = Output(fn.lane * i)' BY <2>3, <2>4, <2>5, <2>7
  <2> QED BY <1>1, <1>5, <2>1, <2>8 DEF Squeezed
<1>9. CASE SqueezeEnd
  <2>1. pc' = "done" /\ Len(out) >= w /\ out' = SubSeq(out, 1, w)
    BY <1>5, <1>9 DEF SqueezeEnd
  <2>2. w <= m
    <3>1. Len(out) = m BY <1>7, OutputType
    <3> QED BY <2>1, <3>1
  <2>3. out' = Output(w) BY <1>7, <2>1, <2>2, OutputCut
  <2>4. Output(w)' = Output(w) BY <1>1, SameOutput
  <2>5. Output(wanted)' = Output(w)' BY <1>1, <1>5 DEF Output
  <2> QED BY <1>1, <1>5, <2>1, <2>3, <2>4, <2>5 DEF Squeezed
<1> QED BY <1>8, <1>9

(* What else there is leaves it alone.                                     *)
LEMMA RestSqueezed ==
    ASSUME Squeezed, UNCHANGED <<fn, wanted, pc, use, i, out>>
    PROVE  Squeezed'
<1>1. \A n : Output(n)' = Output(n) BY SameOutput
<1>2. PICK k, w : k = fn.lane * i /\ w = wanted OBVIOUS
<1>3. Output(fn.lane * i)' = Output(k)' /\ Output(wanted)' = Output(w)' BY <1>2 DEF Output
<1>4. Output(k)' = Output(k) /\ Output(w)' = Output(w) BY <1>1
<1> QED BY <1>2, <1>3, <1>4 DEF Squeezed, IsMd

(* SHA-1 and SHA-2 have no such output.                                    *)
LEMMA HashNextSqueezed ==
    ASSUME HashTypes, Squeezed, HashNext
    PROVE  Squeezed'
<1>1. CASE Absorb
  <2>1. UNCHANGED <<fn, wanted, pc, use, out>> /\ pc = "absorb" BY <1>1 DEF Absorb, args
  <2> QED BY <2>1 DEF Squeezed, IsMd
<1>2. CASE Digest
  <2>1. IsMd(fn) /\ fn' = fn BY <1>2 DEF Digest, args
  <2> QED BY <2>1 DEF Squeezed, IsMd
<1>3. CASE HmacNext
  <2>1. IsMd(fn) /\ fn' = fn BY <1>3 DEF HmacNext, args, HashTypes
  <2> QED BY <2>1 DEF Squeezed, IsMd
<1>4. CASE Squeeze \/ SqueezeEnd BY <1>4, SqueezeSqueezed
<1> QED BY <1>1, <1>2, <1>3, <1>4 DEF HashNext

(* hmac_...() calls a hash function.                                       *)
LEMMA CallHmacSqueezed ==
    ASSUME Squeezed, NEW k, NEW m, CallHmac(k, m)
    PROVE  Squeezed'
<1>1. fn' = fn /\ wanted' = wanted BY DEF CallHmac
<1>2. CASE TooLong(k)
  <2>1. Call(k) BY <1>2 DEF CallHmac
  <2> QED BY <1>1, <2>1, CallSqueezed
<1>3. CASE ~TooLong(k)
  <2>1. PICK s : s = Masked(BlockKey(k), IPad) \o m OBVIOUS
  <2>2. Call(s) BY <1>3, <2>1 DEF CallHmac
  <2> QED BY <1>1, <2>2, CallSqueezed
<1> QED BY <1>2, <1>3

(* All actions.                                                            *)
LEMMA NextSqueezed ==
    ASSUME HashTypes, Squeezed, Next
    PROVE  Squeezed'
<1>1. CASE HashNext BY <1>1, HashNextSqueezed
<1>2. ASSUME UNCHANGED hashVars PROVE Squeezed'
  <2>1. UNCHANGED <<fn, wanted, pc, use, i, out>> BY <1>2 DEF hashVars, args
  <2> QED BY <2>1, RestSqueezed
<1>3. CASE Plain
  <2>1. CASE Hash
    <3>1. PICK s \in Texts : Call(s) BY <2>1 DEF Hash
    <3>2. fn' = fn /\ wanted' = wanted BY <2>1 DEF Hash, args
    <3> QED BY <3>1, <3>2, CallSqueezed
  <2>2. CASE Hmac
    <3>1. PICK k \in Keys, m \in Messages : CallHmac(k, m) BY <2>2 DEF Hmac
    <3> QED BY <3>1, CallHmacSqueezed
  <2> QED BY <1>3, <2>1, <2>2 DEF Plain
<1>4. CASE HkdfExtract
  <2>1. PICK c \in HkdfCalls :
            CallHmac(IF c.salt = <<>> THEN Zeros(HashLen) ELSE c.salt, c.ikm)
    BY <1>4 DEF HkdfExtract
  <2> QED BY <2>1, CallHmacSqueezed
<1>5. CASE HkdfBlock BY <1>5, CallHmacSqueezed DEF HkdfBlock
<1>6. CASE Pbkdf2Block BY <1>6, CallHmacSqueezed DEF Pbkdf2Block
<1>7. CASE Pbkdf2Mix
  <2>1. CallHmac(job.password, out) \/ UNCHANGED hashVars BY <1>7 DEF Pbkdf2Mix
  <2> QED BY <1>2, <2>1, CallHmacSqueezed
<1>8. CASE DrbgMac BY <1>8, CallHmacSqueezed DEF DrbgMac
<1>9. CASE Instantiate
  <2>1. \/ UNCHANGED hashVars
        \/ (\E e \in Entropies : Call(NonceTag \o SubSeq(e, 1, SeedLen))) /\ UNCHANGED args
    BY <1>9 DEF Instantiate
  <2>2. ASSUME NEW e \in Entropies, Call(NonceTag \o SubSeq(e, 1, SeedLen)), UNCHANGED args
        PROVE  Squeezed'
    <3>1. fn' = fn /\ wanted' = wanted BY <2>2 DEF args
    <3> QED BY <2>2, <3>1, CallSqueezed
  <2> QED BY <1>2, <2>1, <2>2
<1>10. CASE HkdfExpand \/ HkdfTake BY <1>2, <1>10 DEF HkdfExpand, HkdfTake
<1>11. CASE Pbkdf2 \/ DeriveEnd BY <1>2, <1>11 DEF Pbkdf2, DeriveEnd
<1>12. CASE NonceMade \/ Reseed BY <1>2, <1>12 DEF NonceMade, Reseed
<1>13. CASE Request \/ RequestStep \/ DrbgTake
  BY <1>2, <1>13 DEF Request, RequestStep, DrbgTake
<1> QED
  BY <1>1, <1>3, <1>4, <1>5, <1>6, <1>7, <1>8, <1>9, <1>10, <1>11, <1>12, <1>13 DEF Next

(* Standard blocks and standard output.                                    *)
LEMMA SqueezedStandard ==
    ASSUME HashTypes, Absorbing, Squeezed, LengthFits(data)
    PROVE  StandardButAtBoundary
<1>1. ASSUME Hashed PROVE state = StandardBlocks(data) <=> ~Boundary(Len(data))
  <2>1. PICK c \in Nat : AreBlocks(c) /\ state = Made(c) BY <1>1 DEF Absorbing
  <2>2. Made(c) = StandardBlocks(data) <=> ~Boundary(Len(data))
    BY <2>1, MdStandard, SpongeStandard DEF HashTypes
  <2> QED BY <2>1, <2>2
<1>2. ASSUME pc = "done", use = "hash", ~IsMd(fn)
      PROVE  out = [j \in 1 .. wanted |-> <<(j - 1) \div fn.rate, ((j - 1) % fn.rate) + 1>>]
  <2>1. out = Output(wanted) BY <1>2 DEF Squeezed
  <2> QED BY <2>1 DEF Output, Place
<1> QED BY <1>1, <1>2 DEF StandardButAtBoundary

(* hashing/sha2.py, hashing/sha3.py: the blocks are those of FIPS 180-4    *)
(* and FIPS 202 exactly if the length is none of those of Boundary, for    *)
(* every data whose length can be written; and SHA-3 and SHAKE give out    *)
(* the bytes of the standard, as many as were asked for.                   *)
THEOREM StandardExceptAtBoundary ==
    Spec => [](LengthFits(data) => StandardButAtBoundary)
<1>1. Init => Squeezed
  <2> SUFFICES ASSUME Init PROVE Squeezed OBVIOUS
  <2>1. pc = "done" /\ use = "called" /\ wanted \in IF IsMd(fn) THEN {HashLen} ELSE OutputLengths
    BY DEF Init, HashInit
  <2>2. OutputLengths \subseteq Nat BY DigestAssumption
  <2> QED BY <2>1, <2>2 DEF Squeezed
<1>2. DerivationInv /\ Squeezed /\ [Next]_vars => Squeezed'
  <2> SUFFICES ASSUME DerivationInv, Squeezed, [Next]_vars PROVE Squeezed' OBVIOUS
  <2>1. CASE Next BY <2>1, NextSqueezed DEF DerivationInv, HashInv
  <2>2. CASE UNCHANGED vars
    <3>1. UNCHANGED <<fn, wanted, pc, use, i, out>> BY <2>2 DEF vars, hashVars, args
    <3> QED BY <3>1, RestSqueezed
  <2> QED BY <2>1, <2>2
<1>3. DerivationInv /\ Squeezed => (LengthFits(data) => StandardButAtBoundary)
  BY SqueezedStandard DEF DerivationInv, HashInv
<1> QED BY <1>1, <1>2, <1>3, AlwaysDerivationInv, PTL DEF Spec
=============================================================================
