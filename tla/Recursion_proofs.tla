-------------------------- MODULE Recursion_proofs ---------------------------
(***************************************************************************)
(* What the proofs of other modules need of definitions by recursion: what *)
(* FlattenSeq() of the community modules computes, one piece after the     *)
(* other, what a concatenation and a piece of a sequence consist of, that  *)
(* a function defined by a first value and a step exists, and the powers   *)
(* and digits of numbers.  Induction over the numbers is stated for a set, *)
(* so that every prover can use it.                                        *)
(***************************************************************************)
EXTENDS Integers, SequencesExt, SequenceTheorems, WellFoundedInduction, TLAPS

(* Induction, for a set.                                                   *)
LEMMA Induction ==
    ASSUME NEW T \in SUBSET Nat, 0 \in T, \A n \in T : n + 1 \in T
    PROVE  T = Nat
<1> SUFFICES ASSUME T # Nat PROVE FALSE OBVIOUS
<1> DEFINE R == {ss \in Nat \X Nat : ss[1] < ss[2]}
           D == Nat \ T
<1>1. \A x, y \in Nat : <<y, x>> \in R <=> y < x OBVIOUS
<1>2. IsWellFoundedOn(R, Nat) BY NatLessThanWellFounded DEF OpToRel
<1>3. D \subseteq Nat /\ D # {} OBVIOUS
<1> HIDE DEF R, D
<1>4. \E x \in D : \A y \in D : ~(<<y, x>> \in R) BY ONLY <1>2, <1>3, WFMin
<1>5. PICK x \in D : \A y \in D : ~(<<y, x>> \in R) BY <1>4
<1>6. x \in Nat /\ x \notin T /\ \A y \in D : ~(y < x) BY <1>1, <1>3, <1>5 DEF D
<1>7. x # 0 BY <1>6
<1>8. x - 1 \in Nat /\ x - 1 < x /\ (x - 1) + 1 = x BY <1>6, <1>7
<1>9. x - 1 \in T BY <1>6, <1>8 DEF D
<1> QED BY <1>6, <1>8, <1>9

-----------------------------------------------------------------------------
(* A function from the first n numbers is a sequence of n elements.        *)
LEMMA StringLength ==
    ASSUME NEW S, NEW n \in Nat, NEW s \in [1 .. n -> S]
    PROVE  s \in Seq(S) /\ Len(s) = n /\ DOMAIN s = 1 .. n
<1>1. s \in Seq(S) BY SeqDef
<1>2. DOMAIN s = 1 .. Len(s) /\ Len(s) \in Nat BY <1>1, LenProperties
<1> QED BY <1>1, <1>2

-----------------------------------------------------------------------------
(* A concatenation has the elements of both, one after the other.          *)
IsConcat(u, s, t) ==
    /\ Len(s) \in Nat /\ Len(t) \in Nat /\ Len(u) = Len(s) + Len(t)
    /\ \A j \in 1 .. Len(s) : u[j] = s[j]
    /\ \A j \in 1 .. Len(t) : u[Len(s) + j] = t[j]

LEMMA ConcatParts ==
    ASSUME NEW S, NEW s \in Seq(S), NEW t \in Seq(S)
    PROVE  s \o t \in Seq(S) /\ IsConcat(s \o t, s, t)
<1>1. Len(s) \in Nat /\ Len(t) \in Nat BY LenProperties
<1> DEFINE u == s \o t
<1>2. /\ u \in Seq(S) /\ Len(u) = Len(s) + Len(t)
      /\ \A j \in 1 .. Len(s) + Len(t) : u[j] = IF j <= Len(s) THEN s[j] ELSE t[j - Len(s)]
  BY ConcatProperties
<1> HIDE DEF u
<1>3. ASSUME NEW j \in 1 .. Len(s) PROVE u[j] = s[j]
  <2>1. j \in 1 .. Len(s) + Len(t) /\ j <= Len(s) BY <1>1
  <2> QED BY <1>2, <2>1
<1>4. ASSUME NEW j \in 1 .. Len(t) PROVE u[Len(s) + j] = t[j]
  <2>1. Len(s) + j \in 1 .. Len(s) + Len(t) /\ ~(Len(s) + j <= Len(s)) BY <1>1
  <2>2. (Len(s) + j) - Len(s) = j BY <1>1
  <2> QED BY <1>2, <2>1, <2>2
<1>5. IsConcat(u, s, t) BY <1>1, <1>2, <1>3, <1>4 DEF IsConcat
<1> QED BY <1>2, <1>5 DEF u

-----------------------------------------------------------------------------
(* What FlattenSeq() computes: all the pieces up to one, for each.         *)
Joins(g, s, n) ==
    \A k \in 1 .. n : g[k] = IF k = 1 THEN s[k] ELSE g[k - 1] \o s[k]

LEMMA JoinsExist ==
    ASSUME NEW S, NEW s \in Seq(Seq(S))
    PROVE  \A n \in 0 .. Len(s) : \E g \in [1 .. n -> Seq(S)] : Joins(g, s, n)
<1> DEFINE T == {n \in Nat : n <= Len(s) => \E g \in [1 .. n -> Seq(S)] : Joins(g, s, n)}
<1>1. 0 \in T
  <2> DEFINE g == [k \in 1 .. 0 |-> <<>>]
  <2>1. g \in [1 .. 0 -> Seq(S)] /\ Joins(g, s, 0) BY DEF Joins
  <2> QED BY <2>1
<1>2. \A n \in T : n + 1 \in T
  <2> SUFFICES ASSUME NEW n \in T, n + 1 <= Len(s)
               PROVE  \E h \in [1 .. n + 1 -> Seq(S)] : Joins(h, s, n + 1)
    OBVIOUS
  <2>1. n \in Nat /\ Len(s) \in Nat /\ n <= Len(s) BY LenProperties
  <2>2. PICK g \in [1 .. n -> Seq(S)] : Joins(g, s, n) BY <2>1
  <2>3. \A k \in 1 .. n + 1 : s[k] \in Seq(S)
    <3> SUFFICES ASSUME NEW k \in 1 .. n + 1 PROVE s[k] \in Seq(S) OBVIOUS
    <3>1. k \in 1 .. Len(s) BY <2>1
    <3> QED BY <3>1, ElementOfSeq
  <2> DEFINE new == IF n = 0 THEN s[1] ELSE g[n] \o s[n + 1]
             h == [k \in 1 .. n + 1 |-> IF k = n + 1 THEN new ELSE g[k]]
  <2>4. new \in Seq(S)
    <3>1. CASE n = 0 BY <2>3, <3>1
    <3>2. CASE n # 0
      <4>1. g[n] \in Seq(S) /\ s[n + 1] \in Seq(S) BY <2>1, <2>2, <2>3, <3>2
      <4> QED BY <3>2, <4>1, ConcatProperties
    <3> QED BY <3>1, <3>2
  <2>5. h \in [1 .. n + 1 -> Seq(S)] BY <2>1, <2>2, <2>4
  <2>6. \A k \in 1 .. n + 1 : h[k] = IF k = 1 THEN s[k] ELSE h[k - 1] \o s[k]
    <3> SUFFICES ASSUME NEW k \in 1 .. n + 1
                 PROVE  h[k] = IF k = 1 THEN s[k] ELSE h[k - 1] \o s[k]
      OBVIOUS
    <3>1. CASE k = n + 1 BY <2>1, <3>1
    <3>2. CASE k # n + 1
      <4>1. k \in 1 .. n /\ h[k] = g[k] /\ (k # 1 => h[k - 1] = g[k - 1]) BY <2>1, <3>2
      <4>2. g[k] = IF k = 1 THEN s[k] ELSE g[k - 1] \o s[k] BY <2>2, <4>1 DEF Joins
      <4> QED BY <4>1, <4>2
    <3> QED BY <3>1, <3>2
  <2> HIDE DEF h
  <2>7. Joins(h, s, n + 1) BY <2>5, <2>6 DEF Joins
  <2> QED BY <2>5, <2>7
<1> HIDE DEF T
<1>3. T \in SUBSET Nat BY DEF T
<1>4. T = Nat BY <1>1, <1>2, <1>3, Induction
<1>5. Len(s) \in Nat BY LenProperties
<1> SUFFICES ASSUME NEW n \in 0 .. Len(s) PROVE \E g \in [1 .. n -> Seq(S)] : Joins(g, s, n)
  OBVIOUS
<1>6. n \in T /\ n <= Len(s) BY <1>4, <1>5
<1> QED BY <1>6 DEF T

(* They are determined by the pieces.                                      *)
LEMMA JoinsAgree ==
    ASSUME NEW s, NEW n \in Nat, NEW g, NEW h, Joins(g, s, n), Joins(h, s, n)
    PROVE  \A k \in 1 .. n : g[k] = h[k]
<1> DEFINE T == {k \in Nat : k \in 1 .. n => g[k] = h[k]}
<1>1. \A k \in 1 .. n : /\ g[k] = IF k = 1 THEN s[k] ELSE g[k - 1] \o s[k]
                        /\ h[k] = IF k = 1 THEN s[k] ELSE h[k - 1] \o s[k]
  BY DEF Joins
<1>2. 0 \in T OBVIOUS
<1>3. \A k \in T : k + 1 \in T
  <2> SUFFICES ASSUME NEW k \in T, k + 1 \in 1 .. n PROVE g[k + 1] = h[k + 1] OBVIOUS
  <2>1. k \in Nat /\ (k + 1) - 1 = k OBVIOUS
  <2>2. CASE k = 0 BY <1>1, <2>2
  <2>3. CASE k # 0
    <3>1. k \in 1 .. n BY <2>1, <2>3
    <3>2. g[k] = h[k] BY <3>1
    <3> QED BY <1>1, <2>1, <2>3, <3>2
  <2> QED BY <2>2, <2>3
<1> HIDE DEF T
<1>4. T \in SUBSET Nat BY DEF T
<1>5. T = Nat BY <1>2, <1>3, <1>4, Induction
<1> QED BY <1>5 DEF T

LEMMA FlattenIsLast ==
    ASSUME NEW S, NEW s \in Seq(Seq(S)), NEW g \in [1 .. Len(s) -> Seq(S)],
           s # <<>>, Joins(g, s, Len(s))
    PROVE  FlattenSeq(s) = g[Len(s)]
<1> DEFINE n == Len(s)
           Is(h) == h = [k \in 1 .. n |-> IF k = 1 THEN s[k] ELSE h[k - 1] \o s[k]]
           f == CHOOSE h : Is(h)
<1>1. n \in Nat /\ n # 0 BY EmptySeq
<1>2. Is(g)
  <2> DEFINE h == [k \in 1 .. n |-> IF k = 1 THEN s[k] ELSE g[k - 1] \o s[k]]
  <2>1. DOMAIN h = 1 .. n /\ \A k \in 1 .. n : h[k] = g[k] BY DEF Joins
  <2>2. g \in [1 .. n -> Seq(S)] OBVIOUS
  <2> HIDE DEF n
  <2>3. h = g BY <2>1, <2>2
  <2> QED BY <2>3
<1>3. Is(f)
  <2> HIDE DEF Is
  <2> QED BY <1>2
<1>4. Joins(f, s, n)
  <2> DEFINE e == [k \in 1 .. n |-> IF k = 1 THEN s[k] ELSE f[k - 1] \o s[k]]
  <2>1. f = e BY <1>3
  <2>2. \A k \in 1 .. n : e[k] = IF k = 1 THEN s[k] ELSE f[k - 1] \o s[k] OBVIOUS
  <2> HIDE DEF e, f
  <2> QED BY <2>1, <2>2 DEF Joins
<1>5. FlattenSeq(s) = f[n] BY <1>1 DEF FlattenSeq
<1> HIDE DEF f
<1>6. Joins(g, s, n) OBVIOUS
<1> HIDE DEF n
<1>7. \A k \in 1 .. n : f[k] = g[k] BY ONLY <1>1, <1>4, <1>6, JoinsAgree
<1> QED BY <1>1, <1>5, <1>7 DEF n

(* FlattenSeq(), one piece after the other.                                *)
LEMMA FlattenNothing ==
    FlattenSeq(<<>>) = <<>>
BY DEF FlattenSeq

LEMMA FlattenAppend ==
    ASSUME NEW S, NEW s \in Seq(Seq(S)), NEW x \in Seq(S)
    PROVE  /\ FlattenSeq(s) \in Seq(S)
           /\ FlattenSeq(Append(s, x)) = FlattenSeq(s) \o x
<1> DEFINE t == Append(s, x)
           n == Len(s)
<1>1. t \in Seq(Seq(S)) /\ n \in Nat /\ Len(t) = n + 1 /\ n = Len(s) /\ t # <<>>
  BY LenProperties, AppendProperties
<1>2. t[n + 1] = x /\ \A k \in 1 .. n : t[k] = s[k]
  BY AppendProperties
<1> HIDE DEF t, n
<1>3. PICK g \in [1 .. n -> Seq(S)] : Joins(g, s, n)
  <2>1. n \in 0 .. Len(s) BY <1>1
  <2> QED BY <2>1, JoinsExist
<1>4. PICK h \in [1 .. n + 1 -> Seq(S)] : Joins(h, t, n + 1)
  <2>1. n + 1 \in 0 .. Len(t) BY <1>1
  <2> QED BY <1>1, <2>1, JoinsExist
<1>5. \A k \in 1 .. n : g[k] = h[k]
  <2>1. \A k \in 1 .. n : s[k] = t[k] /\ k \in 1 .. n + 1 BY <1>1, <1>2
  <2>2. Joins(h, s, n) BY <1>4, <2>1 DEF Joins
  <2>3. n \in Nat /\ Joins(g, s, n) BY <1>1, <1>3
  <2> QED BY ONLY <2>2, <2>3, JoinsAgree
<1>6. FlattenSeq(t) = h[n + 1] BY <1>1, <1>4, FlattenIsLast
<1>7. h[n + 1] = IF n = 0 THEN x ELSE h[n] \o x
  <2>1. n + 1 \in 1 .. n + 1 /\ (n + 1 = 1 <=> n = 0) /\ (n + 1) - 1 = n BY <1>1
  <2>2. h[n + 1] = IF n + 1 = 1 THEN t[n + 1] ELSE h[(n + 1) - 1] \o t[n + 1]
    BY <1>4, <2>1 DEF Joins
  <2> QED BY <1>2, <2>1, <2>2
<1>8. CASE n = 0
  <2>1. s = <<>> BY <1>1, <1>8, EmptySeq
  <2>2. FlattenSeq(t) = x BY <1>6, <1>7, <1>8
  <2>3. FlattenSeq(s) = <<>> BY <2>1, FlattenNothing
  <2>4. <<>> \in Seq(S) /\ <<>> \o x = x BY EmptySeq, ConcatEmptySeq
  <2> QED BY <2>2, <2>3, <2>4 DEF t
<1>9. CASE n # 0
  <2>1. s # <<>> BY <1>1, <1>9, EmptySeq
  <2>2. FlattenSeq(s) = g[n] BY <1>1, <1>3, <2>1, FlattenIsLast
  <2>3. n \in 1 .. n BY <1>1, <1>9
  <2>4. g[n] = h[n] /\ g[n] \in Seq(S) BY <1>5, <2>3
  <2> QED BY <1>6, <1>7, <1>9, <2>2, <2>4 DEF t
<1> QED BY <1>8, <1>9

LEMMA FlattenType ==
    ASSUME NEW S, NEW s \in Seq(Seq(S))
    PROVE  FlattenSeq(s) \in Seq(S)
<1>1. <<>> \in Seq(S) BY EmptySeq
<1> QED BY <1>1, FlattenAppend

(* A piece of a sequence.                                                  *)
LEMMA PieceOf ==
    ASSUME NEW S, NEW s \in Seq(S), NEW n \in Nat, NEW k \in Nat, n + k <= Len(s),
           NEW i, NEW j, i = n + 1, j = n + k
    PROVE  /\ SubSeq(s, i, j) \in Seq(S) /\ Len(SubSeq(s, i, j)) = k
           /\ \A x \in 1 .. k : SubSeq(s, i, j)[x] = s[n + x]
<1>1. Len(s) \in Nat BY LenProperties
<1>2. i \in Int /\ j \in Int OBVIOUS
<1>3. \A x \in i .. j : s[x] \in S BY <1>1, ElementOfSeq
<1> DEFINE t == SubSeq(s, i, j)
<1>4. /\ t \in Seq(S) /\ Len(t) = (IF i <= j THEN j - i + 1 ELSE 0)
      /\ \A x \in 1 .. j - i + 1 : t[x] = s[i + x - 1]
  BY <1>2, <1>3, SubSeqProperties
<1> HIDE DEF t
<1>5. j - i + 1 = k /\ \A x \in 1 .. k : i + x - 1 = n + x OBVIOUS
<1>6. t \in Seq(S) /\ Len(t) = k BY <1>4, <1>5
<1>7. \A x \in 1 .. k : t[x] = s[n + x] BY <1>4, <1>5
<1> QED BY <1>6, <1>7 DEF t

LEMMA PrefixGrows ==
    ASSUME NEW S, NEW s \in Seq(S), NEW n \in Nat, n < Len(s)
    PROVE  /\ SubSeq(s, 1, n) \in Seq(S) /\ Len(SubSeq(s, 1, n)) = n
           /\ s[n + 1] \in S
           /\ SubSeq(s, 1, n + 1) = Append(SubSeq(s, 1, n), s[n + 1])
<1>1. Len(s) \in Nat BY LenProperties
<1>2. \A k \in 1 .. n + 1 : k \in 1 .. Len(s) /\ s[k] \in S BY <1>1, ElementOfSeq
<1> DEFINE t == SubSeq(s, 1, n)
           u == SubSeq(s, 1, n + 1)
<1>3. t \in Seq(S) /\ Len(t) = n /\ \A k \in 1 .. n : t[k] = s[k]
  <2>1. \A k \in 1 .. n : s[k] \in S BY <1>2
  <2>2. t \in Seq(S) /\ Len(t) = (IF 1 <= n THEN n - 1 + 1 ELSE 0)
        /\ \A k \in 1 .. n - 1 + 1 : t[k] = s[1 + k - 1]
    BY <2>1, SubSeqProperties
  <2> HIDE DEF t
  <2> QED BY <2>2
<1>4. u \in Seq(S) /\ Len(u) = n + 1 /\ \A k \in 1 .. n + 1 : u[k] = s[k]
  <2>2. u \in Seq(S) /\ Len(u) = (IF 1 <= n + 1 THEN (n + 1) - 1 + 1 ELSE 0)
        /\ \A k \in 1 .. (n + 1) - 1 + 1 : u[k] = s[1 + k - 1]
    BY <1>2, SubSeqProperties
  <2> HIDE DEF u
  <2> QED BY <2>2
<1>5. s[n + 1] \in S BY <1>2
<1> HIDE DEF t, u
<1> DEFINE v == Append(t, s[n + 1])
<1>6. /\ v \in Seq(S) /\ Len(v) = n + 1 /\ v[n + 1] = s[n + 1]
      /\ \A k \in 1 .. n : v[k] = t[k]
  BY <1>3, <1>5, AppendProperties
<1> HIDE DEF v
<1>7. \A k \in 1 .. n + 1 : u[k] = v[k] BY <1>3, <1>4, <1>6
<1>8. u = v BY <1>4, <1>6, <1>7, SeqEqual
<1> QED BY <1>3, <1>5, <1>8 DEF t, u, v

(* The first pieces, flattened, are a prefix of the whole; the next piece  *)
(* follows them.                                                           *)
LEMMA FlattenNext ==
    ASSUME NEW S, NEW s \in Seq(Seq(S)), NEW n \in Nat, n < Len(s)
    PROVE  /\ s[n + 1] \in Seq(S)
           /\ FlattenSeq(SubSeq(s, 1, n)) \in Seq(S)
           /\ FlattenSeq(SubSeq(s, 1, n + 1)) = FlattenSeq(SubSeq(s, 1, n)) \o s[n + 1]
<1> DEFINE Q == Seq(S)
           t == SubSeq(s, 1, n)
<1>1. s \in Seq(Q) OBVIOUS
<1> HIDE DEF Q
<1>2. t \in Seq(Q) /\ s[n + 1] \in Q /\ SubSeq(s, 1, n + 1) = Append(t, s[n + 1])
  BY <1>1, PrefixGrows
<1> HIDE DEF t
<1>3. FlattenSeq(t) \in Seq(S) /\ FlattenSeq(Append(t, s[n + 1])) = FlattenSeq(t) \o s[n + 1]
  BY <1>2, FlattenAppend DEF Q
<1> QED BY <1>2, <1>3 DEF Q, t

LEMMA FlattenPrefix ==
    ASSUME NEW S, NEW s \in Seq(Seq(S)), NEW n \in 0 .. Len(s)
    PROVE  /\ FlattenSeq(SubSeq(s, 1, n)) \in Seq(S)
           /\ Len(FlattenSeq(SubSeq(s, 1, n))) <= Len(FlattenSeq(s))
           /\ \A j \in 1 .. Len(FlattenSeq(SubSeq(s, 1, n))) :
                  FlattenSeq(SubSeq(s, 1, n))[j] = FlattenSeq(s)[j]
<1> DEFINE F(k) == FlattenSeq(SubSeq(s, 1, k))
           Same(k) == Len(F(n)) <= Len(F(k)) /\ \A j \in 1 .. Len(F(n)) : F(n)[j] = F(k)[j]
           T == {d \in Nat : n + d <= Len(s) => F(n + d) \in Seq(S) /\ Same(n + d)}
<1>1. n \in Nat /\ Len(s) \in Nat /\ n <= Len(s) BY LenProperties
<1>2. \A k \in 0 .. Len(s) : F(k) \in Seq(S)
  <2> SUFFICES ASSUME NEW k \in 0 .. Len(s) PROVE SubSeq(s, 1, k) \in Seq(Seq(S))
    BY FlattenType
  <2> DEFINE Q == Seq(S)
  <2>1. s \in Seq(Q) /\ k \in Nat /\ k <= Len(s) BY <1>1
  <2> HIDE DEF Q
  <2>2. \A j \in 1 .. k : s[j] \in Q BY <1>1, <2>1, ElementOfSeq
  <2>3. SubSeq(s, 1, k) \in Seq(Q) BY <2>1, <2>2, SubSeqProperties
  <2> QED BY <2>3 DEF Q
<1>3. 0 \in T BY <1>1, <1>2
<1>4. \A d \in T : d + 1 \in T
  <2> SUFFICES ASSUME NEW d \in T, n + (d + 1) <= Len(s)
               PROVE  F(n + (d + 1)) \in Seq(S) /\ Same(n + (d + 1))
    OBVIOUS
  <2> DEFINE k == n + d
  <2>1. d \in Nat /\ k \in Nat /\ k < Len(s) /\ n + (d + 1) = k + 1 /\ k \in 0 .. Len(s)
    BY <1>1
  <2>2. F(k) \in Seq(S) /\ Same(k) BY <2>1
  <2> HIDE DEF k, T
  <2>3. s[k + 1] \in Seq(S) /\ F(k + 1) = F(k) \o s[k + 1] BY <2>1, FlattenNext
  <2> DEFINE a == F(n)
             b == F(k)
             c == F(k + 1)
             x == s[k + 1]
  <2>4. /\ a \in Seq(S) /\ b \in Seq(S) /\ x \in Seq(S) /\ c = b \o x
        /\ Len(a) <= Len(b) /\ \A j \in 1 .. Len(a) : a[j] = b[j]
    BY <1>1, <1>2, <2>2, <2>3
  <2> HIDE DEF F, a, b, c, x
  <2>5. /\ c \in Seq(S) /\ Len(c) = Len(b) + Len(x)
        /\ \A j \in 1 .. Len(b) + Len(x) : c[j] = IF j <= Len(b) THEN b[j] ELSE x[j - Len(b)]
    BY <2>4, ConcatProperties
  <2>6. Len(a) \in Nat /\ Len(b) \in Nat /\ Len(x) \in Nat BY <2>4, LenProperties
  <2>7. Len(a) <= Len(c) BY <2>4, <2>5, <2>6
  <2>8. ASSUME NEW j \in 1 .. Len(a) PROVE a[j] = c[j]
    <3>1. j \in 1 .. Len(b) + Len(x) /\ j <= Len(b) BY <2>4, <2>6
    <3> QED BY <2>4, <2>5, <3>1
  <2>9. c \in Seq(S) /\ Len(a) <= Len(c) /\ \A j \in 1 .. Len(a) : a[j] = c[j]
    BY <2>5, <2>7, <2>8
  <2> QED BY <2>1, <2>9 DEF a, c
<1> HIDE DEF T
<1>5. T = Nat
  <2>1. T \in SUBSET Nat BY DEF T
  <2> QED BY <1>3, <1>4, <2>1, Induction
<1>6. Len(s) - n \in T /\ n + (Len(s) - n) = Len(s) BY <1>1, <1>5
<1>7. F(Len(s)) \in Seq(S) /\ Same(Len(s))
  <2> HIDE DEF Same, F
  <2> QED BY <1>1, <1>6 DEF T
<1>8. SubSeq(s, 1, Len(s)) = s
  <2> DEFINE Q == Seq(S)
  <2>1. s \in Seq(Q) OBVIOUS
  <2> HIDE DEF Q
  <2> QED BY <2>1, SubSeqFull
<1>9. F(n) \in Seq(S) BY <1>2
<1> QED BY <1>7, <1>8, <1>9

-----------------------------------------------------------------------------
(* A function on the numbers, defined by its first value and by a step.    *)
IsRecursive(f, S, x, next) ==
    f \in [Nat -> S] /\ f[0] = x /\ \A n \in Nat : f[n + 1] = next[n][f[n]]

LEMMA RecursiveFunction ==
    ASSUME NEW S, NEW x \in S, NEW next \in [Nat -> [S -> S]]
    PROVE  \E f : IsRecursive(f, S, x, next)
<1> DEFINE Starts(g, n) ==
               /\ g[0] = x
               /\ \A k \in Nat : k < n => g[k + 1] = next[k][g[k]]
           T == {n \in Nat : \E g \in [0 .. n -> S] : Starts(g, n)}
<1>1. 0 \in T
  <2> DEFINE g == [k \in 0 .. 0 |-> x]
  <2>1. g \in [0 .. 0 -> S] /\ Starts(g, 0) OBVIOUS
  <2> QED BY <2>1
<1>2. \A n \in T : n + 1 \in T
  <2> HIDE DEF Starts
  <2> SUFFICES ASSUME NEW n \in T PROVE \E h \in [0 .. n + 1 -> S] : Starts(h, n + 1)
    OBVIOUS
  <2>1. PICK g \in [0 .. n -> S] : Starts(g, n) OBVIOUS
  <2> USE DEF Starts
  <2>2. n \in Nat /\ n \in 0 .. n OBVIOUS
  <2> DEFINE new == next[n][g[n]]
             h == [k \in 0 .. n + 1 |-> IF k = n + 1 THEN new ELSE g[k]]
  <2>3. new \in S BY <2>2
  <2>4. h \in [0 .. n + 1 -> S]
    <3> HIDE DEF new
    <3> QED BY <2>2, <2>3
  <2>5. h[n + 1] = new /\ \A k \in 0 .. n : h[k] = g[k] BY <2>2
  <2> HIDE DEF h
  <2>6. h[0] = x BY <2>1, <2>2, <2>5
  <2>7. ASSUME NEW k \in Nat, k < n + 1 PROVE h[k + 1] = next[k][h[k]]
    <3>1. CASE k = n BY <2>2, <2>5, <3>1
    <3>2. CASE k < n
      <4>1. k \in 0 .. n /\ k + 1 \in 0 .. n BY <2>2, <3>2
      <4>2. g[k + 1] = next[k][g[k]] BY <2>1, <3>2
      <4> QED BY <2>5, <4>1, <4>2
    <3> QED BY <2>2, <2>7, <3>1, <3>2
  <2>8. Starts(h, n + 1) BY <2>6, <2>7
  <2> QED BY <2>4, <2>8
<1> HIDE DEF T
<1>3. T = Nat
  <2>1. T \in SUBSET Nat BY DEF T
  <2> QED BY <1>1, <1>2, <2>1, Induction
<1>4. \A n \in Nat : \E g \in [0 .. n -> S] : Starts(g, n) BY <1>3 DEF T
<1> DEFINE Part(n) == CHOOSE g \in [0 .. n -> S] : Starts(g, n)
           f == [n \in Nat |-> Part(n)[n]]
<1>5. \A n \in Nat : Part(n) \in [0 .. n -> S] /\ Starts(Part(n), n)
  <2> HIDE DEF Starts
  <2> QED BY <1>4
<1>6. ASSUME NEW m \in Nat, NEW n \in Nat, m <= n
      PROVE  Part(m)[m] = Part(n)[m]
  <2> DEFINE a == Part(m)
             b == Part(n)
             U == {k \in Nat : k <= m => a[k] = b[k]}
  <2>1. Starts(a, m) /\ Starts(b, n) BY <1>5
  <2> HIDE DEF a, b
  <2>2. 0 \in U BY <2>1
  <2>3. \A k \in U : k + 1 \in U
    <3> SUFFICES ASSUME NEW k \in U, k + 1 <= m PROVE a[k + 1] = b[k + 1] OBVIOUS
    <3>1. k \in Nat /\ k < m /\ k < n /\ a[k] = b[k] BY <1>6
    <3>2. a[k + 1] = next[k][a[k]] /\ b[k + 1] = next[k][b[k]] BY <2>1, <3>1
    <3> QED BY <3>1, <3>2
  <2> HIDE DEF U
  <2>4. U = Nat
    <3>1. U \in SUBSET Nat BY DEF U
    <3> QED BY <2>2, <2>3, <3>1, Induction
  <2>5. m \in U BY <2>4
  <2> QED BY <2>5 DEF U, a, b
<1> HIDE DEF Part
<1>7. f \in [Nat -> S]
  <2>1. \A n \in Nat : n \in 0 .. n OBVIOUS
  <2>2. \A n \in Nat : Part(n)[n] \in S BY <1>5, <2>1
  <2> QED BY <2>2
<1>8. f[0] = x BY <1>5
<1>9. ASSUME NEW n \in Nat PROVE f[n + 1] = next[n][f[n]]
  <2>1. n + 1 \in Nat /\ n < n + 1 /\ n <= n + 1 OBVIOUS
  <2>2. Part(n + 1)[n + 1] = next[n][Part(n + 1)[n]] BY <1>5, <2>1
  <2>3. Part(n)[n] = Part(n + 1)[n] BY <1>6, <2>1
  <2> QED BY <2>1, <2>2, <2>3
<1> HIDE DEF f
<1>10. IsRecursive(f, S, x, next) BY <1>7, <1>8, <1>9 DEF IsRecursive
<1> QED BY <1>10

-----------------------------------------------------------------------------
(* Division.                                                               *)
LEMMA Division ==
    ASSUME NEW b \in Nat, b > 0, NEW k \in Nat,
           NEW q, q = k \div b, NEW r, r = k % b
    PROVE  q \in Nat /\ r \in 0 .. b - 1 /\ k = b * q + r
<1>1. q \in Int /\ r \in 0 .. b - 1 /\ k = r + b * q OBVIOUS
<1>2. ASSUME q <= -1 PROVE FALSE
  <2>1. b * q <= b * (-1) BY ONLY <1>1, <1>2, b \in Nat, b > 0
  <2>2. b * (-1) = -b OBVIOUS
  <2> QED BY ONLY <1>1, <2>1, <2>2, k \in Nat, b \in Nat
<1>3. q >= 0 BY ONLY <1>1, <1>2
<1> QED BY ONLY <1>1, <1>3

LEMMA DivisionUnique ==
    ASSUME NEW b \in Nat, b > 0, NEW q \in Int, NEW r \in 0 .. b - 1
    PROVE  (b * q + r) \div b = q /\ (b * q + r) % b = r
  OBVIOUS

(* Twice divided.                                                          *)
LEMMA DividedTwice ==
    ASSUME NEW b \in Nat, b > 0, NEW p \in Nat, p > 0, NEW k \in Nat
    PROVE  /\ b * p \in Nat /\ b * p > 0
           /\ k \div (b * p) = (k \div p) \div b
           /\ k % (b * p) = p * ((k \div p) % b) + (k % p)
<1> DEFINE u == k \div p
           r == k % p
           s == u \div b
           t == u % b
           m == b * p
           rest == p * t + r
<1>1. u \in Nat /\ r \in 0 .. p - 1 /\ k = p * u + r BY Division
<1>2. s \in Nat /\ t \in 0 .. b - 1 /\ u = b * s + t BY <1>1, Division
<1> HIDE DEF u, r, s, t
<1>3. m \in Nat /\ m > 0 OBVIOUS
<1>4. k = m * s + rest
  <2>1. p * (b * s + t) = p * (b * s) + p * t BY <1>1, <1>2
  <2>2. p * (b * s) = (b * p) * s BY <1>2
  <2> QED BY <1>1, <1>2, <2>1, <2>2
<1>5. rest \in 0 .. m - 1
  <2>1. p * t \in Nat BY <1>2
  <2>2. p * t <= p * (b - 1)
    <3>1. t <= b - 1 BY <1>2
    <3> QED BY <1>2, <3>1
  <2>3. p * (b - 1) = m - p OBVIOUS
  <2> QED BY <1>1, <1>3, <2>1, <2>2, <2>3
<1> HIDE DEF m, rest
<1>6. k \div m = s /\ k % m = rest BY <1>2, <1>3, <1>4, <1>5, DivisionUnique
<1>7. k \div (b * p) = (k \div p) \div b BY ONLY <1>6, Zenon DEF m, s, u
<1>8. k % (b * p) = p * ((k \div p) % b) + (k % p) BY ONLY <1>6, Zenon DEF m, rest, t, u, r
<1>9. b * p \in Nat /\ b * p > 0 BY ONLY <1>3 DEF m
<1> QED BY ONLY <1>7, <1>8, <1>9

(* The powers of a number, and numbers written with it as their base: the  *)
(* digit before the last m ones is (k \div P[m]) % b.                      *)
Powers(b, P) == P \in [Nat -> Nat] /\ P[0] = 1 /\ \A n \in Nat : P[n + 1] = b * P[n]

(* The powers of a base, ...                                               *)
LEMMA PowersExist ==
    ASSUME NEW b \in Nat
    PROVE  \E P : /\ Powers(b, P)
                  /\ P = [n \in Nat |-> IF n = 0 THEN 1 ELSE b * P[n - 1]]
<1> DEFINE next == [n \in Nat |-> [v \in Nat |-> b * v]]
<1>1. next \in [Nat -> [Nat -> Nat]] /\ \A n, v \in Nat : next[n][v] = b * v OBVIOUS
<1> HIDE DEF next
<1>2. 1 \in Nat OBVIOUS
<1>3. PICK P : IsRecursive(P, Nat, 1, next) BY ONLY <1>1, <1>2, RecursiveFunction
<1>4. P \in [Nat -> Nat] /\ P[0] = 1 /\ \A n \in Nat : P[n + 1] = b * P[n]
  BY <1>1, <1>3 DEF IsRecursive
<1>5. ASSUME NEW n \in Nat PROVE P[n] = IF n = 0 THEN 1 ELSE b * P[n - 1]
  <2>1. CASE n = 0 BY <1>4, <2>1
  <2>2. CASE n # 0
    <3>1. n - 1 \in Nat /\ (n - 1) + 1 = n BY <2>2
    <3>2. P[(n - 1) + 1] = b * P[n - 1] BY <1>4, <3>1
    <3> QED BY <2>2, <3>1, <3>2
  <2> QED BY <2>1, <2>2
<1>6. Powers(b, P) BY <1>4 DEF Powers
<1>7. P = [n \in Nat |-> IF n = 0 THEN 1 ELSE b * P[n - 1]] BY <1>4, <1>5
<1> QED BY <1>6, <1>7

(* Whatever satisfies the definition of the powers is the powers.          *)
LEMMA PowersKnown ==
    ASSUME NEW b \in Nat, NEW P, P = [n \in Nat |-> IF n = 0 THEN 1 ELSE b * P[n - 1]]
    PROVE  Powers(b, P)
<1>1. P[0] = 1 OBVIOUS
<1>2. \A n \in Nat : P[n + 1] = b * P[n]
  <2> TAKE n \in Nat
  <2>1. n + 1 \in Nat /\ n + 1 # 0 /\ (n + 1) - 1 = n OBVIOUS
  <2> QED BY <2>1
<1>4. \A n \in Nat : P[n] \in Nat
  <2> DEFINE T == {n \in Nat : P[n] \in Nat}
  <2>1. 0 \in T BY <1>1
  <2>2. \A n \in T : n + 1 \in T
    <3> TAKE n \in T
    <3>1. P[n] \in Nat /\ P[n + 1] = b * P[n] BY <1>2
    <3>2. \A x \in Nat : b * x \in Nat OBVIOUS
    <3>3. P[n + 1] \in Nat BY ONLY <3>1, <3>2
    <3>4. n + 1 \in Nat OBVIOUS
    <3> QED BY ONLY <3>3, <3>4
  <2> HIDE DEF T
  <2>3. T \in SUBSET Nat BY DEF T
  <2>4. T = Nat BY <2>1, <2>2, <2>3, Induction
  <2> QED BY <2>4 DEF T
<1>5. \A n \in Nat : (IF n = 0 THEN 1 ELSE b * P[n - 1]) \in Nat BY <1>4
<1> DEFINE f == [n \in Nat |-> IF n = 0 THEN 1 ELSE b * P[n - 1]]
<1>6. f \in [Nat -> Nat] BY ONLY <1>5
<1>7. P \in [Nat -> Nat]
  <2>1. P = f OBVIOUS
  <2> QED BY ONLY <1>6, <2>1
<1> QED BY ONLY <1>1, <1>2, <1>7 DEF Powers

(* ... which are positive.                                                 *)
LEMMA PowersPositive ==
    ASSUME NEW b \in Nat, b > 0, NEW P, Powers(b, P)
    PROVE  \A n \in Nat : P[n] \in Nat /\ P[n] > 0
<1> DEFINE T == {n \in Nat : P[n] > 0}
<1>1. P \in [Nat -> Nat] /\ P[0] = 1 /\ \A n \in Nat : P[n + 1] = b * P[n] BY DEF Powers
<1>2. 0 \in T BY <1>1
<1>3. \A n \in T : n + 1 \in T
  <2> SUFFICES ASSUME NEW n \in T PROVE P[n + 1] > 0 BY DEF T
  <2>1. P[n] \in Nat /\ P[n] > 0 /\ P[n + 1] = b * P[n] BY <1>1
  <2>2. \A x \in Nat : x > 0 => b * x > 0 OBVIOUS
  <2> QED BY <2>1, <2>2
<1> HIDE DEF T
<1>4. T = Nat
  <2>1. T \in SUBSET Nat BY DEF T
  <2> QED BY <1>2, <1>3, <2>1, Induction
<1>5. \A n \in Nat : P[n] > 0 BY <1>4 DEF T
<1> QED BY <1>1, <1>5

(* Numbers with the same digits are the same, up to what does not fit.     *)
LEMMA DigitsAgree ==
    ASSUME NEW b \in Nat, b > 0, NEW P, Powers(b, P), NEW k \in Nat, NEW l \in Nat,
           NEW n \in Nat, \A m \in Nat : m < n => (k \div P[m]) % b = (l \div P[m]) % b
    PROVE  k % P[n] = l % P[n]
<1> DEFINE T == {m \in Nat : m <= n => k % P[m] = l % P[m]}
<1>1. P[0] = 1 /\ \A m \in Nat : P[m + 1] = b * P[m] BY DEF Powers
<1>2. \A m \in Nat : P[m] \in Nat /\ P[m] > 0 BY PowersPositive
<1>3. 0 \in T
  <2>1. k % 1 = 0 /\ l % 1 = 0 OBVIOUS
  <2> QED BY <1>1, <2>1
<1>4. \A m \in T : m + 1 \in T
  <2> SUFFICES ASSUME NEW m \in T, m + 1 <= n PROVE k % P[m + 1] = l % P[m + 1] OBVIOUS
  <2>1. m \in Nat /\ m < n /\ k % P[m] = l % P[m] OBVIOUS
  <2>8. P[m] \in Nat /\ P[m] > 0 BY <1>2
  <2>9. b \in Nat /\ b > 0 /\ k \in Nat /\ l \in Nat OBVIOUS
  <2>2. k % (b * P[m]) = P[m] * ((k \div P[m]) % b) + (k % P[m])
    BY ONLY <2>8, <2>9, DividedTwice
  <2>3. l % (b * P[m]) = P[m] * ((l \div P[m]) % b) + (l % P[m])
    BY ONLY <2>8, <2>9, DividedTwice
  <2>4. (k \div P[m]) % b = (l \div P[m]) % b BY <2>1
  <2>5. k % (b * P[m]) = l % (b * P[m]) BY ONLY <2>1, <2>2, <2>3, <2>4
  <2> QED BY ONLY <1>1, <2>1, <2>5
<1> HIDE DEF T
<1>5. T = Nat
  <2>1. T \in SUBSET Nat BY DEF T
  <2> QED BY <1>3, <1>4, <2>1, Induction
<1>6. n \in T BY <1>5
<1> QED BY <1>6 DEF T

(* What digits are worth, the first one first.                             *)
LEMMA DigitsValue ==
    ASSUME NEW b \in Nat, b > 0, NEW P, Powers(b, P), NEW k \in Nat, NEW n \in Nat,
           NEW value, value[0] = 0,
           \A m \in Nat : m < n => value[m + 1] = b * value[m] + ((k \div P[n - (m + 1)]) % b)
    PROVE  value[n] = k % P[n]
<1> DEFINE T == {m \in Nat : m <= n => value[m] = (k \div P[n - m]) % P[m]}
<1>1. P[0] = 1 /\ \A m \in Nat : P[m + 1] = b * P[m] BY DEF Powers
<1>2. \A m \in Nat : P[m] \in Nat /\ P[m] > 0 BY PowersPositive
<1>3. \A m \in Nat : k \div P[m] \in Nat BY <1>2, Division
<1>4. 0 \in T
  <2>1. \A x \in Nat : x % 1 = 0 OBVIOUS
  <2>2. n - 0 \in Nat OBVIOUS
  <2>3. (k \div P[n - 0]) % 1 = 0 BY <1>3, <2>1, <2>2
  <2> QED BY <1>1, <2>3
<1>5. \A m \in T : m + 1 \in T
  <2> SUFFICES ASSUME NEW m \in T, m + 1 <= n
               PROVE  value[m + 1] = (k \div P[n - (m + 1)]) % P[m + 1]
    OBVIOUS
  <2> DEFINE d == n - (m + 1)
             q == k \div P[d]
  <2>1. m \in Nat /\ m < n /\ value[m] = (k \div P[n - m]) % P[m] OBVIOUS
  <2>2. d \in Nat /\ n - m = d + 1 BY <2>1
  <2>3. value[m + 1] = b * value[m] + (q % b) BY <2>1
  <2>4. q \in Nat BY <1>3, <2>2
  <2>5. P[n - m] = b * P[d] BY <1>1, <2>2
  <2>6. k \div (b * P[d]) = q \div b BY <1>2, <2>2, DividedTwice
  <2> HIDE DEF d, q
  <2>7. value[m] = (q \div b) % P[m] BY ONLY <2>1, <2>5, <2>6
  <2>8. q % (P[m] * b) = b * ((q \div b) % P[m]) + (q % b)
    <3>1. P[m] \in Nat /\ P[m] > 0 /\ b \in Nat /\ b > 0 BY <1>2, <2>1
    <3> DEFINE c == P[m]
    <3>2. c \in Nat /\ c > 0 /\ b \in Nat /\ b > 0 BY <3>1
    <3> HIDE DEF c
    <3>3. q % (c * b) = b * ((q \div b) % c) + (q % b) BY ONLY <2>4, <3>2, DividedTwice
    <3> QED BY ONLY <3>3 DEF c
  <2>9. P[m] * b = P[m + 1]
    <3>1. P[m] * b = b * P[m] BY <1>2, <2>1
    <3> QED BY <1>1, <2>1, <3>1
  <2>10. value[m + 1] = q % P[m + 1] BY ONLY <2>3, <2>7, <2>8, <2>9
  <2> QED BY <2>10 DEF q, d
<1> HIDE DEF T
<1>6. T = Nat
  <2>1. T \in SUBSET Nat BY DEF T
  <2> QED BY <1>4, <1>5, <2>1, Induction
<1>7. n \in T /\ n - n = 0 BY <1>6
<1>8. value[n] = (k \div P[0]) % P[n] BY <1>7 DEF T
<1>9. k \div 1 = k OBVIOUS
<1> QED BY <1>1, <1>8, <1>9

-----------------------------------------------------------------------------
(* Where a piece is found in the whole.                                    *)
Placed(w, l, e) == \A x \in 1 .. Len(e) : w[l + x] = e[x]

(* What is in a flattened sequence, and where.                             *)
LEMMA FlattenAt ==
    ASSUME NEW S, NEW s \in Seq(Seq(S)), NEW n \in Nat, n < Len(s),
           NEW u, u = FlattenSeq(SubSeq(s, 1, n))
    PROVE  /\ Len(u) \in Nat /\ s[n + 1] \in Seq(S) /\ Len(s[n + 1]) \in Nat
           /\ Len(FlattenSeq(SubSeq(s, 1, n + 1))) = Len(u) + Len(s[n + 1])
           /\ Len(u) + Len(s[n + 1]) <= Len(FlattenSeq(s))
           /\ Placed(FlattenSeq(s), Len(u), s[n + 1])
<1> DEFINE e == s[n + 1]
           v == FlattenSeq(SubSeq(s, 1, n + 1))
           w == FlattenSeq(s)
<1>1. e \in Seq(S) /\ u \in Seq(S) /\ v = u \o e BY FlattenNext
<1>2. n + 1 \in 0 .. Len(s) BY LenProperties
<1>3. v \in Seq(S) /\ Len(v) <= Len(w) /\ \A j \in 1 .. Len(v) : v[j] = w[j]
  BY <1>2, FlattenPrefix
<1> HIDE DEF e, v, w
<1>4. Len(e) \in Nat /\ Len(u) \in Nat BY <1>1, LenProperties
<1>5. /\ Len(v) = Len(u) + Len(e)
      /\ \A j \in 1 .. Len(u) + Len(e) : v[j] = IF j <= Len(u) THEN u[j] ELSE e[j - Len(u)]
  BY ONLY <1>1, ConcatProperties
<1>6. ASSUME NEW x \in 1 .. Len(e) PROVE w[Len(u) + x] = e[x]
  <2>1. Len(u) + x \in 1 .. Len(u) + Len(e) /\ ~(Len(u) + x <= Len(u)) BY <1>4
  <2>2. (Len(u) + x) - Len(u) = x BY <1>4
  <2>3. v[Len(u) + x] = e[x] BY <1>5, <2>1, <2>2
  <2> QED BY <1>3, <1>5, <2>1, <2>3
<1>7. Len(u) + Len(e) <= Len(w) BY <1>3, <1>5
<1>8. Placed(w, Len(u), e) BY <1>6 DEF Placed
<1> QED BY <1>1, <1>4, <1>5, <1>7, <1>8 DEF e, v, w

(* Nothing of a sequence, and the whole of it.                             *)
LEMMA FlattenWhole ==
    ASSUME NEW S, NEW s \in Seq(Seq(S))
    PROVE  /\ Len(s) \in Nat /\ SubSeq(s, 1, 0) = <<>> /\ SubSeq(s, 1, Len(s)) = s
           /\ FlattenSeq(SubSeq(s, 1, 0)) = <<>> /\ Len(FlattenSeq(SubSeq(s, 1, 0))) = 0
<1>1. SubSeq(s, 1, 0) = <<>> /\ SubSeq(s, 1, Len(s)) = s
  <2> DEFINE Q == Seq(S)
  <2>1. s \in Seq(Q) OBVIOUS
  <2> HIDE DEF Q
  <2>2. Len(s) \in Nat BY <2>1, LenProperties
  <2>3. SubSeq(s, 1, Len(s)) = s BY ONLY <2>1, SubSeqFull
  <2>4. 0 + 0 <= Len(s) /\ 0 \in Nat /\ 1 = 0 + 1 /\ 0 = 0 + 0 BY <2>2
  <2>5. SubSeq(s, 1, 0) \in Seq(Q) /\ Len(SubSeq(s, 1, 0)) = 0 BY ONLY <2>1, <2>4, PieceOf
  <2>6. SubSeq(s, 1, 0) = <<>> BY ONLY <2>5, EmptySeq
  <2> QED BY <2>3, <2>6
<1>2. Len(s) \in Nat BY LenProperties
<1> QED BY <1>1, <1>2, FlattenNothing, EmptySeq

(* Pieces of the same lengths are told from the whole.                     *)
LEMMA FlattenInjective ==
    ASSUME NEW S, NEW s \in Seq(Seq(S)), NEW t \in Seq(Seq(S)), Len(s) = Len(t),
           \A k \in 1 .. Len(s) : Len(s[k]) = Len(t[k]),
           FlattenSeq(s) = FlattenSeq(t)
    PROVE  s = t
<1> DEFINE Before(x, n) == FlattenSeq(SubSeq(x, 1, n))
           Alike(n) == /\ Len(Before(s, n)) = Len(Before(t, n))
                       /\ \A k \in 1 .. n : s[k] = t[k]
           T == {n \in Nat : n <= Len(s) => Alike(n)}
<1>1. 0 \in T
  <2>1. Len(Before(s, 0)) = 0 /\ Len(Before(t, 0)) = 0 BY FlattenWhole
  <2> HIDE DEF Before
  <2> QED BY <2>1
<1>2. \A n \in T : n + 1 \in T
  <2> HIDE DEF Alike
  <2> SUFFICES ASSUME NEW n \in T, n + 1 <= Len(s) PROVE Alike(n + 1) OBVIOUS
  <2>1. n \in Nat /\ n < Len(s) /\ Alike(n) BY FlattenWhole
  <2>2. Len(Before(s, n)) = Len(Before(t, n)) /\ \A k \in 1 .. n : s[k] = t[k]
    BY <2>1 DEF Alike
  <2> DEFINE a == s[n + 1]
             b == t[n + 1]
  <2>10. PICK u : u = FlattenSeq(SubSeq(s, 1, n)) OBVIOUS
  <2>11. PICK v : v = FlattenSeq(SubSeq(t, 1, n)) OBVIOUS
  <2>12. n < Len(t) /\ n \in Nat /\ n < Len(s) /\ s \in Seq(Seq(S)) /\ t \in Seq(Seq(S))
    BY <2>1
  <2>3. /\ a \in Seq(S) /\ Len(Before(s, n + 1)) = Len(u) + Len(a)
        /\ Placed(FlattenSeq(s), Len(u), a)
    BY ONLY <2>10, <2>12, FlattenAt
  <2>4. /\ b \in Seq(S) /\ Len(Before(t, n + 1)) = Len(v) + Len(b)
        /\ Placed(FlattenSeq(t), Len(v), b)
    BY ONLY <2>11, <2>12, FlattenAt
  <2>13. Len(u) = Len(v) BY <2>2, <2>10, <2>11
  <2>5. Len(a) = Len(b)
    <3>1. n + 1 \in 1 .. Len(s) BY <2>1
    <3> QED BY <3>1
  <2> HIDE DEF a, b, Before
  <2>6. \A x \in 1 .. Len(a) : a[x] = b[x]
    BY <2>3, <2>4, <2>5, <2>13 DEF Placed
  <2>7. a = b BY <2>3, <2>4, <2>5, <2>6, SeqEqual
  <2>8. \A k \in 1 .. n + 1 : s[k] = t[k]
    <3> TAKE k \in 1 .. n + 1
    <3>1. CASE k = n + 1 BY <2>7, <3>1 DEF a, b
    <3>2. CASE k # n + 1
      <4>1. k \in 1 .. n BY <2>1, <3>2
      <4> QED BY <2>2, <4>1
    <3> QED BY <3>1, <3>2
  <2>9. Len(Before(s, n + 1)) = Len(Before(t, n + 1)) BY <2>3, <2>4, <2>5, <2>13
  <2> QED BY <2>8, <2>9 DEF Alike
<1> HIDE DEF T
<1>3. T = Nat
  <2>1. T \in SUBSET Nat BY DEF T
  <2> QED BY <1>1, <1>2, <2>1, Induction
<1>4. Len(s) \in Nat BY FlattenWhole
<1>5. \A k \in 1 .. Len(s) : s[k] = t[k]
  <2>1. Len(s) \in T /\ Len(s) <= Len(s) BY <1>3, <1>4
  <2>2. Alike(Len(s))
    <3> HIDE DEF Alike
    <3> QED BY <2>1 DEF T
  <2> QED BY <2>2
<1> DEFINE Q == Seq(S)
<1>6. s \in Seq(Q) /\ t \in Seq(Q) OBVIOUS
<1> HIDE DEF Q
<1> QED BY ONLY <1>5, <1>6, SeqEqual, Len(s) = Len(t)

-----------------------------------------------------------------------------
(* Every string of digits is that of a number.                             *)
Writes(b, P, k, d, n) == \A m \in Nat : m < n => (k \div P[m]) % b = d[m]

(* Any digits are those of a number.                                       *)
LEMMA DigitsExist ==
    ASSUME NEW b \in Nat, b > 0, NEW P, Powers(b, P), NEW n \in Nat, NEW d \in [Nat -> 0 .. b - 1]
    PROVE  \E k \in Nat : Writes(b, P, k, d, n)
<1> DEFINE Has(l) == \A e \in [Nat -> 0 .. b - 1] : \E k \in Nat : Writes(b, P, k, e, l)
           T == {l \in Nat : Has(l)}
<1>1. P[0] = 1 /\ \A m \in Nat : P[m + 1] = b * P[m] BY DEF Powers
<1>2. \A m \in Nat : P[m] \in Nat /\ P[m] > 0 BY PowersPositive
<1>3. 0 \in T
  <2>1. \A e : Writes(b, P, 0, e, 0) BY DEF Writes
  <2> QED BY <2>1
<1>4. \A l \in T : l + 1 \in T
  <2> HIDE DEF Has
  <2> SUFFICES ASSUME NEW l \in T PROVE Has(l + 1) OBVIOUS
  <2>1. Has(l) /\ l \in Nat OBVIOUS
  <2>2. ASSUME NEW e \in [Nat -> 0 .. b - 1] PROVE \E k \in Nat : Writes(b, P, k, e, l + 1)
    <3> DEFINE f == [m \in Nat |-> e[m + 1]]
    <3>1. f \in [Nat -> 0 .. b - 1] /\ \A m \in Nat : f[m] = e[m + 1]
      <4>1. \A m \in Nat : e[m + 1] \in 0 .. b - 1 OBVIOUS
      <4> QED BY <4>1
    <3> HIDE DEF f
    <3>2. PICK q \in Nat : Writes(b, P, q, f, l) BY <2>1, <3>1 DEF Has
    <3> DEFINE r == e[0]
               k == b * q + r
    <3>3. r \in 0 .. b - 1 OBVIOUS
    <3> HIDE DEF r
    <3>4. k \in Nat
      <4>1. b * q \in Nat OBVIOUS
      <4> QED BY <3>3, <4>1
    <3>5. k \div b = q /\ k % b = r
      BY ONLY <3>3, b \in Nat, b > 0, q \in Int, q \in Nat, DivisionUnique
    <3> HIDE DEF k
    <3>6. ASSUME NEW m \in Nat, m < l + 1 PROVE (k \div P[m]) % b = e[m]
      <4>1. CASE m = 0
        <5>1. k \div 1 = k BY <3>4
        <5> QED BY <1>1, <3>5, <4>1, <5>1 DEF r
      <4>2. CASE m # 0
        <5> DEFINE h == m - 1
        <5>1. h \in Nat /\ m = h + 1 /\ h < l BY <2>1, <3>6, <4>2
        <5> HIDE DEF h
        <5>2. P[m] = P[h] * b
          <6>1. b * P[h] = P[h] * b BY <1>2, <5>1
          <6> QED BY <1>1, <5>1, <6>1
        <5> DEFINE c == P[h]
        <5>3. c \in Nat /\ c > 0 BY <1>2, <5>1
        <5> HIDE DEF c
        <5>4. k \div (c * b) = (k \div b) \div c
          BY ONLY <3>4, <5>3, b \in Nat, b > 0, DividedTwice
        <5>5. (q \div c) % b = f[h] BY <3>2, <5>1 DEF Writes, c
        <5> QED BY <3>1, <3>5, <5>1, <5>2, <5>4, <5>5 DEF c
      <4> QED BY <4>1, <4>2
    <3>7. Writes(b, P, k, e, l + 1) BY <3>6 DEF Writes
    <3> QED BY <3>4, <3>7
  <2> QED BY <2>2 DEF Has
<1> HIDE DEF Has
<1>5. T = Nat
  <2> HIDE DEF T
  <2>1. T \in SUBSET Nat BY DEF T
  <2> QED BY <1>3, <1>4, <2>1, Induction
<1>6. Has(n) BY <1>5
<1> QED BY <1>6 DEF Has

(* The last n digits are at their end together.                            *)
LEMMA DigitsAtEnd ==
    ASSUME NEW b \in Nat, b > 0, NEW P, Powers(b, P), NEW k \in Nat, NEW n \in Nat
    PROVE  k % P[n] = P[n] - 1 <=> \A m \in Nat : m < n => (k \div P[m]) % b = b - 1
<1> DEFINE End(l) == k % P[l] = P[l] - 1
           All(l) == \A m \in Nat : m < l => (k \div P[m]) % b = b - 1
           T == {l \in Nat : End(l) <=> All(l)}
<1>1. P[0] = 1 /\ \A m \in Nat : P[m + 1] = b * P[m] BY DEF Powers
<1>2. \A m \in Nat : P[m] \in Nat /\ P[m] > 0 BY PowersPositive
<1>3. 0 \in T
  <2>1. k % 1 = 0 OBVIOUS
  <2>2. End(0) BY <1>1, <2>1
  <2>3. All(0) OBVIOUS
  <2> HIDE DEF End, All
  <2> QED BY <2>2, <2>3
<1>4. \A l \in T : l + 1 \in T
  <2> HIDE DEF End, All
  <2> SUFFICES ASSUME NEW l \in T PROVE End(l + 1) <=> All(l + 1) OBVIOUS
  <2>1. (End(l) <=> All(l)) /\ l \in Nat OBVIOUS
  <2> DEFINE p == P[l]
             x == (k \div P[l]) % b
             r == k % P[l]
  <2>2. p \in Nat /\ p > 0 BY <1>2, <2>1
  <2>3. k % (b * p) = p * x + r BY <2>2, DividedTwice
  <2>4. x \in 0 .. b - 1
    <3>1. k \div p \in Int BY <2>2
    <3> DEFINE u == k \div p
    <3>2. u \in Int BY <3>1
    <3> HIDE DEF u
    <3>3. u % b \in 0 .. b - 1 BY <3>2
    <3> QED BY <3>3 DEF u
  <2>5. r \in 0 .. p - 1 BY <2>2
  <2>6. P[l + 1] = b * p BY <1>1, <2>1
  <2> HIDE DEF p, x, r
  <2>7. p * x + r = b * p - 1 <=> x = b - 1 /\ r = p - 1
    <3>1. ASSUME x = b - 1, r = p - 1 PROVE p * x + r = b * p - 1
      <4>1. p * (b - 1) = b * p - p BY <2>2
      <4> QED BY ONLY <2>2, <3>1, <4>1, b \in Nat
    <3>2. ASSUME p * x + r = b * p - 1 PROVE x = b - 1 /\ r = p - 1
      <4>1. b - 1 \in 0 .. b - 1 /\ p - 1 \in 0 .. p - 1 /\ p * (b - 1) + (p - 1) = b * p - 1
        <5>1. p * (b - 1) = b * p - p BY <2>2
        <5> QED BY ONLY <2>2, <5>1, b \in Nat, b > 0
      <4>2. (p * x + r) \div p = x /\ (p * x + r) % p = r
        BY ONLY <2>2, <2>4, <2>5, x \in Int, DivisionUnique
      <4>3. (p * (b - 1) + (p - 1)) \div p = b - 1 /\ (p * (b - 1) + (p - 1)) % p = p - 1
        BY ONLY <2>2, <4>1, b - 1 \in Int, DivisionUnique
      <4> QED BY ONLY <3>2, <4>1, <4>2, <4>3
    <3> QED BY <3>1, <3>2
  <2>8. End(l + 1) <=> x = b - 1 /\ r = p - 1 BY <2>3, <2>6, <2>7 DEF End
  <2>9. All(l + 1) <=> All(l) /\ x = b - 1
    <3>1. \A m \in Nat : m < l + 1 <=> m < l \/ m = l BY <2>1
    <3> QED BY <2>1, <3>1 DEF All, x
  <2>10. End(l) <=> r = p - 1 BY DEF End, p, r
  <2> QED BY <2>1, <2>8, <2>9, <2>10
<1> HIDE DEF End, All
<1>5. T = Nat
  <2> HIDE DEF T
  <2>1. T \in SUBSET Nat BY DEF T
  <2> QED BY <1>3, <1>4, <2>1, Induction
<1>6. End(n) <=> All(n) BY <1>5
<1> QED BY <1>6 DEF End, All

(* One more: a digit goes on when all behind it are at their end.          *)
LEMMA NextDigit ==
    ASSUME NEW b \in Nat, b > 0, NEW P, Powers(b, P), NEW k \in Nat, NEW n \in Nat
    PROVE  ((k + 1) \div P[n]) % b =
               IF \A m \in Nat : m < n => (k \div P[m]) % b = b - 1
               THEN (((k \div P[n]) % b) + 1) % b ELSE (k \div P[n]) % b
<1> DEFINE p == P[n]
<1>1. p \in Nat /\ p > 0 BY PowersPositive
<1>3. k % p = p - 1 <=> \A m \in Nat : m < n => (k \div P[m]) % b = b - 1 BY DigitsAtEnd
<1> HIDE DEF p
<1> DEFINE q == k \div p
           r == k % p
<1>2. q \in Nat /\ r \in 0 .. p - 1 /\ k = p * q + r BY ONLY <1>1, k \in Nat, Division
<1> HIDE DEF q, r
<1>4. ASSUME r = p - 1 PROVE (k + 1) \div p = q + 1
  <2>1. p * (q + 1) = p * q + p BY <1>1, <1>2
  <2>2. k + 1 = p * (q + 1) + 0 BY ONLY <1>1, <1>2, <1>4, <2>1
  <2>3. q + 1 \in Int /\ 0 \in 0 .. p - 1 BY <1>1, <1>2
  <2> QED BY ONLY <1>1, <2>2, <2>3, DivisionUnique
<1>5. ASSUME r # p - 1 PROVE (k + 1) \div p = q
  <2>1. r + 1 \in 0 .. p - 1 BY <1>1, <1>2, <1>5
  <2>2. k + 1 = p * q + (r + 1)
    <3>1. p * q \in Nat BY <1>1, <1>2
    <3> QED BY <1>2, <3>1
  <2>3. q \in Int BY <1>2
  <2> QED BY ONLY <1>1, <2>1, <2>2, <2>3, DivisionUnique
<1>6. (q + 1) % b = ((q % b) + 1) % b
  <2> DEFINE s == q \div b
             t == q % b
             u == (t + 1) \div b
             v == (t + 1) % b
  <2>1. s \in Nat /\ t \in 0 .. b - 1 /\ q = b * s + t
    <3>1. q \in Nat /\ b \in Nat /\ b > 0 BY <1>2
    <3> QED BY ONLY <3>1, Division
  <2> HIDE DEF s, t
  <2>2. u \in Nat /\ v \in 0 .. b - 1 /\ t + 1 = b * u + v
    <3> DEFINE w == t + 1
    <3>1. w \in Nat /\ b \in Nat /\ b > 0 BY <2>1
    <3> HIDE DEF w
    <3>2. w \div b \in Nat /\ w % b \in 0 .. b - 1 /\ w = b * (w \div b) + (w % b)
      BY ONLY <3>1, Division
    <3> QED BY ONLY <3>2 DEF w
  <2> HIDE DEF u, v
  <2>3. q + 1 = b * (s + u) + v
    <3>1. b * (s + u) = b * s + b * u BY <2>1, <2>2
    <3>2. b * s \in Nat /\ b * u \in Nat BY <2>1, <2>2
    <3> QED BY <2>1, <2>2, <3>1, <3>2
  <2>4. s + u \in Int BY <2>1, <2>2
  <2>5. (q + 1) % b = v BY ONLY <2>2, <2>3, <2>4, b \in Nat, b > 0, DivisionUnique
  <2> QED BY <2>5 DEF v, t
<1>7. ((k + 1) \div p) % b = IF r = p - 1 THEN ((q % b) + 1) % b ELSE q % b
  BY <1>4, <1>5, <1>6
<1> QED BY <1>3, <1>7 DEF p, q, r

-----------------------------------------------------------------------------
(* FoldLeft() takes the elements of a sequence from its last to its first: *)
(* a function of the sets of positions, which is only applied to 1 .. n.   *)
Folds(g, n, x, next) ==
    \A s \in SUBSET (1 .. n) :
        g[s] = IF s = {} THEN x ELSE next[Max(s)][g[s \ {Max(s)}]]

(* The largest of one more number, ...                                     *)
LEMMA MaxOf ==
    ASSUME NEW n \in Nat, NEW s \in SUBSET (1 .. n + 1), n + 1 \in s
    PROVE  Max(s) = n + 1 /\ s \ {n + 1} \in SUBSET (1 .. n)
<1>1. \A y \in s : n + 1 >= y OBVIOUS
<1>2. \A x \in s : (\A y \in s : x >= y) => x = n + 1 OBVIOUS
<1>3. Max(s) = n + 1 BY <1>1, <1>2 DEF Max
<1> QED BY <1>3

(* ... which is one of the numbers.                                        *)
LEMMA MaxInside ==
    ASSUME NEW n \in Nat, NEW s \in SUBSET (1 .. n), s # {}
    PROVE  Max(s) \in s
<1> DEFINE Has(m) == \A u \in SUBSET (1 .. m) : u # {} => Max(u) \in u
           T == {m \in Nat : Has(m)}
<1>1. 0 \in T
  <2>1. 1 .. 0 = {} OBVIOUS
  <2>2. Has(0) BY <2>1
  <2> QED BY <2>2
<1>2. \A m \in T : m + 1 \in T
  <2> HIDE DEF Has
  <2> SUFFICES ASSUME NEW m \in T PROVE Has(m + 1) OBVIOUS
  <2>1. Has(m) /\ m \in Nat OBVIOUS
  <2>2. ASSUME NEW u \in SUBSET (1 .. m + 1), u # {} PROVE Max(u) \in u
    <3>1. CASE m + 1 \in u BY <2>1, <3>1, MaxOf
    <3>2. CASE m + 1 \notin u
      <4>1. u \in SUBSET (1 .. m) BY <2>1, <3>2
      <4> QED BY <2>1, <2>2, <4>1 DEF Has
    <3> QED BY <3>1, <3>2
  <2> QED BY <2>2 DEF Has
<1> HIDE DEF Has
<1>3. T = Nat
  <2> HIDE DEF T
  <2>1. T \in SUBSET Nat BY DEF T
  <2> QED BY <1>1, <1>2, <2>1, Induction
<1>4. Has(n) BY <1>3
<1> QED BY <1>4 DEF Has

(* Folds over finite sets of numbers exist.                                *)
LEMMA FoldsExist ==
    ASSUME NEW S, NEW x \in S, NEW next \in [Nat -> [S -> S]]
    PROVE  \A n \in Nat : \E g \in [SUBSET (1 .. n) -> S] : Folds(g, n, x, next)
<1> DEFINE Has(n) == \E g \in [SUBSET (1 .. n) -> S] : Folds(g, n, x, next)
           T == {n \in Nat : Has(n)}
<1>1. 0 \in T
  <2> DEFINE g == [s \in SUBSET (1 .. 0) |-> x]
  <2>1. g \in [SUBSET (1 .. 0) -> S] OBVIOUS
  <2>2. \A s \in SUBSET (1 .. 0) : s = {} /\ g[s] = x OBVIOUS
  <2> HIDE DEF g
  <2>3. Folds(g, 0, x, next) BY <2>2 DEF Folds
  <2> QED BY <2>1, <2>3
<1>2. \A n \in T : n + 1 \in T
  <2> HIDE DEF Has
  <2> SUFFICES ASSUME NEW n \in T PROVE Has(n + 1) OBVIOUS
  <2>0. Has(n) OBVIOUS
  <2>1. PICK g \in [SUBSET (1 .. n) -> S] : Folds(g, n, x, next) BY <2>0 DEF Has
  <2>2. n \in Nat /\ n + 1 \in Nat OBVIOUS
  <2> DEFINE new(s) == next[n + 1][g[s \ {n + 1}]]
             h == [s \in SUBSET (1 .. n + 1) |-> IF n + 1 \in s THEN new(s) ELSE g[s]]
  <2>3. ASSUME NEW s \in SUBSET (1 .. n + 1), n + 1 \in s
        PROVE  s \ {n + 1} \in SUBSET (1 .. n) /\ new(s) \in S
    <3>1. s \ {n + 1} \in SUBSET (1 .. n) BY <2>2, <2>3
    <3>2. g[s \ {n + 1}] \in S BY <3>1
    <3> QED BY <2>2, <3>1, <3>2
  <2>4. ASSUME NEW s \in SUBSET (1 .. n + 1), n + 1 \notin s
        PROVE  s \in SUBSET (1 .. n) /\ g[s] \in S
    <3>1. s \in SUBSET (1 .. n) BY <2>2, <2>4
    <3> QED BY <3>1
  <2>5. /\ h \in [SUBSET (1 .. n + 1) -> S]
        /\ \A s \in SUBSET (1 .. n + 1) : h[s] = IF n + 1 \in s THEN new(s) ELSE g[s]
    <3> HIDE DEF new
    <3> QED BY <2>3, <2>4
  <2> HIDE DEF h
  <2>6. ASSUME NEW s \in SUBSET (1 .. n + 1)
        PROVE  h[s] = IF s = {} THEN x ELSE next[Max(s)][h[s \ {Max(s)}]]
    <3>1. CASE n + 1 \in s
      <4>1. Max(s) = n + 1 /\ s # {} BY <2>2, <3>1, MaxOf
      <4>2. /\ s \ {n + 1} \in SUBSET (1 .. n) /\ s \ {n + 1} \in SUBSET (1 .. n + 1)
            /\ n + 1 \notin s \ {n + 1}
        BY <2>3, <3>1
      <4>3. h[s \ {n + 1}] = g[s \ {n + 1}] BY <2>5, <4>2
      <4> QED BY <2>5, <3>1, <4>1, <4>3
    <3>2. CASE n + 1 \notin s
      <4>1. s \in SUBSET (1 .. n) /\ h[s] = g[s] BY <2>4, <2>5, <3>2
      <4>2. g[s] = IF s = {} THEN x ELSE next[Max(s)][g[s \ {Max(s)}]]
        BY <2>1, <4>1 DEF Folds
      <4>3. s \ {Max(s)} \in SUBSET (1 .. n + 1) /\ n + 1 \notin s \ {Max(s)}
        BY <3>2
      <4>4. h[s \ {Max(s)}] = g[s \ {Max(s)}] BY <2>5, <4>3
      <4> QED BY <4>1, <4>2, <4>4
    <3> QED BY <3>1, <3>2
  <2>7. Folds(h, n + 1, x, next) BY <2>6 DEF Folds
  <2> QED BY <2>5, <2>7 DEF Has
<1> HIDE DEF T
<1>3. T \in SUBSET Nat BY DEF T
<1>4. T = Nat BY <1>1, <1>2, <1>3, Induction
<1> QED BY <1>4 DEF T

-----------------------------------------------------------------------------
(* Pieces of one length: where each starts, ...                            *)
LEMMA EvenStarts ==
    ASSUME NEW S, NEW s \in Seq(Seq(S)), NEW l \in Nat,
           \A k \in 1 .. Len(s) : Len(s[k]) = l, NEW n \in Nat, n <= Len(s)
    PROVE  Len(FlattenSeq(SubSeq(s, 1, n))) = l * n
<1> DEFINE Before(m) == Len(FlattenSeq(SubSeq(s, 1, m)))
           T == {m \in Nat : m <= Len(s) => Before(m) = l * m}
<1>1. Len(s) \in Nat BY FlattenWhole
<1>2. 0 \in T
  <2>1. Before(0) = 0 /\ l * 0 = 0 BY FlattenWhole
  <2> HIDE DEF Before
  <2> QED BY <2>1
<1>3. \A m \in T : m + 1 \in T
  <2> SUFFICES ASSUME NEW m \in T, m + 1 <= Len(s) PROVE Before(m + 1) = l * (m + 1)
    OBVIOUS
  <2>1. m \in Nat /\ m < Len(s) /\ m + 1 \in 1 .. Len(s) BY <1>1
  <2>2. Before(m) = l * m BY <1>1, <2>1
  <2>3. PICK u : u = FlattenSeq(SubSeq(s, 1, m)) OBVIOUS
  <2>4. Before(m + 1) = Len(u) + Len(s[m + 1]) BY <2>1, <2>3, FlattenAt
  <2>5. Len(s[m + 1]) = l BY <2>1
  <2>6. Len(u) = l * m BY <2>2, <2>3
  <2>7. l * (m + 1) = l * m + l BY <2>1
  <2> HIDE DEF Before
  <2> QED BY ONLY <2>4, <2>5, <2>6, <2>7
<1> HIDE DEF T
<1>4. T \in SUBSET Nat BY DEF T
<1>5. T = Nat BY <1>2, <1>3, <1>4, Induction
<1> QED BY <1>5 DEF T

(* ... and where it is found in the whole.                                 *)
LEMMA FlattenEven ==
    ASSUME NEW S, NEW s \in Seq(Seq(S)), NEW l \in Nat,
           \A k \in 1 .. Len(s) : Len(s[k]) = l, NEW w, w = FlattenSeq(s)
    PROVE  /\ w \in Seq(S) /\ Len(w) = l * Len(s)
           /\ \A k \in 1 .. Len(s) : Placed(w, l * (k - 1), s[k])
<1>1. Len(s) \in Nat /\ SubSeq(s, 1, Len(s)) = s BY FlattenWhole
<1>2. w \in Seq(S) BY FlattenType
<1>3. Len(w) = l * Len(s)
  <2>1. \A n \in Nat : n <= Len(s) => Len(FlattenSeq(SubSeq(s, 1, n))) = l * n BY EvenStarts
  <2>2. PICK n \in Nat : n = Len(s) BY <1>1
  <2>3. Len(FlattenSeq(SubSeq(s, 1, n))) = l * n BY <2>1, <2>2
  <2>4. SubSeq(s, 1, n) = s BY <1>1, <2>2
  <2> QED BY <2>2, <2>3, <2>4
<1>4. ASSUME NEW k \in 1 .. Len(s) PROVE Placed(w, l * (k - 1), s[k])
  <2> DEFINE n == k - 1
  <2>1. n \in Nat /\ n < Len(s) /\ n <= Len(s) /\ n + 1 = k BY <1>1
  <2> HIDE DEF n
  <2>2. PICK u : u = FlattenSeq(SubSeq(s, 1, n)) OBVIOUS
  <2>3. Placed(FlattenSeq(s), Len(u), s[n + 1]) BY <2>1, <2>2, FlattenAt
  <2>4. Len(u) = l * n BY <2>1, <2>2, EvenStarts
  <2> QED BY <2>1, <2>3, <2>4 DEF n
<1> QED BY <1>2, <1>3, <1>4
=============================================================================
