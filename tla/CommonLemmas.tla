---------------------------- MODULE CommonLemmas ----------------------------
(***************************************************************************)
(* What several proofs need of numbers, and of sequences put after one     *)
(* another: least numbers and induction on a set, quotients and remainders,*)
(* and what FlattenSeq and the folds of the community modules compute.     *)
(***************************************************************************)
EXTENDS Integers, SequencesExt, SequenceTheorems, FiniteSetTheorems, WellFoundedInduction,
        TLAPS

-----------------------------------------------------------------------------
\* A set of naturals has a least one: the induction of this module.
LEMMA LeastNumber ==
  ASSUME NEW T \in SUBSET Nat, T # {}
  PROVE  \E x \in T : \A y \in T : x <= y
<1>1. IsWellFoundedOn(OpToRel(<, Nat), Nat)
  BY NatLessThanWellFounded
<1>2. PICK x \in T : \A y \in T : ~(<<y, x>> \in OpToRel(<, Nat))
  BY <1>1, WFMin
<1>3. \A y \in T : ~(y < x)
  BY <1>2 DEF OpToRel
<1> QED BY <1>3, SMT

\* What holds of 0 and is passed on holds of all naturals.
LEMMA Inductive ==
  ASSUME NEW T \in SUBSET Nat, 0 \in T, \A n \in Nat : n \in T => n + 1 \in T
  PROVE  T = Nat
<1> SUFFICES ASSUME Nat \ T # {} PROVE FALSE
  OBVIOUS
<1>1. PICK m \in Nat \ T : \A y \in Nat \ T : m <= y
  BY LeastNumber
<1>2. m # 0 /\ m - 1 \in Nat
  BY <1>1
<1>3. m - 1 \in T
  BY <1>1, <1>2
<1>4. (m - 1) + 1 \in T
  BY <1>2, <1>3
<1> QED BY <1>1, <1>4

-----------------------------------------------------------------------------
\* How concatenations are grouped does not matter.
LEMMA Associative ==
  ASSUME NEW S
  PROVE  \A s, t, u \in Seq(S) : (s \o t) \o u = s \o (t \o u)
BY ConcatAssociative, SMTT(30)

\* f gives the concatenation of the first k sequences of s, for each k.
Flattens(f, s, S) ==
  /\ f \in [0 .. Len(s) -> Seq(S)]
  /\ f[0] = <<>>
  /\ \A k \in 1 .. Len(s) : f[k] = f[k - 1] \o s[k]

\* Nothing flattened is nothing.
LEMMA FlattenNothing == FlattenSeq(<<>>) = <<>>
BY DEF FlattenSeq

\* The first k sequences have a concatenation, for each k.
LEMMA FlattenExists ==
  ASSUME NEW S, NEW s \in Seq(Seq(S))
  PROVE  \E f : Flattens(f, s, S)
<1> DEFINE Has(n) == \E f \in [0 .. n -> Seq(S)] :
                       f[0] = <<>> /\ \A k \in 1 .. n : f[k] = f[k - 1] \o s[k]
           T == {n \in Nat : n <= Len(s) => Has(n)}
<1>0. /\ Len(s) \in Nat
      /\ \A k \in 1 .. Len(s) : s[k] \in Seq(S)
  BY LenProperties, ElementOfSeq
<1>1. 0 \in T
  <2>1. [k \in 0 .. 0 |-> <<>>] \in [0 .. 0 -> Seq(S)] /\ [k \in 0 .. 0 |-> <<>>][0] = <<>>
    BY EmptySeq
  <2>2. 1 .. 0 = {}
    OBVIOUS
  <2> QED BY <2>1, <2>2
<1>2. ASSUME NEW n \in Nat, n \in T PROVE n + 1 \in T
  <2> SUFFICES ASSUME n + 1 <= Len(s) PROVE Has(n + 1)
    <3> HIDE DEF Has
    <3> QED OBVIOUS
  <2>0. Has(n)
    <3> HIDE DEF Has
    <3> QED BY <1>2, <1>0
  <2>1. PICK f \in [0 .. n -> Seq(S)] :
          f[0] = <<>> /\ \A k \in 1 .. n : f[k] = f[k - 1] \o s[k]
    BY <2>0
  <2> DEFINE e == [k \in 0 .. n + 1 |-> IF k = n + 1 THEN f[n] \o s[n + 1] ELSE f[k]]
  <2>2. f[n] \o s[n + 1] \in Seq(S)
    <3>1. f[n] \in Seq(S) /\ s[n + 1] \in Seq(S)
      BY <2>1, <1>0
    <3> QED BY <3>1, ConcatProperties
  <2>3. e \in [0 .. n + 1 -> Seq(S)] /\ e[0] = <<>>
    BY <2>1, <2>2
  <2>4. ASSUME NEW k \in 1 .. n + 1 PROVE e[k] = e[k - 1] \o s[k]
    <3>1. k \in 0 .. n + 1 /\ k - 1 \in 0 .. n + 1 /\ k - 1 # n + 1
      OBVIOUS
    <3>2. e[k - 1] = f[k - 1]
      BY <3>1
    <3>3. CASE k = n + 1
      BY <3>1, <3>2, <3>3
    <3>4. CASE k # n + 1
      <4>1. k \in 1 .. n /\ e[k] = f[k]
        BY <3>4, <3>1
      <4> QED BY <2>1, <3>2, <4>1
    <3> QED BY <3>3, <3>4
  <2> HIDE DEF e
  <2> QED BY <2>3, <2>4
<1> HIDE DEF Has
<1>3. T = Nat
  <2>1. T \in SUBSET Nat
    OBVIOUS
  <2> HIDE DEF T
  <2> QED BY <1>1, <1>2, <2>1, Inductive
<1>4. Has(Len(s))
  BY <1>0, <1>3
<1> QED BY <1>4 DEF Has, Flattens

\* The recursion of FlattenSeq.
LEMMA FlattenIs ==
  ASSUME NEW S, NEW s \in Seq(Seq(S)), NEW f, Flattens(f, s, S)
  PROVE  FlattenSeq(s) = f[Len(s)]
<1>0. Len(s) \in Nat /\ \A k \in 1 .. Len(s) : s[k] \in Seq(S)
  BY LenProperties, ElementOfSeq
<1>1. CASE Len(s) = 0
  <2>1. s = <<>>
    BY <1>1, EmptySeq, <1>0
  <2> QED BY <2>1, <1>1, FlattenNothing DEF Flattens
<1>2. CASE Len(s) # 0
  <2> DEFINE n == Len(s)
             G(g) == [i \in 1 .. n |-> IF i = 1 THEN s[i] ELSE g[i - 1] \o s[i]]
             flatten == CHOOSE g : g = G(g)
             e == [i \in 1 .. n |-> f[i]]
  <2>1. FlattenSeq(s) = flatten[n]
    BY <1>2, Zenon DEF FlattenSeq
  <2>2. n \in Nat \ {0} /\ \A k \in 1 .. n : f[k] \in Seq(S) /\ f[k] = f[k - 1] \o s[k]
    <3>1. n \in Nat \ {0}
      BY <1>0, <1>2
    <3>2. \A k \in 1 .. n : f[k] = f[k - 1] \o s[k]
      BY DEF Flattens
    <3>3. f \in [0 .. n -> Seq(S)] /\ \A k \in 1 .. n : k \in 0 .. n
      BY DEF Flattens
    <3>4. \A k \in 1 .. n : f[k] \in Seq(S)
      BY <3>3
    <3> QED BY <3>1, <3>2, <3>4
  <2>3. f[1] = s[1]
    <3>0. 1 \in 1 .. n /\ 1 - 1 = 0
      BY <2>2
    <3>1. f[1] = f[0] \o s[1] /\ f[0] = <<>> /\ s[1] \in Seq(S)
      BY <3>0, <2>2, <1>0 DEF Flattens
    <3> QED BY <3>1, ConcatEmptySeq
  <2>4. e = G(e)
    <3>1. ASSUME NEW i \in 1 .. n
          PROVE  e[i] = IF i = 1 THEN s[i] ELSE e[i - 1] \o s[i]
      <4>1. CASE i = 1
        BY <4>1, <2>3
      <4>2. CASE i # 1
        <5>1. i - 1 \in 1 .. n
          BY <4>2, <2>2
        <5>2. e[i - 1] = f[i - 1] /\ e[i] = f[i]
          BY <5>1
        <5> QED BY <4>2, <5>2, <2>2
      <4> QED BY <4>1, <4>2
    <3> HIDE DEF n
    <3> QED BY <3>1
  <2>5. flatten = G(flatten)
    <3> HIDE DEF e, G
    <3> QED BY <2>4
  <2>6. \A i \in 1 .. n : flatten[i] = IF i = 1 THEN s[i] ELSE flatten[i - 1] \o s[i]
    <3> HIDE DEF flatten, n
    <3> QED BY <2>5
  <2> HIDE DEF flatten
  <2> DEFINE T == {k \in Nat : k \in 1 .. n => flatten[k] = f[k]}
  <2>7. T = Nat
    <3>1. 0 \in T
      OBVIOUS
    <3>2. ASSUME NEW k \in Nat, k \in T PROVE k + 1 \in T
      <4> SUFFICES ASSUME k + 1 \in 1 .. n PROVE flatten[k + 1] = f[k + 1]
        OBVIOUS
      <4>1. CASE k = 0
        BY <4>1, <2>3, <2>6
      <4>2. CASE k # 0
        <5>1. k \in 1 .. n /\ flatten[k] = f[k] /\ (k + 1) - 1 = k /\ k + 1 # 1
          BY <4>2, <3>2, <2>2
        <5>2. flatten[k + 1] = flatten[(k + 1) - 1] \o s[k + 1]
          BY <5>1, <2>6
        <5>3. f[k + 1] = f[(k + 1) - 1] \o s[k + 1]
          BY <2>2
        <5> QED BY <5>1, <5>2, <5>3
      <4> QED BY <4>1, <4>2
    <3>3. T \in SUBSET Nat
      OBVIOUS
    <3> HIDE DEF T
    <3> QED BY <3>1, <3>2, <3>3, Inductive
  <2> QED BY <2>1, <2>2, <2>7
<1> QED BY <1>1, <1>2

\* The sequences put after one another, as one more is put at the end.
LEMMA FlattenAppend ==
  ASSUME NEW S, NEW s \in Seq(Seq(S)), NEW x \in Seq(S)
  PROVE  /\ FlattenSeq(s) \in Seq(S)
         /\ FlattenSeq(Append(s, x)) = FlattenSeq(s) \o x
<1>1. PICK f : Flattens(f, s, S)
  BY FlattenExists
<1> DEFINE n == Len(s)
           t == Append(s, x)
           e == [k \in 0 .. n + 1 |-> IF k = n + 1 THEN f[n] \o x ELSE f[k]]
<1>2. /\ n \in Nat /\ Len(t) = n + 1 /\ t \in Seq(Seq(S))
      /\ \A k \in 1 .. n : t[k] = s[k]
      /\ t[n + 1] = x
  BY LenProperties, AppendProperties
<1>3. f[n] \in Seq(S) /\ f[n] \o x \in Seq(S)
  <2>1. f[n] \in Seq(S)
    BY <1>1, <1>2 DEF Flattens
  <2> QED BY <2>1, ConcatProperties
<1> HIDE DEF t
<1>4. Flattens(e, t, S)
  <2>1. e \in [0 .. Len(t) -> Seq(S)] /\ e[0] = <<>>
    BY <1>1, <1>2, <1>3 DEF Flattens
  <2>2. ASSUME NEW k \in 1 .. n + 1 PROVE e[k] = e[k - 1] \o t[k]
    <3>1. k \in 0 .. n + 1 /\ k - 1 \in 0 .. n + 1 /\ k - 1 # n + 1 /\ (k = n + 1 => k - 1 = n)
      BY <1>2
    <3>2. e[k - 1] = f[k - 1]
      BY <3>1
    <3>3. CASE k = n + 1
      BY <3>1, <3>2, <3>3, <1>2
    <3>4. CASE k # n + 1
      <4>1. k \in 1 .. n /\ e[k] = f[k]
        BY <3>4, <3>1
      <4>2. f[k] = f[k - 1] \o s[k] /\ t[k] = s[k]
        BY <4>1, <1>1, <1>2 DEF Flattens
      <4> QED BY <3>2, <4>1, <4>2
    <3> QED BY <3>3, <3>4
  <2> HIDE DEF e
  <2> QED BY <2>1, <2>2, <1>2 DEF Flattens
<1>5. FlattenSeq(t) = e[n + 1] /\ FlattenSeq(s) = f[n]
  <2> HIDE DEF e
  <2> QED BY <1>1, <1>2, <1>4, FlattenIs
<1> QED BY <1>2, <1>3, <1>5 DEF t

\* f adds x in front of what it gives.
LEMMA FlattenCons ==
  ASSUME NEW S, NEW s \in Seq(Seq(S)), NEW x \in Seq(S)
  PROVE  /\ <<x>> \o s \in Seq(Seq(S))
         /\ FlattenSeq(<<x>> \o s) = x \o FlattenSeq(s)
<1>1. PICK f : Flattens(f, s, S)
  BY FlattenExists
<1> DEFINE n == Len(s)
           t == <<x>> \o s
           e == [k \in 0 .. n + 1 |-> IF k = 0 THEN <<>> ELSE x \o f[k - 1]]
<1>2. /\ n \in Nat /\ t \in Seq(Seq(S)) /\ Len(t) = n + 1
      /\ t[1] = x /\ \A k \in 2 .. n + 1 : t[k] = s[k - 1]
      /\ \A k \in 1 .. n : s[k] \in Seq(S)
  <2>1. <<x>> \in Seq(Seq(S)) /\ Len(<<x>>) = 1 /\ <<x>>[1] = x
    OBVIOUS
  <2>2. /\ t \in Seq(Seq(S)) /\ Len(t) = 1 + n
        /\ \A k \in 1 .. 1 + n : t[k] = IF k <= 1 THEN <<x>>[k] ELSE s[k - 1]
    <3>1. \A u, v \in Seq(Seq(S)) :
            /\ u \o v \in Seq(Seq(S)) /\ Len(u \o v) = Len(u) + Len(v)
            /\ \A k \in 1 .. Len(u) + Len(v) :
                 (u \o v)[k] = IF k <= Len(u) THEN u[k] ELSE v[k - Len(u)]
      BY ConcatProperties
    <3> QED BY <2>1, <3>1
  <2>3. n \in Nat /\ \A k \in 1 .. n : s[k] \in Seq(S)
    BY LenProperties, ElementOfSeq
  <2> HIDE DEF t
  <2>4. Len(t) = n + 1 /\ t[1] = x
    BY <2>1, <2>2, <2>3
  <2>5. \A k \in 2 .. n + 1 : t[k] = s[k - 1]
    BY <2>2, <2>3
  <2> QED BY <2>2, <2>3, <2>4, <2>5
<1>3. /\ f \in [0 .. n -> Seq(S)] /\ f[0] = <<>>
      /\ \A k \in 1 .. n : f[k] = f[k - 1] \o s[k]
  BY <1>1 DEF Flattens
<1> HIDE DEF t
<1>4. Flattens(e, t, S)
  <2>1. e \in [0 .. Len(t) -> Seq(S)] /\ e[0] = <<>>
    <3>1. <<>> \in Seq(S) /\ \A u \in Seq(S) : x \o u \in Seq(S)
      BY EmptySeq, ConcatProperties
    <3> QED BY <1>2, <1>3, <3>1
  <2>2. ASSUME NEW k \in 1 .. n + 1 PROVE e[k] = e[k - 1] \o t[k]
    <3>0. k \in 0 .. n + 1 /\ k - 1 \in 0 .. n + 1 /\ k # 0
      BY <1>2
    <3>1. e[k] = x \o f[k - 1]
      BY <3>0
    <3>2. CASE k = 1
      <4>1. x \o <<>> = x /\ <<>> \o x = x
        BY ConcatEmptySeq
      <4>2. e[k] = x \o f[0] /\ e[k - 1] = <<>> /\ t[k] = x
        BY <3>0, <3>1, <3>2, <1>2
      <4> QED BY <4>1, <4>2, <1>3
    <3>3. CASE k # 1
      <4>1. /\ k - 1 \in 1 .. n /\ k \in 2 .. n + 1
            /\ k - 2 \in 0 .. n /\ (k - 1) - 1 = k - 2 /\ k - 1 # 0
        BY <3>0, <3>3, <1>2
      <4>2. f[k - 1] = f[k - 2] \o s[k - 1]
        <5>1. f[k - 1] = f[(k - 1) - 1] \o s[k - 1]
          BY <4>1, <1>3
        <5> QED BY <4>1, <5>1
      <4>3. e[k - 1] = x \o f[k - 2]
        <5>1. e[k - 1] = x \o f[(k - 1) - 1]
          BY <3>0, <4>1
        <5> QED BY <4>1, <5>1
      <4>4. f[k - 2] \in Seq(S) /\ s[k - 1] \in Seq(S) /\ t[k] = s[k - 1]
        BY <4>1, <1>2, <1>3
      <4>5. \A u, v \in Seq(S) : (x \o u) \o v = x \o (u \o v)
        BY Associative
      <4>6. (x \o f[k - 2]) \o s[k - 1] = x \o (f[k - 2] \o s[k - 1])
        BY <4>4, <4>5
      <4> HIDE DEF e
      <4> QED BY <3>1, <4>2, <4>3, <4>4, <4>6
    <3> QED BY <3>2, <3>3
  <2> HIDE DEF e
  <2> QED BY <2>1, <2>2, <1>2 DEF Flattens
<1>5. FlattenSeq(t) = e[n + 1] /\ FlattenSeq(s) = f[n]
  <2> HIDE DEF e
  <2> QED BY <1>1, <1>2, <1>4, FlattenIs
<1>6. e[n + 1] = x \o f[n]
  <2>1. n + 1 \in 0 .. n + 1 /\ n + 1 # 0 /\ (n + 1) - 1 = n
    BY <1>2
  <2>2. e[n + 1] = x \o f[(n + 1) - 1]
    BY <2>1
  <2> QED BY <2>1, <2>2
<1> HIDE DEF e
<1> QED BY <1>2, <1>5, <1>6 DEF t

\* The first of the sequences comes first.
LEMMA FlattenHead ==
  ASSUME NEW S, NEW s \in Seq(Seq(S)), s # <<>>
  PROVE  /\ Head(s) \in Seq(S) /\ Tail(s) \in Seq(Seq(S))
         /\ FlattenSeq(s) = Head(s) \o FlattenSeq(Tail(s))
<1>1. Head(s) \in Seq(S) /\ Tail(s) \in Seq(Seq(S))
  BY HeadTailProperties
<1>2. s = <<Head(s)>> \o Tail(s)
  OBVIOUS
<1> QED BY <1>1, <1>2, FlattenCons

\* What is flattened has the elements of its parts.
LEMMA FlattenType ==
  ASSUME NEW S, NEW s \in Seq(Seq(S))
  PROVE  FlattenSeq(s) \in Seq(S)
<1>1. <<>> \in Seq(S)
  BY EmptySeq
<1> QED BY <1>1, FlattenAppend

-----------------------------------------------------------------------------
\* At most the smaller of two numbers.
LEMMA LeastOfTwo ==
  ASSUME NEW a \in Int, NEW b \in Int, NEW r \in 1 .. Min({a, b})
  PROVE  r <= a /\ r <= b
<1>1. \E x \in {a, b} : \A y \in {a, b} : x <= y
  <2>1. CASE a <= b
    BY <2>1
  <2>2. CASE ~(a <= b)
    BY <2>2
  <2> QED BY <2>1, <2>2
<1>2. \A y \in {a, b} : Min({a, b}) <= y
  BY <1>1 DEF Min
<1>3. Min({a, b}) \in {a, b}
  BY <1>1 DEF Min
<1>4. Min({a, b}) \in Int
  BY <1>3
<1>5. Min({a, b}) <= a /\ Min({a, b}) <= b
  BY <1>2
<1>6. r \in Int /\ r <= Min({a, b})
  <2> HIDE DEF Min
  <2> QED BY <1>4
<1> HIDE DEF Min
<1> QED BY <1>4, <1>5, <1>6

\* A number has one quotient and one remainder.
LEMMA DivMod ==
  ASSUME NEW m \in Nat \ {0}, NEW a \in Int
  PROVE  a % m \in 0 .. m - 1 /\ a = m * (a \div m) + (a % m) /\ a \div m \in Int
  OBVIOUS

\* What is a multiple and a small rest has that rest as its remainder.
LEMMA ModUnique ==
  ASSUME NEW m \in Nat \ {0}, NEW a \in Int, NEW q \in Int, NEW r \in 0 .. m - 1,
         a = q * m + r
  PROVE  a % m = r
<1> DEFINE p == a \div m
           s == a % m
<1>1. p \in Int /\ s \in 0 .. m - 1 /\ a = m * p + s
  OBVIOUS
<1> HIDE DEF p, s
<1>2. CASE q = p
  BY <1>1, <1>2 DEF s
<1>3. CASE q < p
  <2>1. m * q + m <= m * p
    BY <1>1, <1>3
  <2> QED
    BY <1>1, <2>1
<1>4. CASE q > p
  <2>1. m * p + m <= m * q
    BY <1>1, <1>4
  <2> QED
    BY <1>1, <2>1
<1> QED
  BY <1>1, <1>2, <1>3, <1>4 DEF s

\* A small number is its own remainder.
LEMMA SmallMod ==
  ASSUME NEW m \in Nat \ {0}, NEW x \in 0 .. m - 1
  PROVE  x % m = x
  OBVIOUS

\* So is the quotient.
LEMMA DivUnique ==
  ASSUME NEW m \in Nat \ {0}, NEW a \in Int, NEW q \in Int, NEW r \in 0 .. m - 1,
         a = q * m + r
  PROVE  a % m = r /\ a \div m = q
<1>1. a % m = r
  BY ModUnique
<1> DEFINE d == a \div m
<1>2. d \in Int /\ a = m * d + r
  BY <1>1, DivMod
<1> HIDE DEF d
<1>3. m * d = q * m
  BY <1>2
<1>4. d = q
  <2>1. ASSUME d < q PROVE FALSE
    <3>1. m * d + m <= q * m
      BY <1>2, <2>1
    <3> QED BY <1>2, <1>3, <3>1
  <2>2. ASSUME q < d PROVE FALSE
    <3>1. q * m + m <= m * d
      BY <1>2, <2>2
    <3> QED BY <1>2, <1>3, <3>1
  <2> QED BY <1>2, <2>1, <2>2
<1> QED BY <1>1, <1>4 DEF d

\* The quotient of a multiple.
LEMMA WholeQuotient ==
  ASSUME NEW m \in Nat \ {0}, NEW q \in Int
  PROVE  (q * m) \div m = q
<1>1. q * m \in Int /\ 0 \in 0 .. m - 1 /\ q * m = q * m + 0
  OBVIOUS
<1> QED BY <1>1, DivUnique

\* The quotient and the remainder of a number, and of the next one.
LEMMA NextPlace ==
  ASSUME NEW m \in Nat \ {0}, NEW a \in Nat
  PROVE  /\ a \div m \in Nat /\ a % m \in 0 .. m - 1 /\ a = (a \div m) * m + (a % m)
         /\ (a % m) + 1 < m => (a + 1) \div m = a \div m /\ (a + 1) % m = (a % m) + 1
         /\ (a % m) + 1 = m => (a + 1) \div m = a \div m + 1 /\ (a + 1) % m = 0
         /\ ((a % m) + 1) % m = (a + 1) % m
         /\ \A z \in Nat : a < m * z => a \div m < z
<1> DEFINE d == a \div m
           r == a % m
<1>1. d \in Int /\ r \in 0 .. m - 1 /\ a = m * d + r
  <2>1. a \in Int
    OBVIOUS
  <2> QED BY <2>1, DivMod
<1>2. d \in Nat
  <2> HIDE DEF d, r
  <2>1. ASSUME d <= -1 PROVE FALSE
    <3>1. m * d <= -m
      BY <1>1, <2>1
    <3> QED BY <1>1, <3>1
  <2> QED BY <1>1, <2>1
<1>3. d * m = m * d
  <2> HIDE DEF d
  <2> QED BY <1>2
<1>4. ASSUME r + 1 < m PROVE (a + 1) \div m = d /\ (a + 1) % m = r + 1 /\ (r + 1) % m = r + 1
  <2> HIDE DEF d, r
  <2>1. a + 1 \in Int /\ a + 1 = d * m + (r + 1) /\ r + 1 \in 0 .. m - 1
    BY <1>1, <1>2, <1>3, <1>4
  <2>2. (a + 1) % m = r + 1 /\ (a + 1) \div m = d
    BY <1>1, <2>1, DivUnique
  <2>3. (r + 1) % m = r + 1
    BY <2>1, SmallMod
  <2> QED BY <2>2, <2>3
<1>5. ASSUME r + 1 = m PROVE (a + 1) \div m = d + 1 /\ (a + 1) % m = 0 /\ (r + 1) % m = 0
  <2> HIDE DEF d, r
  <2>1. (d + 1) * m = d * m + m
    BY <1>1
  <2>2. a + 1 \in Int /\ d + 1 \in Int /\ a + 1 = (d + 1) * m + 0 /\ 0 \in 0 .. m - 1
    BY <1>1, <1>2, <1>3, <1>5, <2>1
  <2>3. (a + 1) % m = 0 /\ (a + 1) \div m = d + 1
    BY <2>2, DivUnique
  <2>4. m = 1 * m + 0
    OBVIOUS
  <2>5. m % m = 0
    BY <2>2, <2>4, ModUnique
  <2> QED BY <1>5, <2>3, <2>5
<1>6. ASSUME NEW z \in Nat, a < m * z PROVE d < z
  <2> HIDE DEF d, r
  <2>1. ASSUME z <= d PROVE FALSE
    <3>1. m * z <= m * d
      BY <1>1, <2>1
    <3> QED BY <1>1, <1>6, <3>1
  <2> QED BY <1>1, <2>1
<1>7. (r + 1) % m = (a + 1) % m
  <2>1. r + 1 < m \/ r + 1 = m
    <3> HIDE DEF r
    <3> QED BY <1>1
  <2>2. CASE r + 1 < m
    BY <1>4, <2>2
  <2>3. CASE r + 1 = m
    BY <1>5, <2>3
  <2> QED BY <2>1, <2>2, <2>3
<1> QED BY <1>1, <1>2, <1>3, <1>4, <1>5, <1>6, <1>7
-----------------------------------------------------------------------------
\* g sums f over the members of F, a family with all that its members contain:
\* a sum is found one member at a time.
AnyOf(T) == CHOOSE t \in T : TRUE
Sums(F, f, g) ==
  g = [T \in F |-> IF T = {} THEN 0 ELSE f[AnyOf(T)] + g[T \ {AnyOf(T)}]]

\* There are such sums for all subsets of a finite set.
LEMMA SumsExist ==
  ASSUME NEW S, IsFiniteSet(S), NEW f, \A t \in S : f[t] \in Nat
  PROVE  \E g \in [SUBSET S -> Nat] : Sums(SUBSET S, f, g)
<1> DEFINE Small(n) == {T \in SUBSET S : Cardinality(T) <= n}
           Good(n) == \E g \in [Small(n) -> Nat] : Sums(Small(n), f, g)
<1>1. \A T \in SUBSET S : IsFiniteSet(T) /\ Cardinality(T) \in Nat
  BY FS_Subset, FS_CardinalityType
<1>2. \A T \in SUBSET S : T # {} => /\ AnyOf(T) \in T
                                    /\ T \ {AnyOf(T)} \in SUBSET S
                                    /\ Cardinality(T \ {AnyOf(T)}) = Cardinality(T) - 1
  <2> TAKE T \in SUBSET S
  <2> HAVE T # {}
  <2>1. AnyOf(T) \in T
    BY DEF AnyOf
  <2>2. Cardinality(T \ {AnyOf(T)}) = Cardinality(T) - 1
    BY <2>1, <1>1, FS_RemoveElement
  <2> QED BY <2>1, <2>2
<1>3. Good(0)
  <2>1. Small(0) = {{}}
    <3>1. Cardinality({}) = 0
      BY FS_EmptySet
    <3>2. \A T \in Small(0) : T = {}
      BY <1>1, FS_EmptySet
    <3> QED BY <3>1, <3>2
  <2>2. [T \in Small(0) |-> 0] \in [Small(0) -> Nat]
    OBVIOUS
  <2>3. Sums(Small(0), f, [T \in Small(0) |-> 0])
    BY <2>1 DEF Sums
  <2> QED BY <2>2, <2>3
<1>4. ASSUME NEW n \in Nat, Good(n)
      PROVE  Good(n + 1)
  <2>1. PICK g \in [Small(n) -> Nat] : Sums(Small(n), f, g)
    BY <1>4
  <2> DEFINE h == [T \in Small(n + 1) |->
                     IF T = {} THEN 0 ELSE f[AnyOf(T)] + g[T \ {AnyOf(T)}]]
  <2>2. \A T \in Small(n + 1) : T # {} => T \ {AnyOf(T)} \in Small(n)
    BY <1>1, <1>2
  <2>3. Small(n) \subseteq Small(n + 1)
    BY <1>1
  <2>4. \A T \in Small(n) : h[T] = g[T]
    BY <2>1, <2>3 DEF Sums
  <2>5. h \in [Small(n + 1) -> Nat]
    BY <1>2, <2>2
  <2>6. Sums(Small(n + 1), f, h)
    BY <2>2, <2>4 DEF Sums
  <2> QED BY <2>5, <2>6
<1>5. \A n \in Nat : Good(n)
  <2>1. SUFFICES ASSUME {n \in Nat : ~Good(n)} # {} PROVE FALSE
    OBVIOUS
  <2>2. PICK n \in {m \in Nat : ~Good(m)} : \A m \in {k \in Nat : ~Good(k)} : n <= m
    <3> DEFINE Bad == {m \in Nat : ~Good(m)}
    <3> HIDE DEF Good
    <3> QED BY <2>1, LeastNumber
  <2> HIDE DEF Good
  <2>3. n # 0 /\ n - 1 \in Nat /\ Good(n - 1)
    BY <1>3, <2>2
  <2>4. Good((n - 1) + 1)
    BY <1>4, <2>3
  <2> QED BY <2>2, <2>3, <2>4
<1>6. Small(Cardinality(S)) = SUBSET S
  BY <1>1, FS_Subset, FS_CardinalityType
<1>7. Cardinality(S) \in Nat
  BY FS_CardinalityType
<1>8. Good(Cardinality(S))
  BY <1>5, <1>7
<1> QED BY <1>6, <1>8

\* All of them are natural numbers.
LEMMA SumsAreNat ==
  ASSUME NEW S, IsFiniteSet(S), NEW f, \A t \in S : f[t] \in Nat,
         NEW g, Sums(SUBSET S, f, g)
  PROVE  g[S] \in Nat /\ \A T \in SUBSET S : g[T] \in Nat
<1> DEFINE Bad == {T \in SUBSET S : g[T] \notin Nat}
           Counts == {Cardinality(T) : T \in Bad}
<1>1. \A T \in SUBSET S : IsFiniteSet(T) /\ Cardinality(T) \in Nat
  BY FS_Subset, FS_CardinalityType
<1>2. SUFFICES ASSUME Bad # {} PROVE FALSE
  OBVIOUS
<1>3. Counts \subseteq Nat /\ Counts # {}
  BY <1>1, <1>2
<1> HIDE DEF Counts
<1>4. PICK n \in Counts : \A m \in Counts : n <= m
  BY <1>3, LeastNumber
<1>5. PICK T \in Bad : n = Cardinality(T)
  BY DEF Counts
<1>6. g[T] = IF T = {} THEN 0 ELSE f[AnyOf(T)] + g[T \ {AnyOf(T)}]
  BY DEF Sums
<1>7. T # {}
  BY <1>6
<1>8. AnyOf(T) \in T
  BY <1>7 DEF AnyOf
<1>9. Cardinality(T \ {AnyOf(T)}) = Cardinality(T) - 1 /\ Cardinality(T) \in Nat
  BY <1>8, <1>1, FS_RemoveElement
<1>10. T \ {AnyOf(T)} \notin Bad
  BY <1>4, <1>5, <1>9 DEF Counts
<1>11. g[T \ {AnyOf(T)}] \in Nat
  BY <1>10
<1> QED
  BY <1>6, <1>7, <1>8, <1>11

\* Whichever member is taken first, the sum is the same.
LEMMA AnyFirst ==
  ASSUME NEW S, IsFiniteSet(S), NEW f, \A t \in S : f[t] \in Nat,
         NEW g, Sums(SUBSET S, f, g)
  PROVE  \A T \in SUBSET S : g[T] \in Nat /\ \A x \in T : g[T] = f[x] + g[T \ {x}]
<1> DEFINE Bad == {T \in SUBSET S : ~\A x \in T : g[T] = f[x] + g[T \ {x}]}
           Counts == {Cardinality(T) : T \in Bad}
<1>1. \A T \in SUBSET S : IsFiniteSet(T) /\ Cardinality(T) \in Nat
  BY FS_Subset, FS_CardinalityType
<1>2. \A T \in SUBSET S : g[T] \in Nat
  BY SumsAreNat
<1>3. \A T \in SUBSET S : T # {} => AnyOf(T) \in T /\ g[T] = f[AnyOf(T)] + g[T \ {AnyOf(T)}]
  BY DEF Sums, AnyOf
<1>4. SUFFICES ASSUME Bad # {} PROVE FALSE
  BY <1>2
<1>5. Counts \subseteq Nat /\ Counts # {}
  BY <1>1, <1>4
<1> HIDE DEF Counts
<1>6. PICK n \in Counts : \A m \in Counts : n <= m
  BY <1>5, LeastNumber
<1>7. PICK T \in Bad : n = Cardinality(T)
  BY DEF Counts
<1>8. PICK x \in T : g[T] # f[x] + g[T \ {x}]
  BY <1>7
<1> DEFINE a == AnyOf(T)
<1>9. a \in T /\ a # x /\ g[T] = f[a] + g[T \ {a}]
  BY <1>3, <1>7, <1>8
<1> HIDE DEF a
<1>10. ASSUME NEW y \in T PROVE T \ {y} \in SUBSET S /\ T \ {y} \notin Bad
  <2>1. Cardinality(T \ {y}) = Cardinality(T) - 1 /\ Cardinality(T) \in Nat
    BY <1>1, <1>7, FS_RemoveElement
  <2>2. T \ {y} \in SUBSET S
    BY <1>7
  <2>3. ASSUME T \ {y} \in Bad PROVE FALSE
    <3>1. Cardinality(T \ {y}) \in Counts
      BY <2>3 DEF Counts
    <3>2. Cardinality(T) <= Cardinality(T \ {y})
      BY <1>6, <1>7, <3>1
    <3> QED BY <2>1, <3>2
  <2> QED BY <2>2, <2>3
<1>11. g[T \ {a}] = f[x] + g[(T \ {a}) \ {x}]
  BY <1>9, <1>10
<1>12. g[T \ {x}] = f[a] + g[(T \ {x}) \ {a}]
  BY <1>9, <1>10
<1>13. (T \ {a}) \ {x} = (T \ {x}) \ {a} /\ (T \ {a}) \ {x} \in SUBSET S
  BY <1>7
<1>14. f[a] \in Nat /\ f[x] \in Nat /\ g[(T \ {a}) \ {x}] \in Nat
  BY <1>2, <1>7, <1>9, <1>13
<1>15. PICK m, c, d \in Nat : m = g[(T \ {a}) \ {x}] /\ c = f[a] /\ d = f[x]
  BY <1>14
<1>16. g[T] = c + (d + m) /\ f[x] + g[T \ {x}] = d + (c + m)
  BY <1>9, <1>11, <1>12, <1>13, <1>15
<1>17. c + (d + m) = d + (c + m)
  OBVIOUS
<1> QED BY <1>8, <1>16, <1>17

\* What FoldFunction(+, 0, f) is for an f with the domain D.
AllSums(D, f) ==
  CHOOSE g : g = [T \in SUBSET D |->
    IF T = {} THEN 0
    ELSE f[CHOOSE t \in T : TRUE] + g[T \ {CHOOSE t \in T : TRUE}]]
FoldSum(D, f) == AllSums(D, f)[D]

\* These are all the sums.
LEMMA AllSumsAre ==
  ASSUME NEW D, IsFiniteSet(D), NEW f, \A t \in D : f[t] \in Nat
  PROVE  /\ AllSums(D, f)[{}] = 0
         /\ \A T \in SUBSET D :
              /\ AllSums(D, f)[T] \in Nat
              /\ \A x \in T : AllSums(D, f)[T] = f[x] + AllSums(D, f)[T \ {x}]
<1> DEFINE Is(h) == h = [T \in SUBSET D |->
                           IF T = {} THEN 0 ELSE f[AnyOf(T)] + h[T \ {AnyOf(T)}]]
<1>1. PICK g \in [SUBSET D -> Nat] : Sums(SUBSET D, f, g)
  BY SumsExist
<1>2. \A h : Sums(SUBSET D, f, h) <=> Is(h)
  BY DEF Sums
<1>3. AllSums(D, f) = CHOOSE h : Is(h)
  BY DEF AnyOf, AllSums
<1> HIDE DEF Is
<1>4. Is(AllSums(D, f))
  BY <1>1, <1>2, <1>3
<1>5. Sums(SUBSET D, f, AllSums(D, f))
  BY <1>2, <1>4
<1>6. AllSums(D, f)[{}] = 0
  BY <1>5 DEF Sums
<1>7. ASSUME NEW h, Sums(SUBSET D, f, h), NEW T \in SUBSET D
      PROVE  h[T] \in Nat
  BY <1>7, AnyFirst
<1>8. ASSUME NEW h, Sums(SUBSET D, f, h), NEW T \in SUBSET D, NEW x \in T
      PROVE  h[T] = f[x] + h[T \ {x}]
  BY <1>8, AnyFirst
<1> QED BY <1>5, <1>6, <1>7, <1>8

\* The sum of a sequence of numbers: P[k] is the sum of the first k.
LEMMA SumIs ==
  ASSUME NEW n \in Nat, NEW f, \A k \in 1 .. n : f[k] \in Nat, NEW P, P[0] = 0,
         \A k \in 1 .. n : P[k] = P[k - 1] + f[k]
  PROVE  FoldSum(1 .. n, f) = P[n]
<1> DEFINE D == 1 .. n
           G == AllSums(D, f)
<1>1. FoldSum(D, f) = G[D]
  BY DEF FoldSum
<1>2. IsFiniteSet(D) /\ \A t \in D : f[t] \in Nat
  <2>1. 1 \in Int /\ n \in Int
    OBVIOUS
  <2> QED BY <2>1, FS_Interval
<1>3. /\ G[{}] = 0
      /\ \A T \in SUBSET D : G[T] \in Nat /\ \A x \in T : G[T] = f[x] + G[T \ {x}]
  <2> HIDE DEF D
  <2>1. G[{}] = 0
    BY <1>2, AllSumsAre
  <2>2. ASSUME NEW T \in SUBSET D PROVE G[T] \in Nat
    BY <1>2, AllSumsAre
  <2>3. ASSUME NEW T \in SUBSET D, NEW x \in T PROVE G[T] = f[x] + G[T \ {x}]
    BY <1>2, AllSumsAre
  <2> QED BY <2>1, <2>2, <2>3
<1>5. \A T \in SUBSET D : G[T] \in Nat /\ \A x \in T : G[T] = f[x] + G[T \ {x}]
  BY <1>3
<1>6. G[{}] = 0
  BY <1>3
<1> HIDE DEF G
<1> DEFINE K == {k \in Nat : k <= n => G[1 .. k] = P[k]}
<1>7. 0 \in K
  <2>1. 1 .. 0 = {}
    OBVIOUS
  <2> QED BY <1>6, <2>1
<1>8. ASSUME NEW k \in Nat, k \in K PROVE k + 1 \in K
  <2> SUFFICES ASSUME k + 1 <= n PROVE G[1 .. k + 1] = P[k + 1]
    OBVIOUS
  <2>1. G[1 .. k] = P[k] /\ k + 1 \in 1 .. n
    BY <1>8
  <2>2. 1 .. k + 1 \in SUBSET D /\ k + 1 \in 1 .. k + 1 /\ (1 .. k + 1) \ {k + 1} = 1 .. k
    BY <2>1
  <2>3. G[1 .. k + 1] = f[k + 1] + G[1 .. k]
    <3> HIDE DEF D
    <3> QED BY <1>5, <2>2
  <2>4. P[k + 1] = P[(k + 1) - 1] + f[k + 1] /\ (k + 1) - 1 = k
    BY <2>1
  <2>5. f[k + 1] \in Nat /\ P[k] \in Nat
    <3>1. 1 .. k \in SUBSET D
      BY <2>1
    <3>2. G[1 .. k] \in Nat
      <4> HIDE DEF D
      <4> QED BY <1>5, <3>1
    <3> QED BY <2>1, <3>2
  <2> QED BY <2>1, <2>3, <2>4, <2>5
<1>9. K = Nat
  <2>1. K \in SUBSET Nat
    OBVIOUS
  <2> HIDE DEF K
  <2> QED BY <1>7, <1>8, <2>1, Inductive
<1> QED BY <1>1, <1>9
=============================================================================
