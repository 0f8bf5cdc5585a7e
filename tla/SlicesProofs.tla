---------------------------- MODULE SlicesProofs ----------------------------
(***************************************************************************)
(* Proofs about module Slices: the types of its operators, and the algebra *)
(* of sketches that the proofs about whoever builds, sends or peels a raw  *)
(* IBLT rest on: one more hit of a bucket, or one less, is one call of     *)
(* frob_bucket, also when the s16 counters overflow.                       *)
(***************************************************************************)
EXTENDS Slices, CommonLemmas, FiniteSetTheorems, TLAPS

-----------------------------------------------------------------------------
(* Arithmetic modulo m, and what an s16 keeps of an int. *)

LEMMA ModInjective ==
  ASSUME NEW m \in Nat \ {0}, NEW b \in 0 .. m - 1,
         NEW x \in 0 .. m - 2, NEW y \in 0 .. m - 2, (x + b) % m = (y + b) % m
  PROVE  x = y
  OBVIOUS

LEMMA ModAdd ==
  ASSUME NEW m \in Nat \ {0}, NEW a \in Int, NEW q \in Int
  PROVE  (a + q * m) % m = a % m
<1>1. a % m \in 0 .. m - 1 /\ a = m * (a \div m) + (a % m) /\ a \div m \in Int
  BY DivMod
<1>2. a + q * m = (a \div m + q) * m + (a % m)
  BY <1>1
<1>3. a \div m + q \in Int /\ a + q * m \in Int
  BY <1>1
<1> QED
  BY <1>1, <1>2, <1>3, ModUnique

\* Whatever is added to a counter, it stays an s16 (raw_iblt::frob_bucket).
LEMMA WrapType == \A x \in Int : Wrap(x) \in Counter
  BY FieldsAssumption DEF Wrap, Counter

\* An s16 forgets multiples of 2^16 and nothing else.
LEMMA WrapShift ==
  ASSUME NEW x \in Int, NEW k \in Int
  PROVE  Wrap(x + k * (2 * S16)) = Wrap(x)
<1> DEFINE m == 2 * S16
<1>1. m \in Nat \ {0} /\ S16 \in Int /\ x + S16 \in Int
  BY FieldsAssumption
<1> HIDE DEF m
<1>2. (x + S16) + k * m = x + k * m + S16
  BY <1>1
<1>3. ((x + S16) + k * m) % m = (x + S16) % m
  BY <1>1, ModAdd
<1> QED
  BY <1>2, <1>3 DEF Wrap, m

LEMMA WrapIsShift ==
  ASSUME NEW x \in Int
  PROVE  \E k \in Int : Wrap(x) = x + k * (2 * S16)
<1> DEFINE m == 2 * S16
           p == (x + S16) \div m
<1>1. m \in Nat \ {0} /\ S16 \in Int /\ x + S16 \in Int
  BY FieldsAssumption
<1> HIDE DEF m
<1>2. x + S16 = m * p + ((x + S16) % m) /\ p \in Int /\ (x + S16) % m \in Int
  BY <1>1, DivMod
<1> HIDE DEF p
<1>3. Wrap(x) = x - m * p
  <2>1. Wrap(x) = ((x + S16) % m) - S16
    BY DEF Wrap, m
  <2>2. m * p \in Int
    BY <1>1, <1>2
  <2> QED
    BY <1>1, <1>2, <2>1, <2>2
<1>4. Wrap(x) = x + (0 - p) * m /\ 0 - p \in Int
  BY <1>1, <1>2, <1>3
<1> QED
  BY <1>4 DEF m

\* Truncating a counter at every step is as good as truncating it once.
LEMMA WrapAdd ==
  ASSUME NEW x \in Int, NEW d \in Int
  PROVE  Wrap(Wrap(x) + d) = Wrap(x + d)
<1>1. PICK k \in Int : Wrap(x) = x + k * (2 * S16)
  BY WrapIsShift
<1>2. S16 \in Int /\ k * (2 * S16) \in Int
  BY FieldsAssumption
<1>3. Wrap(x) + d = (x + d) + k * (2 * S16)
  BY <1>1, <1>2
<1>4. x + d \in Int
  OBVIOUS
<1> QED
  BY <1>3, <1>4, WrapShift

LEMMA WrapSubtract ==
  ASSUME NEW x \in Int, NEW y \in Int
  PROVE  Wrap(Wrap(x) - Wrap(y)) = Wrap(x - y)
<1>1. PICK k \in Int : Wrap(x) = x + k * (2 * S16)
  BY WrapIsShift
<1>2. PICK l \in Int : Wrap(y) = y + l * (2 * S16)
  BY WrapIsShift
<1>3. S16 \in Int
  BY FieldsAssumption
<1>4. Wrap(x) - Wrap(y) = (x - y) + (k - l) * (2 * S16)
  BY <1>1, <1>2, <1>3
<1>5. x - y \in Int /\ k - l \in Int
  OBVIOUS
<1> QED
  BY <1>4, <1>5, WrapShift

-----------------------------------------------------------------------------
(* Slices and buckets. *)

\* A bucket number is in range (raw_iblt::select_buckets).
LEMMA SelectType ==
  ASSUME NEW h \in HashFns, NEW size \in Nat \ {0}, NEW s \in Slice,
         NEW i \in 0 .. NUM_HASHES - 1
  PROVE  select_buckets(h, size, s)[i] \in Buckets(size)
<1>1. MurmurHash3(h, i, s) \in Nat
  BY HashAssumption
<1> QED
  BY <1>1 DEF select_buckets, Buckets

\* slice_tx makes at least one slice.
LEMMA SliceTxType ==
  ASSUME NEW t \in Tx
  PROVE  slice_tx(t) \in Seq(Slice) /\ slice_tx(t) # <<>>
<1> DEFINE n == Len(TxContents[t])
<1>1. n \in Nat /\ n >= 1 /\ TxContents[t] \in Seq(SUBSET ContentBits)
  BY TxAssumption, FieldsAssumption
<1>2. ASSUME NEW i \in 1 .. n
      PROVE  TxId48[t] \cup FragPattern[(i - 1 + frag_base(TxId48[t])) % U16]
               \cup TxContents[t][i] \in Slice
  <2>1. TxId48[t] \in SUBSET IdBits
    BY TxAssumption
  <2>2. frag_base(TxId48[t]) \in FragId
    BY <2>1, FieldsAssumption DEF frag_base
  <2>3. (i - 1 + frag_base(TxId48[t])) % U16 \in FragId
    BY <1>1, <2>2, FieldsAssumption DEF FragId
  <2>4. FragPattern[(i - 1 + frag_base(TxId48[t])) % U16] \in SUBSET FragBits
    BY <2>3, FieldsAssumption
  <2>5. TxContents[t][i] \in SUBSET ContentBits
    BY <1>1
  <2> QED
    BY <2>1, <2>4, <2>5 DEF Slice
<1> QED
  BY <1>1, <1>2 DEF slice_tx

\* Changing one bucket of a raw IBLT (raw_iblt::frob_bucket).
LEMMA FrobType ==
  ASSUME NEW r, IsRawIblt(r), NEW n \in Buckets(r.size), NEW s \in Slice,
         NEW d \in {-1, 1}
  PROVE  LET f == frob_bucket(r, n, s, d)
         IN /\ IsRawIblt(f)
            /\ f.size = r.size
            /\ \A m \in Buckets(r.size) : m # n =>
                 f.counts[m] = r.counts[m] /\ f.buckets[m] = r.buckets[m]
<1> DEFINE f == frob_bucket(r, n, s, d)
           c == [r.counts EXCEPT ![n] = Wrap(@ + d)]
           b == [r.buckets EXCEPT ![n] = Xor(@, s)]
<1>1. f = [size |-> r.size, counts |-> c, buckets |-> b]
  BY DEF frob_bucket
<1>2. r.counts \in [Buckets(r.size) -> Counter] /\ r.buckets \in [Buckets(r.size) -> Slice]
  BY DEF IsRawIblt
<1>3. c \in [Buckets(r.size) -> Counter]
  <2>1. r.counts[n] + d \in Int
    BY <1>2, FieldsAssumption DEF Counter
  <2>2. Wrap(r.counts[n] + d) \in Counter
    BY <2>1, WrapType
  <2> QED
    BY <1>2, <2>2
<1>4. b \in [Buckets(r.size) -> Slice]
  <2>1. Xor(r.buckets[n], s) \in Slice
    BY <1>2 DEF Xor, Slice
  <2> QED
    BY <1>2, <2>1
<1>5. f.size = r.size /\ f.counts = c /\ f.buckets = b
  BY <1>1
<1>6. IsRawIblt(f)
  <2>1. r.size \in Nat \ {0}
    BY DEF IsRawIblt
  <2> HIDE DEF c, b, f
  <2> QED
    BY <1>1, <1>3, <1>4, <1>5, <2>1 DEF IsRawIblt
<1> QED
  BY <1>2, <1>5, <1>6

\* The slices of a transaction are all different: a transaction has fewer than
\* 2^16 of them, so that no two have one fragid (slice_tx).
LEMMA SlicesDiffer ==
  ASSUME NEW t \in Tx, NEW i \in DOMAIN slice_tx(t), NEW j \in DOMAIN slice_tx(t),
         slice_tx(t)[i] = slice_tx(t)[j]
  PROVE  i = j
<1> DEFINE n == Len(TxContents[t])
           base == frag_base(TxId48[t])
           Frag(k) == (k - 1 + base) % U16
<1>1. n \in 1 .. U16 - 1 /\ TxContents[t] \in Seq(SUBSET ContentBits)
      /\ TxId48[t] \in SUBSET IdBits
  BY TxAssumption
<1>2. base \in 0 .. U16 - 1 /\ U16 \in Nat \ {0}
  BY <1>1, FieldsAssumption DEF frag_base, FragId
<1>3. i \in 1 .. n /\ j \in 1 .. n
  BY DEF slice_tx
<1>4. ASSUME NEW k \in 1 .. n
      PROVE  slice_tx(t)[k] \cap FragBits = FragPattern[Frag(k)] /\ Frag(k) \in FragId
  <2>1. Frag(k) \in FragId
    BY <1>1, <1>2 DEF FragId
  <2>2. FragPattern[Frag(k)] \in SUBSET FragBits
    BY <2>1, FieldsAssumption
  <2>3. TxContents[t][k] \in SUBSET ContentBits
    BY <1>1
  <2>4. slice_tx(t)[k] = TxId48[t] \cup FragPattern[Frag(k)] \cup TxContents[t][k]
    BY DEF slice_tx
  <2> HIDE DEF Frag, n
  <2> QED
    BY <1>1, <2>1, <2>2, <2>3, <2>4, FieldsAssumption
<1>5. FragPattern[Frag(i)] = FragPattern[Frag(j)] /\ Frag(i) \in FragId /\ Frag(j) \in FragId
  BY <1>3, <1>4
<1>6. Frag(i) = Frag(j)
  BY <1>5, FieldsAssumption
<1>7. i - 1 \in 0 .. U16 - 2 /\ j - 1 \in 0 .. U16 - 2
  BY <1>1, <1>2, <1>3
<1> HIDE DEF base
<1>8. i - 1 = j - 1
  BY <1>2, <1>6, <1>7, ModInjective
<1> QED
  BY <1>1, <1>3, <1>8

\* The slices of finitely many transactions are finitely many.
LEMMA ItemsFinite ==
  ASSUME NEW txs \in SUBSET Tx
  PROVE  IsFiniteSet(Items(txs)) /\ \A item \in Items(txs) : item[2] \in Slice
<1> DEFINE I(t) == {<<t, slice_tx(t)[i]>> : i \in DOMAIN slice_tx(t)}
           Of == {I(t) : t \in txs}
<1>1. \A t \in txs : IsFiniteSet(I(t)) /\ \A item \in I(t) : item[2] \in Slice
  <2> SUFFICES ASSUME NEW t \in txs
               PROVE  IsFiniteSet(I(t)) /\ \A item \in I(t) : item[2] \in Slice
    OBVIOUS
  <2>1. slice_tx(t) \in Seq(Slice)
    BY SliceTxType
  <2>2. Len(slice_tx(t)) \in Nat /\ DOMAIN slice_tx(t) = 1 .. Len(slice_tx(t))
    BY <2>1
  <2>3. IsFiniteSet(DOMAIN slice_tx(t))
    BY <2>2, FS_Interval
  <2>4. IsFiniteSet(I(t))
    <3> DEFINE f == [i \in DOMAIN slice_tx(t) |-> <<t, slice_tx(t)[i]>>]
    <3>1. f \in Surjection(DOMAIN slice_tx(t), I(t))
      BY DEF Surjection
    <3> HIDE DEF f
    <3> QED
      BY <2>3, <3>1, FS_Surjection
  <2> QED
    BY <2>1, <2>2, <2>4
<1>2. IsFiniteSet(txs)
  BY TxAssumption, FS_Subset
<1>3. IsFiniteSet(Of)
  <2> DEFINE f == [t \in txs |-> I(t)]
  <2>1. f \in Surjection(txs, Of)
    BY DEF Surjection
  <2> HIDE DEF f, Of, I
  <2> QED
    BY <1>2, <2>1, FS_Surjection
<1>4. Items(txs) = UNION Of
  BY DEF Items
<1>5. \A S \in Of : IsFiniteSet(S) /\ \A item \in S : item[2] \in Slice
  BY <1>1
<1> HIDE DEF Of
<1> QED
  BY <1>3, <1>4, <1>5, FS_UNION

\* A sketch of finitely many slices is a raw IBLT.
LEMMA SketchType ==
  ASSUME NEW h, NEW size \in Nat \ {0}, NEW plus, NEW minus,
         IsFiniteSet(plus), IsFiniteSet(minus)
  PROVE  LET r == Sketch(h, size, plus, minus)
         IN IsRawIblt(r) /\ r.size = size
<1>1. \A items : IsFiniteSet(items) =>
        \A n : Cardinality(Hits(h, size, items, n)) \in Nat
  <2> SUFFICES ASSUME NEW items, IsFiniteSet(items), NEW n
               PROVE  Cardinality(Hits(h, size, items, n)) \in Nat
    OBVIOUS
  <2>1. IsFiniteSet(0 .. NUM_HASHES - 1)
    <3>1. 0 \in Int /\ NUM_HASHES - 1 \in Int
      BY DEF NUM_HASHES
    <3> QED
      BY <3>1, FS_Interval
  <2>2. IsFiniteSet(items \X (0 .. NUM_HASHES - 1))
    BY <2>1, FS_Product
  <2>3. Hits(h, size, items, n) \subseteq items \X (0 .. NUM_HASHES - 1)
    BY DEF Hits
  <2> QED
    BY <2>2, <2>3, FS_Subset, FS_CardinalityType
<1> DEFINE Count(n) == Wrap(Cardinality(Hits(h, size, plus, n))
                            - Cardinality(Hits(h, size, minus, n)))
           Odd(n, b) == (Cardinality({hit \in Hits(h, size, plus, n) : b \in hit[1][2]})
                         + Cardinality({hit \in Hits(h, size, minus, n) : b \in hit[1][2]}))
                        % 2 = 1
           counts == [n \in Buckets(size) |-> Count(n)]
           buckets == [n \in Buckets(size) |->
                         {b \in IdBits \cup FragBits \cup ContentBits : Odd(n, b)}]
<1>2. counts \in [Buckets(size) -> Counter]
  <2>1. \A n : Count(n) \in Counter
    BY <1>1, WrapType
  <2> HIDE DEF Count
  <2> QED
    BY <2>1
<1>3. buckets \in [Buckets(size) -> Slice]
  <2> HIDE DEF Odd
  <2> QED
    BY DEF Slice
<1>4. Sketch(h, size, plus, minus) = [size |-> size, counts |-> counts, buckets |-> buckets]
  BY DEF Sketch
<1> HIDE DEF counts, buckets
<1> QED
  BY <1>2, <1>3, <1>4 DEF IsRawIblt

-----------------------------------------------------------------------------
(* Sketches. *)

Seeds == 0 .. NUM_HASHES - 1

\* A hit is an item and a hash seed.  The bucket it hits, the hits of a bucket
\* among a set of hits, and those that bring a bit to it:
Struck(h, size, hit) == select_buckets(h, size, hit[1][2])[hit[2]]
In(h, size, S, n) == {hit \in S : Struck(h, size, hit) = n}
Bringing(h, size, S, n, b) == {hit \in In(h, size, S, n) : b \in hit[1][2]}

Balance(h, size, P, M, n) ==
  Cardinality(In(h, size, P, n)) - Cardinality(In(h, size, M, n))
Brought(h, size, P, M, n, b) ==
  Cardinality(Bringing(h, size, P, n, b)) + Cardinality(Bringing(h, size, M, n, b))

\* Sketch, of sets of hits: a slice may be inserted or removed only in part.
HitSketch(h, size, P, M) ==
  [size |-> size,
   counts |-> [n \in Buckets(size) |-> Wrap(Balance(h, size, P, M, n))],
   buckets |-> [n \in Buckets(size) |->
     {b \in IdBits \cup FragBits \cup ContentBits : Brought(h, size, P, M, n, b) % 2 = 1}]]

LEMMA SketchIsHits ==
  ASSUME NEW h, NEW size, NEW plus, NEW minus
  PROVE  Sketch(h, size, plus, minus) = HitSketch(h, size, plus \X Seeds, minus \X Seeds)
<1>1. \A items, n : Hits(h, size, items, n) = In(h, size, items \X Seeds, n)
  BY DEF Hits, In, Struck, Seeds
<1> QED
  BY <1>1 DEF Sketch, HitSketch, Balance, Brought, Bringing

LEMMA CountsAreIntegers ==
  ASSUME NEW h, NEW size, NEW S, IsFiniteSet(S), NEW n, NEW b
  PROVE  /\ IsFiniteSet(In(h, size, S, n)) /\ IsFiniteSet(Bringing(h, size, S, n, b))
         /\ Cardinality(In(h, size, S, n)) \in Nat
         /\ Cardinality(Bringing(h, size, S, n, b)) \in Nat
<1>1. In(h, size, S, n) \in SUBSET S /\ Bringing(h, size, S, n, b) \in SUBSET S
  BY DEF In, Bringing
<1>2. IsFiniteSet(In(h, size, S, n)) /\ IsFiniteSet(Bringing(h, size, S, n, b))
  BY <1>1, FS_Subset
<1> QED
  BY <1>2, FS_CardinalityType

\* One more hit counts once, in the bucket it strikes.
LEMMA OneMoreHit ==
  ASSUME NEW h, NEW size, NEW S, IsFiniteSet(S), NEW hit, hit \notin S, NEW n
  PROVE  Cardinality(In(h, size, S \cup {hit}, n)) =
           Cardinality(In(h, size, S, n)) + (IF Struck(h, size, hit) = n THEN 1 ELSE 0)
<1> DEFINE I == In(h, size, S, n)
<1>1. I \in SUBSET S /\ IsFiniteSet(I) /\ Cardinality(I) \in Nat
  <2>1. I \in SUBSET S
    BY DEF In
  <2> HIDE DEF I
  <2> QED
    BY <2>1, FS_Subset, FS_CardinalityType
<1>2. Cardinality(I \cup {hit}) = Cardinality(I) + 1
  BY <1>1, FS_AddElement
<1>3. In(h, size, S \cup {hit}, n) = IF Struck(h, size, hit) = n THEN I \cup {hit} ELSE I
  BY DEF In
<1> HIDE DEF I
<1> QED
  BY <1>1, <1>2, <1>3 DEF I

LEMMA OneMoreBrought ==
  ASSUME NEW h, NEW size, NEW S, IsFiniteSet(S), NEW hit, hit \notin S, NEW n, NEW b
  PROVE  Cardinality(Bringing(h, size, S \cup {hit}, n, b)) =
           Cardinality(Bringing(h, size, S, n, b))
             + (IF Struck(h, size, hit) = n /\ b \in hit[1][2] THEN 1 ELSE 0)
<1> DEFINE B == Bringing(h, size, S, n, b)
<1>1. B \in SUBSET S /\ IsFiniteSet(B) /\ Cardinality(B) \in Nat
  <2>1. B \in SUBSET S
    BY DEF Bringing, In
  <2> HIDE DEF B
  <2> QED
    BY <2>1, FS_Subset, FS_CardinalityType
<1>2. Cardinality(B \cup {hit}) = Cardinality(B) + 1
  BY <1>1, FS_AddElement
<1>3. Bringing(h, size, S \cup {hit}, n, b) =
        IF Struck(h, size, hit) = n /\ b \in hit[1][2] THEN B \cup {hit} ELSE B
  BY DEF Bringing, In
<1> HIDE DEF B
<1> QED
  BY <1>1, <1>2, <1>3 DEF B

\* frob_bucket changes a sketch by one hit when the counts say so.
LEMMA FrobHits ==
  ASSUME NEW h, NEW size, NEW P, NEW M, NEW P2, NEW M2, NEW hit, NEW d \in {-1, 1},
         hit[1][2] \in Slice,
         \A n : /\ Balance(h, size, P, M, n) \in Int
                /\ Balance(h, size, P2, M2, n) =
                     Balance(h, size, P, M, n) + (IF Struck(h, size, hit) = n THEN d ELSE 0),
         \A n, b : Brought(h, size, P2, M2, n, b) % 2 = 1 <=>
                     IF Struck(h, size, hit) = n /\ b \in hit[1][2]
                     THEN Brought(h, size, P, M, n, b) % 2 # 1
                     ELSE Brought(h, size, P, M, n, b) % 2 = 1
  PROVE  frob_bucket(HitSketch(h, size, P, M), Struck(h, size, hit), hit[1][2], d)
           = HitSketch(h, size, P2, M2)
<1> DEFINE at == Struck(h, size, hit)
           s == hit[1][2]
           r == HitSketch(h, size, P, M)
           r2 == HitSketch(h, size, P2, M2)
           C(n) == Wrap(Balance(h, size, P, M, n))
           C2(n) == Wrap(Balance(h, size, P2, M2, n))
           All == IdBits \cup FragBits \cup ContentBits
           B(n) == {b \in All : Brought(h, size, P, M, n, b) % 2 = 1}
           B2(n) == {b \in All : Brought(h, size, P2, M2, n, b) % 2 = 1}
<1>1. \A n : C2(n) = IF n = at THEN Wrap(C(n) + d) ELSE C(n)
  <2> SUFFICES ASSUME NEW n
               PROVE  C2(n) = IF n = at THEN Wrap(C(n) + d) ELSE C(n)
    OBVIOUS
  <2> DEFINE x == Balance(h, size, P, M, n)
             y == Balance(h, size, P2, M2, n)
  <2>1. x \in Int /\ y = x + (IF at = n THEN d ELSE 0)
    OBVIOUS
  <2> HIDE DEF x, y, at
  <2>2. Wrap(Wrap(x) + d) = Wrap(x + d) /\ x + 0 = x
    BY <2>1, WrapAdd
  <2>3. Wrap(y) = IF n = at THEN Wrap(Wrap(x) + d) ELSE Wrap(x)
    BY <2>1, <2>2
  <2> QED
    BY <2>3 DEF x, y
<1>2. \A n : B2(n) = IF n = at THEN Xor(B(n), s) ELSE B(n)
  <2> SUFFICES ASSUME NEW n
               PROVE  B2(n) = IF n = at THEN Xor(B(n), s) ELSE B(n)
    OBVIOUS
  <2>1. s \subseteq All
    BY DEF Slice
  <2>2. \A b \in All : b \in B2(n) <=> IF n = at /\ b \in s THEN b \notin B(n) ELSE b \in B(n)
    OBVIOUS
  <2>3. B2(n) \subseteq All /\ B(n) \subseteq All
    OBVIOUS
  <2> HIDE DEF B, B2, All, s, at
  <2> QED
    BY <2>1, <2>2, <2>3 DEF Xor
<1>3. r = [size |-> size, counts |-> [n \in Buckets(size) |-> C(n)],
           buckets |-> [n \in Buckets(size) |-> B(n)]]
  BY DEF HitSketch
<1>4. r2 = [size |-> size, counts |-> [n \in Buckets(size) |-> C2(n)],
            buckets |-> [n \in Buckets(size) |-> B2(n)]]
  BY DEF HitSketch
<1> HIDE DEF C, C2, B, B2, r, r2, at, s
<1>5. [[n \in Buckets(size) |-> C(n)] EXCEPT ![at] = Wrap(@ + d)]
        = [n \in Buckets(size) |-> C2(n)]
  BY <1>1
<1>6. [[n \in Buckets(size) |-> B(n)] EXCEPT ![at] = Xor(@, s)]
        = [n \in Buckets(size) |-> B2(n)]
  BY <1>2
<1>7. frob_bucket(r, at, s, d) = r2
  BY <1>3, <1>4, <1>5, <1>6 DEF frob_bucket
<1> QED
  BY <1>7 DEF r, r2, at, s

\* Inserting: one hit more (raw_iblt::insert).
LEMMA FrobInserts ==
  ASSUME NEW h, NEW size, NEW P, NEW M, IsFiniteSet(P), IsFiniteSet(M),
         NEW hit, hit[1][2] \in Slice, hit \notin P
  PROVE  frob_bucket(HitSketch(h, size, P, M), Struck(h, size, hit), hit[1][2], 1)
           = HitSketch(h, size, P \cup {hit}, M)
<1> DEFINE P2 == P \cup {hit}
<1>1. ASSUME NEW n
      PROVE  /\ Balance(h, size, P, M, n) \in Int
             /\ Balance(h, size, P2, M, n) =
                  Balance(h, size, P, M, n) + (IF Struck(h, size, hit) = n THEN 1 ELSE 0)
  <2>1. Cardinality(In(h, size, P, n)) \in Nat /\ Cardinality(In(h, size, M, n)) \in Nat
    BY CountsAreIntegers
  <2>2. Cardinality(In(h, size, P2, n)) =
          Cardinality(In(h, size, P, n)) + (IF Struck(h, size, hit) = n THEN 1 ELSE 0)
    BY OneMoreHit
  <2> HIDE DEF P2
  <2> QED
    BY <2>1, <2>2 DEF Balance
<1>2. ASSUME NEW n, NEW b
      PROVE  Brought(h, size, P2, M, n, b) % 2 = 1 <=>
               IF Struck(h, size, hit) = n /\ b \in hit[1][2]
               THEN Brought(h, size, P, M, n, b) % 2 # 1
               ELSE Brought(h, size, P, M, n, b) % 2 = 1
  <2>1. /\ Cardinality(Bringing(h, size, P, n, b)) \in Nat
        /\ Cardinality(Bringing(h, size, M, n, b)) \in Nat
    BY CountsAreIntegers
  <2>2. Cardinality(Bringing(h, size, P2, n, b)) =
          Cardinality(Bringing(h, size, P, n, b))
            + (IF Struck(h, size, hit) = n /\ b \in hit[1][2] THEN 1 ELSE 0)
    BY OneMoreBrought
  <2> HIDE DEF P2
  <2> QED
    BY <2>1, <2>2 DEF Brought
<1> HIDE DEF P2
<1>3. frob_bucket(HitSketch(h, size, P, M), Struck(h, size, hit), hit[1][2], 1)
        = HitSketch(h, size, P2, M)
  BY <1>1, <1>2, FrobHits
<1> QED
  BY <1>3 DEF P2

\* Removing what was to be removed: one hit less of that (iblt::remove_our_tx).
LEMMA FrobCancels ==
  ASSUME NEW h, NEW size, NEW P, NEW M, IsFiniteSet(P), IsFiniteSet(M),
         NEW hit, hit[1][2] \in Slice, hit \notin M
  PROVE  frob_bucket(HitSketch(h, size, P, M \cup {hit}),
                     Struck(h, size, hit), hit[1][2], 1)
           = HitSketch(h, size, P, M)
<1> DEFINE M2 == M \cup {hit}
<1>1. ASSUME NEW n
      PROVE  /\ Balance(h, size, P, M2, n) \in Int
             /\ Balance(h, size, P, M, n) =
                  Balance(h, size, P, M2, n) + (IF Struck(h, size, hit) = n THEN 1 ELSE 0)
  <2>1. Cardinality(In(h, size, P, n)) \in Nat /\ Cardinality(In(h, size, M, n)) \in Nat
    BY CountsAreIntegers
  <2>2. Cardinality(In(h, size, M2, n)) =
          Cardinality(In(h, size, M, n)) + (IF Struck(h, size, hit) = n THEN 1 ELSE 0)
    BY OneMoreHit
  <2> HIDE DEF M2
  <2> QED
    BY <2>1, <2>2 DEF Balance
<1>2. ASSUME NEW n, NEW b
      PROVE  Brought(h, size, P, M, n, b) % 2 = 1 <=>
               IF Struck(h, size, hit) = n /\ b \in hit[1][2]
               THEN Brought(h, size, P, M2, n, b) % 2 # 1
               ELSE Brought(h, size, P, M2, n, b) % 2 = 1
  <2>1. /\ Cardinality(Bringing(h, size, P, n, b)) \in Nat
        /\ Cardinality(Bringing(h, size, M, n, b)) \in Nat
    BY CountsAreIntegers
  <2>2. Cardinality(Bringing(h, size, M2, n, b)) =
          Cardinality(Bringing(h, size, M, n, b))
            + (IF Struck(h, size, hit) = n /\ b \in hit[1][2] THEN 1 ELSE 0)
    BY OneMoreBrought
  <2> HIDE DEF M2
  <2> QED
    BY <2>1, <2>2 DEF Brought
<1> HIDE DEF M2
<1>3. frob_bucket(HitSketch(h, size, P, M2), Struck(h, size, hit), hit[1][2], 1)
        = HitSketch(h, size, P, M)
  BY <1>1, <1>2, FrobHits
<1> QED
  BY <1>3 DEF M2

\* Removing a slice: one hit more of what is removed (iblt::remove_their_slice).
LEMMA FrobRemoves ==
  ASSUME NEW h, NEW size, NEW P, NEW M, IsFiniteSet(P), IsFiniteSet(M),
         NEW hit, hit[1][2] \in Slice, hit \notin M
  PROVE  frob_bucket(HitSketch(h, size, P, M), Struck(h, size, hit), hit[1][2], -1)
           = HitSketch(h, size, P, M \cup {hit})
<1> DEFINE M2 == M \cup {hit}
<1>1. ASSUME NEW n
      PROVE  /\ Balance(h, size, P, M, n) \in Int
             /\ Balance(h, size, P, M2, n) =
                  Balance(h, size, P, M, n) + (IF Struck(h, size, hit) = n THEN -1 ELSE 0)
  <2>1. Cardinality(In(h, size, P, n)) \in Nat /\ Cardinality(In(h, size, M, n)) \in Nat
    BY CountsAreIntegers
  <2>2. Cardinality(In(h, size, M2, n)) =
          Cardinality(In(h, size, M, n)) + (IF Struck(h, size, hit) = n THEN 1 ELSE 0)
    BY OneMoreHit
  <2> HIDE DEF M2
  <2> QED
    BY <2>1, <2>2 DEF Balance
<1>2. ASSUME NEW n, NEW b
      PROVE  Brought(h, size, P, M2, n, b) % 2 = 1 <=>
               IF Struck(h, size, hit) = n /\ b \in hit[1][2]
               THEN Brought(h, size, P, M, n, b) % 2 # 1
               ELSE Brought(h, size, P, M, n, b) % 2 = 1
  <2>1. /\ Cardinality(Bringing(h, size, P, n, b)) \in Nat
        /\ Cardinality(Bringing(h, size, M, n, b)) \in Nat
    BY CountsAreIntegers
  <2>2. Cardinality(Bringing(h, size, M2, n, b)) =
          Cardinality(Bringing(h, size, M, n, b))
            + (IF Struck(h, size, hit) = n /\ b \in hit[1][2] THEN 1 ELSE 0)
    BY OneMoreBrought
  <2> HIDE DEF M2
  <2> QED
    BY <2>1, <2>2 DEF Brought
<1> HIDE DEF M2
<1>3. -1 \in {-1, 1}
  OBVIOUS
<1>4. frob_bucket(HitSketch(h, size, P, M), Struck(h, size, hit), hit[1][2], -1)
        = HitSketch(h, size, P, M2)
  BY <1>1, <1>2, <1>3, FrobHits
<1> QED
  BY <1>4 DEF M2

LEMMA SketchFields ==
  ASSUME NEW h, NEW size, NEW P, NEW M
  PROVE  LET r == HitSketch(h, size, P, M)
         IN /\ r = [size |-> r.size, counts |-> r.counts, buckets |-> r.buckets]
            /\ r.size = size
            /\ r.counts = [n \in Buckets(size) |-> r.counts[n]]
            /\ r.buckets = [n \in Buckets(size) |-> r.buckets[n]]
            /\ \A n \in Buckets(size) : r.counts[n] = Wrap(Balance(h, size, P, M, n))
  BY DEF HitSketch

\* Two sketches XORed and subtracted make the sketch of both (iblt::iblt).
LEMMA XorIsSketch ==
  ASSUME NEW h, NEW size, NEW P, NEW M, IsFiniteSet(P), IsFiniteSet(M),
         NEW n \in Buckets(size)
  PROVE  Xor(HitSketch(h, size, P, {}).buckets[n], HitSketch(h, size, M, {}).buckets[n])
           = HitSketch(h, size, P, M).buckets[n]
<1> DEFINE All == IdBits \cup FragBits \cup ContentBits
           p(b) == Cardinality(Bringing(h, size, P, n, b))
           m(b) == Cardinality(Bringing(h, size, M, n, b))
<1>1. \A b : Cardinality(Bringing(h, size, {}, n, b)) = 0
  <2>1. \A b : Bringing(h, size, {}, n, b) = {}
    BY DEF Bringing, In
  <2> QED
    BY <2>1, FS_EmptySet
<1>2. \A b : p(b) \in Nat /\ m(b) \in Nat
  BY CountsAreIntegers
<1> HIDE DEF p, m
<1>3. HitSketch(h, size, P, {}).buckets[n] = {b \in All : p(b) % 2 = 1}
  <2>1. \A b : Brought(h, size, P, {}, n, b) = p(b)
    BY <1>1, <1>2 DEF Brought, p
  <2> QED
    BY <2>1 DEF HitSketch
<1>4. HitSketch(h, size, M, {}).buckets[n] = {b \in All : m(b) % 2 = 1}
  <2>1. \A b : Brought(h, size, M, {}, n, b) = m(b)
    BY <1>1, <1>2 DEF Brought, m
  <2> QED
    BY <2>1 DEF HitSketch
<1>5. HitSketch(h, size, P, M).buckets[n] = {b \in All : (p(b) + m(b)) % 2 = 1}
  BY DEF HitSketch, Brought, p, m
<1>6. \A b : (p(b) + m(b)) % 2 = 1 <=> ~(p(b) % 2 = 1 <=> m(b) % 2 = 1)
  BY <1>2
<1> HIDE DEF All
<1> QED
  BY <1>3, <1>4, <1>5, <1>6 DEF Xor

LEMMA DifferenceIsSketch ==
  ASSUME NEW h, NEW size, NEW P, NEW M, IsFiniteSet(P), IsFiniteSet(M),
         NEW n \in Buckets(size)
  PROVE  Wrap(HitSketch(h, size, P, {}).counts[n] - HitSketch(h, size, M, {}).counts[n])
           = HitSketch(h, size, P, M).counts[n]
<1> DEFINE p == Cardinality(In(h, size, P, n))
           m == Cardinality(In(h, size, M, n))
<1>1. Cardinality(In(h, size, {}, n)) = 0
  <2>1. In(h, size, {}, n) = {}
    BY DEF In
  <2> QED
    BY <2>1, FS_EmptySet
<1>2. p \in Nat /\ m \in Nat
  BY CountsAreIntegers
<1>3. /\ HitSketch(h, size, P, {}).counts[n] = Wrap(Balance(h, size, P, {}, n))
      /\ HitSketch(h, size, M, {}).counts[n] = Wrap(Balance(h, size, M, {}, n))
      /\ HitSketch(h, size, P, M).counts[n] = Wrap(Balance(h, size, P, M, n))
  BY DEF HitSketch
<1>4. /\ Balance(h, size, P, {}, n) = p
      /\ Balance(h, size, M, {}, n) = m
      /\ Balance(h, size, P, M, n) = p - m
  <2>1. /\ Balance(h, size, P, {}, n) = p - 0
        /\ Balance(h, size, M, {}, n) = m - 0
        /\ Balance(h, size, P, M, n) = p - m
    BY <1>1 DEF Balance
  <2> HIDE DEF p, m
  <2> QED
    BY <1>2, <2>1
<1> HIDE DEF p, m
<1>5. Wrap(Wrap(p) - Wrap(m)) = Wrap(p - m)
  BY <1>2, WrapSubtract
<1> QED
  BY <1>3, <1>4, <1>5

-----------------------------------------------------------------------------
(* The loops over the slices of a transaction and the hash seeds. *)

Distinct(v) == \A i, j \in DOMAIN v : v[i] = v[j] => i = j

\* The hits still to come of the slices v of an owner o, when the loop is at
\* hash seed k of the first of them.
ToCome(o, v, k) ==
  {hit \in ({o} \X Slice) \X Seeds :
     \E j \in DOMAIN v : hit[1][2] = v[j] /\ (j = 1 => k <= hit[2])}

LEMMA SeedsFinite == IsFiniteSet(Seeds) /\ 0 \in Seeds
<1>1. 0 \in Int /\ 2 \in Int /\ Seeds = 0 .. 2
  BY DEF Seeds, NUM_HASHES
<1>2. IsFiniteSet(0 .. 2)
  BY <1>1, FS_Interval
<1> QED
  BY <1>1, <1>2

LEMMA HitsFinite ==
  ASSUME NEW S, IsFiniteSet(S)
  PROVE  IsFiniteSet(S \X Seeds)
  BY SeedsFinite, FS_Product

LEMMA ItemsHitsFinite ==
  ASSUME NEW txs \in SUBSET Tx
  PROVE  IsFiniteSet(Items(txs) \X Seeds)
<1>1. IsFiniteSet(Items(txs))
  BY ItemsFinite
<1> QED
  BY <1>1, HitsFinite

\* The items of a set of transactions, an owner at a time.
LEMMA ItemsOf ==
  ASSUME NEW txs \in SUBSET Tx, NEW item
  PROVE  item \in Items(txs) <=>
           \E t \in txs : \E i \in DOMAIN slice_tx(t) : item = <<t, slice_tx(t)[i]>>
<1> DEFINE I(t) == {<<t, slice_tx(t)[i]>> : i \in DOMAIN slice_tx(t)}
           Of == {I(t) : t \in txs}
<1>1. Items(txs) = UNION Of
  BY DEF Items
<1>2. item \in UNION Of <=> \E t \in txs : item \in I(t)
  OBVIOUS
<1>3. \A t \in txs : item \in I(t) <=>
        \E i \in DOMAIN slice_tx(t) : item = <<t, slice_tx(t)[i]>>
  OBVIOUS
<1> HIDE DEF I, Of
<1> QED
  BY <1>1, <1>2, <1>3

LEMMA ItemsOwners ==
  ASSUME NEW txs \in SUBSET Tx, NEW item \in Items(txs)
  PROVE  /\ item[1] \in txs /\ item[2] \in Slice /\ item = <<item[1], item[2]>>
         /\ \E i \in DOMAIN slice_tx(item[1]) : item[2] = slice_tx(item[1])[i]
<1>1. PICK t \in txs : \E i \in DOMAIN slice_tx(t) : item = <<t, slice_tx(t)[i]>>
  BY ItemsOf
<1>2. item[2] \in Slice
  BY ItemsFinite
<1> QED
  BY <1>1, <1>2

LEMMA NothingToCome ==
  ASSUME NEW o, NEW k
  PROVE  ToCome(o, <<>>, k) = {}
  BY DEF ToCome

\* Before the loops start every hit of a transaction is to come.
LEMMA AllToCome ==
  ASSUME NEW t \in Tx
  PROVE  ToCome(t, slice_tx(t), 0) = Items({t}) \X Seeds /\ Distinct(slice_tx(t))
<1> DEFINE v == slice_tx(t)
<1>1. v \in Seq(Slice)
  BY SliceTxType
<1>2. Distinct(v)
  BY SlicesDiffer DEF Distinct
<1>3. \A k \in Seeds : 0 <= k
  BY DEF Seeds, NUM_HASHES
<1>4. ASSUME NEW hit \in ToCome(t, v, 0) PROVE hit \in Items({t}) \X Seeds
  <2>1. hit \in ({t} \X Slice) \X Seeds /\ \E j \in DOMAIN v : hit[1][2] = v[j]
    BY DEF ToCome
  <2>2. hit[1] = <<t, hit[1][2]>> /\ hit = <<hit[1], hit[2]>> /\ hit[2] \in Seeds
    BY <2>1
  <2>3. hit[1] \in Items({t})
    BY <2>1, <2>2, ItemsOf
  <2> QED
    BY <2>2, <2>3
<1>5. ASSUME NEW hit \in Items({t}) \X Seeds PROVE hit \in ToCome(t, v, 0)
  <2>1. hit[1] \in Items({t}) /\ hit[2] \in Seeds /\ hit = <<hit[1], hit[2]>>
    OBVIOUS
  <2>2. /\ hit[1][1] = t /\ hit[1][2] \in Slice /\ hit[1] = <<hit[1][1], hit[1][2]>>
        /\ \E i \in DOMAIN v : hit[1][2] = v[i]
    BY <2>1, ItemsOwners
  <2>3. hit[1] \in {t} \X Slice
    BY <2>2
  <2>4. hit \in ({t} \X Slice) \X Seeds
    BY <2>1, <2>3
  <2> QED
    BY <1>3, <2>1, <2>2, <2>4 DEF ToCome
<1> QED
  BY <1>2, <1>4, <1>5

LEMMA OneToCome ==
  ASSUME NEW o, NEW s \in Slice
  PROVE  ToCome(o, <<s>>, 0) = {<<o, s>>} \X Seeds /\ Distinct(<<s>>)
<1>1. \A k \in Seeds : 0 <= k
  BY DEF Seeds, NUM_HASHES
<1>2. DOMAIN <<s>> = {1} /\ <<s>>[1] = s
  OBVIOUS
<1>3. ASSUME NEW hit
      PROVE  hit \in ToCome(o, <<s>>, 0) <=> hit \in {<<o, s>>} \X Seeds
  BY <1>1, <1>2 DEF ToCome
<1> QED
  BY <1>2, <1>3 DEF Distinct

\* An iteration of the inner loop meets one hit, and leaves the others to come.
LEMMA NextToCome ==
  ASSUME NEW o, NEW v \in Seq(Slice), v # <<>>, Distinct(v), NEW k \in Seeds
  PROVE  LET k2 == (k + 1) % NUM_HASHES
             v2 == IF k2 = 0 THEN Tail(v) ELSE v
             hit == <<<<o, Head(v)>>, k>>
         IN /\ k2 \in Seeds /\ v2 \in Seq(Slice) /\ Distinct(v2)
            /\ hit \in ToCome(o, v, k)
            /\ ToCome(o, v2, k2) = ToCome(o, v, k) \ {hit}
<1> DEFINE k2 == (k + 1) % NUM_HASHES
           v2 == IF k2 = 0 THEN Tail(v) ELSE v
           hit == <<<<o, Head(v)>>, k>>
           n == Len(v)
<1>1. k \in 0 .. 2 /\ k2 \in 0 .. 2 /\ k2 = (IF k = 2 THEN 0 ELSE k + 1) /\ Seeds = 0 .. 2
  BY DEF Seeds, NUM_HASHES
<1>2. n \in Nat /\ n >= 1 /\ DOMAIN v = 1 .. n /\ Head(v) = v[1] /\ Head(v) \in Slice
  OBVIOUS
<1>3. /\ Tail(v) \in Seq(Slice) /\ DOMAIN Tail(v) = 1 .. n - 1
      /\ \A i \in 1 .. n - 1 : Tail(v)[i] = v[i + 1]
  OBVIOUS
<1>4. Distinct(Tail(v))
  <2> SUFFICES ASSUME NEW i \in 1 .. n - 1, NEW j \in 1 .. n - 1, Tail(v)[i] = Tail(v)[j]
               PROVE  i = j
    BY <1>3 DEF Distinct
  <2>1. v[i + 1] = v[j + 1] /\ i + 1 \in 1 .. n /\ j + 1 \in 1 .. n
    BY <1>2, <1>3
  <2> QED
    BY <1>2, <2>1 DEF Distinct
<1>5. hit \in ToCome(o, v, k)
  BY <1>1, <1>2 DEF ToCome
<1>6. ASSUME NEW x \in ({o} \X Slice) \X Seeds
      PROVE  x \in ToCome(o, v2, k2) <=> x \in ToCome(o, v, k) /\ x # hit
  <2>1. /\ x[2] \in 0 .. 2 /\ x[1][1] = o
        /\ x # hit <=> x[1][2] # v[1] \/ x[2] # k
    BY <1>1, <1>2
  <2>2. \A j \in 1 .. n : v[j] = v[1] => j = 1
    BY <1>2 DEF Distinct
  <2>3. CASE k2 = 0
    <3>1. x \in ToCome(o, v2, k2) <=> \E j \in 1 .. n - 1 : x[1][2] = v[j + 1]
      <4>1. \A j \in 1 .. n - 1 : 0 <= x[2]
        BY <2>1
      <4> QED
        BY <1>3, <2>3, <4>1 DEF ToCome
    <3>2. x \in ToCome(o, v, k) <=>
            \/ \E j \in 1 .. n - 1 : x[1][2] = v[j + 1]
            \/ x[1][2] = v[1] /\ x[2] = 2
      <4>1. k = 2
        BY <1>1, <2>3
      <4>2. x \in ToCome(o, v, k) <=>
              \E j \in 1 .. n : x[1][2] = v[j] /\ (j = 1 => 2 <= x[2])
        BY <1>2, <4>1 DEF ToCome
      <4>3. \A j \in 1 .. n : j = 1 \/ (j - 1 \in 1 .. n - 1 /\ j = (j - 1) + 1)
        BY <1>2
      <4>4. \A j \in 1 .. n - 1 : j + 1 \in 1 .. n /\ j + 1 # 1
        BY <1>2
      <4>5. ASSUME NEW j \in 1 .. n, x[1][2] = v[j], j = 1 => 2 <= x[2]
            PROVE  \/ \E i \in 1 .. n - 1 : x[1][2] = v[i + 1]
                   \/ x[1][2] = v[1] /\ x[2] = 2
        <5>1. CASE j = 1
          BY <2>1, <4>5, <5>1
        <5>2. CASE j # 1
          BY <4>3, <4>5, <5>2
        <5> QED
          BY <5>1, <5>2
      <4>6. ASSUME NEW i \in 1 .. n - 1, x[1][2] = v[i + 1]
            PROVE  \E j \in 1 .. n : x[1][2] = v[j] /\ (j = 1 => 2 <= x[2])
        BY <4>4, <4>6
      <4>7. x[1][2] = v[1] /\ x[2] = 2 =>
              \E j \in 1 .. n : x[1][2] = v[j] /\ (j = 1 => 2 <= x[2])
        BY <1>2
      <4> QED
        BY <4>2, <4>5, <4>6, <4>7
    <3>3. (\E j \in 1 .. n - 1 : x[1][2] = v[j + 1]) => x[1][2] # v[1]
      <4>1. \A j \in 1 .. n - 1 : j + 1 \in 1 .. n /\ j + 1 # 1
        BY <1>2
      <4> QED
        BY <2>2, <4>1
    <3>4. k = 2
      BY <1>1, <2>3
    <3> QED
      BY <2>1, <3>1, <3>2, <3>3, <3>4
  <2>4. CASE k2 # 0
    <3>1. k2 = k + 1 /\ v2 = v
      BY <1>1, <2>4
    <3>2. x \in ToCome(o, v, k) <=> \E j \in 1 .. n : x[1][2] = v[j] /\ (j = 1 => k <= x[2])
      BY <1>2 DEF ToCome
    <3>3. x \in ToCome(o, v2, k2) <=>
            \E j \in 1 .. n : x[1][2] = v[j] /\ (j = 1 => k + 1 <= x[2])
      BY <1>2, <3>1 DEF ToCome
    <3> HIDE DEF k2, v2, hit, n
    <3>4. CASE x[1][2] = v[1]
      <4>1. \A j \in 1 .. n : x[1][2] = v[j] => j = 1
        BY <2>2, <3>4
      <4>2. 1 \in 1 .. n
        BY <1>2
      <4> QED
        BY <1>1, <2>1, <3>2, <3>3, <3>4, <4>1, <4>2
    <3>5. CASE x[1][2] # v[1]
      BY <2>1, <3>2, <3>3, <3>5
    <3> QED
      BY <3>4, <3>5
  <2> QED
    BY <2>3, <2>4
<1>7. ToCome(o, v2, k2) = ToCome(o, v, k) \ {hit}
  <2>1. ToCome(o, v2, k2) \subseteq ({o} \X Slice) \X Seeds
    BY DEF ToCome
  <2>2. ToCome(o, v, k) \subseteq ({o} \X Slice) \X Seeds
    BY DEF ToCome
  <2> HIDE DEF k2, v2, hit
  <2> QED
    BY <1>6, <2>1, <2>2
<1>8. k2 \in Seeds /\ v2 \in Seq(Slice) /\ Distinct(v2)
  BY <1>1, <1>3, <1>4
<1> QED
  BY <1>5, <1>7, <1>8

LEMMA ToComeFinite ==
  ASSUME NEW o, NEW v \in Seq(Slice), NEW k
  PROVE  IsFiniteSet(ToCome(o, v, k))
         /\ \A hit \in ToCome(o, v, k) : hit[1][1] = o /\ hit[1][2] \in Slice
<1> DEFINE Dom == DOMAIN v
           Items1 == {<<o, v[j]>> : j \in Dom}
<1>1. IsFiniteSet(Dom)
  <2>1. Dom = 1 .. Len(v) /\ 1 \in Int /\ Len(v) \in Int
    OBVIOUS
  <2> HIDE DEF Dom
  <2> QED
    BY <2>1, FS_Interval
<1>2. IsFiniteSet(Items1)
  <2> DEFINE f == [j \in Dom |-> <<o, v[j]>>]
  <2>1. f \in Surjection(Dom, Items1)
    BY DEF Surjection
  <2> HIDE DEF f, Items1, Dom
  <2> QED
    BY <1>1, <2>1, FS_Surjection
<1>3. IsFiniteSet(Items1 \X Seeds)
  <2> HIDE DEF Items1
  <2> QED
    BY <1>2, HitsFinite
<1>4. ToCome(o, v, k) \subseteq Items1 \X Seeds
  <2> SUFFICES ASSUME NEW hit \in ToCome(o, v, k) PROVE hit \in Items1 \X Seeds
    OBVIOUS
  <2>1. hit \in ({o} \X Slice) \X Seeds /\ \E j \in DOMAIN v : hit[1][2] = v[j]
    BY DEF ToCome
  <2>2. hit[1] = <<o, hit[1][2]>> /\ hit = <<hit[1], hit[2]>> /\ hit[2] \in Seeds
    BY <2>1
  <2>3. hit[1] \in Items1
    BY <2>1, <2>2
  <2> QED
    BY <2>2, <2>3
<1>5. \A hit \in ToCome(o, v, k) : hit[1][1] = o /\ hit[1][2] \in Slice
  BY DEF ToCome
<1> HIDE DEF Items1
<1> QED
  BY <1>3, <1>4, <1>5, FS_Subset

\* The fields of a slice of a transaction (slice_tx).
LEMMA SliceFields ==
  ASSUME NEW t \in Tx, NEW i \in DOMAIN slice_tx(t)
  PROVE  /\ i \in 1 .. Len(TxContents[t])
         /\ get_txid48(slice_tx(t)[i]) = TxId48[t]
         /\ contents(slice_tx(t)[i]) = TxContents[t][i]
         /\ fragid(slice_tx(t)[i]) = (i - 1 + FragBase[TxId48[t]]) % U16
<1> DEFINE n == Len(TxContents[t])
           f == (i - 1 + frag_base(TxId48[t])) % U16
<1>1. /\ n \in 1 .. U16 - 1 /\ TxContents[t] \in Seq(SUBSET ContentBits)
      /\ TxId48[t] \in SUBSET IdBits /\ U16 \in Nat \ {0}
  BY TxAssumption, FieldsAssumption
<1>2. i \in 1 .. n
  BY DEF slice_tx
<1>3. frag_base(TxId48[t]) \in 0 .. U16 - 1
  BY <1>1, FieldsAssumption DEF frag_base, FragId
<1>4. f \in FragId
  BY <1>1, <1>2, <1>3 DEF FragId
<1>5. FragPattern[f] \in SUBSET FragBits /\ FragNum[FragPattern[f]] = f
  BY <1>4, FieldsAssumption
<1>6. TxContents[t][i] \in SUBSET ContentBits
  BY <1>1, <1>2
<1>7. slice_tx(t)[i] = TxId48[t] \cup FragPattern[f] \cup TxContents[t][i]
  BY DEF slice_tx
<1>8. f = (i - 1 + FragBase[TxId48[t]]) % U16
  BY DEF frag_base
<1> HIDE DEF f, n
<1>9. /\ slice_tx(t)[i] \cap IdBits = TxId48[t]
      /\ slice_tx(t)[i] \cap ContentBits = TxContents[t][i]
      /\ slice_tx(t)[i] \cap FragBits = FragPattern[f]
  BY <1>1, <1>5, <1>6, <1>7, FieldsAssumption
<1> QED BY <1>2, <1>5, <1>8, <1>9 DEF get_txid48, contents, fragid, n

-----------------------------------------------------------------------------
(* Sketches whose hits cancel out but for some. *)

\* Hits that are inserted and removed again, by whatever owner, leave nothing.
SameHits(X, M) ==
  \E f \in Bijection(X, M) : \A hit \in X : f[hit][1][2] = hit[1][2] /\ f[hit][2] = hit[2]

LEMMA SameHitsCount ==
  ASSUME NEW h, NEW size, NEW X, NEW M, IsFiniteSet(X), SameHits(X, M), NEW n, NEW b
  PROVE  /\ Cardinality(In(h, size, X, n)) = Cardinality(In(h, size, M, n))
         /\ Cardinality(Bringing(h, size, X, n, b)) = Cardinality(Bringing(h, size, M, n, b))
<1>1. PICK f \in Bijection(X, M) :
        \A hit \in X : f[hit][1][2] = hit[1][2] /\ f[hit][2] = hit[2]
  BY DEF SameHits
<1>2. /\ f \in [X -> M]
      /\ \A x, y \in X : f[x] = f[y] => x = y
      /\ \A m \in M : \E x \in X : f[x] = m
  BY DEF Bijection, Injection, Surjection, IsInjective
<1>3. \A hit \in X : Struck(h, size, f[hit]) = Struck(h, size, hit)
  BY <1>1 DEF Struck
<1>4. ASSUME NEW S, S \in SUBSET X, NEW R, R = {f[x] : x \in S}
      PROVE  Cardinality(S) = Cardinality(R)
  <2> DEFINE g == [x \in S |-> f[x]]
  <2>1. g \in Bijection(S, R)
    BY <1>2, <1>4 DEF Bijection, Injection, Surjection, IsInjective
  <2>2. IsFiniteSet(S)
    BY <1>4, FS_Subset
  <2> HIDE DEF g
  <2> QED
    BY <2>1, <2>2, FS_Bijection DEF ExistsBijection
<1>5. In(h, size, M, n) = {f[x] : x \in In(h, size, X, n)} /\ In(h, size, X, n) \in SUBSET X
  <2>1. \A m : m \in In(h, size, M, n) <=> \E x \in In(h, size, X, n) : m = f[x]
    BY <1>2, <1>3 DEF In
  <2> QED
    BY <2>1 DEF In
<1>6. /\ Bringing(h, size, M, n, b) = {f[x] : x \in Bringing(h, size, X, n, b)}
      /\ Bringing(h, size, X, n, b) \in SUBSET X
  <2>1. \A m : m \in Bringing(h, size, M, n, b) <=>
                 \E x \in Bringing(h, size, X, n, b) : m = f[x]
    BY <1>1, <1>2, <1>3 DEF In, Bringing
  <2> QED
    BY <2>1 DEF In, Bringing
<1> QED
  BY <1>4, <1>5, <1>6

LEMMA ApartCounts ==
  ASSUME NEW h, NEW size, NEW X, NEW R, IsFiniteSet(X), IsFiniteSet(R), X \cap R = {},
         NEW n, NEW b
  PROVE  /\ Cardinality(In(h, size, X \cup R, n)) =
              Cardinality(In(h, size, X, n)) + Cardinality(In(h, size, R, n))
         /\ Cardinality(Bringing(h, size, X \cup R, n, b)) =
              Cardinality(Bringing(h, size, X, n, b)) + Cardinality(Bringing(h, size, R, n, b))
<1>1. ASSUME NEW A, NEW B, IsFiniteSet(A), IsFiniteSet(B), A \cap B = {}
      PROVE  Cardinality(A \cup B) = Cardinality(A) + Cardinality(B)
  <2>1. Cardinality(A \cup B) = Cardinality(A) + Cardinality(B) - Cardinality(A \cap B)
    BY <1>1, FS_Union
  <2>2. Cardinality(A \cap B) = 0
    BY <1>1, FS_EmptySet
  <2>3. Cardinality(A) \in Nat /\ Cardinality(B) \in Nat
    BY <1>1, FS_CardinalityType
  <2> QED BY <2>1, <2>2, <2>3
<1>2. /\ In(h, size, X \cup R, n) = In(h, size, X, n) \cup In(h, size, R, n)
      /\ Bringing(h, size, X \cup R, n, b)
           = Bringing(h, size, X, n, b) \cup Bringing(h, size, R, n, b)
      /\ In(h, size, X, n) \cap In(h, size, R, n) = {}
      /\ Bringing(h, size, X, n, b) \cap Bringing(h, size, R, n, b) = {}
  BY DEF In, Bringing
<1> QED
  BY <1>1, <1>2, CountsAreIntegers

\* What is left of a sketch when all else cancels out.
LEMMA EvenGone ==
  ASSUME NEW x \in Nat, NEW r \in Nat
  PROVE  (x + r + x) % 2 = r % 2 /\ (x + (x + r)) % 2 = r % 2
  BY SMT

\* A counter that cannot overflow says how many hits there are, when it says one.
LEMMA WrapSmall ==
  ASSUME NEW k \in Nat, k < 2 * S16 - 1
  PROVE  /\ Wrap(k) # -1 /\ (Wrap(k) = 1 <=> k = 1) /\ (Wrap(k) = 0 <=> k = 0)
         /\ Wrap(0 - k) # 1 /\ (Wrap(0 - k) = -1 <=> k = 1)
         /\ (Wrap(0 - k) = 0 <=> k = 0)
<1> DEFINE m == 2 * S16
<1>1. S16 \in Nat /\ S16 >= 2 /\ m \in Nat \ {0} /\ m = S16 + S16
  BY FieldsAssumption
<1>2. Wrap(k) = ((k + S16) % m) - S16 /\ Wrap(0 - k) = ((0 - k + S16) % m) - S16
  BY DEF Wrap
<1> HIDE DEF m
<1>3. CASE k < S16
  <2>1. (k + S16) % m = k + S16
    <3>1. k + S16 \in 0 .. m - 1 /\ k + S16 = 0 * m + (k + S16)
      BY <1>1, <1>3
    <3> QED BY <1>1, <3>1, ModUnique
  <2>2. (0 - k + S16) % m = 0 - k + S16
    <3>1. 0 - k + S16 \in 0 .. m - 1 /\ 0 - k + S16 = 0 * m + (0 - k + S16)
      BY <1>1, <1>3
    <3> QED BY <1>1, <3>1, ModUnique
  <2> QED BY <1>1, <1>2, <2>1, <2>2
<1>4. CASE k >= S16
  <2>1. (k + S16) % m = k + S16 - m
    <3>1. k + S16 - m \in 0 .. m - 1 /\ k + S16 = 1 * m + (k + S16 - m) /\ k + S16 \in Int
      BY <1>1, <1>4 DEF m
    <3> QED BY <1>1, <3>1, ModUnique
  <2>2. CASE k = S16
    <3>1. (0 - k + S16) % m = 0
      <4>1. 0 - k + S16 = 0 /\ 0 \in 0 .. m - 1 /\ 0 = 0 * m + 0
        BY <1>1, <2>2
      <4> QED BY <1>1, <4>1, ModUnique
    <3> QED BY <1>1, <1>2, <1>4, <2>1, <2>2, <3>1
  <2>3. CASE k > S16
    <3>1. (0 - k + S16) % m = 0 - k + S16 + m
      <4>1. 0 - k + S16 + m \in 0 .. m - 1 /\ 0 - k + S16 = (0 - 1) * m + (0 - k + S16 + m)
            /\ 0 - k + S16 \in Int
        BY <1>1, <1>4, <2>3 DEF m
      <4> QED BY <1>1, <4>1, ModUnique
    <3>2. k < m - 1
      BY DEF m
    <3> QED BY <1>1, <1>2, <1>4, <2>1, <2>3, <3>1, <3>2
  <2> QED BY <1>1, <1>4, <2>2, <2>3
<1> QED BY <1>1, <1>3, <1>4

\* The bits of a slice.
SliceBits == IdBits \cup FragBits \cup ContentBits

\* What a bucket with a single hit holds.
LEMMA LoneHit ==
  ASSUME NEW h, NEW size, NEW R, IsFiniteSet(R), \A hit \in R : hit[1][2] \in Slice, NEW n,
         Cardinality(In(h, size, R, n)) = 1
  PROVE  \E hit \in R :
           /\ In(h, size, R, n) = {hit}
           /\ {b \in SliceBits :
                 Cardinality(Bringing(h, size, R, n, b)) % 2 = 1} = hit[1][2]
<1>1. PICK hit : In(h, size, R, n) = {hit}
  BY CountsAreIntegers, FS_Singleton
<1>2. hit \in R /\ hit[1][2] \in Slice
  BY <1>1 DEF In
<1>3. \A b : Bringing(h, size, R, n, b) = IF b \in hit[1][2] THEN {hit} ELSE {}
  BY <1>1 DEF Bringing
<1>4. Cardinality({hit}) % 2 = 1 /\ Cardinality({}) % 2 = 0
  <2>1. Cardinality({hit}) = 1 /\ Cardinality({}) = 0
    BY FS_Singleton, FS_EmptySet
  <2> QED BY <2>1
<1>5. \A b : Cardinality(Bringing(h, size, R, n, b)) % 2 = 1 <=> b \in hit[1][2]
  <2> SUFFICES ASSUME NEW b
               PROVE  Cardinality(Bringing(h, size, R, n, b)) % 2 = 1 <=> b \in hit[1][2]
    OBVIOUS
  <2>1. CASE b \in hit[1][2]
    <3>1. Bringing(h, size, R, n, b) = {hit}
      BY <1>3, <2>1
    <3> QED BY <1>4, <2>1, <3>1
  <2>2. CASE b \notin hit[1][2]
    <3>1. Bringing(h, size, R, n, b) = {}
      BY <1>3, <2>2
    <3> QED BY <1>4, <2>2, <3>1
  <2> QED BY <2>1, <2>2
<1> QED
  BY <1>1, <1>2, <1>5 DEF Slice, SliceBits

\* Every slice strikes some bucket.
LEMMA SomewhereHit ==
  ASSUME NEW h \in HashFns, NEW size \in Nat \ {0}, NEW S, NEW item \in S, item[2] \in Slice
  PROVE  \E n \in Buckets(size) : <<item, 0>> \in In(h, size, S \X Seeds, n)
<1>1. select_buckets(h, size, item[2])[0] \in Buckets(size)
  BY SelectType DEF NUM_HASHES
<1>2. <<item, 0>> \in S \X Seeds /\ Struck(h, size, <<item, 0>>) \in Buckets(size)
  BY <1>1, SeedsFinite DEF Struck
<1> QED
  BY <1>2 DEF In

LEMMA FewerHits ==
  ASSUME NEW h, NEW size, NEW A, NEW B, A \in SUBSET B, IsFiniteSet(B), NEW n
  PROVE  /\ In(h, size, A \X Seeds, n) \in SUBSET In(h, size, B \X Seeds, n)
         /\ IsFiniteSet(In(h, size, B \X Seeds, n))
         /\ Cardinality(In(h, size, A \X Seeds, n)) \in Nat
         /\ Cardinality(In(h, size, B \X Seeds, n)) \in Nat
         /\ Cardinality(In(h, size, A \X Seeds, n)) <= Cardinality(In(h, size, B \X Seeds, n))
<1>1. In(h, size, A \X Seeds, n) \in SUBSET In(h, size, B \X Seeds, n)
  BY DEF In
<1>2. IsFiniteSet(In(h, size, B \X Seeds, n))
  BY HitsFinite, CountsAreIntegers
<1> QED
  BY <1>1, <1>2, FS_Subset, FS_CardinalityType
=============================================================================
