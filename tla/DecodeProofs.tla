---------------------------- MODULE DecodeProofs ----------------------------
(***************************************************************************)
(* Proofs about modules Iblt and Decode, for every block, mempool, size,   *)
(* hash function and slice:                                                *)
(*   - the todo lists stay in step with the buckets, so that neither of    *)
(*     their two exceptions is ever thrown;                                *)
(*   - recover_block uses the iblt as its interface allows, so everything  *)
(*     proved about module Iblt holds inside it;                           *)
(*   - what it peels is conserved: the difference is always the sketch of  *)
(*     the block against the pool and the slices collected;                *)
(*   - with transactions missing on one side only it peels what is genuine,*)
(*     reassembles what it peeled, and succeeds exactly when the difference*)
(*     can be peeled at all.                                               *)
(***************************************************************************)
EXTENDS Decode, SlicesProofs, WellFoundedInduction

-----------------------------------------------------------------------------
(* The priorities. *)

\* The number of bits of a u16 that is not 0 is at most the bits of a u16.
LEMMA IlogBound ==
  ASSUME NEW v \in Nat, v < U16
  PROVE  ilog32(v) \in 0 .. FragWidth
<1> DEFINE K == {k \in 0 .. 30 : 2 ^ k <= v}
<1>1. K \subseteq 0 .. FragWidth - 1
  <2> SUFFICES ASSUME NEW k \in K PROVE k \in 0 .. FragWidth - 1
    OBVIOUS
  <2>1. k \in 0 .. 30 /\ 2 ^ k <= v
    OBVIOUS
  <2>2. FragWidth <= k => 2 ^ FragWidth <= 2 ^ k
    BY <2>1, PowersAssumption, TodoAssumption
  <2>3. 2 ^ k \in Nat /\ 2 ^ FragWidth \in Nat
    BY <2>1, PowersAssumption, TodoAssumption
  <2>4. ~(FragWidth <= k)
    BY <2>1, <2>2, <2>3, TodoAssumption
  <2> QED
    BY <2>1, <2>4, TodoAssumption
<1>2. IsFiniteSet(0 .. FragWidth - 1) /\ Cardinality(0 .. FragWidth - 1) = FragWidth
  BY FS_Interval, TodoAssumption
<1>3. IsFiniteSet(K) /\ Cardinality(K) <= FragWidth /\ Cardinality(K) \in Nat
  BY <1>1, <1>2, FS_Subset, FS_CardinalityType
<1> QED
  BY <1>3, TodoAssumption DEF ilog32

\* The array iblt_todo::todo is large enough for every offset (get_todo).
LEMMA PrioType == \A s \in Slice : Prio(s) \in Prios
<1> SUFFICES ASSUME NEW s \in Slice PROVE Prio(s) \in Prios
  OBVIOUS
<1>1. FragOff(s) \in FragId
  <2>1. FragNum[s \cap FragBits] \in FragId /\ FragBase[s \cap IdBits] \in FragId
    BY FieldsAssumption
  <2> QED
    BY <2>1, FieldsAssumption
    DEF FragOff, FragId, fragid, frag_base, get_txid48
<1>2. CASE FragOff(s) <= SOON
  BY <1>1, <1>2, TodoAssumption, FieldsAssumption DEF Prio, get_todo, Prios, FragId
<1>3. CASE ~(FragOff(s) <= SOON)
  <2>1. FragOff(s) - SOON \in Nat /\ FragOff(s) - SOON < U16
    BY <1>1, <1>3, TodoAssumption, FieldsAssumption DEF FragId
  <2>2. ilog32(FragOff(s) - SOON) \in 0 .. FragWidth
    BY <2>1, IlogBound
  <2> QED
    BY <1>3, <2>2, TodoAssumption DEF Prio, get_todo, Prios
<1> QED
  BY <1>2, <1>3

\* A set of natural numbers that is not empty has a least one.
LEMMA LeastNat ==
  ASSUME NEW T \in SUBSET Nat, T # {}
  PROVE  \E x \in T : \A y \in T : x <= y
<1> DEFINE R == OpToRel(<, Nat)
<1>1. IsWellFoundedOn(R, Nat)
  BY NatLessThanWellFounded
<1>2. \A x, y \in Nat : y < x => <<y, x>> \in R
  BY DEF OpToRel
<1> HIDE DEF R
<1>3. PICK x \in T : \A y \in T : ~(<<y, x>> \in R)
  BY <1>1, WFMin
<1>4. \A y \in T : ~(y < x)
  BY <1>2, <1>3
<1>5. \A y \in T : x <= y
  BY <1>4
<1> QED
  BY <1>5

-----------------------------------------------------------------------------
(* The todo lists. *)

TodoShape(size) == [TodoTypes -> [Prios -> SUBSET Buckets(size)]]

\* Where a bucket belongs in the lists.
Place(r, n, t, i) == TypeOfCount(r.counts[n]) = t /\ Prio(r.buckets[n]) = i

LEMMA TypeOfCountCases ==
  \A c : /\ TypeOfCount(c) \in TodoTypes \cup {NEITHER}
        /\ TypeOfCount(c) \in TodoTypes <=> TypeOfCount(c) # NEITHER
  BY DEF TypeOfCount, TodoTypes, OURS, THEIRS, NEITHER

\* add_todo_if_singleton adds the bucket to its own place and nothing else.
LEMMA AddTodo ==
  ASSUME NEW r, IsRawIblt(r), NEW n \in Buckets(r.size),
         NEW td \in TodoShape(r.size)
  PROVE  /\ add_todo_if_singleton(td, r, n) \in TodoShape(r.size)
         /\ \A t \in TodoTypes, i \in Prios, m \in Buckets(r.size) :
              m \in add_todo_if_singleton(td, r, n)[t][i] <=>
                m \in td[t][i] \/ (m = n /\ Place(r, n, t, i))
<1> DEFINE T == TypeOfCount(r.counts[n])
           I == Prio(r.buckets[n])
<1>1. I \in Prios
  BY PrioType DEF IsRawIblt
<1>2. CASE Singleton(r, n)
  <2>1. T \in TodoTypes
    BY <1>2, TypeOfCountCases DEF Singleton
  <2>2. add_todo_if_singleton(td, r, n) = [td EXCEPT ![T][I] = @ \cup {n}]
    BY <1>2 DEF add_todo_if_singleton
  <2> HIDE DEF T, I
  <2>3. [td EXCEPT ![T][I] = @ \cup {n}] \in TodoShape(r.size)
    BY <1>1, <2>1 DEF TodoShape
  <2>4. \A t \in TodoTypes, i \in Prios :
          [td EXCEPT ![T][I] = @ \cup {n}][t][i] =
            IF t = T /\ i = I THEN td[t][i] \cup {n} ELSE td[t][i]
    BY <1>1, <2>1 DEF TodoShape
  <2> QED
    BY <2>2, <2>3, <2>4 DEF Place, T, I
<1>3. CASE ~Singleton(r, n)
  <2>1. T \notin TodoTypes
    BY <1>3, TypeOfCountCases DEF Singleton
  <2> QED
    BY <1>3, <2>1 DEF add_todo_if_singleton, Place
<1> QED
  BY <1>2, <1>3

\* remove_todo_if_singleton takes the bucket off its own place and no other.
LEMMA RemoveTodoPlace ==
  ASSUME NEW r, IsRawIblt(r), NEW n \in Buckets(r.size),
         NEW td \in TodoShape(r.size)
  PROVE  /\ remove_todo_if_singleton(td, r, n) \in TodoShape(r.size)
         /\ \A t \in TodoTypes, i \in Prios, m \in Buckets(r.size) :
              m \in remove_todo_if_singleton(td, r, n)[t][i] <=>
                m \in td[t][i] /\ ~(m = n /\ Place(r, n, t, i))
<1> DEFINE T == TypeOfCount(r.counts[n])
           I == Prio(r.buckets[n])
<1>1. I \in Prios
  BY PrioType DEF IsRawIblt
<1>2. CASE Singleton(r, n)
  <2>1. T \in TodoTypes
    BY <1>2, TypeOfCountCases DEF Singleton
  <2>2. remove_todo_if_singleton(td, r, n) = [td EXCEPT ![T][I] = @ \ {n}]
    BY <1>2 DEF remove_todo_if_singleton
  <2> HIDE DEF T, I
  <2>3. [td EXCEPT ![T][I] = @ \ {n}] \in TodoShape(r.size)
    BY <1>1, <2>1 DEF TodoShape
  <2>4. \A t \in TodoTypes, i \in Prios :
          [td EXCEPT ![T][I] = @ \ {n}][t][i] =
            IF t = T /\ i = I THEN td[t][i] \ {n} ELSE td[t][i]
    BY <1>1, <2>1 DEF TodoShape
  <2> QED
    BY <2>2, <2>3, <2>4 DEF Place, T, I
<1>3. CASE ~Singleton(r, n)
  <2>1. T \notin TodoTypes
    BY <1>3, TypeOfCountCases DEF Singleton
  <2> QED
    BY <1>3, <2>1 DEF remove_todo_if_singleton, Place
<1> QED
  BY <1>2, <1>3

-----------------------------------------------------------------------------
(* The inductive invariant: the types, the lists, the flags, and what holds at
   each place of the control. *)

ControlOK ==
  /\ pc \in {"ctor", "mismatch", "fixup"} => cancelled = {}
  /\ pc \in {"ctor", "mismatch"} => fixed = 0
  /\ pc = "fixup" => fixed < riblt.size /\ ours.size = riblt.size
  /\ pc \in {"idle", "frob"} => fixed = riblt.size
  /\ pc = "frob" => work # <<>>

IbltInv == IbltTypeOK /\ ControlOK /\ TodoExact /\ CancelledIsFlagged /\ NoDesync

LEMMA InitInv == IbltInit => IbltInv
<1> SUFFICES ASSUME IbltInit PROVE IbltInv
  OBVIOUS
<1>1. todo \in TodoShape(riblt.size) /\ \A t \in TodoTypes, i \in Prios : todo[t][i] = {}
  BY DEF IbltInit, NoTodo, TodoShape
<1>2. riblt.size \in Nat /\ fixed = 0
  BY DEF IbltInit, IsRawIblt
<1>3. IbltTypeOK
  BY <1>1, <1>2 DEF IbltInit, IbltTypeOK, TodoShape, NUM_HASHES
<1>4. ControlOK /\ NoDesync /\ CancelledIsFlagged
  BY DEF IbltInit, ControlOK, NoDesync, CancelledIsFlagged
<1>5. TodoExact
  BY <1>1, <1>2 DEF TodoExact, Buckets
<1> QED
  BY <1>3, <1>4, <1>5 DEF IbltInv

LEMMA ConstructInv == IbltInv /\ Construct => IbltInv'
<1> SUFFICES ASSUME IbltInv, Construct PROVE IbltInv'
  OBVIOUS
<1> USE DEF IbltInv
<1>1. CASE ours.size # riblt.size
  BY <1>1 DEF Construct, IbltTypeOK, ControlOK, TodoExact, CancelledIsFlagged,
              NoDesync, Place
<1>2. CASE ours.size = riblt.size
  <2> DEFINE b == [n \in Buckets(riblt.size) |-> Xor(riblt.buckets[n], ours.buckets[n])]
  <2>1. /\ pc = "ctor" /\ pc' = "fixup"
        /\ riblt' = [riblt EXCEPT !.buckets = b]
        /\ UNCHANGED <<hf, ours, todo, manually_removed, fixed, work, hashno, dir,
                       cancelled>>
    BY <1>2 DEF Construct
  <2>2. IsRawIblt(riblt) /\ IsRawIblt(ours)
    BY DEF IbltTypeOK
  <2>3. b \in [Buckets(riblt.size) -> Slice]
    BY <1>2, <2>2 DEF IsRawIblt, Xor, Slice
  <2> HIDE DEF b
  <2>4. riblt' = [size |-> riblt.size, counts |-> riblt.counts, buckets |-> b]
    BY <2>1, <2>2 DEF IsRawIblt
  <2>5. IsRawIblt(riblt') /\ riblt'.size = riblt.size
    BY <2>2, <2>3, <2>4 DEF IsRawIblt
  <2>6. IbltTypeOK'
    BY <2>1, <2>5 DEF IbltTypeOK
  <2>7. fixed = 0 /\ cancelled = {} /\ riblt.size > 0 /\ riblt.size \in Nat
    BY <2>1, <2>2 DEF ControlOK, IsRawIblt
  <2>8. ControlOK'
    BY <1>2, <2>1, <2>5, <2>7 DEF ControlOK
  <2>9. CancelledIsFlagged' /\ NoDesync'
    BY <2>1, <2>7 DEF CancelledIsFlagged, NoDesync
  <2>10. TodoExact'
    <3> SUFFICES ASSUME NEW n \in Buckets(riblt.size), NEW t \in TodoTypes, NEW i \in Prios
                 PROVE  n \notin todo[t][i] /\ ~(n < fixed)
      BY <2>1, <2>5 DEF TodoExact
    <3>1. ~(n < fixed)
      BY <2>7 DEF Buckets
    <3> QED
      BY <3>1 DEF TodoExact
  <2> QED
    BY <2>6, <2>8, <2>9, <2>10
<1> QED
  BY <1>1, <1>2

LEMMA FixupInv == IbltInv /\ Fixup => IbltInv'
<1> SUFFICES ASSUME IbltInv, Fixup PROVE IbltInv'
  OBVIOUS
<1> USE DEF IbltInv
<1> DEFINE c == [riblt.counts EXCEPT ![fixed] = Wrap(@ - ours.counts[fixed])]
<1>1. /\ IsRawIblt(riblt) /\ IsRawIblt(ours) /\ ours.size = riblt.size
      /\ fixed \in Buckets(riblt.size) /\ riblt.size \in Nat \ {0} /\ cancelled = {}
      /\ todo \in TodoShape(riblt.size)
  BY DEF Fixup, IbltTypeOK, ControlOK, IsRawIblt, Buckets, TodoShape
<1>2. c \in [Buckets(riblt.size) -> Counter]
  <2>1. riblt.counts[fixed] - ours.counts[fixed] \in Int
    BY <1>1, FieldsAssumption DEF IsRawIblt, Counter
  <2>2. Wrap(riblt.counts[fixed] - ours.counts[fixed]) \in Counter
    BY <2>1, WrapType
  <2> QED
    BY <1>1, <2>2 DEF IsRawIblt
<1>3. riblt' = [size |-> riblt.size, counts |-> c, buckets |-> riblt.buckets]
  BY <1>1 DEF Fixup, IsRawIblt
<1>4. \A m \in Buckets(riblt.size) : m # fixed => riblt'.counts[m] = riblt.counts[m]
  BY <1>1, <1>3 DEF IsRawIblt
<1> HIDE DEF c
<1>5. /\ IsRawIblt(riblt') /\ riblt'.size = riblt.size
      /\ riblt'.buckets = riblt.buckets
  BY <1>1, <1>2, <1>3 DEF IsRawIblt
<1>6. /\ todo' \in TodoShape(riblt.size)
      /\ \A t \in TodoTypes, i \in Prios, m \in Buckets(riblt.size) :
           m \in todo'[t][i] <=> m \in todo[t][i] \/ (m = fixed /\ Place(riblt', fixed, t, i))
  <2>1. todo' = add_todo_if_singleton(todo, riblt', fixed)
    BY DEF Fixup
  <2>2. fixed \in Buckets(riblt'.size) /\ todo \in TodoShape(riblt'.size)
    BY <1>1, <1>5
  <2> HIDE DEF IbltInv
  <2> QED
    BY <1>5, <2>1, <2>2, AddTodo
<1>7. \A t \in TodoTypes, i \in Prios : fixed \notin todo[t][i]
  <2>1. ~(fixed < fixed)
    BY <1>1 DEF Buckets
  <2> QED
    BY <1>1, <2>1 DEF TodoExact
<1>8. ~AddThrows(todo, riblt', fixed)
  <2>1. Prio(riblt'.buckets[fixed]) \in Prios
    BY <1>1, <1>5, PrioType DEF IsRawIblt
  <2> QED
    BY <1>7, <2>1, TypeOfCountCases DEF AddThrows, InTodo, Singleton
<1>9. IbltTypeOK'
  <2>1. /\ pc' \in {"idle", "fixup"} /\ fixed' = fixed + 1
        /\ UNCHANGED <<hf, ours, manually_removed, work, hashno, dir, cancelled>>
    BY <1>8 DEF Fixup
  <2>2. fixed' \in 0 .. riblt'.size
    BY <1>1, <1>5, <2>1 DEF Buckets
  <2>3. todo' \in [TodoTypes -> [Prios -> SUBSET Buckets(riblt'.size)]]
    BY <1>5, <1>6 DEF TodoShape
  <2> QED
    BY <1>1, <1>5, <2>1, <2>2, <2>3 DEF IbltTypeOK
<1>10. ControlOK' /\ NoDesync' /\ CancelledIsFlagged'
  BY <1>1, <1>5, <1>8 DEF Fixup, ControlOK, NoDesync, CancelledIsFlagged, Buckets
<1>11. TodoExact'
  <2> SUFFICES ASSUME NEW n \in Buckets(riblt.size), NEW t \in TodoTypes, NEW i \in Prios
               PROVE  n \in todo'[t][i] <=> n < fixed' /\ Place(riblt', n, t, i)
    BY <1>1, <1>5 DEF TodoExact, Place, Fixup
  <2>1. fixed' = fixed + 1
    BY DEF Fixup
  <2>2. CASE n = fixed
    BY <1>1, <1>6, <1>7, <2>1, <2>2 DEF Buckets
  <2>3. CASE n # fixed
    <3>1. n < fixed' <=> n < fixed
      BY <1>1, <2>1, <2>3 DEF Buckets
    <3>2. Place(riblt', n, t, i) <=> Place(riblt, n, t, i)
      BY <1>4, <1>5, <2>3 DEF Place
    <3>3. n \in todo[t][i] <=> n < fixed /\ Place(riblt, n, t, i)
      BY <1>1 DEF TodoExact, Place
    <3> QED
      BY <1>6, <2>3, <3>1, <3>2, <3>3
  <2> QED
    BY <2>2, <2>3
<1> QED
  BY <1>9, <1>10, <1>11

LEMMA StartFrobInv ==
  ASSUME IbltInv, NEW v \in Seq(Slice), v # <<>>, NEW d \in {-1, 1}, StartFrob(v, d)
  PROVE  IbltInv'
<1>1. /\ pc = "idle" /\ pc' = "frob" /\ work' = v /\ dir' = d
      /\ UNCHANGED <<hf, riblt, ours, todo, manually_removed, fixed, hashno, cancelled>>
  BY DEF StartFrob
<1>2. IbltTypeOK'
  BY <1>1 DEF IbltInv, IbltTypeOK
<1>3. ControlOK' /\ NoDesync'
  BY <1>1 DEF IbltInv, ControlOK, NoDesync
<1>4. TodoExact' /\ CancelledIsFlagged'
  BY <1>1 DEF IbltInv, TodoExact, CancelledIsFlagged, Singleton, Prio, FragOff
<1> QED
  BY <1>2, <1>3, <1>4 DEF IbltInv

\* An iteration of frob_buckets takes the bucket off its old place, if it was
\* there, and puts it in its new one; that the slice may meet the bucket again
\* in the next iteration changes nothing.
LEMMA FrobBucketInv == IbltInv /\ FrobBucket => IbltInv'
<1> SUFFICES ASSUME IbltInv, FrobBucket PROVE IbltInv'
  OBVIOUS
<1> DEFINE s == Head(work)
           n == select_buckets(hf, riblt.size, s)[hashno]
           removed == remove_todo_if_singleton(todo, riblt, n)
<1>1. /\ hf \in HashFns /\ IsRawIblt(riblt) /\ riblt.size \in Nat \ {0}
      /\ todo \in TodoShape(riblt.size)
      /\ hashno \in 0 .. NUM_HASHES - 1 /\ dir \in {-1, 1}
      /\ work \in Seq(Slice) /\ work # <<>>
      /\ fixed = riblt.size /\ pc = "frob"
  BY DEF IbltInv, IbltTypeOK, ControlOK, FrobBucket, TodoShape, IsRawIblt
<1>2. s \in Slice /\ Tail(work) \in Seq(Slice)
  BY <1>1
<1>3. n \in Buckets(riblt.size)
  BY <1>1, <1>2, SelectType
<1>4. /\ riblt' = frob_bucket(riblt, n, s, dir)
      /\ todo' = add_todo_if_singleton(removed, riblt', n)
      /\ cancelled' = cancelled \ {n}
      /\ hashno' = (hashno + 1) % NUM_HASHES
      /\ work' = IF hashno' = 0 THEN Tail(work) ELSE work
      /\ pc' = IF \/ DelThrows(todo, manually_removed, riblt, n)
                  \/ AddThrows(removed, riblt', n)
               THEN "desync"
               ELSE IF work' = <<>> THEN "idle" ELSE "frob"
      /\ UNCHANGED <<hf, ours, manually_removed, fixed, dir>>
  BY DEF FrobBucket
<1> HIDE DEF n, s, removed
<1>5. /\ IsRawIblt(riblt') /\ riblt'.size = riblt.size
      /\ \A m \in Buckets(riblt.size) : m # n =>
           riblt'.counts[m] = riblt.counts[m] /\ riblt'.buckets[m] = riblt.buckets[m]
  <2> DEFINE f == frob_bucket(riblt, n, s, dir)
  <2>1. /\ IsRawIblt(f) /\ f.size = riblt.size
        /\ \A m \in Buckets(riblt.size) : m # n =>
             f.counts[m] = riblt.counts[m] /\ f.buckets[m] = riblt.buckets[m]
    BY <1>1, <1>2, <1>3, FrobType
  <2>2. riblt' = f
    BY <1>4
  <2> HIDE DEF f
  <2> QED
    BY <2>1, <2>2
<1>6. /\ removed \in TodoShape(riblt.size)
      /\ \A t \in TodoTypes, i \in Prios, m \in Buckets(riblt.size) :
           m \in removed[t][i] <=> m \in todo[t][i] /\ ~(m = n /\ Place(riblt, n, t, i))
  BY <1>1, <1>3, RemoveTodoPlace DEF removed
<1>7. /\ todo' \in TodoShape(riblt.size)
      /\ \A t \in TodoTypes, i \in Prios, m \in Buckets(riblt.size) :
           m \in todo'[t][i] <=> m \in removed[t][i] \/ (m = n /\ Place(riblt', n, t, i))
  <2>1. n \in Buckets(riblt'.size) /\ removed \in TodoShape(riblt'.size)
    BY <1>3, <1>5, <1>6
  <2> QED
    BY <1>4, <1>5, <2>1, AddTodo
<1>8. \A m \in Buckets(riblt.size), t \in TodoTypes, i \in Prios :
        m \in todo[t][i] <=> Place(riblt, m, t, i) /\ m \notin cancelled
  BY <1>1 DEF IbltInv, TodoExact, Place, Buckets
<1>9. \A t \in TodoTypes, i \in Prios : n \notin removed[t][i]
  BY <1>3, <1>6, <1>8
<1>10. \A r : IsRawIblt(r) /\ n \in Buckets(r.size) => Prio(r.buckets[n]) \in Prios
  BY PrioType DEF IsRawIblt
<1>11. ~AddThrows(removed, riblt', n)
  <2>1. Prio(riblt'.buckets[n]) \in Prios
    BY <1>3, <1>5, <1>10
  <2> QED
    BY <1>9, <2>1, TypeOfCountCases DEF AddThrows, InTodo, Singleton
<1>12. ~DelThrows(todo, manually_removed, riblt, n)
  <2>1. Prio(riblt.buckets[n]) \in Prios
    BY <1>1, <1>3, <1>10
  <2>2. CASE n \in cancelled
    BY <2>2 DEF IbltInv, CancelledIsFlagged, DelThrows
  <2>3. CASE n \notin cancelled
    BY <1>3, <1>8, <2>1, <2>3, TypeOfCountCases
    DEF DelThrows, InTodo, Singleton, Place
  <2> QED
    BY <2>2, <2>3
<1>13. pc' \in {"idle", "frob"} /\ (pc' = "frob" => work' # <<>>)
  BY <1>4, <1>11, <1>12
<1>14. IbltTypeOK'
  <2>1. hashno' \in 0 .. NUM_HASHES - 1
    BY <1>1, <1>4 DEF NUM_HASHES
  <2>2. work' \in Seq(Slice)
    BY <1>1, <1>2, <1>4
  <2>3. cancelled' \subseteq Buckets(riblt'.size)
    BY <1>4, <1>5 DEF IbltInv, IbltTypeOK
  <2>4. todo' \in [TodoTypes -> [Prios -> SUBSET Buckets(riblt'.size)]]
    BY <1>5, <1>7 DEF TodoShape
  <2>5. /\ hf' \in HashFns /\ IsRawIblt(ours') /\ dir' \in {-1, 1}
        /\ manually_removed' \in [TodoTypes -> BOOLEAN] /\ fixed' \in 0 .. riblt'.size
    BY <1>4, <1>5 DEF IbltInv, IbltTypeOK
  <2> QED
    BY <1>5, <1>13, <2>1, <2>2, <2>3, <2>4, <2>5 DEF IbltTypeOK
<1>15. ControlOK' /\ NoDesync'
  BY <1>1, <1>4, <1>5, <1>13 DEF ControlOK, NoDesync
<1>16. TodoExact'
  <2> SUFFICES ASSUME NEW m \in Buckets(riblt.size), NEW t \in TodoTypes, NEW i \in Prios
               PROVE  m \in todo'[t][i] <=>
                        m < fixed' /\ Place(riblt', m, t, i) /\ m \notin cancelled'
    BY <1>5 DEF TodoExact, Place
  <2>1. m < fixed'
    BY <1>1, <1>4 DEF Buckets
  <2>2. CASE m = n
    BY <1>4, <1>7, <1>9, <2>1, <2>2
  <2>3. CASE m # n
    <3>1. Place(riblt', m, t, i) <=> Place(riblt, m, t, i)
      BY <1>5, <2>3 DEF Place
    <3> QED
      BY <1>4, <1>6, <1>7, <1>8, <2>1, <2>3, <3>1
  <2> QED
    BY <2>2, <2>3
<1>17. CancelledIsFlagged'
  <2>1. cancelled \subseteq Buckets(riblt.size)
    BY DEF IbltInv, IbltTypeOK
  <2> QED
    BY <1>4, <1>5, <2>1 DEF IbltInv, CancelledIsFlagged, Singleton
<1> QED
  BY <1>14, <1>15, <1>16, <1>17 DEF IbltInv

\* next_todo finds the first list that is not empty.
LEMMA NextTodoFinds ==
  ASSUME NEW size, NEW l \in [Prios -> SUBSET Buckets(size)]
  PROVE  /\ NextTodo(l) = NoPrio <=> \A i \in Prios : l[i] = {}
         /\ NextTodo(l) # NoPrio =>
              /\ NextTodo(l) \in Prios
              /\ l[NextTodo(l)] # {}
              /\ \A i \in Prios : i < NextTodo(l) => l[i] = {}
<1>1. NoPrio \notin Prios
  BY TodoAssumption DEF NoPrio, Prios
<1>2. CASE \A i \in Prios : l[i] = {}
  BY <1>2 DEF NextTodo
<1>3. CASE ~(\A i \in Prios : l[i] = {})
  <2> DEFINE P(i) == l[i] # {} /\ \A j \in Prios : j < i => l[j] = {}
             F == {i \in Prios : l[i] # {}}
  <2>1. F \in SUBSET Nat /\ F # {} /\ Prios \subseteq Nat
    BY <1>3, TodoAssumption DEF Prios
  <2>2. PICK i \in F : \A j \in F : i <= j
    <3> HIDE DEF F
    <3> QED
      BY <2>1, LeastNat
  <2>3. i \in Prios /\ P(i)
    BY <2>1, <2>2
  <2>4. NextTodo(l) = CHOOSE k \in Prios : P(k)
    BY <1>3 DEF NextTodo
  <2> HIDE DEF P
  <2>5. NextTodo(l) \in Prios /\ P(NextTodo(l))
    BY <2>3, <2>4
  <2> QED
    BY <1>1, <1>3, <2>5 DEF P
<1> QED
  BY <1>2, <1>3

\* iblt::next: when it gives a slice, the slice's bucket is on the list named.
LEMMA NextBucketListed ==
  ASSUME IbltInv, NextType(todo) # NEITHER
  PROVE  LET t == NextType(todo)
         IN /\ t \in TodoTypes
            /\ NextTodo(todo[t]) \in Prios
            /\ NextBucket(todo) \in Buckets(riblt.size)
            /\ NextBucket(todo) \in todo[t][NextTodo(todo[t])]
<1> DEFINE t == NextType(todo)
           i == NextTodo(todo[t])
           l == todo[t][i]
<1>1. riblt.size \in Nat /\ todo \in TodoShape(riblt.size)
  BY DEF IbltInv, IbltTypeOK, TodoShape, IsRawIblt
<1>2. \A u \in TodoTypes :
        /\ todo[u] \in [Prios -> SUBSET Buckets(riblt.size)]
        /\ NextTodo(todo[u]) \in Prios \cup {NoPrio}
        /\ NextTodo(todo[u]) # NoPrio => todo[u][NextTodo(todo[u])] # {}
  BY <1>1, NextTodoFinds DEF TodoShape
<1>3. \A j \in Prios : j < NoPrio
  BY TodoAssumption DEF Prios, NoPrio
<1>4. t \in TodoTypes /\ i # NoPrio
  <2>1. OURS \in TodoTypes /\ THEIRS \in TodoTypes
    BY DEF TodoTypes
  <2>2. NoPrio \in Nat /\ Prios \subseteq Nat
    BY TodoAssumption DEF Prios, NoPrio
  <2>3. CASE NextTodo(todo[OURS]) <= NextTodo(todo[THEIRS])
    BY <2>1, <2>3 DEF NextType
  <2>4. CASE ~(NextTodo(todo[OURS]) <= NextTodo(todo[THEIRS]))
    <3> DEFINE a == NextTodo(todo[OURS])
               b == NextTodo(todo[THEIRS])
    <3>1. a \in Nat /\ b \in Nat /\ a <= NoPrio
      <4>1. a \in Prios \cup {NoPrio} /\ b \in Prios \cup {NoPrio}
        BY <1>2, <2>1
      <4> HIDE DEF a, b
      <4> QED
        BY <1>3, <2>2, <4>1
    <3>2. t = THEIRS
      BY <2>4 DEF NextType
    <3>3. b # NoPrio
      <4> HIDE DEF a, b
      <4>1. ~(a <= b)
        BY <2>4 DEF a, b
      <4> QED
        BY <2>2, <3>1, <4>1
    <3> QED
      BY <2>1, <3>2, <3>3
  <2> QED
    BY <2>3, <2>4
<1>5. i \in Prios /\ l # {} /\ l \in SUBSET Buckets(riblt.size)
  BY <1>1, <1>2, <1>4 DEF TodoShape
<1>6. NextBucket(todo) = CHOOSE n \in l : \A m \in l : n <= m
  BY DEF NextBucket
<1> HIDE DEF t, i, l
<1>7. l \in SUBSET Nat
  BY <1>1, <1>5 DEF Buckets
<1>8. NextBucket(todo) \in l
  BY <1>5, <1>6, <1>7, LeastNat
<1> QED
  BY <1>4, <1>5, <1>8 DEF t, i, l

\* In step, the lists make next the best choice.
LEMMA InSyncIsBest == IbltInv => NextIsBest
<1> SUFFICES ASSUME IbltInv, pc = "idle" PROVE NextIsBest
  BY DEF NextIsBest
<1> DEFINE live == {n \in Buckets(riblt.size) \ cancelled : Singleton(riblt, n)}
           t == NextType(todo)
           next == NextBucket(todo)
           type(n) == TypeOfCount(riblt.counts[n])
           prio(n) == Prio(riblt.buckets[n])
           head(u) == NextTodo(todo[u])
<1>1. /\ fixed = riblt.size /\ IsRawIblt(riblt) /\ todo \in TodoShape(riblt.size)
  BY DEF IbltInv, IbltTypeOK, ControlOK, TodoShape
<1>2. \A n \in Buckets(riblt.size), u \in TodoTypes, j \in Prios :
        n \in todo[u][j] <=> type(n) = u /\ prio(n) = j /\ n \notin cancelled
  BY <1>1 DEF IbltInv, TodoExact, Buckets, IsRawIblt
<1>3. \A n \in live : /\ n \in Buckets(riblt.size) /\ type(n) \in TodoTypes
                      /\ prio(n) \in Prios /\ n \in todo[type(n)][prio(n)]
  <2>1. \A n \in live : n \in Buckets(riblt.size) /\ type(n) \in TodoTypes
    BY TypeOfCountCases DEF Singleton
  <2>2. \A n \in live : prio(n) \in Prios
    BY <1>1, PrioType DEF IsRawIblt
  <2> QED
    BY <1>2, <2>1, <2>2
<1>4. \A u \in TodoTypes :
        /\ head(u) \in Prios \cup {NoPrio}
        /\ head(u) = NoPrio <=> \A j \in Prios : todo[u][j] = {}
        /\ head(u) # NoPrio => \A j \in Prios : j < head(u) => todo[u][j] = {}
  BY <1>1, NextTodoFinds DEF TodoShape
<1>5. Prios \subseteq Nat /\ NoPrio \in Nat /\ \A j \in Prios : j < NoPrio
  BY TodoAssumption DEF Prios, NoPrio
<1>6. TodoTypes = {OURS, THEIRS}
  BY DEF TodoTypes
<1>7. t = IF head(OURS) <= head(THEIRS)
          THEN IF head(OURS) = NoPrio THEN NEITHER ELSE OURS
          ELSE THEIRS
  BY DEF NextType
<1>8. NEITHER \notin TodoTypes
  BY DEF NEITHER, TodoTypes, OURS, THEIRS
<1>9. t # NEITHER =>
        /\ t \in TodoTypes /\ next \in Buckets(riblt.size) /\ next \notin cancelled
        /\ type(next) = t /\ prio(next) = head(t) /\ head(t) \in Prios
  <2> SUFFICES ASSUME t # NEITHER
               PROVE  /\ t \in TodoTypes /\ next \in Buckets(riblt.size)
                      /\ next \notin cancelled /\ type(next) = t
                      /\ prio(next) = head(t) /\ head(t) \in Prios
    OBVIOUS
  <2>1. /\ t \in TodoTypes /\ head(t) \in Prios
        /\ next \in Buckets(riblt.size) /\ next \in todo[t][head(t)]
    BY NextBucketListed
  <2> QED
    BY <1>2, <2>1
<1>10. \A n \in live : head(type(n)) # NoPrio /\ head(type(n)) <= prio(n)
  <2> SUFFICES ASSUME NEW n \in live
               PROVE  head(type(n)) # NoPrio /\ head(type(n)) <= prio(n)
    OBVIOUS
  <2>1. /\ type(n) \in TodoTypes /\ prio(n) \in Prios
        /\ todo[type(n)][prio(n)] # {}
    BY <1>3
  <2>2. head(type(n)) # NoPrio /\ head(type(n)) \in Prios
    BY <1>4, <2>1
  <2>3. ~(prio(n) < head(type(n)))
    BY <1>4, <2>1, <2>2
  <2>4. head(type(n)) \in Nat /\ prio(n) \in Nat
    BY <1>5, <2>1, <2>2
  <2> DEFINE h == head(type(n))
             p == prio(n)
  <2>5. h \in Nat /\ p \in Nat /\ ~(p < h) => h <= p
    <3> HIDE DEF h, p
    <3> QED
      OBVIOUS
  <2> QED
    BY <2>2, <2>3, <2>4, <2>5
<1>11. t # NEITHER => next \in live
  BY <1>8, <1>9 DEF Singleton
<1> HIDE DEF live, t, next, type, prio, head
<1>12. CASE live = {}
  BY <1>11, <1>12 DEF NextIsBest, live, t, next
<1>13. CASE live # {}
  <2>1. t # NEITHER
    <3>1. PICK n \in live : TRUE
      BY <1>13
    <3>2. head(type(n)) # NoPrio /\ type(n) \in {OURS, THEIRS}
      BY <1>3, <1>6, <1>10
    <3>3. head(OURS) # NoPrio \/ head(THEIRS) # NoPrio
      BY <3>2
    <3>4. head(OURS) <= head(THEIRS) /\ head(OURS) = NoPrio => head(THEIRS) = NoPrio
      <4>1. head(THEIRS) \in Prios \cup {NoPrio}
        BY <1>4, <1>6
      <4>2. head(THEIRS) \in Prios => head(THEIRS) < NoPrio /\ head(THEIRS) \in Nat
        BY <1>5
      <4> DEFINE h == head(THEIRS)
      <4>3. h \in Nat /\ h < NoPrio => ~(NoPrio <= h)
        <5> HIDE DEF h
        <5> QED
          BY <1>5
      <4> QED
        BY <4>1, <4>2, <4>3
    <3> QED
      BY <1>7, <3>3, <3>4 DEF NEITHER, OURS, THEIRS
  <2>2. \A n \in live : prio(next) <= prio(n)
    <3> SUFFICES ASSUME NEW n \in live PROVE prio(next) <= prio(n)
      OBVIOUS
    <3>1. type(n) \in {OURS, THEIRS} /\ t \in {OURS, THEIRS}
      BY <1>3, <1>6, <1>9, <2>1
    <3>2. /\ head(type(n)) \in Nat /\ head(t) \in Nat /\ prio(n) \in Nat
          /\ head(OURS) \in Nat /\ head(THEIRS) \in Nat
      BY <1>3, <1>4, <1>5, <1>6, <3>1
    <3>3. head(t) <= head(type(n))
      BY <1>7, <2>1, <3>1, <3>2 DEF NEITHER, OURS, THEIRS
    <3>4. prio(next) = head(t) /\ head(type(n)) <= prio(n)
      BY <1>9, <1>10, <2>1
    <3> QED
      BY <3>2, <3>3, <3>4
  <2>3. \A n \in live : prio(next) = prio(n) => t = OURS \/ type(n) = THEIRS
    BY <1>3, <1>4, <1>5, <1>6, <1>7, <1>9, <1>10, <2>1
  <2>4. \A n \in live : prio(next) \in Nat /\ prio(n) \in Nat
    BY <1>3, <1>5, <1>9, <2>1
  <2>5. \A n \in live : \/ prio(next) < prio(n)
                       \/ /\ prio(next) = prio(n)
                          /\ t = OURS \/ type(n) = THEIRS
    BY <2>2, <2>3, <2>4
  <2> QED
    BY <1>9, <1>11, <1>13, <2>1, <2>5 DEF NextIsBest, live, t, next, type, prio
<1> QED
  BY <1>12, <1>13

LEMMA RemoveTodoInv == IbltInv /\ RemoveTodo => IbltInv'
<1> SUFFICES ASSUME IbltInv, RemoveTodo PROVE IbltInv'
  OBVIOUS
<1> DEFINE t == NextType(todo)
           n == NextBucket(todo)
           i == NextTodo(todo[t])
<1>1. pc = "idle" /\ t # NEITHER
  BY DEF RemoveTodo
<1>2. t \in TodoTypes /\ i \in Prios /\ n \in Buckets(riblt.size) /\ n \in todo[t][i]
  BY <1>1, NextBucketListed
<1>3. Place(riblt, n, t, i) /\ n \notin cancelled
  BY <1>2 DEF IbltInv, TodoExact, Place
<1>4. Prio(NextSlice) = i
  BY <1>3 DEF NextSlice, Place
<1>5. /\ todo' = [todo EXCEPT ![t][i] = @ \ {n}]
      /\ cancelled' = cancelled \cup {n}
      /\ manually_removed' = [manually_removed EXCEPT ![t] = TRUE]
      /\ pc' = "idle"
      /\ UNCHANGED <<hf, riblt, ours, fixed, work, hashno, dir>>
  BY <1>2, <1>4 DEF RemoveTodo
<1> HIDE DEF t, n, i
<1>6. todo \in TodoShape(riblt.size)
  BY DEF IbltInv, IbltTypeOK, TodoShape
<1>7. /\ todo' \in TodoShape(riblt.size)
      /\ \A u \in TodoTypes, j \in Prios :
           todo'[u][j] = IF u = t /\ j = i THEN todo[u][j] \ {n} ELSE todo[u][j]
  BY <1>2, <1>5, <1>6 DEF TodoShape
<1>8. IbltTypeOK'
  <2>1. manually_removed' \in [TodoTypes -> BOOLEAN]
    BY <1>2, <1>5 DEF IbltInv, IbltTypeOK
  <2> QED
    BY <1>2, <1>5, <1>7, <2>1 DEF IbltInv, IbltTypeOK, TodoShape
<1>9. ControlOK' /\ NoDesync'
  BY <1>1, <1>5 DEF IbltInv, ControlOK, NoDesync
<1>10. TodoExact'
  <2> SUFFICES ASSUME NEW m \in Buckets(riblt.size), NEW u \in TodoTypes, NEW j \in Prios
               PROVE  m \in todo'[u][j] <=>
                        m < fixed /\ Place(riblt, m, u, j) /\ m \notin cancelled'
    BY <1>5 DEF TodoExact, Place, Prio, FragOff
  <2>1. m \in todo[u][j] <=>
          m < fixed /\ Place(riblt, m, u, j) /\ m \notin cancelled
    BY DEF IbltInv, TodoExact, Place
  <2>2. CASE m = n
    BY <1>3, <1>5, <1>7, <2>1, <2>2 DEF Place
  <2>3. CASE m # n
    BY <1>5, <1>7, <2>1, <2>3
  <2> QED
    BY <2>2, <2>3
<1>11. CancelledIsFlagged'
  <2>1. TypeOfCount(riblt.counts[n]) = t /\ Singleton(riblt, n)
    BY <1>2, <1>3, TypeOfCountCases DEF Place, Singleton
  <2>2. manually_removed \in [TodoTypes -> BOOLEAN]
    BY DEF IbltInv, IbltTypeOK
  <2>3. \A m \in cancelled :
          /\ Singleton(riblt, m)
          /\ manually_removed[TypeOfCount(riblt.counts[m])]
          /\ TypeOfCount(riblt.counts[m]) \in TodoTypes
    BY TypeOfCountCases DEF IbltInv, CancelledIsFlagged, Singleton
  <2> QED
    BY <1>2, <1>5, <2>1, <2>2, <2>3 DEF CancelledIsFlagged, Singleton
<1> QED
  BY <1>8, <1>9, <1>10, <1>11 DEF IbltInv

LEMMA StutterInv == IbltInv /\ UNCHANGED ivars => IbltInv'
  BY DEF IbltInv, IbltTypeOK, ControlOK, TodoExact, CancelledIsFlagged, NoDesync,
         ivars, Prio, FragOff, Singleton

LEMMA NextInv == IbltInv /\ [IbltNext]_ivars => IbltInv'
<1> SUFFICES ASSUME IbltInv, [IbltNext]_ivars PROVE IbltInv'
  OBVIOUS
<1>1. CASE Construct
  BY <1>1, ConstructInv
<1>2. CASE Fixup
  BY <1>2, FixupInv
<1>3. ASSUME NEW s \in Slice, RemoveTheirSlice(s)
      PROVE  IbltInv'
  <2>1. <<s>> \in Seq(Slice) /\ <<s>> # <<>>
    OBVIOUS
  <2> QED
    BY <1>3, <2>1, StartFrobInv DEF RemoveTheirSlice
<1>4. ASSUME NEW t \in Tx, RemoveOurTx(t)
      PROVE  IbltInv'
  BY <1>4, SliceTxType, StartFrobInv DEF RemoveOurTx
<1>5. CASE FrobBucket
  BY <1>5, FrobBucketInv
<1>6. CASE RemoveTodo
  BY <1>6, RemoveTodoInv
<1>7. CASE UNCHANGED ivars
  BY <1>7, StutterInv
<1> QED
  BY <1>1, <1>2, <1>3, <1>4, <1>5, <1>6, <1>7 DEF IbltNext

-----------------------------------------------------------------------------
\* The inductive invariant holds throughout.
THEOREM InvHolds == IbltSpec => []IbltInv
  BY InitInv, NextInv, PTL DEF IbltSpec

\* Types, for every size of IBLT and every content a peer may send: counters
\* stay s16s and no list index leaves the array of iblt_todo.
THEOREM TypeCorrect == IbltSpec => []IbltTypeOK
<1>1. IbltInv => IbltTypeOK
  BY DEF IbltInv
<1> QED
  BY <1>1, InvHolds, PTL

\* The todo lists name exactly the singletons that were not cancelled: "Are we
\* in sync with iblt?" (iblt.h) is always yes.
THEOREM TodoInSync == IbltSpec => []TodoExact
<1>1. IbltInv => TodoExact
  BY DEF IbltInv
<1> QED
  BY <1>1, InvHolds, PTL

\* Neither exception of iblt_todo is thrown, whatever the uninitialised flags
\* held and however often a slice hits one bucket.
THEOREM NeverDesync == IbltSpec => []NoDesync
<1>1. IbltInv => NoDesync
  BY DEF IbltInv
<1> QED
  BY <1>1, InvHolds, PTL

\* A bucket missing from its list is one that remove_todo took off it, so del's
\* test of manually_removed reads what remove_todo wrote.
THEOREM FlagsExcuseOnlyCancelled == IbltSpec => []CancelledIsFlagged
<1>1. IbltInv => CancelledIsFlagged
  BY DEF IbltInv
<1> QED
  BY <1>1, InvHolds, PTL

\* iblt::next returns a singleton whenever one is left that nobody cancelled,
\* never one that is worse than another, and its assertion holds.
THEOREM NextReturnsBest == IbltSpec => []NextIsBest
  BY InSyncIsBest, InvHolds, PTL

-----------------------------------------------------------------------------
(* The types, and what the assembly loop needs to have a type. *)

\* The loop over the set of slices has a next one while any is left.
LEMMA FirstLeftExists ==
  ASSUME left \in SUBSET Slice, left # {}
  PROVE  FirstLeft \in left
<1> DEFINE id(s) == IdNum[get_txid48(s)]
           Ids == {id(s) : s \in left}
<1>1. \A s \in left : get_txid48(s) \in SUBSET IdBits /\ id(s) \in Nat /\ fragid(s) \in Nat
  <2>1. \A s \in left : get_txid48(s) \in SUBSET IdBits /\ s \cap FragBits \in SUBSET FragBits
    BY DEF get_txid48
  <2>2. \A f \in SUBSET FragBits : FragNum[f] \in Nat
    BY FieldsAssumption DEF FragId
  <2> QED
    BY <2>1, <2>2, DecodeAssumption DEF fragid
<1>2. PICK s0 \in left : \A s \in left : id(s0) <= id(s)
  <2>1. Ids \in SUBSET Nat /\ Ids # {}
    BY <1>1
  <2>2. PICK x \in Ids : \A y \in Ids : x <= y
    <3> HIDE DEF Ids
    <3> QED
      BY <2>1, LeastNat
  <2> QED
    BY <2>2
<1> DEFINE Same == {s \in left : id(s) = id(s0)}
           Frags == {fragid(s) : s \in Same}
<1>3. PICK s1 \in Same : \A s \in Same : fragid(s1) <= fragid(s)
  <2>1. Frags \in SUBSET Nat /\ Frags # {}
    BY <1>1
  <2>2. PICK x \in Frags : \A y \in Frags : x <= y
    <3> HIDE DEF Frags
    <3> QED
      BY <2>1, LeastNat
  <2> QED
    BY <2>2
<1>4. \A s \in left : ~Before(s, s1)
  <2> SUFFICES ASSUME NEW s \in left, Before(s, s1) PROVE FALSE
    OBVIOUS
  <2>1. id(s1) = id(s0) /\ s1 \in left
    BY <1>3
  <2>2. id(s) \in Nat /\ id(s1) \in Nat /\ id(s1) <= id(s) /\ fragid(s) \in Nat /\ fragid(s1) \in Nat
    BY <1>1, <1>2, <2>1
  <2>3. CASE id(s) < id(s1)
    BY <2>2, <2>3
  <2>4. CASE get_txid48(s) = get_txid48(s1) /\ fragid(s) < fragid(s1)
    <3>1. s \in Same
      BY <2>1, <2>4
    <3>2. fragid(s1) <= fragid(s)
      BY <1>3, <3>1
    <3> QED
      BY <2>2, <2>4, <3>2
  <2> QED
    BY <2>3, <2>4 DEF Before
<1> QED
  BY <1>3, <1>4 DEF FirstLeft

\* Until the peeling loop ends nothing has been assembled.
PeelOnly == phase = "peel" => left = {} /\ transaction = <<>> /\ recovered = <<>>

DecodeInv == IbltInv /\ DecodeTypeOK /\ PeelOnly

LEMMA DecodeInitIsIblt == DecodeInit => IbltInit
<1> SUFFICES ASSUME DecodeInit PROVE IbltInit
  OBVIOUS
<1>1. PICK size \in Sizes : /\ riblt = Sketch(hf, size, Items(block), {})
                           /\ ours = Sketch(hf, size, Items(mempool), {})
  BY DEF DecodeInit
<1>2. size \in Nat \ {0} /\ block \in SUBSET Tx /\ mempool \in SUBSET Tx
  BY DecodeAssumption DEF DecodeInit
<1>3. IsFiniteSet(Items(block)) /\ IsFiniteSet(Items(mempool)) /\ IsFiniteSet({})
  BY <1>2, ItemsFinite, FS_EmptySet
<1>4. IsRawIblt(riblt) /\ IsRawIblt(ours)
  BY <1>1, <1>2, <1>3, SketchType
<1> QED
  BY <1>4 DEF DecodeInit, IbltInit

LEMMA DecodeInitInv == DecodeInit => DecodeInv
<1> SUFFICES ASSUME DecodeInit PROVE DecodeInv
  OBVIOUS
<1>1. IbltInv
  BY DecodeInitIsIblt, InitInv
<1>2. DecodeTypeOK
  <2>1. /\ block \in SUBSET Tx /\ mempool \in SUBSET Tx /\ pool = mempool
        /\ slices = {} /\ left = {} /\ phase = "peel" /\ transaction = <<>>
        /\ expected = 0 /\ recovered = <<>> /\ result = FALSE
    BY DEF DecodeInit
  <2>2. transaction \in Seq(slices) /\ recovered \in Seq(Tx)
    BY <2>1
  <2>3. IbltTypeOK
    BY <1>1 DEF IbltInv
  <2> QED
    BY <2>1, <2>2, <2>3 DEF DecodeTypeOK
<1>3. PeelOnly
  BY DEF DecodeInit, PeelOnly
<1> QED
  BY <1>1, <1>2, <1>3 DEF DecodeInv

\* Each step of recover_block is a step of the iblt, or leaves it alone.
LEMMA StepIsIblt == DecodeInv /\ [DecodeNext]_vars => [IbltNext]_ivars
<1> SUFFICES ASSUME DecodeInv, [DecodeNext]_vars PROVE [IbltNext]_ivars
  OBVIOUS
<1>1. CASE DiffStep
  BY <1>1 DEF DiffStep, IbltNext
<1>2. CASE PeelOurs
  <2>1. UNCHANGED ivars \/ \E t \in pool : RemoveOurTx(t)
    BY <1>2 DEF PeelOurs
  <2>2. pool \subseteq Tx
    BY DEF DecodeInv, DecodeTypeOK
  <2> QED
    BY <2>1, <2>2 DEF IbltNext
<1>3. CASE PeelTheirs
  <2>1. UNCHANGED ivars \/ RemoveTheirSlice(NextSlice)
    BY <1>3 DEF PeelTheirs
  <2>2. NextSlice \in Slice
    <3>1. IbltInv /\ NextType(todo) # NEITHER
      BY <1>3 DEF DecodeInv, PeelTheirs, THEIRS, NEITHER
    <3>2. NextBucket(todo) \in Buckets(riblt.size)
      BY <3>1, NextBucketListed
    <3> QED
      BY <3>1, <3>2 DEF IbltInv, IbltTypeOK, IsRawIblt, NextSlice
  <2> QED
    BY <2>1, <2>2 DEF IbltNext
<1>4. CASE PeelEnd \/ Assemble \/ Compare \/ Returned \/ UNCHANGED vars
  BY <1>4 DEF PeelEnd, Assemble, Compare, Returned, vars
<1> QED
  BY <1>1, <1>2, <1>3, <1>4 DEF DecodeNext

LEMMA StepInv == DecodeInv /\ [DecodeNext]_vars => DecodeInv'
<1> SUFFICES ASSUME DecodeInv, [DecodeNext]_vars PROVE DecodeInv'
  OBVIOUS
<1>1. IbltInv' /\ IbltTypeOK'
  BY StepIsIblt, NextInv DEF DecodeInv, IbltInv
<1>2. DecodeTypeOK /\ PeelOnly
  BY DEF DecodeInv
<1>3. CASE DiffStep \/ UNCHANGED vars \/ Returned
  <2>1. UNCHANGED dvars
    BY <1>3 DEF DiffStep, Returned, vars
  <2> QED
    BY <1>1, <1>2, <2>1 DEF DecodeInv, DecodeTypeOK, PeelOnly, dvars
<1>4. CASE PeelOurs
  <2>1. /\ UNCHANGED <<block, mempool, slices, left, transaction, expected, recovered>>
        /\ pool' \in SUBSET pool
        /\ \/ phase' = "done" /\ result' = FALSE
           \/ UNCHANGED <<phase, result>>
    BY <1>4 DEF PeelOurs, Return
  <2> QED
    BY <1>1, <1>2, <2>1 DEF DecodeInv, DecodeTypeOK, PeelOnly
<1>5. CASE PeelTheirs
  <2>1. /\ UNCHANGED <<block, mempool, pool, left, transaction, expected, recovered>>
        /\ \/ phase' = "done" /\ result' = FALSE /\ slices' = slices
           \/ UNCHANGED <<phase, result>> /\ slices' = slices \cup {NextSlice}
        /\ phase = "peel" /\ NextType(todo) = THEIRS
    BY <1>5 DEF PeelTheirs, Return
  <2>2. NextSlice \in Slice
    <3>1. NextBucket(todo) \in Buckets(riblt.size)
      BY <2>1, NextBucketListed DEF DecodeInv, THEIRS, NEITHER
    <3> QED
      BY <3>1 DEF DecodeInv, IbltInv, IbltTypeOK, IsRawIblt, NextSlice
  <2>3. left = {} /\ transaction = <<>> /\ <<>> \in Seq(slices')
    BY <1>2, <2>1 DEF PeelOnly
  <2> QED
    BY <1>1, <1>2, <2>1, <2>2, <2>3 DEF DecodeInv, DecodeTypeOK, PeelOnly
<1>6. CASE PeelEnd
  <2>1. /\ UNCHANGED <<block, mempool, pool, slices, transaction, expected, recovered>>
        /\ \/ phase' = "assemble" /\ left' = slices /\ UNCHANGED result
           \/ phase' = "done" /\ result' = FALSE /\ UNCHANGED left
    BY <1>6 DEF PeelEnd, Return
  <2> QED
    BY <1>1, <1>2, <2>1 DEF DecodeInv, DecodeTypeOK, PeelOnly
<1>7. CASE Assemble
  <2> DEFINE s == FirstLeft
             grown == Append(transaction, s)
             size == IF transaction = <<>> THEN Expected[contents(s)] ELSE expected
             tx == Rebuild([i \in DOMAIN grown |-> contents(grown[i])])
  <2>1. left # {} /\ phase = "assemble" /\ UNCHANGED <<block, mempool, pool, slices>>
    BY <1>7 DEF Assemble
  <2>2. s \in left /\ s \in slices /\ s \in Slice
    BY <1>2, <2>1, FirstLeftExists DEF DecodeTypeOK
  <2>3. size \in Nat
    <3>1. Expected[contents(s)] \in Nat
      BY <2>2, TxAssumption DEF contents, Slice
    <3> QED
      BY <1>2, <3>1 DEF DecodeTypeOK
  <2>4. grown \in Seq(slices)
    BY <1>2, <2>2 DEF DecodeTypeOK
  <2> HIDE DEF s, grown, size, tx
  <2>5. \/ /\ phase' = "done" /\ result' = FALSE
           /\ UNCHANGED <<left, transaction, expected, recovered>>
        \/ /\ left' = left \ {s} /\ expected' = size /\ UNCHANGED <<phase, result>>
           /\ \/ /\ transaction' = <<>> /\ tx \in Tx
                 /\ recovered' = Append(recovered, tx)
              \/ transaction' = grown /\ UNCHANGED recovered
    BY <1>7 DEF Assemble, Return, s, grown, size, tx
  <2>6. transaction' \in Seq(slices) /\ recovered' \in Seq(Tx)
    <3>1. transaction \in Seq(slices) /\ recovered \in Seq(Tx) /\ <<>> \in Seq(slices)
      BY <1>2 DEF DecodeTypeOK
    <3>2. tx \in Tx => Append(recovered, tx) \in Seq(Tx)
      BY <3>1
    <3> QED
      BY <2>4, <2>5, <3>1, <3>2
  <2> QED
    BY <1>1, <1>2, <2>1, <2>3, <2>5, <2>6 DEF DecodeInv, DecodeTypeOK, PeelOnly
<1>8. CASE Compare
  <2>1. /\ UNCHANGED <<block, mempool, pool, slices, left, transaction, expected,
                       recovered>>
        /\ phase' = "done" /\ result' \in BOOLEAN
    BY <1>8 DEF Compare, Return
  <2> QED
    BY <1>1, <1>2, <2>1 DEF DecodeInv, DecodeTypeOK, PeelOnly
<1> QED
  BY <1>3, <1>4, <1>5, <1>6, <1>7, <1>8 DEF DecodeNext

THEOREM DecodeInvHolds == DecodeSpec => []DecodeInv
  BY DecodeInitInv, StepInv, PTL DEF DecodeSpec

\* Types: in particular the loops only ever hold slices and transactions that
\* exist, and the next slice of the assembly loop is always there.
THEOREM DecodeTypeCorrect == DecodeSpec => []DecodeTypeOK
<1>1. DecodeInv => DecodeTypeOK
  BY DEF DecodeInv
<1> QED
  BY <1>1, DecodeInvHolds, PTL

\* Decode is written with the actions of Iblt, so that what is an invariant there is
\* one here.
LEMMA DecodeStepsAreIblt == DecodeSpec => IbltSpec
  BY DecodeInitIsIblt, StepIsIblt, DecodeInvHolds, PTL DEF DecodeSpec, IbltSpec

\* No exception of the todo lists ends recover_block, whatever garbage the
\* false singletons make it take away.
THEOREM DecodeNeverDesync == DecodeSpec => []NoDesync
  BY DecodeStepsAreIblt, NeverDesync, PTL
-----------------------------------------------------------------------------
(* Conservation.  Between two turns of the peeling loop the difference is a  *)
(* sketch; within one it is the sketch of the hits made so far, and the      *)
(* invariant says which.                                                     *)

\* The hits of the block, and those that are, or will be, taken away.
Inserted == Items(block) \X Seeds
Settled == (Items(pool) \cup Learned) \X Seeds

SketchOf(M) == HitSketch(hf, riblt.size, Inserted, M)

\* iblt::iblt: the buckets first, then a counter at a time.
Subtracting ==
  LET receiver == HitSketch(hf, riblt.size, Settled, {})
  IN /\ pc \in {"ctor", "fixup"} => slices = {} /\ ours = receiver
     /\ pc = "ctor" => riblt = SketchOf({})
     /\ pc = "fixup" =>
          /\ riblt.buckets = SketchOf(Settled).buckets
          /\ \A n \in Buckets(riblt.size) :
               riblt.counts[n] =
                 IF n < fixed THEN SketchOf(Settled).counts[n] ELSE SketchOf({}).counts[n]

\* frob_buckets, for a transaction that is out of the pool already or for a slice
\* that is among the slices already.
Cancelling ==
  pc = "frob" =>
    /\ Distinct(work)
    /\ \/ /\ dir = 1
          /\ \E t \in Tx \ pool :
               riblt = SketchOf(Settled \cup ToCome(t, work, hashno))
       \/ /\ dir = -1
          /\ ToCome("learned", work, hashno) \subseteq Settled
          /\ riblt = SketchOf(Settled \ ToCome("learned", work, hashno))

Conserved ==
  /\ Subtracting
  /\ Cancelling
  /\ pc = "idle" => riblt = SketchOf(Settled)
  /\ pc # "frob" => hashno = 0
  /\ IsFiniteSet(slices)

LEMMA SettledFinite ==
  ASSUME DecodeTypeOK, IsFiniteSet(slices)
  PROVE  IsFiniteSet(Inserted) /\ IsFiniteSet(Settled)
<1>1. block \in SUBSET Tx /\ pool \in SUBSET Tx
  BY DEF DecodeTypeOK
<1>2. IsFiniteSet(Learned)
  <2> DEFINE f == [s \in slices |-> <<"learned", s>>]
  <2>1. f \in Surjection(slices, Learned)
    BY DEF Surjection, Learned
  <2> HIDE DEF f
  <2> QED
    BY <2>1, FS_Surjection
<1>3. IsFiniteSet(Items(pool))
  BY <1>1, ItemsFinite
<1>4. IsFiniteSet(Items(pool) \cup Learned)
  BY <1>2, <1>3, FS_Union
<1>5. IsFiniteSet(Settled)
  BY <1>4, HitsFinite DEF Settled
<1> QED
  BY <1>1, <1>5, ItemsHitsFinite DEF Inserted

LEMMA InitConserved == DecodeInit => Conserved
<1> SUFFICES ASSUME DecodeInit PROVE Conserved
  OBVIOUS
<1>1. PICK size \in Sizes : /\ riblt = Sketch(hf, size, Items(block), {})
                           /\ ours = Sketch(hf, size, Items(mempool), {})
  BY DEF DecodeInit
<1>2. {} \X Seeds = {}
  OBVIOUS
<1>3. riblt = HitSketch(hf, size, Inserted, {})
  BY <1>1, <1>2, SketchIsHits DEF Inserted
<1>4. ours = HitSketch(hf, size, Items(mempool) \X Seeds, {})
  BY <1>1, <1>2, SketchIsHits
<1>5. riblt.size = size
  BY <1>3 DEF HitSketch
<1>6. Settled = Items(mempool) \X Seeds
  <2>1. Learned = {} /\ pool = mempool
    BY DEF Learned, DecodeInit
  <2> QED
    BY <2>1 DEF Settled
<1>7. Subtracting
  BY <1>3, <1>4, <1>5, <1>6 DEF Subtracting, DecodeInit, SketchOf
<1> QED
  BY <1>7, FS_EmptySet DEF DecodeInit, Conserved, Cancelling

LEMMA ConstructConserved ==
  ASSUME DecodeInv, Conserved, Construct, UNCHANGED dvars
  PROVE  Conserved'
<1> DEFINE size == riblt.size
           both == SketchOf(Settled)
<1>1. /\ pc = "ctor" /\ riblt = SketchOf({}) /\ ours = HitSketch(hf, size, Settled, {})
      /\ slices = {} /\ IsFiniteSet(slices) /\ hashno = 0 /\ fixed = 0
  BY DEF Construct, Conserved, Subtracting, DecodeInv, IbltInv, ControlOK
<1>2. size \in Nat \ {0} /\ IsRawIblt(riblt) /\ IsFiniteSet(Inserted) /\ IsFiniteSet(Settled)
  BY <1>1, SettledFinite DEF DecodeInv, IbltInv, IbltTypeOK, IsRawIblt
<1>3. ours.size = size
  BY <1>1 DEF HitSketch
<1>4. /\ pc' = "fixup" /\ UNCHANGED <<hf, ours, fixed, hashno>>
      /\ riblt' = [riblt EXCEPT !.buckets =
                     [n \in Buckets(size) |-> Xor(riblt.buckets[n], ours.buckets[n])]]
  BY <1>3 DEF Construct
<1>5. riblt'.size = size /\ riblt'.counts = riblt.counts
      /\ riblt'.buckets = [n \in Buckets(size) |-> Xor(riblt.buckets[n], ours.buckets[n])]
  BY <1>2, <1>4 DEF IsRawIblt
<1>6. riblt'.buckets = both.buckets
  <2>1. \A n \in Buckets(size) : Xor(riblt.buckets[n], ours.buckets[n]) = both.buckets[n]
    BY <1>1, <1>2, XorIsSketch DEF SketchOf
  <2>2. both.buckets = [n \in Buckets(size) |-> both.buckets[n]]
    BY DEF SketchOf, HitSketch
  <2> HIDE DEF both
  <2> QED
    BY <1>5, <2>1, <2>2
<1>7. \A n \in Buckets(size) : ~(n < fixed) /\ riblt'.counts[n] = SketchOf({}).counts[n]
  BY <1>1, <1>2, <1>5 DEF Buckets
<1>8. /\ Settled' = Settled /\ Inserted' = Inserted
      /\ \A M : SketchOf(M)' = SketchOf(M)
  BY <1>4, <1>5 DEF dvars, Settled, Learned, Inserted, SketchOf
<1>9. Subtracting'
  BY <1>1, <1>4, <1>5, <1>6, <1>7, <1>8 DEF Subtracting, dvars
<1> QED
  BY <1>1, <1>4, <1>9 DEF Conserved, Cancelling, dvars

LEMMA FixupConserved ==
  ASSUME DecodeInv, DecodeInv', Conserved, Fixup, UNCHANGED dvars
  PROVE  Conserved'
<1> DEFINE size == riblt.size
           both == SketchOf(Settled)
           before == SketchOf({})
<1>1. /\ pc = "fixup" /\ ours = HitSketch(hf, size, Settled, {}) /\ slices = {}
      /\ IsFiniteSet(slices) /\ hashno = 0 /\ fixed \in Buckets(size)
      /\ riblt.buckets = both.buckets
      /\ \A n \in Buckets(size) :
           riblt.counts[n] = IF n < fixed THEN both.counts[n] ELSE before.counts[n]
  <2>1. fixed < size /\ fixed \in 0 .. size /\ size \in Nat
    BY DEF Fixup, DecodeInv, IbltInv, ControlOK, IbltTypeOK, IsRawIblt
  <2> QED
    BY <2>1 DEF Fixup, Conserved, Subtracting, Buckets
<1>2. size \in Nat \ {0} /\ IsRawIblt(riblt) /\ IsFiniteSet(Inserted) /\ IsFiniteSet(Settled)
  BY <1>1, SettledFinite DEF DecodeInv, IbltInv, IbltTypeOK, IsRawIblt
<1>3. /\ riblt' = [riblt EXCEPT !.counts[fixed] = Wrap(@ - ours.counts[fixed])]
      /\ fixed' = fixed + 1 /\ UNCHANGED <<hf, ours, work, hashno, dir>>
      /\ pc' = "desync" \/ pc' = (IF fixed' = size THEN "idle" ELSE "fixup")
  BY DEF Fixup
<1>4. /\ riblt' = [size |-> riblt'.size, counts |-> riblt'.counts, buckets |-> riblt'.buckets]
      /\ riblt'.size = size /\ riblt'.buckets = both.buckets
      /\ riblt'.counts = [riblt.counts EXCEPT ![fixed] = Wrap(@ - ours.counts[fixed])]
  BY <1>1, <1>2, <1>3 DEF IsRawIblt
<1>5. Wrap(riblt.counts[fixed] - ours.counts[fixed]) = both.counts[fixed]
  <2>1. riblt.counts[fixed] = before.counts[fixed]
    BY <1>1, <1>2 DEF Buckets
  <2> QED
    BY <1>1, <1>2, <2>1, DifferenceIsSketch DEF SketchOf
<1>6. \A n \in Buckets(size) :
        riblt'.counts[n] = IF n < fixed + 1 THEN both.counts[n] ELSE before.counts[n]
  <2>1. riblt.counts \in [Buckets(size) -> Counter]
    BY <1>2 DEF IsRawIblt
  <2>2. \A n \in Buckets(size) : n < fixed + 1 <=> n < fixed \/ n = fixed
    BY <1>1, <1>2 DEF Buckets
  <2> HIDE DEF both, before
  <2> QED
    BY <1>1, <1>4, <1>5, <2>1, <2>2
<1>7. /\ Settled' = Settled /\ Inserted' = Inserted
      /\ \A M : SketchOf(M)' = SketchOf(M)
  BY <1>3, <1>4 DEF dvars, Settled, Learned, Inserted, SketchOf
<1>8. pc' # "desync"
  BY DEF DecodeInv, IbltInv, NoDesync
<1>9. Subtracting'
  BY <1>1, <1>3, <1>4, <1>6, <1>7, <1>8 DEF Subtracting, dvars
<1>10. ASSUME pc' = "idle" PROVE riblt' = both
  <2>1. fixed + 1 = size
    BY <1>3, <1>10
  <2>2. \A n \in Buckets(size) : riblt'.counts[n] = both.counts[n]
    BY <1>1, <1>2, <1>6, <2>1 DEF Buckets
  <2>3. both.counts = [n \in Buckets(size) |-> both.counts[n]]
        /\ both = [size |-> size, counts |-> both.counts, buckets |-> both.buckets]
    BY DEF SketchOf, HitSketch
  <2>4. riblt'.counts = [n \in Buckets(size) |-> riblt'.counts[n]]
    BY <1>2, <1>4 DEF IsRawIblt
  <2> HIDE DEF both
  <2> QED
    BY <1>4, <2>2, <2>3, <2>4
<1> QED
  BY <1>1, <1>3, <1>7, <1>8, <1>9, <1>10 DEF Conserved, Cancelling, dvars

LEMMA OursConserved ==
  ASSUME DecodeInv, Conserved, NEW t \in pool, RemoveOurTx(t), pool' = pool \ {t},
         UNCHANGED <<block, slices>>
  PROVE  Conserved'
<1>1. pool \subseteq Tx /\ t \in Tx /\ hashno = 0 /\ riblt = SketchOf(Settled)
  BY DEF DecodeInv, DecodeTypeOK, Conserved, RemoveOurTx, StartFrob
<1>2. /\ pc' = "frob" /\ work' = slice_tx(t) /\ dir' = 1
      /\ UNCHANGED <<hf, riblt, ours, fixed, hashno>>
  BY DEF RemoveOurTx, StartFrob
<1>3. ToCome(t, slice_tx(t), 0) = Items({t}) \X Seeds /\ Distinct(slice_tx(t))
  BY <1>1, AllToCome
<1>4. Settled' \cup (Items({t}) \X Seeds) = Settled
  <2>1. \A item : item \in Items(pool) <=> item \in Items(pool \ {t}) \/ item \in Items({t})
    <3> SUFFICES ASSUME NEW item
                 PROVE  item \in Items(pool) <=>
                          item \in Items(pool \ {t}) \/ item \in Items({t})
      OBVIOUS
    <3>1. pool \in SUBSET Tx /\ pool \ {t} \in SUBSET Tx /\ {t} \in SUBSET Tx
      BY <1>1
    <3> QED
      BY <3>1, ItemsOf
  <2>2. Items(pool) = Items(pool \ {t}) \cup Items({t})
    BY <2>1
  <2>3. Learned' = Learned
    BY DEF Learned
  <2> QED
    BY <2>2, <2>3 DEF Settled
<1>5. Inserted' = Inserted
  BY DEF Inserted
<1>6. riblt' = SketchOf(Settled' \cup ToCome(t, work', hashno'))
  BY <1>1, <1>2, <1>3, <1>4
<1>7. Cancelling'
  <2>1. t \in Tx \ pool'
    BY <1>1
  <2> QED
    BY <1>2, <1>3, <1>5, <1>6, <2>1 DEF Cancelling, SketchOf
<1> QED
  BY <1>2, <1>7 DEF Conserved, Subtracting

LEMMA TheirsConserved ==
  ASSUME DecodeInv, Conserved, NEW s \in Slice, s \notin slices, RemoveTheirSlice(s),
         slices' = slices \cup {s}, UNCHANGED <<block, pool>>
  PROVE  Conserved'
<1>1. pool \subseteq Tx /\ hashno = 0 /\ riblt = SketchOf(Settled) /\ IsFiniteSet(slices)
  BY DEF DecodeInv, DecodeTypeOK, Conserved, RemoveTheirSlice, StartFrob
<1>2. /\ pc' = "frob" /\ work' = <<s>> /\ dir' = -1
      /\ UNCHANGED <<hf, riblt, ours, fixed, hashno>>
  BY DEF RemoveTheirSlice, StartFrob
<1>3. ToCome("learned", <<s>>, 0) = {<<"learned", s>>} \X Seeds /\ Distinct(<<s>>)
  BY OneToCome
<1>4. Learned' = Learned \cup {<<"learned", s>>} /\ <<"learned", s>> \notin Learned
  BY DEF Learned
<1>5. <<"learned", s>> \notin Items(pool)
  <2>1. pool \in SUBSET Tx
    BY <1>1
  <2> QED
    BY <2>1, ItemsOwners, DecodeAssumption
<1>6. /\ {<<"learned", s>>} \X Seeds \subseteq Settled'
      /\ Settled' \ ({<<"learned", s>>} \X Seeds) = Settled
  BY <1>4, <1>5 DEF Settled
<1>7. Inserted' = Inserted
  BY DEF Inserted
<1>8. riblt' = SketchOf(Settled' \ ToCome("learned", work', hashno'))
  BY <1>1, <1>2, <1>3, <1>6
<1>9. Cancelling'
  BY <1>1, <1>2, <1>3, <1>6, <1>7, <1>8 DEF Cancelling, SketchOf
<1>10. IsFiniteSet(slices')
  BY <1>1, FS_AddElement
<1> QED
  BY <1>2, <1>9, <1>10 DEF Conserved, Subtracting

\* An iteration of frob_buckets cancels the hit it meets, or makes it.
LEMMA FrobConserved ==
  ASSUME DecodeInv, DecodeInv', Conserved, FrobBucket, UNCHANGED dvars
  PROVE  Conserved'
<1> DEFINE Hit(o) == <<<<o, Head(work)>>, hashno>>
           size == riblt.size
<1>1. /\ pc = "frob" /\ work \in Seq(Slice) /\ work # <<>> /\ hashno \in Seeds
      /\ Distinct(work) /\ pool \subseteq Tx /\ IsFiniteSet(slices)
      /\ IsFiniteSet(Inserted) /\ IsFiniteSet(Settled)
  BY SettledFinite
  DEF FrobBucket, DecodeInv, DecodeTypeOK, IbltInv, IbltTypeOK, ControlOK, Conserved,
      Cancelling, Seeds
<1>2. /\ hashno' = (hashno + 1) % NUM_HASHES
      /\ work' = (IF hashno' = 0 THEN Tail(work) ELSE work)
      /\ \A o : riblt' = frob_bucket(riblt, Struck(hf, size, Hit(o)), Hit(o)[1][2], dir)
      /\ UNCHANGED <<hf, ours, dir>>
      /\ pc' = "desync" \/ pc' = (IF work' = <<>> THEN "idle" ELSE "frob")
  BY DEF FrobBucket, Struck
<1>3. pc' = IF work' = <<>> THEN "idle" ELSE "frob"
  BY <1>2 DEF DecodeInv, IbltInv, NoDesync
<1>4. Head(work) \in Slice
  BY <1>1
<1>5. ASSUME NEW o
      PROVE  /\ work' \in Seq(Slice) /\ Distinct(work') /\ hashno' \in Seeds
             /\ Hit(o) \in ToCome(o, work, hashno)
             /\ ToCome(o, work', hashno') = ToCome(o, work, hashno) \ {Hit(o)}
             /\ Hit(o)[1][2] \in Slice
  BY <1>1, <1>2, <1>4, NextToCome
<1>6. work' = <<>> => hashno' = 0
  BY <1>1, <1>2
<1>7. Settled' = Settled /\ Inserted' = Inserted /\ slices' = slices /\ pool' = pool
  BY DEF dvars, Settled, Learned, Inserted
<1>8. riblt'.size = size
  <2>1. riblt' = frob_bucket(riblt, Struck(hf, size, Hit("learned")), Head(work), dir)
    BY <1>2
  <2> QED
    BY <2>1 DEF frob_bucket
<1>9. CASE dir = 1
  <2>1. PICK t \in Tx \ pool : riblt = SketchOf(Settled \cup ToCome(t, work, hashno))
    <3>1. 1 # -1
      OBVIOUS
    <3> QED
      BY <1>1, <1>9, <3>1 DEF Conserved, Cancelling
  <2> DEFINE M == Settled \cup ToCome(t, work', hashno')
  <2>2. IsFiniteSet(M)
    BY <1>1, <1>5, ToComeFinite, FS_Union
  <2>3. Hit(t) \notin Settled
    <3> SUFFICES ASSUME Hit(t) \in Settled PROVE FALSE
      OBVIOUS
    <3>1. <<t, Head(work)>> \in Items(pool) \/ <<t, Head(work)>> \in Learned
      BY DEF Settled
    <3>2. pool \in SUBSET Tx
      BY <1>1
    <3>3. <<t, Head(work)>> \notin Items(pool)
      <4> SUFFICES ASSUME <<t, Head(work)>> \in Items(pool) PROVE FALSE
        OBVIOUS
      <4> DEFINE item == <<t, Head(work)>>
      <4>1. item[1] \in pool
        <5> HIDE DEF item
        <5> QED
          BY <3>2, ItemsOwners DEF item
      <4> QED
        BY <4>1
    <3> QED
      BY <3>1, <3>3, DecodeAssumption DEF Learned
  <2>4. Hit(t) \notin M
    BY <1>5, <2>3
  <2>5. Settled \cup ToCome(t, work, hashno) = M \cup {Hit(t)}
    BY <1>5
  <2>6. riblt' = HitSketch(hf, size, Inserted, M)
    <3>1. riblt = HitSketch(hf, size, Inserted, M \cup {Hit(t)})
      BY <2>1, <2>5 DEF SketchOf
    <3>2. riblt' = frob_bucket(riblt, Struck(hf, size, Hit(t)), Hit(t)[1][2], 1)
      BY <1>2, <1>9
    <3> DEFINE hit == Hit(t)
    <3>3. hit[1][2] \in Slice /\ hit \notin M
      BY <1>5, <2>4
    <3> HIDE DEF hit, M, size
    <3>4. frob_bucket(HitSketch(hf, size, Inserted, M \cup {hit}),
                      Struck(hf, size, hit), hit[1][2], 1) = HitSketch(hf, size, Inserted, M)
      BY <1>1, <2>2, <3>3, FrobCancels
    <3> QED
      BY <3>1, <3>2, <3>4 DEF hit
  <2>7. CASE work' = <<>>
    <3>1. M = Settled
      BY <2>7, NothingToCome
    <3> QED
      BY <1>1, <1>2, <1>3, <1>6, <1>7, <1>8, <2>6, <2>7, <3>1
      DEF Conserved, Subtracting, Cancelling, SketchOf
  <2>8. CASE work' # <<>>
    <3>1. Cancelling'
      BY <1>2, <1>3, <1>5, <1>7, <1>8, <1>9, <2>6 DEF Cancelling, SketchOf
    <3> QED
      BY <1>1, <1>3, <1>7, <2>8, <3>1 DEF Conserved, Subtracting
  <2> QED
    BY <2>7, <2>8
<1>10. CASE dir = -1
  <2> DEFINE Left == ToCome("learned", work, hashno)
             Left2 == ToCome("learned", work', hashno')
             M == Settled \ Left
             hit == Hit("learned")
  <2>1. Left \subseteq Settled /\ riblt = SketchOf(M)
    <3>1. 1 # -1
      OBVIOUS
    <3> QED
      BY <1>1, <1>10, <3>1 DEF Conserved, Cancelling
  <2>2. IsFiniteSet(M)
    <3>1. M \in SUBSET Settled
      OBVIOUS
    <3> HIDE DEF M
    <3> QED
      BY <1>1, <3>1, FS_Subset
  <2>3. hit \in Left /\ Left2 = Left \ {hit} /\ hit[1][2] \in Slice
    BY <1>5
  <2> HIDE DEF Left, Left2
  <2>4. hit \notin M /\ M \cup {hit} = Settled \ Left2 /\ Left2 \subseteq Settled
    BY <2>1, <2>3
  <2>5. riblt' = HitSketch(hf, size, Inserted, Settled \ Left2)
    <3>1. riblt' = frob_bucket(riblt, Struck(hf, size, hit), hit[1][2], -1)
      BY <1>2, <1>10
    <3> HIDE DEF hit, M, size
    <3>2. frob_bucket(HitSketch(hf, size, Inserted, M), Struck(hf, size, hit), hit[1][2], -1)
            = HitSketch(hf, size, Inserted, M \cup {hit})
      BY <1>1, <2>2, <2>3, <2>4, FrobRemoves
    <3> QED
      BY <2>1, <2>4, <3>1, <3>2 DEF SketchOf, size
  <2>6. CASE work' = <<>>
    <3>1. Settled \ Left2 = Settled
      BY <2>6, NothingToCome DEF Left2
    <3> QED
      BY <1>1, <1>2, <1>3, <1>6, <1>7, <1>8, <2>5, <2>6, <3>1
      DEF Conserved, Subtracting, Cancelling, SketchOf
  <2>7. CASE work' # <<>>
    <3>1. Cancelling'
      BY <1>2, <1>3, <1>5, <1>7, <1>8, <1>10, <2>4, <2>5 DEF Cancelling, SketchOf, Left2
    <3> QED
      BY <1>1, <1>3, <1>7, <2>7, <3>1 DEF Conserved, Subtracting
  <2> QED
    BY <2>6, <2>7
<1> QED
  BY <1>9, <1>10 DEF DecodeInv, IbltInv, IbltTypeOK

LEMMA NextConserved == DecodeInv /\ Conserved /\ [DecodeNext]_vars => Conserved'
<1> SUFFICES ASSUME DecodeInv, Conserved, [DecodeNext]_vars PROVE Conserved'
  OBVIOUS
<1>1. DecodeInv'
  BY StepInv
<1>2. CASE DiffStep
  <2>1. UNCHANGED dvars
    BY <1>2 DEF DiffStep
  <2>2. CASE Construct
    BY <2>1, <2>2, ConstructConserved
  <2>3. CASE Fixup
    BY <1>1, <2>1, <2>3, FixupConserved
  <2>4. CASE FrobBucket
    BY <1>1, <2>1, <2>4, FrobConserved
  <2> QED
    BY <1>2, <2>2, <2>3, <2>4 DEF DiffStep
<1>3. ASSUME UNCHANGED <<ivars, block, pool, slices>> PROVE Conserved'
  BY <1>3 DEF Conserved, Subtracting, Cancelling, SketchOf, Settled, Inserted, Learned, ivars
<1>4. CASE PeelOurs
  <2>1. UNCHANGED <<block, slices>>
    BY <1>4 DEF PeelOurs
  <2>2. CASE UNCHANGED <<ivars, pool>>
    BY <1>3, <2>1, <2>2
  <2>3. ASSUME NEW t \in pool, RemoveOurTx(t), pool' = pool \ {t} PROVE Conserved'
    BY <2>1, <2>3, OursConserved
  <2> QED
    BY <1>4, <2>2, <2>3 DEF PeelOurs
<1>5. CASE PeelTheirs
  <2>1. UNCHANGED <<block, pool>> /\ phase = "peel" /\ NextType(todo) = THEIRS
    BY <1>5 DEF PeelTheirs
  <2>2. NextSlice \in Slice
    <3>1. NextBucket(todo) \in Buckets(riblt.size)
      BY <2>1, NextBucketListed DEF DecodeInv, THEIRS, NEITHER
    <3> QED
      BY <3>1 DEF DecodeInv, IbltInv, IbltTypeOK, IsRawIblt, NextSlice
  <2>3. CASE UNCHANGED <<ivars, slices>>
    BY <1>3, <2>1, <2>3
  <2>4. CASE /\ ~\E s \in slices : SameKey(s, NextSlice)
             /\ slices' = slices \cup {NextSlice} /\ RemoveTheirSlice(NextSlice)
    <3>1. NextSlice \notin slices
      <4>1. ~Before(NextSlice, NextSlice)
        <5>1. IdNum[get_txid48(NextSlice)] \in Nat /\ fragid(NextSlice) \in Nat
          BY <2>2, DecodeAssumption, FieldsAssumption DEF get_txid48, fragid, FragId
        <5> QED
          BY <5>1 DEF Before
      <4> QED
        BY <2>4, <4>1 DEF SameKey
    <3> QED
      BY <2>1, <2>2, <2>4, <3>1, TheirsConserved
  <2> QED
    BY <1>5, <2>3, <2>4 DEF PeelTheirs
<1>6. CASE PeelEnd \/ Assemble \/ Compare \/ Returned \/ UNCHANGED vars
  BY <1>3, <1>6 DEF PeelEnd, Assemble, Compare, Returned, vars, dvars
<1> QED
  BY <1>2, <1>4, <1>5, <1>6 DEF DecodeNext

\* Between two turns of the peeling loop the difference is the IBLT one would
\* build from the block, what is left of the pool and the slices collected, for
\* every block, mempool, hash function and size, however often a slice strikes a
\* bucket, a false singleton is taken for a slice or a counter overflows.
THEOREM PeelingConserves == DecodeSpec => []Conservation
<1>1. Conserved => Conservation
  BY SketchIsHits DEF Conserved, Conservation, SketchOf, Inserted, Settled
<1>2. DecodeInit => DecodeInv /\ Conserved
  BY DecodeInitInv, InitConserved
<1>3. DecodeInv /\ Conserved /\ [DecodeNext]_vars => DecodeInv' /\ Conserved'
  BY StepInv, NextConserved
<1> QED
  BY <1>1, <1>2, <1>3, PTL DEF DecodeSpec

-----------------------------------------------------------------------------
(* Transactions missing on one side only. *)

\* Too few hits for a counter to come back to where it was.
Roomy ==
  \A n \in Buckets(riblt.size) :
    Cardinality(Hits(hf, riblt.size, Items(Missing) \cup Items(Extra), n)) < 2 * S16 - 1

Rest == {item \in Items(Missing) : item[2] \notin slices}
Peeled == {item \in Items(Missing) : item[2] \in slices}

\* The slices collected are of one missing transaction each.
Once ==
  \A s \in slices :
    \E x \in Items(Missing) : x[2] = s /\ \A y \in Items(Missing) : y[2] = s => y = x

Behind == mempool \subseteq block /\ pool = mempool /\ Once
Ahead == block \subseteq mempool /\ slices = {} /\ block \subseteq pool

\* The difference is what inserting, or removing, the items of S makes.
Positive(S) ==
  \A n \in Buckets(riblt.size) :
    /\ riblt.counts[n] = Wrap(Cardinality(In(hf, riblt.size, S \X Seeds, n)))
    /\ riblt.buckets[n] =
         {b \in SliceBits : Cardinality(Bringing(hf, riblt.size, S \X Seeds, n, b)) % 2 = 1}
Negative(S) ==
  \A n \in Buckets(riblt.size) :
    /\ riblt.counts[n] = Wrap(0 - Cardinality(In(hf, riblt.size, S \X Seeds, n)))
    /\ riblt.buckets[n] =
         {b \in SliceBits : Cardinality(Bringing(hf, riblt.size, S \X Seeds, n, b)) % 2 = 1}

\* The items of the transactions of two sets.
LEMMA ItemsUnion ==
  ASSUME NEW A \in SUBSET Tx, NEW B \in SUBSET Tx
  PROVE  /\ Items(A \cup B) = Items(A) \cup Items(B)
         /\ (A \cap B = {} => Items(A) \cap Items(B) = {})
         /\ (A \subseteq B => Items(A) \in SUBSET Items(B))
<1>1. A \cup B \in SUBSET Tx
  OBVIOUS
<1>2. \A x : x \in Items(A \cup B) <=> x \in Items(A) \/ x \in Items(B)
  BY <1>1, ItemsOf
<1>3. A \cap B = {} => Items(A) \cap Items(B) = {}
  BY ItemsOwners
<1>4. A \subseteq B => Items(A) \in SUBSET Items(B)
  BY ItemsOf
<1> QED
  BY <1>2, <1>3, <1>4

\* A sketch in which all but the items of S cancel out is that of S.
LEMMA SketchHolds ==
  ASSUME NEW X, NEW M, NEW S, IsFiniteSet(X), IsFiniteSet(S), X \cap (S \X Seeds) = {},
         SameHits(X, M)
  PROVE  /\ riblt = HitSketch(hf, riblt.size, X \cup (S \X Seeds), M) => Positive(S)
         /\ riblt = HitSketch(hf, riblt.size, M, X \cup (S \X Seeds)) => Negative(S)
<1> DEFINE h == hf
           size == riblt.size
           R == S \X Seeds
           P == X \cup R
<1>2. P = X \cup R
  OBVIOUS
<1>3. IsFiniteSet(R) /\ X \cap R = {}
  BY HitsFinite
<1> HIDE DEF h, size, R, P
<1>4. ASSUME NEW n, NEW b
      PROVE  /\ Balance(h, size, P, M, n) = Cardinality(In(h, size, R, n))
             /\ Balance(h, size, M, P, n) = 0 - Cardinality(In(h, size, R, n))
             /\ Brought(h, size, P, M, n, b) % 2 = Cardinality(Bringing(h, size, R, n, b)) % 2
             /\ Brought(h, size, M, P, n, b) % 2 = Cardinality(Bringing(h, size, R, n, b)) % 2
  <2>1. /\ Cardinality(In(h, size, X, n)) \in Nat /\ Cardinality(In(h, size, R, n)) \in Nat
        /\ Cardinality(Bringing(h, size, X, n, b)) \in Nat
        /\ Cardinality(Bringing(h, size, R, n, b)) \in Nat
    BY <1>3, CountsAreIntegers
  <2>2. /\ Cardinality(In(h, size, X, n)) = Cardinality(In(h, size, M, n))
        /\ Cardinality(Bringing(h, size, X, n, b)) = Cardinality(Bringing(h, size, M, n, b))
    BY SameHitsCount
  <2>3. /\ Cardinality(In(h, size, P, n)) =
             Cardinality(In(h, size, X, n)) + Cardinality(In(h, size, R, n))
        /\ Cardinality(Bringing(h, size, P, n, b)) =
             Cardinality(Bringing(h, size, X, n, b)) + Cardinality(Bringing(h, size, R, n, b))
    BY <1>2, <1>3, ApartCounts
  <2>4. Balance(h, size, P, M, n) = Cardinality(In(h, size, R, n))
        /\ Balance(h, size, M, P, n) = 0 - Cardinality(In(h, size, R, n))
    BY <2>1, <2>2, <2>3 DEF Balance
  <2>5. Brought(h, size, P, M, n, b) % 2 = Cardinality(Bringing(h, size, R, n, b)) % 2
    BY <2>1, <2>2, <2>3, EvenGone DEF Brought
  <2>6. Brought(h, size, M, P, n, b) % 2 = Cardinality(Bringing(h, size, R, n, b)) % 2
    BY <2>1, <2>2, <2>3, EvenGone DEF Brought
  <2> QED
    BY <2>4, <2>5, <2>6
<1>5. ASSUME NEW n \in Buckets(size)
      PROVE  /\ HitSketch(h, size, P, M).counts[n] = Wrap(Cardinality(In(h, size, R, n)))
             /\ HitSketch(h, size, P, M).buckets[n] =
                  {b \in SliceBits : Cardinality(Bringing(h, size, R, n, b)) % 2 = 1}
             /\ HitSketch(h, size, M, P).counts[n] = Wrap(0 - Cardinality(In(h, size, R, n)))
             /\ HitSketch(h, size, M, P).buckets[n] =
                  {b \in SliceBits : Cardinality(Bringing(h, size, R, n, b)) % 2 = 1}
  <2>1. \A A, B : /\ HitSketch(h, size, A, B).counts[n] = Wrap(Balance(h, size, A, B, n))
                  /\ HitSketch(h, size, A, B).buckets[n] =
                       {b \in SliceBits : Brought(h, size, A, B, n, b) % 2 = 1}
    BY DEF HitSketch, SliceBits
  <2>2. /\ Balance(h, size, P, M, n) = Cardinality(In(h, size, R, n))
        /\ Balance(h, size, M, P, n) = 0 - Cardinality(In(h, size, R, n))
    BY <1>4
  <2>3. /\ HitSketch(h, size, P, M).counts[n] = Wrap(Cardinality(In(h, size, R, n)))
        /\ HitSketch(h, size, M, P).counts[n] = Wrap(0 - Cardinality(In(h, size, R, n)))
    BY <2>1, <2>2
  <2>4. /\ {b \in SliceBits : Brought(h, size, P, M, n, b) % 2 = 1}
             = {b \in SliceBits : Cardinality(Bringing(h, size, R, n, b)) % 2 = 1}
        /\ {b \in SliceBits : Brought(h, size, M, P, n, b) % 2 = 1}
             = {b \in SliceBits : Cardinality(Bringing(h, size, R, n, b)) % 2 = 1}
    <3>1. \A b : /\ Brought(h, size, P, M, n, b) % 2 = 1
                      <=> Cardinality(Bringing(h, size, R, n, b)) % 2 = 1
                 /\ Brought(h, size, M, P, n, b) % 2 = 1
                      <=> Cardinality(Bringing(h, size, R, n, b)) % 2 = 1
      BY <1>4
    <3> QED BY <3>1
  <2> QED BY <2>1, <2>3, <2>4
<1>6. riblt = HitSketch(h, size, P, M) => Positive(S)
  <2> SUFFICES ASSUME riblt = HitSketch(h, size, P, M) PROVE Positive(S)
    OBVIOUS
  <2>1. \A n \in Buckets(size) :
          /\ riblt.counts[n] = Wrap(Cardinality(In(h, size, R, n)))
          /\ riblt.buckets[n] = {b \in SliceBits : Cardinality(Bringing(h, size, R, n, b)) % 2 = 1}
    BY <1>5
  <2> QED BY <2>1 DEF Positive, h, size, R
<1>7. riblt = HitSketch(h, size, M, P) => Negative(S)
  <2> SUFFICES ASSUME riblt = HitSketch(h, size, M, P) PROVE Negative(S)
    OBVIOUS
  <2>1. \A n \in Buckets(size) :
          /\ riblt.counts[n] = Wrap(0 - Cardinality(In(h, size, R, n)))
          /\ riblt.buckets[n] = {b \in SliceBits : Cardinality(Bringing(h, size, R, n, b)) % 2 = 1}
    BY <1>5
  <2> QED BY <2>1 DEF Negative, h, size, R
<1> QED BY <1>6, <1>7 DEF h, size, R, P

\* What the receiver lacks is in the difference, and nothing else is.
LEMMA BehindHolds ==
  ASSUME DecodeInv, Conserved, pc = "idle", pool = block \cap mempool, Once
  PROVE  Positive(Rest)
<1> DEFINE X == (Items(pool) \cup Peeled) \X Seeds
           move(hit) == IF hit[1][1] \in pool THEN hit
                        ELSE <<<<"learned", hit[1][2]>>, hit[2]>>
           f == [hit \in X |-> move(hit)]
<1>1. /\ block \in SUBSET Tx /\ pool \in SUBSET Tx /\ Missing \in SUBSET Tx
      /\ pool \cup Missing = block /\ pool \cap Missing = {}
      /\ riblt = SketchOf(Settled)
  BY DEF DecodeInv, DecodeTypeOK, Conserved, Missing
<1>2. /\ Items(block) = Items(pool) \cup Items(Missing)
      /\ Items(pool) \cap Items(Missing) = {}
  BY <1>1, ItemsUnion
<1>3. Items(Missing) = Peeled \cup Rest /\ Peeled \cap Rest = {}
  BY DEF Peeled, Rest
<1>4. Inserted = X \cup (Rest \X Seeds) /\ X \cap (Rest \X Seeds) = {}
  BY <1>2, <1>3 DEF Inserted
<1>5. IsFiniteSet(X) /\ IsFiniteSet(Rest)
  <2>1. Items(pool) \cup Peeled \in SUBSET Items(block) /\ Rest \in SUBSET Items(block)
    BY <1>2, <1>3
  <2>2. IsFiniteSet(Items(block))
    BY <1>1, ItemsFinite
  <2>3. IsFiniteSet(Items(pool) \cup Peeled)
    BY <2>1, <2>2, FS_Subset
  <2> QED
    BY <2>1, <2>2, <2>3, FS_Subset, HitsFinite
<1>6. \A x \in Items(pool) : x[1] \in pool /\ x = <<x[1], x[2]>>
  BY <1>1, ItemsOwners
<1>7. \A x \in Peeled : x[1] \notin pool /\ x = <<x[1], x[2]>> /\ x[2] \in slices
  BY <1>1, ItemsOwners DEF Peeled
<1>8. \A hit \in X : /\ hit = <<hit[1], hit[2]>> /\ hit[2] \in Seeds
                     /\ hit[1] \in Items(pool) \/ hit[1] \in Peeled
  OBVIOUS
<1>9. "learned" \notin pool
  BY <1>1, DecodeAssumption
<1>10. ASSUME NEW hit \in X
       PROVE  /\ move(hit) \in Settled /\ move(hit)[1][2] = hit[1][2] /\ move(hit)[2] = hit[2]
              /\ move(hit)[1][1] \in pool <=> hit[1] \in Items(pool)
              /\ hit[1] \in Items(pool) => move(hit) = hit
  <2>1. CASE hit[1] \in Items(pool)
    <3>1. move(hit) = hit
      BY <2>1, <1>6
    <3> QED BY <2>1, <3>1, <1>1, <1>6, <1>8 DEF Settled
  <2>2. CASE hit[1] \in Peeled
    <3>1. move(hit) = <<<<"learned", hit[1][2]>>, hit[2]>> /\ hit[1][2] \in slices
          /\ hit[1] \notin Items(pool)
      BY <2>2, <1>6, <1>7
    <3>2. move(hit)[1][1] = "learned" /\ move(hit)[1][2] = hit[1][2] /\ move(hit)[2] = hit[2]
      BY <3>1
    <3> QED BY <3>1, <3>2, <1>8, <1>9 DEF Settled, Learned
  <2> QED BY <2>1, <2>2, <1>8
<1>11. ASSUME NEW g \in X, NEW hit \in X, move(g) = move(hit) PROVE g = hit
  <2>1. g[1][2] = hit[1][2] /\ g[2] = hit[2]
        /\ (g[1] \in Items(pool) <=> hit[1] \in Items(pool))
    <3> HIDE DEF move, X
    <3> QED BY <1>10, <1>11
  <2>2. CASE g[1] \in Items(pool)
    <3> HIDE DEF move, X
    <3> QED BY <1>10, <1>11, <2>1, <2>2
  <2>3. CASE g[1] \notin Items(pool)
    <3>1. g[1] \in Peeled /\ hit[1] \in Peeled
      BY <1>8, <2>1, <2>3
    <3>2. g[1] = hit[1]
      <4>1. g[1][2] \in slices /\ g[1] \in Items(Missing) /\ hit[1] \in Items(Missing)
        BY <3>1 DEF Peeled
      <4> QED BY <2>1, <4>1 DEF Once
    <3> QED BY <2>1, <3>2, <1>8
  <2> QED BY <2>2, <2>3
<1>12. ASSUME NEW m \in Settled PROVE \E hit \in X : move(hit) = m
  <2>1. m = <<m[1], m[2]>> /\ m[2] \in Seeds /\ (m[1] \in Items(pool) \/ m[1] \in Learned)
    BY <1>1 DEF Settled
  <2>2. CASE m[1] \in Items(pool)
    <3>1. m \in X /\ move(m) = m
      BY <2>1, <2>2, <1>6
    <3> QED BY <3>1
  <2>3. CASE m[1] \in Learned
    <3>1. PICK s \in slices : m[1] = <<"learned", s>>
      BY <2>3 DEF Learned
    <3>2. PICK x \in Items(Missing) : x[2] = s
      BY DEF Once
    <3>3. x \in Peeled
      BY <3>2 DEF Peeled
    <3>4. <<x, m[2]>> \in X /\ move(<<x, m[2]>>) = m
      BY <2>1, <3>1, <3>2, <3>3, <1>7
    <3> QED BY <3>4
  <2> QED BY <2>1, <2>2, <2>3
<1>13. SameHits(X, Settled)
  <2>1. /\ f \in [X -> Settled]
        /\ \A g, hit \in X : f[g] = f[hit] => g = hit
        /\ \A m \in Settled : \E hit \in X : f[hit] = m
        /\ \A hit \in X : f[hit][1][2] = hit[1][2] /\ f[hit][2] = hit[2]
    <3> HIDE DEF move, X
    <3> QED BY <1>10, <1>11, <1>12
  <2>2. f \in Bijection(X, Settled)
    <3> HIDE DEF f, X
    <3> QED BY <2>1 DEF Bijection, Injection, Surjection, IsInjective
  <2> HIDE DEF f, X
  <2> QED BY <2>1, <2>2 DEF SameHits
<1> HIDE DEF X
<1>14. riblt = HitSketch(hf, riblt.size, X \cup (Rest \X Seeds), Settled)
  BY <1>1, <1>4 DEF SketchOf
<1> QED BY <1>4, <1>5, <1>13, <1>14, SketchHolds

\* And so is what only the receiver has.
LEMMA AheadHolds ==
  ASSUME DecodeInv, Conserved, pc = "idle", Ahead
  PROVE  Negative(Items(pool \ block))
<1> DEFINE X == Inserted
           S == Items(pool \ block)
           f == [hit \in X |-> hit]
<1>1. /\ block \in SUBSET Tx /\ pool \in SUBSET Tx /\ pool \ block \in SUBSET Tx
      /\ block \cup (pool \ block) = pool /\ block \cap (pool \ block) = {}
      /\ riblt = SketchOf(Settled) /\ Learned = {}
  BY DEF DecodeInv, DecodeTypeOK, Conserved, Ahead, Learned
<1>2. Items(pool) = Items(block) \cup S /\ Items(block) \cap S = {}
  BY <1>1, ItemsUnion
<1>3. Settled = X \cup (S \X Seeds) /\ X \cap (S \X Seeds) = {}
  BY <1>1, <1>2 DEF Settled, Inserted
<1>4. IsFiniteSet(X) /\ IsFiniteSet(S)
  BY <1>1, ItemsFinite, ItemsHitsFinite DEF Inserted
<1>5. SameHits(X, X)
  <2> HIDE DEF X
  <2>1. f \in Bijection(X, X) /\ \A hit \in X : f[hit] = hit
    BY DEF Bijection, Injection, Surjection, IsInjective
  <2> QED BY <2>1 DEF SameHits
<1> HIDE DEF S
<1>6. riblt = HitSketch(hf, riblt.size, X, X \cup (S \X Seeds))
  BY <1>1, <1>3 DEF SketchOf
<1> HIDE DEF X
<1>7. Negative(S)
  BY <1>3, <1>4, <1>5, <1>6, SketchHolds
<1> QED BY <1>7 DEF S

\* The hits of some of the items that are on one side only are too few.
LEMMA RoomyFor ==
  ASSUME DecodeTypeOK, Roomy, NEW S \in SUBSET (Items(Missing) \cup Items(Extra)),
         NEW n \in Buckets(riblt.size)
  PROVE  /\ Cardinality(In(hf, riblt.size, S \X Seeds, n)) \in Nat
         /\ Cardinality(In(hf, riblt.size, S \X Seeds, n)) < 2 * S16 - 1
         /\ IsFiniteSet(S)
<1> DEFINE B == Items(Missing) \cup Items(Extra)
<1>1. Missing \in SUBSET Tx /\ Extra \in SUBSET Tx
  BY DEF DecodeTypeOK, Missing, Extra
<1>2. IsFiniteSet(B)
  BY <1>1, ItemsFinite, FS_Union
<1>3. Cardinality(In(hf, riblt.size, B \X Seeds, n)) < 2 * S16 - 1
  <2>1. Hits(hf, riblt.size, B, n) = In(hf, riblt.size, B \X Seeds, n)
    BY DEF Hits, In, Struck, Seeds
  <2> QED BY <2>1 DEF Roomy
<1>4. S \in SUBSET B
  OBVIOUS
<1> HIDE DEF B
<1>5. /\ Cardinality(In(hf, riblt.size, S \X Seeds, n)) \in Nat
      /\ Cardinality(In(hf, riblt.size, B \X Seeds, n)) \in Nat
      /\ Cardinality(In(hf, riblt.size, S \X Seeds, n))
           <= Cardinality(In(hf, riblt.size, B \X Seeds, n))
  BY <1>2, <1>4, FewerHits
<1>6. S16 \in Nat
  BY FieldsAssumption
<1> QED BY <1>2, <1>3, <1>4, <1>5, <1>6, FS_Subset

\* A bucket of the type that next returns.
LEMMA NextCount ==
  ASSUME IbltInv, pc = "idle", NextType(todo) # NEITHER
  PROVE  /\ NextBucket(todo) \in Buckets(riblt.size)
         /\ NextType(todo) = OURS => riblt.counts[NextBucket(todo)] = -1
         /\ NextType(todo) = THEIRS => riblt.counts[NextBucket(todo)] = 1
<1> DEFINE t == NextType(todo)
           n == NextBucket(todo)
<1>1. t \in TodoTypes /\ NextTodo(todo[t]) \in Prios /\ n \in Buckets(riblt.size)
      /\ n \in todo[t][NextTodo(todo[t])]
  BY NextBucketListed
<1>2. TypeOfCount(riblt.counts[n]) = t
  <2> HIDE DEF t, n
  <2> QED BY <1>1 DEF IbltInv, TodoExact
<1>3. /\ TypeOfCount(riblt.counts[n]) = OURS => riblt.counts[n] = -1
      /\ TypeOfCount(riblt.counts[n]) = THEIRS => riblt.counts[n] = 1
  BY DEF TypeOfCount, OURS, THEIRS, NEITHER
<1> QED BY <1>1, <1>2, <1>3

\* With no bucket cancelled by hand, next finds any singleton there is.
LEMMA NextFinds ==
  ASSUME IbltInv, pc = "idle", cancelled = {}, NEW n \in Buckets(riblt.size),
         riblt.counts[n] \in {-1, 1}
  PROVE  NextType(todo) # NEITHER
<1>1. Singleton(riblt, n)
  BY DEF Singleton, TypeOfCount, OURS, THEIRS, NEITHER
<1> DEFINE live == {m \in Buckets(riblt.size) \ cancelled : Singleton(riblt, m)}
<1>2. n \in live
  BY <1>1
<1>3. live # {} => NextBucket(todo) \in live
                     /\ TypeOfCount(riblt.counts[NextBucket(todo)]) = NextType(todo)
  BY InSyncIsBest DEF NextIsBest
<1>4. NextBucket(todo) \in live
      /\ TypeOfCount(riblt.counts[NextBucket(todo)]) = NextType(todo)
  BY <1>2, <1>3
<1> QED BY <1>4 DEF Singleton

\* The slice of a bucket with a single hit is that of the item that hit it.
LEMMA NextIsAlone ==
  ASSUME DecodeInv, pc = "idle", Roomy, NEW S \in SUBSET (Items(Missing) \cup Items(Extra)),
         NextType(todo) # NEITHER,
         \/ Positive(S)
         \/ Negative(S)
  PROVE  /\ Positive(S) => NextType(todo) = THEIRS
         /\ Negative(S) => NextType(todo) = OURS
         /\ NextBucket(todo) \in Buckets(riblt.size)
         /\ \E x \in S : \E k \in Seeds :
              /\ NextSlice = x[2]
              /\ In(hf, riblt.size, S \X Seeds, NextBucket(todo)) = {<<x, k>>}
<1> DEFINE n == NextBucket(todo)
           R == S \X Seeds
<1>1. /\ n \in Buckets(riblt.size)
      /\ NextType(todo) = OURS => riblt.counts[n] = -1
      /\ NextType(todo) = THEIRS => riblt.counts[n] = 1
      /\ NextType(todo) \in {OURS, THEIRS}
  BY NextCount, NextBucketListed DEF DecodeInv, TodoTypes
<1>2. PICK c : c = Cardinality(In(hf, riblt.size, R, n))
  OBVIOUS
<1>3. c \in Nat /\ c < 2 * S16 - 1 /\ IsFiniteSet(S)
  BY <1>1, <1>2, RoomyFor DEF DecodeInv
<1>4. IsFiniteSet(R) /\ \A hit \in R : hit[1][2] \in Slice
  <2>1. Missing \in SUBSET Tx /\ Extra \in SUBSET Tx
    BY DEF DecodeInv, DecodeTypeOK, Missing, Extra
  <2>2. \A x \in S : x[2] \in Slice
    BY <2>1, ItemsFinite
  <2> QED BY <1>3, <2>2, HitsFinite
<1>5. /\ Positive(S) => riblt.counts[n] = Wrap(c)
      /\ Negative(S) => riblt.counts[n] = Wrap(0 - c)
      /\ riblt.buckets[n] = {b \in SliceBits : Cardinality(Bringing(hf, riblt.size, R, n, b)) % 2 = 1}
  BY <1>1, <1>2 DEF Positive, Negative
<1>6. /\ Wrap(c) # -1 /\ (Wrap(c) = 1 <=> c = 1)
      /\ Wrap(0 - c) # 1 /\ (Wrap(0 - c) = -1 <=> c = 1)
  BY <1>3, WrapSmall
<1>7. /\ Positive(S) => NextType(todo) = THEIRS
      /\ Negative(S) => NextType(todo) = OURS
      /\ c = 1
  BY <1>1, <1>5, <1>6
<1>8. \E hit \in R :
        /\ In(hf, riblt.size, R, n) = {hit}
        /\ {b \in SliceBits : Cardinality(Bringing(hf, riblt.size, R, n, b)) % 2 = 1} = hit[1][2]
  <2> DEFINE size == riblt.size
  <2>1. Cardinality(In(hf, size, R, n)) = 1
    BY <1>2, <1>7
  <2> HIDE DEF n, R, size
  <2>2. \E hit \in R :
          /\ In(hf, size, R, n) = {hit}
          /\ {b \in SliceBits : Cardinality(Bringing(hf, size, R, n, b)) % 2 = 1} = hit[1][2]
    BY <1>4, <2>1, LoneHit
  <2> QED BY <2>2 DEF size
<1>9. PICK hit \in R : In(hf, riblt.size, R, n) = {hit} /\ riblt.buckets[n] = hit[1][2]
  BY <1>5, <1>8
<1>10. hit = <<hit[1], hit[2]>> /\ hit[1] \in S /\ hit[2] \in Seeds
  OBVIOUS
<1>11. NextSlice = hit[1][2]
  BY <1>9 DEF NextSlice
<1> QED BY <1>1, <1>7, <1>9, <1>10, <1>11

-----------------------------------------------------------------------------
\* A set of items with one that was peeled can itself be peeled: the bucket that
\* gave that item away held nothing else that is still to be peeled.
PeeledMissing ==
  \A I \in SUBSET Items(Missing) : I \cap Peeled # {} => AloneSomewhere(I)
PeeledExtra ==
  \A X \in SUBSET Extra : X \ pool # {} => AloneSomewhere(Items(X))

\* What OneSidedIsGenuine needs to be inductive.
OneSidedInv ==
  /\ IdsDistinct(mempool)
  /\ cancelled = {}
  /\ Roomy => /\ mempool \subseteq block => Behind /\ PeeledMissing
              /\ block \subseteq mempool => Ahead /\ PeeledExtra

LEMMA InitOneSided == DecodeInit => OneSidedInv
<1> SUFFICES ASSUME DecodeInit PROVE OneSidedInv
  OBVIOUS
<1>1. IdsDistinct(mempool) /\ cancelled = {} /\ pool = mempool /\ slices = {}
  BY DEF DecodeInit
<1>2. PeeledMissing
  BY <1>1 DEF PeeledMissing, Peeled
<1>3. PeeledExtra
  BY <1>1 DEF PeeledExtra, Extra
<1> QED BY <1>1, <1>2, <1>3 DEF OneSidedInv, Behind, Ahead, Once

\* What no step changes.
LEMMA DecodeConstants ==
  ASSUME DecodeInv, [DecodeNext]_vars
  PROVE  /\ UNCHANGED <<hf, block, mempool>> /\ riblt'.size = riblt.size
         /\ cancelled = {} => cancelled' = {}
<1>1. UNCHANGED <<block, mempool>>
  BY DEF DecodeNext, DiffStep, PeelOurs, PeelTheirs, PeelEnd, Assemble, Compare, Returned,
         vars, dvars
<1>2. [DecodeNext]_vars => UNCHANGED ivars \/ Construct \/ Fixup \/ FrobBucket
                              \/ \E v, d : StartFrob(v, d)
  BY DEF DecodeNext, DiffStep, PeelOurs, PeelTheirs, PeelEnd, Assemble, Compare, Returned,
         vars, RemoveOurTx, RemoveTheirSlice
<1>3. IsRawIblt(riblt)
  BY DEF DecodeInv, IbltInv, IbltTypeOK
<1>4. CASE UNCHANGED ivars
  BY <1>1, <1>4 DEF ivars
<1>5. CASE Construct
  BY <1>1, <1>3, <1>5 DEF Construct, IsRawIblt
<1>6. CASE Fixup
  BY <1>1, <1>3, <1>6 DEF Fixup, IsRawIblt
<1>7. CASE FrobBucket
  BY <1>1, <1>7 DEF FrobBucket, frob_bucket
<1>8. CASE \E v, d : StartFrob(v, d)
  BY <1>1, <1>8 DEF StartFrob
<1> QED BY <1>2, <1>4, <1>5, <1>6, <1>7, <1>8

\* next gives OURS only for what the receiver has too much, and that goes.
LEMMA OursOneSided ==
  ASSUME DecodeInv, Conserved, OneSidedInv, Roomy, pc = "idle", NextType(todo) = OURS,
         NEW t \in pool, TxId48[t] = get_txid48(NextSlice), pool' = pool \ {t},
         UNCHANGED <<hf, block, mempool, slices>>, riblt'.size = riblt.size
  PROVE  /\ ~(mempool \subseteq block)
         /\ block \subseteq mempool => Ahead' /\ PeeledExtra'
<1>1. NextType(todo) # NEITHER /\ NextType(todo) # THEIRS
  BY DEF OURS, NEITHER, THEIRS
<1>2. ASSUME mempool \subseteq block PROVE FALSE
  <2>1. Behind
    BY <1>2 DEF OneSidedInv
  <2>2. Positive(Rest) /\ Rest \in SUBSET (Items(Missing) \cup Items(Extra))
    BY <2>1, BehindHolds DEF Behind, Rest
  <2> QED BY <1>1, <2>2, NextIsAlone
<1>3. ASSUME block \subseteq mempool PROVE Ahead' /\ PeeledExtra'
  <2> DEFINE S == Items(pool \ block)
             n == NextBucket(todo)
  <2>1. Ahead /\ PeeledExtra
    BY <1>3 DEF OneSidedInv
  <2>2. pool \subseteq mempool /\ pool \in SUBSET Tx /\ mempool \in SUBSET Tx
    BY DEF DecodeInv, DecodeTypeOK
  <2>3. Extra \in SUBSET Tx /\ pool \ block \in SUBSET Extra
    BY <2>2 DEF Extra
  <2>4. S \in SUBSET (Items(Missing) \cup Items(Extra))
    <3>1. pool \ block \in SUBSET Tx
      BY <2>3
    <3>2. S \in SUBSET Items(Extra)
      BY <2>3, <3>1, ItemsUnion
    <3> QED BY <3>2
  <2>5. Negative(S)
    BY <2>1, AheadHolds
  <2>6. PICK x \in S, k \in Seeds :
          NextSlice = x[2] /\ In(hf, riblt.size, S \X Seeds, n) = {<<x, k>>}
    <3> HIDE DEF S
    <3> QED BY <1>1, <2>4, <2>5, NextIsAlone
  <2>7. n \in Buckets(riblt.size)
    BY <1>1, NextCount DEF DecodeInv
  <2>8. x[1] = t /\ t \notin block
    <3>1. pool \ block \in SUBSET Tx
      BY <2>3
    <3>2. x[1] \in pool \ block /\ \E i \in DOMAIN slice_tx(x[1]) : x[2] = slice_tx(x[1])[i]
      BY <3>1, <2>6, ItemsOwners
    <3>3. TxId48[x[1]] = TxId48[t]
      BY <2>2, <2>6, <3>2, SliceFields
    <3> QED BY <2>2, <3>2, <3>3 DEF OneSidedInv, IdsDistinct
  <2>9. Ahead'
    BY <2>1, <2>8 DEF Ahead
  <2>10. PeeledExtra'
    <3> SUFFICES ASSUME NEW X \in SUBSET Extra, X \ (pool \ {t}) # {}
                 PROVE  AloneSomewhere(Items(X))'
      BY DEF PeeledExtra, Extra
    <3>1. AloneSomewhere(Items(X))
      <4>1. CASE X \ pool # {}
        BY <2>1, <4>1 DEF PeeledExtra
      <4>2. CASE X \ pool = {}
        <5>1. t \in X /\ X \in SUBSET (pool \ block)
          BY <4>2 DEF Extra
        <5>2. pool \ block \in SUBSET Tx /\ X \in SUBSET Tx
          BY <2>3, <5>1
        <5>3. Items(X) \in SUBSET S
          BY <5>1, <5>2, ItemsUnion
        <5>4. x \in Items(X)
          <6>1. x = <<x[1], x[2]>> /\ \E i \in DOMAIN slice_tx(x[1]) : x[2] = slice_tx(x[1])[i]
            BY <2>6, <5>2, ItemsOwners
          <6> QED BY <2>8, <5>1, <5>2, <6>1, ItemsOf
        <5>5. Hits(hf, riblt.size, Items(X), n) = {<<x, k>>}
          <6>1. Hits(hf, riblt.size, Items(X), n) = In(hf, riblt.size, Items(X) \X Seeds, n)
            BY DEF Hits, In, Struck, Seeds
          <6>2. <<x, k>> \in In(hf, riblt.size, S \X Seeds, n)
            BY <2>6
          <6>3. In(hf, riblt.size, Items(X) \X Seeds, n)
                  = In(hf, riblt.size, S \X Seeds, n) \cap (Items(X) \X Seeds)
            BY <5>3 DEF In
          <6> QED BY <2>6, <5>4, <6>1, <6>2, <6>3
        <5> QED BY <2>7, <5>5, FS_Singleton DEF AloneSomewhere
      <4> QED BY <4>1, <4>2
    <3> QED BY <3>1 DEF AloneSomewhere
  <2> QED BY <2>9, <2>10
<1> QED BY <1>2, <1>3

\* The item that a slice of theirs comes from is its only one, and is still to
\* be peeled.
LEMMA TheirsIsMissing ==
  ASSUME DecodeInv, Conserved, OneSidedInv, Roomy, mempool \subseteq block, pc = "idle",
         NextType(todo) = THEIRS
  PROVE  \E x \in Rest, k \in Seeds :
           /\ NextSlice = x[2]
           /\ In(hf, riblt.size, Rest \X Seeds, NextBucket(todo)) = {<<x, k>>}
           /\ \A y \in Items(Missing) : y[2] = x[2] => y = x
<1> DEFINE n == NextBucket(todo)
<1>1. NextType(todo) # NEITHER
  BY DEF NEITHER, THEIRS
<1>2. Behind
  BY DEF OneSidedInv
<1>3. Positive(Rest) /\ Rest \in SUBSET (Items(Missing) \cup Items(Extra))
  BY <1>2, BehindHolds DEF Behind, Rest
<1>4. PICK x \in Rest, k \in Seeds :
        NextSlice = x[2] /\ In(hf, riblt.size, Rest \X Seeds, n) = {<<x, k>>}
  <2> HIDE DEF n
  <2>1. \E x \in Rest : \E k \in Seeds :
          NextSlice = x[2] /\ In(hf, riblt.size, Rest \X Seeds, NextBucket(todo)) = {<<x, k>>}
    BY <1>1, <1>3, NextIsAlone
  <2> QED BY <2>1 DEF n
<1>5. ASSUME NEW y \in Items(Missing), y[2] = x[2] PROVE y = x
  <2>1. y \in Rest
    BY <1>5 DEF Rest
  <2>2. <<x, k>> \in In(hf, riblt.size, Rest \X Seeds, n)
    BY <1>4
  <2>3. Struck(hf, riblt.size, <<y, k>>) = Struck(hf, riblt.size, <<x, k>>)
    BY <1>5 DEF Struck
  <2>4. <<y, k>> \in In(hf, riblt.size, Rest \X Seeds, n)
    BY <2>1, <2>2, <2>3 DEF In
  <2> QED BY <1>4, <2>4
<1> QED BY <1>4, <1>5

\* next gives THEIRS only for what it lacks, and that is collected.
LEMMA TheirsOneSided ==
  ASSUME DecodeInv, Conserved, OneSidedInv, Roomy, pc = "idle", NextType(todo) = THEIRS,
         slices' = slices \cup {NextSlice},
         UNCHANGED <<hf, block, mempool, pool>>, riblt'.size = riblt.size
  PROVE  /\ ~(block \subseteq mempool)
         /\ mempool \subseteq block => Behind' /\ PeeledMissing'
<1>1. NextType(todo) # NEITHER /\ NextType(todo) # OURS
  BY DEF OURS, NEITHER, THEIRS
<1>2. ASSUME block \subseteq mempool PROVE FALSE
  <2> DEFINE S == Items(pool \ block)
  <2>1. Ahead
    BY <1>2 DEF OneSidedInv
  <2>2. pool \in SUBSET mempool /\ mempool \in SUBSET Tx
    BY DEF DecodeInv, DecodeTypeOK
  <2>3. Extra \in SUBSET Tx /\ pool \ block \in SUBSET Extra /\ pool \ block \in SUBSET Tx
    BY <2>2 DEF Extra
  <2>4. S \in SUBSET (Items(Missing) \cup Items(Extra))
    <3>1. S \in SUBSET Items(Extra)
      BY <2>3, ItemsUnion
    <3> QED BY <3>1
  <2>5. Negative(S)
    BY <2>1, AheadHolds
  <2> HIDE DEF S
  <2> QED BY <1>1, <2>4, <2>5, NextIsAlone
<1>3. ASSUME mempool \subseteq block PROVE Behind' /\ PeeledMissing'
  <2> DEFINE n == NextBucket(todo)
  <2>1. Behind /\ PeeledMissing
    BY <1>3 DEF OneSidedInv
  <2>2. PICK x \in Rest, k \in Seeds :
          /\ NextSlice = x[2]
          /\ In(hf, riblt.size, Rest \X Seeds, n) = {<<x, k>>}
          /\ \A y \in Items(Missing) : y[2] = x[2] => y = x
    BY <1>3, TheirsIsMissing
  <2>3. n \in Buckets(riblt.size)
    BY <1>1, NextCount DEF DecodeInv
  <2>4. Behind'
    <3>1. Once'
      <4> SUFFICES ASSUME NEW s \in slices'
                   PROVE  \E z \in Items(Missing) :
                            z[2] = s /\ \A y \in Items(Missing) : y[2] = s => y = z
        BY DEF Once, Missing
      <4>1. CASE s \in slices
        BY <2>1, <4>1 DEF Behind, Once
      <4>2. CASE s = x[2]
        BY <2>2, <4>2 DEF Rest
      <4> QED BY <2>2, <4>1, <4>2
    <3> QED BY <2>1, <3>1 DEF Behind
  <2>5. PeeledMissing'
    <3> SUFFICES ASSUME NEW I \in SUBSET Items(Missing), I \cap Peeled' # {}
                 PROVE  AloneSomewhere(I)'
      BY DEF PeeledMissing, Missing
    <3>1. AloneSomewhere(I)
      <4>1. CASE I \cap Peeled # {}
        BY <2>1, <4>1 DEF PeeledMissing
      <4>2. CASE I \cap Peeled = {}
        <5>1. I \in SUBSET Rest
          BY <4>2 DEF Peeled, Rest
        <5>2. x \in I
          <6>1. PICK y \in I : y \in Peeled'
            OBVIOUS
          <6>2. y \in Items(Missing) /\ y[2] \in slices'
            BY <6>1 DEF Peeled, Missing
          <6>3. y[2] \notin slices
            BY <5>1, <6>1 DEF Rest
          <6> QED BY <2>2, <6>2, <6>3
        <5>3. Hits(hf, riblt.size, I, n) = {<<x, k>>}
          <6>1. Hits(hf, riblt.size, I, n) = In(hf, riblt.size, I \X Seeds, n)
            BY DEF Hits, In, Struck, Seeds
          <6>2. <<x, k>> \in In(hf, riblt.size, Rest \X Seeds, n)
            BY <2>2
          <6>3. In(hf, riblt.size, I \X Seeds, n)
                  = In(hf, riblt.size, Rest \X Seeds, n) \cap (I \X Seeds)
            BY <5>1 DEF In
          <6> QED BY <2>2, <5>2, <6>1, <6>2, <6>3
        <5> QED BY <2>3, <5>3, FS_Singleton DEF AloneSomewhere
      <4> QED BY <4>1, <4>2
    <3> QED BY <3>1 DEF AloneSomewhere
  <2> QED BY <2>4, <2>5
<1> QED BY <1>2, <1>3

\* No other step touches the pool or the slices.
LEMMA StepOneSided == DecodeInv /\ Conserved /\ OneSidedInv /\ [DecodeNext]_vars => OneSidedInv'
<1> SUFFICES ASSUME DecodeInv, Conserved, OneSidedInv, [DecodeNext]_vars PROVE OneSidedInv'
  OBVIOUS
<1>1. UNCHANGED <<hf, block, mempool>> /\ riblt'.size = riblt.size /\ cancelled' = {}
  BY DecodeConstants DEF OneSidedInv
<1>2. (Roomy' <=> Roomy) /\ Missing' = Missing /\ Extra' = Extra
  BY <1>1 DEF Roomy, Missing, Extra
<1>3. ASSUME UNCHANGED <<pool, slices>> PROVE OneSidedInv'
  <2>1. (Behind' <=> Behind) /\ (Ahead' <=> Ahead) /\ Peeled' = Peeled
    BY <1>1, <1>2, <1>3 DEF Behind, Ahead, Once, Peeled
  <2>2. (PeeledMissing' <=> PeeledMissing) /\ (PeeledExtra' <=> PeeledExtra)
    BY <1>1, <1>2, <1>3, <2>1 DEF PeeledMissing, PeeledExtra, AloneSomewhere
  <2> QED BY <1>1, <1>2, <2>1, <2>2 DEF OneSidedInv, IdsDistinct
<1>4. CASE DiffStep \/ PeelEnd \/ Assemble \/ Compare \/ Returned \/ UNCHANGED vars
  <2>1. UNCHANGED <<pool, slices>>
    BY <1>4 DEF DiffStep, PeelEnd, Assemble, Compare, Returned, vars, dvars
  <2> QED BY <1>3, <2>1
<1>5. CASE PeelOurs
  <2>1. CASE UNCHANGED pool
    BY <1>3, <1>5, <2>1 DEF PeelOurs
  <2>2. ASSUME NEW t \in pool, TxId48[t] = get_txid48(NextSlice), pool' = pool \ {t}
        PROVE  OneSidedInv'
    <3>1. pc = "idle" /\ NextType(todo) = OURS /\ UNCHANGED slices
      BY <1>5 DEF PeelOurs
    <3>2. Roomy => /\ ~(mempool \subseteq block)
                   /\ block \subseteq mempool => Ahead' /\ PeeledExtra'
      BY <1>1, <2>2, <3>1, OursOneSided
    <3> QED BY <1>1, <1>2, <3>2 DEF OneSidedInv, IdsDistinct
  <2> QED BY <1>5, <2>1, <2>2 DEF PeelOurs
<1>6. CASE PeelTheirs
  <2>1. CASE UNCHANGED slices
    BY <1>3, <1>6, <2>1 DEF PeelTheirs
  <2>2. CASE slices' = slices \cup {NextSlice}
    <3>1. pc = "idle" /\ NextType(todo) = THEIRS /\ UNCHANGED pool
      BY <1>6 DEF PeelTheirs
    <3>2. Roomy => /\ ~(block \subseteq mempool)
                   /\ mempool \subseteq block => Behind' /\ PeeledMissing'
      BY <1>1, <2>2, <3>1, TheirsOneSided
    <3> QED BY <1>1, <1>2, <3>2 DEF OneSidedInv, IdsDistinct
  <2> QED BY <1>6, <2>1, <2>2 DEF PeelTheirs
<1> QED BY <1>4, <1>5, <1>6 DEF DecodeNext

-----------------------------------------------------------------------------
(* Putting the transactions together again. *)

\* No transaction's fragids start again from 0 (see MCDecodeWrap).
Unwrapped == \A t \in block : FragBase[TxId48[t]] + Len(TxContents[t]) <= U16

\* The slices of some transactions, whoever's they are.
SlicesOf(txs) == {item[2] : item \in Items(txs)}

\* Peeling has found what is missing, and only that.
Exact == slices = SlicesOf(Missing) /\ pool = block \cap mempool

\* The first k slices of t are put together; those that follow come first of
\* what is left.
Partway(t, k) ==
  /\ transaction = [i \in 1 .. k |-> slice_tx(t)[i]]
  /\ k > 0 => expected = Len(TxContents[t])
  /\ left = SlicesOf(Missing \ (Got \cup {t}))
              \cup {slice_tx(t)[i] : i \in k + 1 .. Len(TxContents[t])}
  /\ \A u \in Missing \ (Got \cup {t}) : IdNum[TxId48[t]] < IdNum[TxId48[u]]

\* Some missing transaction is under way, if only about to be begun.
Begins ==
  \E t \in Missing \ Got : \E k \in 0 .. Len(TxContents[t]) - 1 : Partway(t, k)

\* Between two iterations of the assembly loop.
Assembling ==
  /\ \A i, j \in DOMAIN recovered : recovered[i] = recovered[j] => i = j
  /\ Got \subseteq Missing
  /\ \/ transaction = <<>> /\ left = {} /\ Got = Missing
     \/ Begins

\* What GenuineIsEnough needs to be inductive.
AssembleInv ==
  IdsDistinct(block) /\ Unwrapped /\ Exact =>
    /\ phase = "assemble" => Assembling
    /\ phase = "done" => result

\* The slices of a set of transactions, one by one.
LEMMA SlicesOfTxs ==
  ASSUME NEW txs \in SUBSET Tx, NEW s
  PROVE  s \in SlicesOf(txs) <=> \E t \in txs : \E i \in 1 .. Len(TxContents[t]) : s = slice_tx(t)[i]
<1>1. \A t \in txs : DOMAIN slice_tx(t) = 1 .. Len(TxContents[t])
  BY DEF slice_tx
<1>2. ASSUME NEW item \in Items(txs), item[2] = s
      PROVE  \E t \in txs : \E i \in 1 .. Len(TxContents[t]) : s = slice_tx(t)[i]
  BY <1>1, <1>2, ItemsOwners
<1>3. ASSUME NEW t \in txs, NEW i \in 1 .. Len(TxContents[t]), s = slice_tx(t)[i]
      PROVE  s \in SlicesOf(txs)
  <2>1. <<t, s>> \in Items(txs) /\ <<t, s>>[2] = s
    BY <1>1, <1>3, ItemsOf
  <2> QED BY <2>1 DEF SlicesOf
<1>4. s \in SlicesOf(txs) => \E item \in Items(txs) : item[2] = s
  BY DEF SlicesOf
<1> QED BY <1>2, <1>3, <1>4

\* The fields of the slices of a block that is unwrapped.
LEMMA PlainFields ==
  ASSUME DecodeTypeOK, Unwrapped, NEW t \in block, NEW i \in 1 .. Len(TxContents[t])
  PROVE  /\ t \in Tx /\ Len(TxContents[t]) \in 1 .. U16 - 1
         /\ U16 \in Nat /\ FragBase[TxId48[t]] \in Nat /\ IdNum[TxId48[t]] \in Nat
         /\ get_txid48(slice_tx(t)[i]) = TxId48[t]
         /\ contents(slice_tx(t)[i]) = TxContents[t][i]
         /\ fragid(slice_tx(t)[i]) = i - 1 + FragBase[TxId48[t]]
<1>1. t \in Tx /\ i \in DOMAIN slice_tx(t)
  BY DEF DecodeTypeOK, slice_tx
<1>2. /\ get_txid48(slice_tx(t)[i]) = TxId48[t]
      /\ contents(slice_tx(t)[i]) = TxContents[t][i]
      /\ fragid(slice_tx(t)[i]) = (i - 1 + FragBase[TxId48[t]]) % U16
  BY <1>1, SliceFields
<1>3. Len(TxContents[t]) \in 1 .. U16 - 1 /\ U16 \in Nat \ {0} /\ TxId48[t] \in SUBSET IdBits
  BY <1>1, TxAssumption, FieldsAssumption
<1>4. FragBase[TxId48[t]] \in Nat /\ IdNum[TxId48[t]] \in Nat
  BY <1>3, FieldsAssumption, DecodeAssumption DEF FragId
<1>5. (i - 1 + FragBase[TxId48[t]]) % U16 = i - 1 + FragBase[TxId48[t]]
  <2> DEFINE x == i - 1 + FragBase[TxId48[t]]
  <2>1. FragBase[TxId48[t]] + Len(TxContents[t]) <= U16
    BY DEF Unwrapped
  <2>2. x \in 0 .. U16 - 1
    BY <1>3, <1>4, <2>1
  <2>3. x % U16 = x
    <3> HIDE DEF x
    <3> QED BY <1>3, <2>2, SmallMod
  <2> QED BY <2>3
<1> QED BY <1>1, <1>2, <1>3, <1>4, <1>5

\* A slice tells whose it is and which.
LEMMA SlicesTell ==
  ASSUME DecodeTypeOK, IdsDistinct(block), Unwrapped,
         NEW t \in block, NEW u \in block,
         NEW i \in 1 .. Len(TxContents[t]), NEW j \in 1 .. Len(TxContents[u]),
         slice_tx(t)[i] = slice_tx(u)[j]
  PROVE  t = u /\ i = j
<1>1. TxId48[t] = TxId48[u]
      /\ fragid(slice_tx(t)[i]) = i - 1 + FragBase[TxId48[t]] /\ FragBase[TxId48[t]] \in Nat
  BY PlainFields
<1>2. TxId48[u] = get_txid48(slice_tx(u)[j])
      /\ fragid(slice_tx(u)[j]) = j - 1 + FragBase[TxId48[u]]
  BY PlainFields
<1>3. t = u
  BY <1>1, <1>2 DEF IdsDistinct
<1> QED BY <1>1, <1>2, <1>3

\* The transaction that the loop over a set of slices comes to first.
LEMMA LeastTx ==
  ASSUME NEW txs \in SUBSET Tx, txs # {}
  PROVE  \E t \in txs : \A u \in txs : IdNum[TxId48[t]] <= IdNum[TxId48[u]]
<1> DEFINE Ids == {IdNum[TxId48[t]] : t \in txs}
<1>1. \A t \in txs : IdNum[TxId48[t]] \in Nat
  BY TxAssumption, DecodeAssumption
<1>2. Ids \in SUBSET Nat /\ Ids # {}
  BY <1>1
<1>3. PICK x \in Ids : \A y \in Ids : x <= y
  <2> HIDE DEF Ids
  <2> QED BY <1>2, LeastNat
<1> QED BY <1>3

\* None is under way, and some are left.
BetweenTxs ==
  transaction = <<>> /\ left = SlicesOf(Missing \ Got) /\ Missing \ Got # {}

\* The loop comes next to the transaction with the least id.
LEMMA BeginsNext == DecodeTypeOK /\ IdsDistinct(block) /\ BetweenTxs => Begins
<1> SUFFICES ASSUME DecodeTypeOK, IdsDistinct(block), BetweenTxs PROVE Begins
  OBVIOUS
<1> USE DEF BetweenTxs, Begins
<1>1. Missing \in SUBSET Tx /\ Missing \ Got \in SUBSET Tx /\ Missing \subseteq block
  BY DEF DecodeTypeOK, Missing
<1>2. PICK t \in Missing \ Got :
        \A u \in Missing \ Got : IdNum[TxId48[t]] <= IdNum[TxId48[u]]
  BY <1>1, LeastTx
<1>3. ASSUME NEW u \in Missing \ (Got \cup {t}) PROVE IdNum[TxId48[t]] < IdNum[TxId48[u]]
  <2>1. u \in block /\ t \in block /\ u # t /\ t \in Tx /\ u \in Tx
        /\ IdNum[TxId48[t]] <= IdNum[TxId48[u]]
    BY <1>1, <1>2
  <2>2. TxId48[t] # TxId48[u] /\ TxId48[t] \in SUBSET IdBits /\ TxId48[u] \in SUBSET IdBits
    BY <2>1, TxAssumption DEF IdsDistinct
  <2>3. IdNum[TxId48[t]] # IdNum[TxId48[u]]
        /\ IdNum[TxId48[t]] \in Nat /\ IdNum[TxId48[u]] \in Nat
    BY <2>2, DecodeAssumption
  <2> QED BY <2>1, <2>3
<1>4. Len(TxContents[t]) \in Nat /\ Len(TxContents[t]) >= 1
  BY <1>1, TxAssumption, FieldsAssumption
<1>5. left = SlicesOf(Missing \ (Got \cup {t}))
               \cup {slice_tx(t)[i] : i \in 0 + 1 .. Len(TxContents[t])}
  <2> DEFINE rest == Missing \ (Got \cup {t})
  <2>1. rest \in SUBSET Tx /\ Missing \ Got = rest \cup {t}
    BY <1>1
  <2> HIDE DEF rest
  <2>2. \A s : s \in SlicesOf(Missing \ Got) <=>
                 s \in SlicesOf(rest) \/ \E i \in 1 .. Len(TxContents[t]) : s = slice_tx(t)[i]
    BY <1>1, <2>1, SlicesOfTxs
  <2>3. \A s : s \in {slice_tx(t)[i] : i \in 0 + 1 .. Len(TxContents[t])} <=>
                 \E i \in 1 .. Len(TxContents[t]) : s = slice_tx(t)[i]
    <3>1. 0 + 1 .. Len(TxContents[t]) = 1 .. Len(TxContents[t])
      BY <1>4
    <3> QED BY <3>1
  <2>4. left = SlicesOf(rest) \cup {slice_tx(t)[i] : i \in 0 + 1 .. Len(TxContents[t])}
    BY <2>2, <2>3
  <2> QED BY <2>4 DEF rest
<1>6. transaction = [i \in 1 .. 0 |-> slice_tx(t)[i]]
  OBVIOUS
<1>7. Partway(t, 0)
  <2>1. ~(0 > 0)
    OBVIOUS
  <2> QED BY <1>3, <1>5, <1>6, <2>1 DEF Partway
<1> QED BY <1>2, <1>4, <1>7

\* The loop comes to the slices of one transaction in their order.
LEMMA TakesNext ==
  ASSUME DecodeTypeOK, IdsDistinct(block), Unwrapped,
         NEW t \in Missing \ Got, NEW k \in 0 .. Len(TxContents[t]) - 1, Partway(t, k)
  PROVE  /\ FirstLeft = slice_tx(t)[k + 1]
         /\ slice_tx(t)[k + 1] \in left
         /\ left \ {slice_tx(t)[k + 1]} =
              SlicesOf(Missing \ (Got \cup {t}))
                \cup {slice_tx(t)[i] : i \in k + 2 .. Len(TxContents[t])}
<1> DEFINE n == Len(TxContents[t])
           z == slice_tx(t)[k + 1]
           rest == Missing \ (Got \cup {t})
<1>1. /\ t \in block /\ t \in Tx /\ rest \in SUBSET Tx /\ rest \subseteq block
      /\ n \in Nat /\ k + 1 \in 1 .. n /\ k \in Nat
  <2>1. t \in block /\ t \in Tx /\ rest \in SUBSET Tx /\ rest \subseteq block
    BY DEF DecodeTypeOK, Missing
  <2> QED BY <2>1, TxAssumption
<1>2. /\ get_txid48(z) = TxId48[t]
      /\ fragid(z) = k + FragBase[TxId48[t]] /\ FragBase[TxId48[t]] \in Nat
      /\ IdNum[TxId48[t]] \in Nat
  BY <1>1, PlainFields
<1>3. \A u : u \in left <=> \/ u \in SlicesOf(rest)
                            \/ \E i \in k + 1 .. n : u = slice_tx(t)[i]
  BY DEF Partway
<1>4. ASSUME NEW u \in SlicesOf(rest)
      PROVE  Before(z, u) /\ ~Before(u, z)
  <2>1. PICK v \in rest : \E j \in 1 .. Len(TxContents[v]) : u = slice_tx(v)[j]
    BY <1>1, SlicesOfTxs
  <2>2. get_txid48(u) = TxId48[v] /\ IdNum[TxId48[v]] \in Nat
    BY <1>1, <2>1, PlainFields
  <2>3. IdNum[TxId48[t]] < IdNum[TxId48[v]]
    BY <2>1 DEF Partway
  <2> HIDE DEF z
  <2> QED BY <1>2, <2>2, <2>3 DEF Before
<1>5. ASSUME NEW i \in k + 1 .. n
      PROVE  /\ ~Before(slice_tx(t)[i], z)
             /\ i # k + 1 => Before(z, slice_tx(t)[i])
  <2>1. i \in 1 .. n
    BY <1>1
  <2>2. get_txid48(slice_tx(t)[i]) = TxId48[t]
        /\ fragid(slice_tx(t)[i]) = i - 1 + FragBase[TxId48[t]]
    BY <1>1, <2>1, PlainFields
  <2> HIDE DEF z
  <2> QED BY <1>1, <1>2, <2>2 DEF Before
<1>6. z \in left
  BY <1>1, <1>3
<1>7. ASSUME NEW u \in left PROVE ~Before(u, z) /\ (u # z => Before(z, u))
  <2>1. CASE u \in SlicesOf(rest)
    <3> HIDE DEF z, rest
    <3> QED BY <1>4, <2>1
  <2>2. CASE \E i \in k + 1 .. n : u = slice_tx(t)[i]
    <3>1. PICK i \in k + 1 .. n : u = slice_tx(t)[i]
      BY <2>2
    <3>2. ~Before(u, z) /\ (i # k + 1 => Before(z, u))
      BY <1>5, <3>1
    <3> QED BY <3>1, <3>2
  <2> QED BY <1>3, <2>1, <2>2
<1>8. FirstLeft = z
  BY <1>6, <1>7 DEF FirstLeft
<1>9. ASSUME NEW u
      PROVE  u \in left \ {z} <=> u \in SlicesOf(rest)
                                  \/ \E i \in k + 2 .. n : u = slice_tx(t)[i]
  <2>1. z \notin SlicesOf(rest)
    <3>1. ~Before(z, z)
      BY <1>6, <1>7
    <3> QED BY <1>4, <3>1
  <2>2. \A i \in k + 1 .. n : slice_tx(t)[i] = z <=> i = k + 1
    <3>1. \A i \in k + 1 .. n : i \in 1 .. n
      BY <1>1
    <3> QED BY <1>1, <3>1, SlicesTell
  <2>3. \A i : i \in k + 2 .. n <=> i \in k + 1 .. n /\ i # k + 1
    BY <1>1
  <2> HIDE DEF z, n, rest
  <2> QED BY <1>3, <2>1, <2>2, <2>3
<1>10. left \ {z} = SlicesOf(rest) \cup {slice_tx(t)[i] : i \in k + 2 .. n}
  <2> HIDE DEF z, n, rest
  <2> QED BY <1>9
<1> QED BY <1>6, <1>8, <1>10

\* What an iteration does: it never gives up, and ends the transaction with its
\* last slice.
LEMMA AssembleTakes ==
  ASSUME DecodeTypeOK, IdsDistinct(block), Unwrapped, Assemble,
         NEW t \in Missing \ Got, NEW k \in 0 .. Len(TxContents[t]) - 1, Partway(t, k)
  PROVE  /\ left' = left \ {slice_tx(t)[k + 1]}
         /\ expected' = Len(TxContents[t])
         /\ k + 1 = Len(TxContents[t]) =>
              transaction' = <<>> /\ recovered' = Append(recovered, t)
         /\ k + 1 # Len(TxContents[t]) =>
              /\ transaction' = [i \in 1 .. k + 1 |-> slice_tx(t)[i]]
              /\ UNCHANGED recovered
         /\ UNCHANGED <<phase, result, block, mempool, pool, slices>>
<1> DEFINE n == Len(TxContents[t])
           z == slice_tx(t)[k + 1]
           grown == Append(transaction, z)
           pieces == [i \in DOMAIN grown |-> contents(grown[i])]
           size == IF transaction = <<>> THEN Expected[contents(z)] ELSE expected
<1>1. t \in block /\ t \in Tx
  BY DEF DecodeTypeOK, Missing
<1>2. /\ n \in 1 .. U16 - 1 /\ k + 1 \in 1 .. n /\ k \in Nat /\ U16 \in Nat
      /\ TxContents[t] \in Seq(SUBSET ContentBits) /\ Expected[TxContents[t][1]] = n
  BY <1>1, TxAssumption, FieldsAssumption
<1>3. \A i \in 1 .. n : /\ get_txid48(slice_tx(t)[i]) = TxId48[t]
                        /\ contents(slice_tx(t)[i]) = TxContents[t][i]
                        /\ fragid(slice_tx(t)[i]) = i - 1 + FragBase[TxId48[t]]
                        /\ FragBase[TxId48[t]] \in Nat
  BY <1>1, PlainFields
<1>4. FirstLeft = z
  BY TakesNext
<1>5. transaction = [i \in 1 .. k |-> slice_tx(t)[i]]
  BY DEF Partway
<1>6. Len(transaction) = k /\ DOMAIN transaction = 1 .. k
      /\ (transaction = <<>> <=> k = 0)
  <2>1. transaction \in Seq(slices) /\ DOMAIN transaction = 1 .. k
    BY <1>5 DEF DecodeTypeOK
  <2>2. Len(transaction) = k
    BY <1>2, <2>1
  <2> QED BY <1>2, <2>1, <2>2
<1>7. grown = [i \in 1 .. k + 1 |-> slice_tx(t)[i]] /\ Len(grown) = k + 1
      /\ DOMAIN grown = 1 .. k + 1
  BY <1>2, <1>5, <1>6
<1>8. size = n
  <2>1. CASE k = 0
    BY <1>2, <1>3, <1>6, <2>1
  <2>2. CASE k # 0
    BY <1>2, <1>6, <2>2 DEF Partway
  <2> QED BY <2>1, <2>2
<1>9. IF transaction = <<>> THEN Starts(z) ELSE Continues(z)
  <2>1. CASE k = 0
    <3>1. fragid(z) = frag_base(get_txid48(z)) /\ Expected[contents(z)] = n
      BY <1>2, <1>3, <2>1 DEF frag_base
    <3> QED BY <1>2, <1>6, <2>1, <3>1 DEF Starts
  <2>2. CASE k # 0
    <3>1. k \in 1 .. n /\ k \in 1 .. k
      BY <1>2, <2>2
    <3>2. transaction[Len(transaction)] = slice_tx(t)[k]
      BY <1>5, <1>6, <3>1
    <3>3. get_txid48(z) = TxId48[t] /\ fragid(z) = k + FragBase[TxId48[t]]
          /\ FragBase[TxId48[t]] \in Nat
      BY <1>2, <1>3
    <3>4. get_txid48(slice_tx(t)[k]) = TxId48[t]
          /\ fragid(slice_tx(t)[k]) = k - 1 + FragBase[TxId48[t]]
      BY <1>3, <3>1
    <3>5. get_txid48(z) = get_txid48(slice_tx(t)[k]) /\ fragid(z) = fragid(slice_tx(t)[k]) + 1
      <4>1. \A f \in Nat : k + f = (k - 1 + f) + 1
        BY <1>2
      <4>2. k + FragBase[TxId48[t]] = (k - 1 + FragBase[TxId48[t]]) + 1
        BY <3>3, <4>1
      <4> QED BY <3>3, <3>4, <4>2
    <3> QED BY <1>6, <2>2, <3>2, <3>5 DEF Continues
  <2> QED BY <2>1, <2>2
<1>10. k + 1 = n => Rebuild(pieces) = t
  <2> SUFFICES ASSUME k + 1 = n PROVE Rebuild(pieces) = t
    OBVIOUS
  <2>1. pieces = [i \in 1 .. n |-> TxContents[t][i]]
    BY <1>3, <1>7
  <2>2. pieces = TxContents[t]
    <3>1. \A c \in Seq(SUBSET ContentBits) : c = [i \in 1 .. Len(c) |-> c[i]]
      OBVIOUS
    <3>2. TxContents[t] = [i \in 1 .. n |-> TxContents[t][i]]
      <4> HIDE DEF pieces, grown
      <4> QED BY <1>2, <3>1
    <3> HIDE DEF pieces
    <3> QED BY <2>1, <3>2
  <2> QED BY <1>1, <2>2, DecodeAssumption
<1> HIDE DEF grown, size, pieces, z, n
<1>11. \/ /\ \/ IF transaction = <<>> THEN ~Starts(z) ELSE ~Continues(z)
             \/ Len(grown) = size /\ Rebuild(pieces) \notin Tx
          /\ Return(FALSE) /\ UNCHANGED <<left, transaction, expected, recovered>>
       \/ /\ left' = left \ {z}
          /\ expected' = size
          /\ IF Len(grown) = size
             THEN transaction' = <<>> /\ recovered' = Append(recovered, Rebuild(pieces))
             ELSE transaction' = grown /\ UNCHANGED recovered
          /\ UNCHANGED <<phase, result>>
  BY <1>4 DEF Assemble, grown, size, pieces
<1>12. UNCHANGED <<block, mempool, pool, slices>>
  BY DEF Assemble
<1>13. /\ left' = left \ {z}
       /\ expected' = n
       /\ k + 1 = n => transaction' = <<>> /\ recovered' = Append(recovered, t)
       /\ k + 1 # n => transaction' = grown /\ UNCHANGED recovered
       /\ UNCHANGED <<phase, result>>
  BY <1>1, <1>7, <1>8, <1>9, <1>10, <1>11
<1> QED BY <1>7, <1>12, <1>13 DEF n, z

\* An iteration leaves the loop where the next one can go on.
LEMMA AssembleGoesOn ==
  ASSUME DecodeTypeOK, DecodeTypeOK', IdsDistinct(block), Unwrapped, Assembling, Assemble
  PROVE  Assembling' /\ UNCHANGED <<phase, result>>
<1>1. PICK t \in Missing \ Got : \E k \in 0 .. Len(TxContents[t]) - 1 : Partway(t, k)
  BY DEF Assembling, Assemble, Begins
<1>2. PICK k \in 0 .. Len(TxContents[t]) - 1 : Partway(t, k)
  BY <1>1
<1> DEFINE n == Len(TxContents[t])
           z == slice_tx(t)[k + 1]
           rest == Missing \ (Got \cup {t})
<1>3. /\ left' = left \ {z} /\ expected' = n
      /\ k + 1 = n => transaction' = <<>> /\ recovered' = Append(recovered, t)
      /\ k + 1 # n => transaction' = [i \in 1 .. k + 1 |-> slice_tx(t)[i]] /\ UNCHANGED recovered
      /\ UNCHANGED <<phase, result, block, mempool, pool, slices>>
  BY <1>2, AssembleTakes
<1>4. left \ {z} = SlicesOf(rest) \cup {slice_tx(t)[i] : i \in k + 2 .. n}
  BY <1>2, TakesNext
<1>5. /\ t \in Missing /\ t \in Tx /\ n \in Nat /\ n >= 1 /\ k \in Nat /\ k + 1 <= n
      /\ Missing' = Missing /\ (IdsDistinct(block))'
      /\ \A i, j \in DOMAIN recovered : recovered[i] = recovered[j] => i = j
      /\ Got \subseteq Missing /\ recovered \in Seq(Tx)
  <2>1. t \in Missing /\ t \in Tx /\ recovered \in Seq(Tx)
    BY DEF DecodeTypeOK, Missing
  <2>2. Missing' = Missing /\ (IdsDistinct(block))'
    BY <1>3 DEF Missing, IdsDistinct
  <2> QED BY <2>1, <2>2, TxAssumption DEF Assembling
<1>6. CASE k + 1 = n
  <2>1. Got' = Got \cup {t}
    <3> DEFINE r == Append(recovered, t)
    <3>1. /\ Len(r) = Len(recovered) + 1 /\ r[Len(recovered) + 1] = t
          /\ \A i \in DOMAIN recovered : r[i] = recovered[i]
          /\ DOMAIN recovered = 1 .. Len(recovered) /\ DOMAIN r = 1 .. Len(recovered) + 1
          /\ Len(recovered) \in Nat
      BY <1>5
    <3> HIDE DEF r
    <3>2. \A x : x \in {r[i] : i \in DOMAIN r} <=> x \in Got \/ x = t
      BY <3>1 DEF Got
    <3>3. Got' = {r[i] : i \in DOMAIN r}
      BY <1>3, <1>6 DEF Got, r
    <3> QED BY <3>2, <3>3
  <2>2. (\A i, j \in DOMAIN recovered : recovered[i] = recovered[j] => i = j)'
    <3> DEFINE r == Append(recovered, t)
    <3>1. /\ r[Len(recovered) + 1] = t
          /\ \A i \in DOMAIN recovered : r[i] = recovered[i]
          /\ DOMAIN recovered = 1 .. Len(recovered) /\ DOMAIN r = 1 .. Len(recovered) + 1
          /\ Len(recovered) \in Nat
      BY <1>5
    <3>2. \A i \in DOMAIN recovered : recovered[i] # t
      BY DEF Got
    <3> HIDE DEF r
    <3>3. \A i, j \in DOMAIN r : r[i] = r[j] => i = j
      BY <1>5, <3>1, <3>2
    <3> QED BY <1>3, <1>6, <3>3 DEF r
  <2>3. transaction' = <<>> /\ left' = SlicesOf(Missing' \ Got')
    <3>1. k + 2 .. n = {}
      BY <1>5, <1>6
    <3>2. {slice_tx(t)[i] : i \in k + 2 .. n} = {}
      BY <3>1
    <3>3. left' = SlicesOf(rest)
      BY <1>3, <1>4, <3>2
    <3> QED BY <1>3, <1>5, <1>6, <2>1, <3>3
  <2>4. CASE Missing' \ Got' = {}
    <3>1. Got' = Missing' /\ left' = {}
      BY <1>5, <2>1, <2>3, <2>4 DEF SlicesOf, Items
    <3> QED BY <1>3, <2>2, <2>3, <3>1 DEF Assembling
  <2>5. CASE Missing' \ Got' # {}
    <3>1. (DecodeTypeOK /\ IdsDistinct(block) /\ BetweenTxs => Begins)'
      BY BeginsNext, PTL
    <3>2. BetweenTxs'
      BY <2>3, <2>5 DEF BetweenTxs, SlicesOf
    <3>3. Begins'
      BY <1>5, <3>1, <3>2
    <3>4. Got' \subseteq Missing'
      BY <1>5, <2>1
    <3> QED BY <1>3, <2>2, <3>3, <3>4 DEF Assembling
  <2> QED BY <2>4, <2>5
<1>7. CASE k + 1 # n
  <2>1. Got' = Got /\ UNCHANGED recovered
    BY <1>3, <1>7 DEF Got
  <2>2. k + 1 \in 0 .. n - 1 /\ (k + 1) + 1 = k + 2
    BY <1>5, <1>7
  <2>3. Partway(t, k + 1)'
    <3>1. (transaction = [i \in 1 .. k + 1 |-> slice_tx(t)[i]])' /\ (expected = n)'
      BY <1>3, <1>7
    <3>2. left' = SlicesOf(rest) \cup {slice_tx(t)[i] : i \in (k + 1) + 1 .. n}
      BY <1>3, <1>4, <2>2
    <3>3. (SlicesOf(Missing \ (Got \cup {t})))' = SlicesOf(rest)
      BY <1>5, <2>1 DEF SlicesOf
    <3>4. \A u \in Missing \ (Got \cup {t}) : IdNum[TxId48[t]] < IdNum[TxId48[u]]
      BY <1>2 DEF Partway
    <3> QED BY <1>5, <2>1, <3>1, <3>2, <3>3, <3>4 DEF Partway
  <2> QED BY <1>3, <1>5, <2>1, <2>2, <2>3 DEF Assembling, Begins
<1> QED BY <1>3, <1>6, <1>7

\* A difference of nothing is empty.
LEMMA NothingIsEmpty ==
  ASSUME Positive({}) \/ Negative({})
  PROVE  Empty(riblt)
<1> DEFINE none == {} \X Seeds
<1>1. none = {}
  OBVIOUS
<1>2. Cardinality({}) = 0
  BY FS_EmptySet
<1>3. \A n, b : /\ Cardinality(In(hf, riblt.size, none, n)) = 0
               /\ Cardinality(Bringing(hf, riblt.size, none, n, b)) = 0
  <2> SUFFICES ASSUME NEW n, NEW b
               PROVE  /\ Cardinality(In(hf, riblt.size, none, n)) = 0
                      /\ Cardinality(Bringing(hf, riblt.size, none, n, b)) = 0
    OBVIOUS
  <2>1. In(hf, riblt.size, none, n) = {}
    BY <1>1 DEF In
  <2>2. Bringing(hf, riblt.size, none, n, b) = {}
    BY <2>1 DEF Bringing
  <2> QED BY <1>2, <2>1, <2>2
<1>4. Wrap(0) = 0 /\ Wrap(0 - 0) = 0
  BY WrapSmall, FieldsAssumption
<1>5. \A n : {b \in SliceBits : Cardinality(Bringing(hf, riblt.size, none, n, b)) % 2 = 1} = {}
  <2>1. 0 % 2 # 1
    OBVIOUS
  <2> HIDE DEF none
  <2> QED BY <1>3, <2>1
<1>6. ASSUME NEW n \in Buckets(riblt.size)
      PROVE  riblt.counts[n] = 0 /\ riblt.buckets[n] = {}
  <2>1. CASE Positive({})
    <3>1. riblt.counts[n] = Wrap(Cardinality(In(hf, riblt.size, none, n)))
      BY <2>1 DEF Positive
    <3>2. riblt.buckets[n] = {}
      BY <1>5, <2>1 DEF Positive
    <3> HIDE DEF none
    <3> QED BY <1>3, <1>4, <3>1, <3>2
  <2>2. CASE Negative({})
    <3>1. riblt.counts[n] = Wrap(0 - Cardinality(In(hf, riblt.size, none, n)))
      BY <2>2 DEF Negative
    <3>2. riblt.buckets[n] = {}
      BY <1>5, <2>2 DEF Negative
    <3> HIDE DEF none
    <3> QED BY <1>3, <1>4, <3>1, <3>2
  <2> QED BY <2>1, <2>2
<1> QED BY <1>6 DEF Empty

\* With distinct ids each slice is of one transaction.
LEMMA ExactOnce ==
  ASSUME DecodeTypeOK, IdsDistinct(block), Exact
  PROVE  Once /\ Rest = {}
<1>1. Missing \in SUBSET Tx /\ Missing \subseteq block
  BY DEF DecodeTypeOK, Missing
<1>2. ASSUME NEW x \in Items(Missing), NEW y \in Items(Missing), x[2] = y[2]
      PROVE  x = y
  <2>1. /\ x[1] \in Missing /\ x = <<x[1], x[2]>>
        /\ \E i \in DOMAIN slice_tx(x[1]) : x[2] = slice_tx(x[1])[i]
    BY <1>1, ItemsOwners
  <2>2. /\ y[1] \in Missing /\ y = <<y[1], y[2]>>
        /\ \E i \in DOMAIN slice_tx(y[1]) : y[2] = slice_tx(y[1])[i]
    BY <1>1, ItemsOwners
  <2>3. get_txid48(x[2]) = TxId48[x[1]] /\ get_txid48(y[2]) = TxId48[y[1]]
    BY <1>1, <2>1, <2>2, SliceFields
  <2>4. x[1] = y[1]
    BY <1>1, <1>2, <2>1, <2>2, <2>3 DEF IdsDistinct
  <2> QED BY <1>2, <2>1, <2>2, <2>4
<1>3. Once
  BY <1>2 DEF Once, Exact, SlicesOf
<1>4. Rest = {}
  BY DEF Rest, Exact, SlicesOf
<1> QED BY <1>3, <1>4

\* Then nothing is left to peel.
LEMMA ExactIsEmpty ==
  ASSUME DecodeInv, Conserved, pc = "idle", IdsDistinct(block), Exact
  PROVE  Empty(riblt) /\ NextType(todo) = NEITHER
<1>1. Once /\ Rest = {}
  BY ExactOnce DEF DecodeInv
<1>2. Positive({})
  <2>1. Positive(Rest)
    BY <1>1, BehindHolds DEF Exact
  <2> QED BY <1>1, <2>1
<1>3. Empty(riblt)
  BY <1>2, NothingIsEmpty
<1>4. ASSUME NextType(todo) # NEITHER PROVE FALSE
  <2>1. NextBucket(todo) \in Buckets(riblt.size) /\ riblt.counts[NextBucket(todo)] \in {-1, 1}
    BY <1>4, NextCount, NextBucketListed DEF DecodeInv, TodoTypes
  <2> QED BY <1>3, <2>1 DEF Empty
<1> QED BY <1>3, <1>4

\* Got and what is in the pool make up the block.
LEMMA AllRecovered ==
  ASSUME DecodeTypeOK, IdsDistinct(block), Unwrapped, Exact, Assembling, Compare
  PROVE  result' = TRUE /\ phase' = "done"
<1>1. left = {} /\ phase' = "done"
      /\ result' = (/\ transaction = <<>>
                    /\ \A i, j \in DOMAIN recovered : recovered[i] = recovered[j] => i = j
                    /\ Got \cap pool = {}
                    /\ Got \cup pool = block)
  BY DEF Compare, Return
<1>2. ~Begins
  BY <1>1, TakesNext DEF Begins
<1>3. transaction = <<>> /\ Got = Missing
  BY <1>2 DEF Assembling
<1>4. Got \cap pool = {} /\ Got \cup pool = block
  BY <1>3 DEF Exact, Missing
<1> QED BY <1>1, <1>3, <1>4 DEF Assembling

LEMMA InitAssemble == DecodeInit => AssembleInv
  BY DEF DecodeInit, AssembleInv

\* Exact, peeling ends, the loop never gives up and the comparison succeeds.
LEMMA StepAssemble ==
  DecodeInv /\ Conserved /\ AssembleInv /\ [DecodeNext]_vars => AssembleInv'
<1> SUFFICES ASSUME DecodeInv, Conserved, AssembleInv, [DecodeNext]_vars,
                    (IdsDistinct(block))', Unwrapped', Exact'
             PROVE  /\ phase' = "assemble" => Assembling'
                    /\ phase' = "done" => result'
  BY DEF AssembleInv
<1>1. DecodeTypeOK /\ DecodeTypeOK'
  BY StepInv DEF DecodeInv
<1>2. UNCHANGED <<block, mempool>> /\ IdsDistinct(block) /\ Unwrapped /\ Missing' = Missing
  <2>1. UNCHANGED <<block, mempool>>
    BY DecodeConstants
  <2> QED BY <2>1 DEF IdsDistinct, Unwrapped, Missing
<1>3. ASSUME UNCHANGED <<pool, slices>> PROVE Exact
  BY <1>2, <1>3 DEF Exact, SlicesOf
<1>4. CASE DiffStep \/ Returned \/ UNCHANGED vars
  <2>1. UNCHANGED dvars
    BY <1>4 DEF DiffStep, Returned, vars
  <2>2. Exact
    BY <1>3, <2>1 DEF dvars
  <2>3. (Begins' <=> Begins) /\ Got' = Got
    BY <1>2, <2>1 DEF dvars, Begins, Partway, Got, SlicesOf
  <2>4. Assembling' <=> Assembling
    BY <1>2, <2>1, <2>3 DEF dvars, Assembling
  <2> QED BY <1>2, <2>1, <2>2, <2>4 DEF AssembleInv, dvars
<1>5. CASE PeelOurs
  <2>1. CASE UNCHANGED phase
    BY <1>5, <2>1 DEF PeelOurs
  <2>2. CASE ~UNCHANGED phase
    <3>1. pc = "idle" /\ NextType(todo) = OURS /\ UNCHANGED <<pool, slices>>
      BY <1>5, <2>2 DEF PeelOurs
    <3>2. Exact
      BY <1>3, <3>1
    <3> QED BY <1>2, <3>1, <3>2, ExactIsEmpty DEF OURS, NEITHER
  <2> QED BY <2>1, <2>2
<1>6. CASE PeelTheirs
  <2>1. CASE UNCHANGED phase
    BY <1>6, <2>1 DEF PeelTheirs
  <2>2. CASE ~UNCHANGED phase
    <3>1. pc = "idle" /\ NextType(todo) = THEIRS /\ UNCHANGED <<pool, slices>>
      BY <1>6, <2>2 DEF PeelTheirs
    <3>2. Exact
      BY <1>3, <3>1
    <3> QED BY <1>2, <3>1, <3>2, ExactIsEmpty DEF THEIRS, NEITHER
  <2> QED BY <2>1, <2>2
<1>7. CASE PeelEnd
  <2>1. pc = "idle" /\ UNCHANGED <<pool, slices, transaction, recovered>> /\ phase = "peel"
    BY <1>7 DEF PeelEnd
  <2>2. Exact
    BY <1>3, <2>1
  <2>3. phase' = "assemble" /\ left' = slices
    BY <1>2, <1>7, <2>1, <2>2, ExactIsEmpty DEF PeelEnd
  <2>4. transaction' = <<>> /\ recovered' = <<>>
    BY <2>1 DEF DecodeInv, PeelOnly
  <2>5. Got' = {} /\ \A i, j \in DOMAIN recovered' : recovered'[i] = recovered'[j] => i = j
    BY <2>4 DEF Got
  <2>6. left' = SlicesOf(Missing')
    BY <1>2, <2>2, <2>3 DEF Exact
  <2>7. CASE Missing' = {}
    <3>1. left' = {} /\ Got' = Missing'
      BY <2>5, <2>6, <2>7 DEF SlicesOf, Items
    <3> QED BY <2>3, <2>4, <2>5, <3>1 DEF Assembling
  <2>8. CASE Missing' # {}
    <3>1. BetweenTxs'
      <4>1. Missing' \ Got' = Missing'
        BY <2>5
      <4>2. (left = SlicesOf(Missing \ Got))'
        BY <2>6, <4>1 DEF SlicesOf
      <4> QED BY <2>4, <2>8, <4>1, <4>2 DEF BetweenTxs
    <3>2. (DecodeTypeOK /\ IdsDistinct(block) /\ BetweenTxs => Begins)'
      BY BeginsNext, PTL
    <3>3. Begins' /\ Got' \subseteq Missing'
      BY <1>1, <2>5, <3>1, <3>2
    <3> QED BY <2>3, <2>5, <3>3 DEF Assembling
  <2> QED BY <2>7, <2>8
<1>8. CASE Assemble
  <2>1. UNCHANGED <<pool, slices>> /\ phase = "assemble"
    BY <1>8 DEF Assemble
  <2>2. Assembling
    BY <1>2, <1>3, <2>1 DEF AssembleInv
  <2> QED BY <1>1, <1>2, <1>8, <2>1, <2>2, AssembleGoesOn
<1>9. CASE Compare
  <2>1. UNCHANGED <<pool, slices>> /\ phase = "assemble"
    BY <1>9 DEF Compare
  <2>2. Exact /\ Assembling
    BY <1>2, <1>3, <2>1 DEF AssembleInv
  <2> QED BY <1>1, <1>2, <1>9, <2>2, AllRecovered
<1> QED BY <1>4, <1>5, <1>6, <1>7, <1>8, <1>9 DEF DecodeNext

-----------------------------------------------------------------------------
(* The outcome. *)

\* What was peeled is what is missing; or what was not cannot be.
Verdict ==
  /\ phase = "assemble" => Exact
  /\ phase = "done" /\ result => Exact
  /\ phase = "done" /\ ~result => ~(MissingPeels /\ ExtraPeels)

\* What SucceedsIffPeelable needs to be inductive.
EndInv ==
  Roomy /\ Unwrapped /\ OneSided /\ IdsDistinct(block \cup mempool) => Verdict

\* An item that is still in the difference leaves some bucket nonzero.
LEMMA NonzeroSomewhere ==
  ASSUME DecodeInv, Roomy, NEW S \in SUBSET (Items(Missing) \cup Items(Extra)),
         Positive(S) \/ Negative(S), Empty(riblt)
  PROVE  S = {}
<1> SUFFICES ASSUME NEW x \in S PROVE FALSE
  OBVIOUS
<1>1. hf \in HashFns /\ riblt.size \in Nat \ {0}
  BY DEF DecodeInv, IbltInv, IbltTypeOK, IsRawIblt
<1>2. x[2] \in Slice
  <2>1. Missing \in SUBSET Tx /\ Extra \in SUBSET Tx
    BY DEF DecodeInv, DecodeTypeOK, Missing, Extra
  <2> QED BY <2>1, ItemsFinite
<1>3. PICK n \in Buckets(riblt.size) : <<x, 0>> \in In(hf, riblt.size, S \X Seeds, n)
  BY <1>1, <1>2, SomewhereHit
<1> DEFINE I == In(hf, riblt.size, S \X Seeds, n)
           c == Cardinality(I)
<1>4. c \in Nat /\ c < 2 * S16 - 1 /\ IsFiniteSet(S)
  BY <1>3, RoomyFor DEF DecodeInv
<1>5. c # 0
  <2>1. IsFiniteSet(S \X Seeds)
    BY <1>4, HitsFinite
  <2>2. IsFiniteSet(I)
    BY <2>1, CountsAreIntegers
  <2> QED BY <1>3, <2>2, FS_EmptySet
<1>6. Wrap(c) # 0 /\ Wrap(0 - c) # 0
  <2> HIDE DEF c
  <2> QED BY <1>4, <1>5, WrapSmall
<1> QED BY <1>3, <1>6 DEF Positive, Negative, Empty

\* When next finds nothing, nothing that remains can be peeled.
LEMMA StuckForGood ==
  ASSUME DecodeInv, Roomy, cancelled = {}, pc = "idle", NextType(todo) = NEITHER,
         NEW S \in SUBSET (Items(Missing) \cup Items(Extra)), Positive(S) \/ Negative(S)
  PROVE  ~AloneSomewhere(S)
<1> SUFFICES ASSUME NEW n \in Buckets(riblt.size),
                    Cardinality(Hits(hf, riblt.size, S, n)) = 1
             PROVE  FALSE
  BY DEF AloneSomewhere
<1>1. Cardinality(In(hf, riblt.size, S \X Seeds, n)) = 1
  <2>1. Hits(hf, riblt.size, S, n) = In(hf, riblt.size, S \X Seeds, n)
    BY DEF Hits, In, Struck, Seeds
  <2> QED BY <2>1
<1>2. Wrap(1) = 1 /\ Wrap(0 - 1) = -1
  BY WrapSmall, FieldsAssumption
<1>3. riblt.counts[n] \in {-1, 1}
  BY <1>1, <1>2 DEF Positive, Negative
<1> QED BY <1>3, NextFinds DEF DecodeInv

\* One side's difference, as PeelOurs, PeelTheirs and PeelEnd find it.
LEMMA WhatRemains ==
  ASSUME DecodeInv, Conserved, OneSidedInv, Roomy, pc = "idle"
  PROVE  /\ mempool \subseteq block =>
              Behind /\ PeeledMissing /\ Positive(Rest)
                /\ Rest \in SUBSET (Items(Missing) \cup Items(Extra))
         /\ block \subseteq mempool =>
              Ahead /\ PeeledExtra /\ Negative(Items(pool \ block))
                /\ Items(pool \ block) \in SUBSET (Items(Missing) \cup Items(Extra))
                /\ pool \ block \in SUBSET Extra /\ pool \ block \in SUBSET Tx
<1>1. ASSUME mempool \subseteq block
      PROVE  Behind /\ PeeledMissing /\ Positive(Rest)
               /\ Rest \in SUBSET (Items(Missing) \cup Items(Extra))
  <2>1. Behind /\ PeeledMissing
    BY <1>1 DEF OneSidedInv
  <2> QED BY <2>1, BehindHolds DEF Behind, Rest
<1>2. ASSUME block \subseteq mempool
      PROVE  Ahead /\ PeeledExtra /\ Negative(Items(pool \ block))
               /\ Items(pool \ block) \in SUBSET (Items(Missing) \cup Items(Extra))
               /\ pool \ block \in SUBSET Extra /\ pool \ block \in SUBSET Tx
  <2>1. Ahead /\ PeeledExtra
    BY <1>2 DEF OneSidedInv
  <2>2. pool \in SUBSET mempool /\ mempool \in SUBSET Tx
    BY DEF DecodeInv, DecodeTypeOK
  <2>3. Extra \in SUBSET Tx /\ pool \ block \in SUBSET Extra /\ pool \ block \in SUBSET Tx
    BY <2>2 DEF Extra
  <2>4. Items(pool \ block) \in SUBSET Items(Extra)
    BY <2>3, ItemsUnion
  <2> QED BY <2>1, <2>3, <2>4, AheadHolds
<1> QED BY <1>1, <1>2

\* Whoever a slice of ours is of is in the pool: PeelOurs does not fail.
LEMMA OursFound ==
  ASSUME DecodeInv, Conserved, OneSidedInv, Roomy, OneSided, pc = "idle",
         NextType(todo) = OURS
  PROVE  {t \in pool : TxId48[t] = get_txid48(NextSlice)} # {}
<1>1. NextType(todo) # NEITHER /\ NextType(todo) # THEIRS
  BY DEF OURS, NEITHER, THEIRS
<1>2. block \subseteq mempool
  BY <1>1, WhatRemains, NextIsAlone DEF OneSided
<1>3. Negative(Items(pool \ block)) /\ pool \ block \in SUBSET Tx
      /\ Items(pool \ block) \in SUBSET (Items(Missing) \cup Items(Extra))
  BY <1>2, WhatRemains
<1>4. PICK x \in Items(pool \ block) : NextSlice = x[2]
  BY <1>1, <1>3, NextIsAlone
<1>5. x[1] \in pool \ block /\ \E i \in DOMAIN slice_tx(x[1]) : x[2] = slice_tx(x[1])[i]
  BY <1>3, ItemsOwners
<1>6. TxId48[x[1]] = get_txid48(NextSlice)
  BY <1>3, <1>4, <1>5, SliceFields
<1> QED BY <1>5, <1>6

\* A slice of theirs has a new key: PeelTheirs does not fail.
LEMMA TheirsNew ==
  ASSUME DecodeInv, Conserved, OneSidedInv, Roomy, OneSided, Unwrapped,
         IdsDistinct(block \cup mempool), pc = "idle", NextType(todo) = THEIRS,
         NEW s \in slices
  PROVE  ~SameKey(s, NextSlice)
<1> SUFFICES ASSUME SameKey(s, NextSlice) PROVE FALSE
  OBVIOUS
<1>1. NextType(todo) # NEITHER /\ NextType(todo) # OURS
  BY DEF OURS, NEITHER, THEIRS
<1>2. mempool \subseteq block
  BY <1>1, WhatRemains, NextIsAlone DEF OneSided
<1>3. PICK x \in Rest : NextSlice = x[2]
  BY <1>2, TheirsIsMissing
<1>4. PICK y \in Items(Missing) : y[2] = s
  BY <1>2, WhatRemains DEF Behind, Once
<1>5. Missing \in SUBSET Tx /\ Missing \subseteq block /\ x \in Items(Missing) /\ x[2] \notin slices
  BY DEF DecodeInv, DecodeTypeOK, Missing, Rest
<1>6. PICK i \in DOMAIN slice_tx(x[1]) : x[2] = slice_tx(x[1])[i]
  BY <1>5, ItemsOwners
<1>7. PICK j \in DOMAIN slice_tx(y[1]) : y[2] = slice_tx(y[1])[j]
  BY <1>5, ItemsOwners
<1> DEFINE t == x[1]
           u == y[1]
<1>8. t \in block /\ u \in block /\ t \in Tx /\ u \in Tx
  BY <1>5, ItemsOwners
<1>9. i \in 1 .. Len(TxContents[t]) /\ j \in 1 .. Len(TxContents[u])
  BY <1>6, <1>7 DEF slice_tx
<1>10. /\ get_txid48(x[2]) = TxId48[t] /\ fragid(x[2]) = i - 1 + FragBase[TxId48[t]]
       /\ FragBase[TxId48[t]] \in Nat /\ IdNum[TxId48[t]] \in Nat
  BY <1>6, <1>8, <1>9, PlainFields DEF DecodeInv
<1>11. /\ get_txid48(y[2]) = TxId48[u] /\ fragid(y[2]) = j - 1 + FragBase[TxId48[u]]
       /\ FragBase[TxId48[u]] \in Nat /\ IdNum[TxId48[u]] \in Nat
  BY <1>7, <1>8, <1>9, PlainFields DEF DecodeInv
<1>12. TxId48[t] = TxId48[u]
  <2>1. IdNum[TxId48[t]] = IdNum[TxId48[u]]
    BY <1>3, <1>4, <1>10, <1>11 DEF SameKey, Before
  <2>2. TxId48[t] \in SUBSET IdBits /\ TxId48[u] \in SUBSET IdBits
    BY <1>8, TxAssumption
  <2> QED BY <2>1, <2>2, DecodeAssumption
<1>13. t = u
  BY <1>8, <1>12 DEF IdsDistinct
<1>14. fragid(x[2]) = fragid(y[2])
  BY <1>3, <1>4, <1>9, <1>10, <1>11, <1>12 DEF SameKey, Before
<1>15. i = j
  BY <1>9, <1>10, <1>11, <1>13, <1>14
<1> QED BY <1>4, <1>5, <1>6, <1>7, <1>13, <1>15

\* The end of the peeling loop: with an empty difference everything missing is
\* there, with another the rest cannot be peeled.
LEMMA EndIsRight ==
  ASSUME DecodeInv, Conserved, OneSidedInv, Roomy, OneSided, pc = "idle",
         NextType(todo) = NEITHER
  PROVE  IF Empty(riblt) THEN Exact ELSE ~(MissingPeels /\ ExtraPeels)
<1>1. cancelled = {}
  BY DEF OneSidedInv
<1>2. CASE mempool \subseteq block
  <2>1. Behind /\ Positive(Rest) /\ Rest \in SUBSET (Items(Missing) \cup Items(Extra))
    BY <1>2, WhatRemains
  <2>2. ASSUME Empty(riblt) PROVE Exact
    <3>1. Rest = {}
      BY <2>1, <2>2, NonzeroSomewhere
    <3>2. \A x \in Items(Missing) : x[2] \in slices
      BY <3>1 DEF Rest
    <3>3. \A s \in slices : \E x \in Items(Missing) : x[2] = s
      BY <2>1 DEF Behind, Once
    <3>4. slices = SlicesOf(Missing)
      BY <3>2, <3>3 DEF SlicesOf
    <3> QED BY <2>1, <3>4 DEF Exact, Behind
  <2>3. ASSUME ~Empty(riblt) PROVE ~MissingPeels
    <3>1. Rest # {}
      BY <2>1, <2>3, NothingIsEmpty
    <3>2. ~AloneSomewhere(Rest)
      BY <1>1, <2>1, StuckForGood
    <3>3. Rest \in SUBSET Items(Missing)
      BY DEF Rest
    <3> QED BY <3>1, <3>2, <3>3 DEF MissingPeels
  <2> QED BY <2>2, <2>3
<1>3. CASE block \subseteq mempool
  <2> DEFINE S == Items(pool \ block)
  <2>1. /\ Ahead /\ Negative(S) /\ S \in SUBSET (Items(Missing) \cup Items(Extra))
        /\ pool \ block \in SUBSET Extra /\ pool \ block \in SUBSET Tx
    BY <1>3, WhatRemains
  <2>2. ASSUME Empty(riblt) PROVE Exact
    <3>1. S = {}
      <4> HIDE DEF S
      <4> QED BY <2>1, <2>2, NonzeroSomewhere
    <3>2. pool \ block = {}
      <4> SUFFICES ASSUME NEW t \in pool \ block PROVE FALSE
        OBVIOUS
      <4>1. 1 \in DOMAIN slice_tx(t)
        <5>1. Len(TxContents[t]) \in Nat /\ Len(TxContents[t]) >= 1
          BY <2>1, TxAssumption, FieldsAssumption
        <5> QED BY <5>1 DEF slice_tx
      <4>2. <<t, slice_tx(t)[1]>> \in S
        BY <2>1, <4>1, ItemsOf
      <4> QED BY <3>1, <4>2
    <3>3. Missing = {} /\ slices = {}
      BY <1>3, <2>1 DEF Missing, Ahead
    <3>4. slices = SlicesOf(Missing)
      BY <3>3 DEF SlicesOf, Items
    <3>5. pool = block \cap mempool
      BY <1>3, <2>1, <3>2 DEF Ahead
    <3> QED BY <3>4, <3>5 DEF Exact
  <2>3. ASSUME ~Empty(riblt) PROVE ~ExtraPeels
    <3>1. pool \ block # {}
      <4> SUFFICES ASSUME pool \ block = {} PROVE FALSE
        OBVIOUS
      <4>1. S = {}
        BY DEF Items
      <4>2. Negative({})
        BY <2>1, <4>1
      <4> QED BY <2>3, <4>2, NothingIsEmpty
    <3>2. ~AloneSomewhere(S)
      <4> HIDE DEF S
      <4> QED BY <1>1, <2>1, StuckForGood
    <3> QED BY <2>1, <3>1, <3>2 DEF ExtraPeels
  <2> QED BY <2>2, <2>3
<1> QED BY <1>2, <1>3 DEF OneSided

LEMMA InitEnd == DecodeInit => EndInv
  BY DEF DecodeInit, EndInv, Verdict

\* So it is PeelEnd that decides, and nothing after it goes wrong.
LEMMA StepEnd ==
  DecodeInv /\ Conserved /\ OneSidedInv /\ AssembleInv /\ EndInv /\ [DecodeNext]_vars
    => EndInv'
<1> SUFFICES ASSUME DecodeInv, Conserved, OneSidedInv, AssembleInv, EndInv,
                    [DecodeNext]_vars, Roomy', Unwrapped', OneSided',
                    (IdsDistinct(block \cup mempool))'
             PROVE  Verdict'
  BY DEF EndInv
<1>1. UNCHANGED <<hf, block, mempool>> /\ riblt'.size = riblt.size
  BY DecodeConstants
<1>2. /\ Roomy /\ Unwrapped /\ OneSided /\ IdsDistinct(block \cup mempool)
      /\ IdsDistinct(block) /\ Missing' = Missing /\ Extra' = Extra
  BY <1>1 DEF Roomy, Unwrapped, OneSided, IdsDistinct, Missing, Extra
<1>3. Verdict
  BY <1>2 DEF EndInv
<1>4. (MissingPeels /\ ExtraPeels)' <=> MissingPeels /\ ExtraPeels
  BY <1>1, <1>2 DEF MissingPeels, ExtraPeels, AloneSomewhere
<1>5. ASSUME UNCHANGED <<pool, slices>> PROVE Exact' <=> Exact
  BY <1>1, <1>2, <1>5 DEF Exact, SlicesOf
<1>6. CASE DiffStep \/ Returned \/ UNCHANGED vars
  <2>1. UNCHANGED dvars
    BY <1>6 DEF DiffStep, Returned, vars
  <2> QED BY <1>3, <1>4, <1>5, <2>1 DEF Verdict, dvars
<1>7. CASE PeelOurs
  <2>1. phase = "peel" /\ pc = "idle" /\ NextType(todo) = OURS
    BY <1>7 DEF PeelOurs
  <2>2. {t \in pool : TxId48[t] = get_txid48(NextSlice)} # {}
    BY <1>2, <2>1, OursFound
  <2>3. phase' = "peel"
    BY <1>7, <2>1, <2>2 DEF PeelOurs
  <2> QED BY <2>3 DEF Verdict
<1>8. CASE PeelTheirs
  <2>1. phase = "peel" /\ pc = "idle" /\ NextType(todo) = THEIRS
    BY <1>8 DEF PeelTheirs
  <2>2. ~\E s \in slices : SameKey(s, NextSlice)
    BY <1>2, <2>1, TheirsNew
  <2>3. phase' = "peel"
    BY <1>8, <2>1, <2>2 DEF PeelTheirs
  <2> QED BY <2>3 DEF Verdict
<1>9. CASE PeelEnd
  <2>1. pc = "idle" /\ NextType(todo) = NEITHER /\ UNCHANGED <<pool, slices>>
    BY <1>9 DEF PeelEnd
  <2>2. IF Empty(riblt) THEN Exact ELSE ~(MissingPeels /\ ExtraPeels)
    BY <1>2, <2>1, EndIsRight
  <2>3. IF Empty(riblt) THEN phase' = "assemble" ELSE phase' = "done" /\ result' = FALSE
    BY <1>9 DEF PeelEnd, Return
  <2> QED BY <1>4, <1>5, <2>1, <2>2, <2>3 DEF Verdict
<1>10. CASE Assemble
  <2>1. UNCHANGED <<pool, slices>> /\ phase = "assemble"
    BY <1>10 DEF Assemble
  <2>2. Exact
    BY <1>3, <2>1 DEF Verdict
  <2>3. Assembling /\ DecodeTypeOK /\ DecodeTypeOK'
    BY <1>2, <2>1, <2>2, StepInv DEF AssembleInv, DecodeInv
  <2>4. phase' = "assemble"
    BY <1>2, <1>10, <2>1, <2>3, AssembleGoesOn
  <2> QED BY <1>5, <2>1, <2>2, <2>4 DEF Verdict
<1>11. CASE Compare
  <2>1. UNCHANGED <<pool, slices>> /\ phase = "assemble"
    BY <1>11 DEF Compare
  <2>2. Exact
    BY <1>3, <2>1 DEF Verdict
  <2>3. Assembling /\ DecodeTypeOK
    BY <1>2, <2>1, <2>2 DEF AssembleInv, DecodeInv
  <2>4. phase' = "done" /\ result'
    BY <1>2, <1>11, <2>2, <2>3, AllRecovered
  <2> QED BY <1>5, <2>1, <2>2, <2>4 DEF Verdict
<1> QED BY <1>6, <1>7, <1>8, <1>9, <1>10, <1>11 DEF DecodeNext

\* Everything known of recover_block.
RecoverInv == DecodeInv /\ Conserved /\ OneSidedInv /\ AssembleInv /\ EndInv

LEMMA RecoverInvHolds == DecodeSpec => []RecoverInv
<1>1. DecodeInit => RecoverInv
  BY DecodeInitInv, InitConserved, InitOneSided, InitAssemble, InitEnd DEF RecoverInv
<1>2. RecoverInv /\ [DecodeNext]_vars => RecoverInv'
  BY StepInv, NextConserved, StepOneSided, StepAssemble, StepEnd DEF RecoverInv
<1> QED BY <1>1, <1>2, PTL DEF DecodeSpec

\* With transactions missing on one side only nothing cancels out wrongly,
\* however the slices are placed, unless a counter overflows: what is collected
\* is of missing transactions and nothing of the block leaves the pool
\* (recover_block's loop).
THEOREM OneSidedAlwaysGenuine == DecodeSpec => [](Roomy => OneSidedIsGenuine)
<1>1. RecoverInv => (Roomy => OneSidedIsGenuine)
  <2> SUFFICES ASSUME RecoverInv, Roomy, OneSided PROVE
                 /\ \A s \in slices : \E item \in Items(Missing) : item[2] = s
                 /\ block \cap mempool \subseteq pool
    BY DEF OneSidedIsGenuine
  <2>1. CASE mempool \subseteq block
    BY <2>1 DEF RecoverInv, OneSidedInv, Behind, Once
  <2>2. CASE block \subseteq mempool
    BY <2>2 DEF RecoverInv, OneSidedInv, Ahead
  <2> QED BY <2>1, <2>2 DEF OneSided
<1> QED BY <1>1, RecoverInvHolds, PTL

\* Once recover_block has peeled the slices of exactly the missing transactions
\* and dropped exactly the extra ones it returns success, whatever the block's
\* ids, sizes and order, if no transaction's fragids start again from 0.
THEOREM GenuineAlwaysEnough == DecodeSpec => [](Unwrapped => GenuineIsEnough)
<1>1. RecoverInv => (Unwrapped => GenuineIsEnough)
  BY DEF RecoverInv, AssembleInv, GenuineIsEnough, Exact, SlicesOf
<1> QED BY <1>1, RecoverInvHolds, PTL

\* Whatever order the priorities impose, recover_block returns success exactly
\* when what is missing on one side can be peeled in some order: for every block,
\* mempool, size, seed and hash, unless a counter or a fragid overflows.
THEOREM AlwaysSucceedsIffPeelable ==
  DecodeSpec => [](Roomy /\ Unwrapped => SucceedsIffPeelable)
<1>1. RecoverInv => (Roomy /\ Unwrapped => SucceedsIffPeelable)
  <2> SUFFICES ASSUME RecoverInv, Roomy, Unwrapped, phase = "done", OneSided,
                      IdsDistinct(block \cup mempool)
               PROVE  result <=> MissingPeels /\ ExtraPeels
    BY DEF SucceedsIffPeelable
  <2>1. Verdict /\ result \in BOOLEAN
    BY DEF RecoverInv, EndInv, DecodeInv, DecodeTypeOK
  <2>2. ASSUME result PROVE MissingPeels /\ ExtraPeels
    <3>1. Exact
      BY <2>1, <2>2 DEF Verdict
    <3>2. ASSUME NEW I \in SUBSET Items(Missing), I # {} PROVE AloneSomewhere(I)
      <4>1. CASE mempool \subseteq block
        <5>1. PeeledMissing
          BY <4>1 DEF RecoverInv, OneSidedInv
        <5>2. I \cap Peeled # {}
          BY <3>1, <3>2 DEF Peeled, Exact, SlicesOf
        <5> QED BY <5>1, <5>2 DEF PeeledMissing
      <4>2. CASE block \subseteq mempool
        BY <3>2, <4>2 DEF Missing, Items
      <4> QED BY <4>1, <4>2 DEF OneSided
    <3>3. ASSUME NEW X \in SUBSET Extra, X # {} PROVE AloneSomewhere(Items(X))
      <4>1. CASE mempool \subseteq block
        BY <3>3, <4>1 DEF Extra
      <4>2. CASE block \subseteq mempool
        <5>1. PeeledExtra
          BY <4>2 DEF RecoverInv, OneSidedInv
        <5>2. X \ pool # {}
          BY <3>1, <3>3 DEF Extra, Exact
        <5> QED BY <5>1, <5>2 DEF PeeledExtra
      <4> QED BY <4>1, <4>2 DEF OneSided
    <3> QED BY <3>2, <3>3 DEF MissingPeels, ExtraPeels
  <2> QED BY <2>1, <2>2 DEF Verdict
<1> QED BY <1>1, RecoverInvHolds, PTL
=============================================================================
