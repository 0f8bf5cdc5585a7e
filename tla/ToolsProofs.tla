----------------------------- MODULE ToolsProofs -----------------------------
(***************************************************************************)
(* Proofs about the tools around the IBLT: the sketch and its bytes (module*)
(* RawIblt), the corpus simulator (Corpus), its search for a size          *)
(* (MinDecode), and the pipe of encoder and decoder (Encode); and about    *)
(* the functions that accept a take()n argument (TalStr).                  *)
(***************************************************************************)
EXTENDS RawIblt, Corpus, MinDecode, Encode, TalStr, SlicesProofs, CommonLemmas

-----------------------------------------------------------------------------
(***************************************************************************)
(* The raw IBLT: whatever is sent arrives, for every block, size and hash  *)
(* function. While the constructor runs the sketch is that of the hits made*)
(* so far (Building); on the way the bytes still to come complete the      *)
(* buckets already read (Carrying).                                        *)
(***************************************************************************)

\* The hits of the transactions that the constructor's loop has reached.
Reached == Items(txs \ todoTxs) \X Seeds

\* While a transaction's slices are being inserted some of its hits are to come.
Building ==
  /\ work = <<>> => riblt = HitSketch(hf, riblt.size, Reached, {}) /\ hashno = 0
  /\ work # <<>> =>
       /\ raw_pc = "build"
       /\ Distinct(work)
       /\ \E t \in txs : /\ ToCome(t, work, hashno) \subseteq Reached
                         /\ riblt = HitSketch(hf, riblt.size,
                                              Reached \ ToCome(t, work, hashno), {})

\* What arrived is a first part of what was written, and theirs is what was
\* read from it.
Carrying ==
  /\ raw_pc # "build" =>
       /\ todoTxs = {}
       /\ \E n \in 0 .. WireLen(riblt.size) : bytes = SubSeq(write(riblt), 1, n)
  /\ raw_pc = "read" => theirs = riblt
  /\ raw_pc = "refused" => Len(bytes) < WireLen(riblt.size)

RawInv == RawTypeOK /\ Building /\ Carrying

LEMMA EmptyIsSketch ==
  ASSUME NEW h, NEW size \in Nat \ {0}
  PROVE  /\ IsRawIblt(EmptyIblt(size)) /\ EmptyIblt(size).size = size
         /\ EmptyIblt(size) = HitSketch(h, size, {}, {})
<1>1. IsRawIblt(EmptyIblt(size)) /\ EmptyIblt(size).size = size
  <2>1. 0 \in Counter /\ {} \in Slice
    BY FieldsAssumption DEF Counter, Slice
  <2> QED
    BY <2>1 DEF EmptyIblt, IsRawIblt
<1>2. \A n, b : In(h, size, {}, n) = {} /\ Bringing(h, size, {}, n, b) = {}
  BY DEF In, Bringing
<1>3. \A n, b : Balance(h, size, {}, {}, n) = 0 - 0 /\ Brought(h, size, {}, {}, n, b) = 0 + 0
  BY <1>2, FS_EmptySet DEF Balance, Brought
<1>4. Wrap(0 - 0) = 0
  BY FieldsAssumption DEF Wrap
<1>5. ~((0 + 0) % 2 = 1)
  OBVIOUS
<1>6. HitSketch(h, size, {}, {}) = EmptyIblt(size)
  BY <1>3, <1>4, <1>5 DEF HitSketch, EmptyIblt
<1> QED
  BY <1>1, <1>6

LEMMA RawInitInv == RawInit => RawInv
<1> SUFFICES ASSUME RawInit PROVE RawInv
  OBVIOUS
<1>1. PICK size \in Sizes : riblt = EmptyIblt(size) /\ theirs = EmptyIblt(size)
  BY DEF RawInit
<1>2. size \in Nat \ {0}
  BY RawAssumption
<1>3. /\ IsRawIblt(riblt) /\ IsRawIblt(theirs) /\ riblt.size = size /\ theirs.size = size
      /\ riblt = HitSketch(hf, size, {}, {})
  BY <1>1, <1>2, EmptyIsSketch
<1>4. Reached = {}
  <2>1. txs \ todoTxs = {}
    BY DEF RawInit
  <2> QED
    BY <2>1 DEF Reached, Items
<1> QED
  BY <1>3, <1>4 DEF RawInit, RawInv, RawTypeOK, Building, Carrying, NUM_HASHES

LEMMA NextTxInv ==
  ASSUME RawInv, NEW t \in todoTxs, NextTx(t)
  PROVE  RawInv'
<1>1. /\ t \in Tx /\ t \in txs /\ txs \in SUBSET Tx /\ todoTxs \in SUBSET txs
      /\ hashno = 0 /\ riblt = HitSketch(hf, riblt.size, Reached, {})
  BY DEF NextTx, RawInv, RawTypeOK, Building
<1>2. slice_tx(t) \in Seq(Slice) /\ slice_tx(t) # <<>>
  BY <1>1, SliceTxType
<1>3. ToCome(t, slice_tx(t), 0) = Items({t}) \X Seeds /\ Distinct(slice_tx(t))
  BY <1>1, AllToCome
<1>4. Reached' = Reached \cup (Items({t}) \X Seeds)
      /\ Reached \cap (Items({t}) \X Seeds) = {}
  <2> DEFINE done == txs \ todoTxs
  <2>1. done \in SUBSET Tx /\ {t} \in SUBSET Tx /\ txs' \ todoTxs' = done \cup {t}
        /\ done \cup {t} \in SUBSET Tx /\ t \notin done
    BY <1>1 DEF NextTx
  <2> HIDE DEF done
  <2>2. \A item : item \in Items(done \cup {t}) <=> item \in Items(done) \/ item \in Items({t})
    BY <2>1, ItemsOf
  <2>3. Items(done \cup {t}) = Items(done) \cup Items({t})
    BY <2>2
  <2>4. \A item : ~(item \in Items(done) /\ item \in Items({t}))
    <3> SUFFICES ASSUME NEW item, item \in Items(done), item \in Items({t}) PROVE FALSE
      OBVIOUS
    <3>1. item[1] \in done /\ item[1] \in {t}
      BY <2>1, ItemsOwners
    <3> QED
      BY <2>1, <3>1
  <2> QED
    BY <2>1, <2>3, <2>4 DEF Reached, done
<1>5. Reached' \ (Items({t}) \X Seeds) = Reached /\ Items({t}) \X Seeds \subseteq Reached'
  BY <1>4
<1>6. /\ work' = slice_tx(t) /\ todoTxs' = todoTxs \ {t} /\ raw_pc = "build"
      /\ UNCHANGED <<hf, txs, riblt, hashno, raw_pc, bytes, theirs>>
  BY DEF NextTx
<1>7. Building'
  BY <1>1, <1>2, <1>3, <1>5, <1>6 DEF Building
<1>8. RawTypeOK'
  BY <1>2, <1>6 DEF RawInv, RawTypeOK
<1> QED
  BY <1>6, <1>7, <1>8 DEF RawInv, Carrying

LEMMA InsertInv == RawInv /\ Insert => RawInv'
<1> SUFFICES ASSUME RawInv, Insert PROVE RawInv'
  OBVIOUS
<1> DEFINE Hit(o) == <<<<o, Head(work)>>, hashno>>
           size == riblt.size
<1>1. /\ raw_pc = "build" /\ work # <<>> /\ work \in Seq(Slice) /\ hashno \in Seeds
      /\ Distinct(work) /\ txs \in SUBSET Tx /\ hf \in HashFns
      /\ size \in Nat \ {0} /\ IsRawIblt(riblt)
  BY DEF Insert, RawInv, RawTypeOK, Building, Seeds, IsRawIblt
<1>2. /\ hashno' = (hashno + 1) % NUM_HASHES
      /\ work' = (IF hashno' = 0 THEN Tail(work) ELSE work)
      /\ UNCHANGED <<hf, txs, todoTxs, raw_pc, bytes, theirs>>
  BY DEF Insert
<1>3. PICK t \in txs : /\ ToCome(t, work, hashno) \subseteq Reached
                       /\ riblt = HitSketch(hf, size, Reached \ ToCome(t, work, hashno), {})
  BY <1>1 DEF RawInv, Building
<1> DEFINE hit == Hit(t)
           Left == ToCome(t, work, hashno)
           Left2 == ToCome(t, work', hashno')
           P == Reached \ Left
<1>4. /\ work' \in Seq(Slice) /\ Distinct(work') /\ hashno' \in Seeds
      /\ hit \in Left /\ Left2 = Left \ {hit} /\ hit[1][2] \in Slice
  <2>1. Head(work) \in Slice
    BY <1>1
  <2> QED
    BY <1>1, <1>2, <2>1, NextToCome
<1>5. riblt' = frob_bucket(riblt, Struck(hf, size, hit), hit[1][2], 1)
  BY DEF Insert, Struck
<1> HIDE DEF hit, Left, Left2
<1>6. hit \notin P /\ P \cup {hit} = Reached \ Left2 /\ Left2 \subseteq Reached
  BY <1>3, <1>4 DEF Left
<1>7. IsFiniteSet(P) /\ IsFiniteSet({})
  <2>1. txs \ todoTxs \in SUBSET Tx
    BY <1>1
  <2>2. IsFiniteSet(Reached)
    BY <2>1, ItemsHitsFinite DEF Reached
  <2>3. P \in SUBSET Reached
    OBVIOUS
  <2> HIDE DEF P
  <2> QED
    BY <2>2, <2>3, FS_Subset, FS_EmptySet
<1>8. riblt' = HitSketch(hf, size, Reached \ Left2, {})
  <2> HIDE DEF P, size
  <2>1. frob_bucket(HitSketch(hf, size, P, {}), Struck(hf, size, hit), hit[1][2], 1)
          = HitSketch(hf, size, P \cup {hit}, {})
    BY <1>4, <1>6, <1>7, FrobInserts
  <2> QED
    BY <1>3, <1>5, <1>6, <2>1 DEF P, Left
<1>9. IsRawIblt(riblt') /\ riblt'.size = size
  <2>1. select_buckets(hf, size, Head(work))[hashno] \in Buckets(size)
    BY <1>1, SelectType DEF Seeds
  <2>2. Head(work) \in Slice /\ 1 \in {-1, 1}
    BY <1>1
  <2>3. riblt' = frob_bucket(riblt, select_buckets(hf, size, Head(work))[hashno], Head(work), 1)
    BY DEF Insert
  <2> QED
    BY <1>1, <2>1, <2>2, <2>3, FrobType
<1>10. RawTypeOK'
  BY <1>2, <1>4, <1>9 DEF RawInv, RawTypeOK, Seeds
<1>11. Reached' = Reached
  BY <1>2 DEF Reached
<1>12. Building'
  <2>1. CASE work' = <<>>
    <3>1. Left2 = {} /\ hashno' = 0
      BY <1>1, <1>2, <2>1, NothingToCome DEF Left2
    <3> QED
      BY <1>2, <1>8, <1>9, <1>11, <2>1, <3>1 DEF Building
  <2>2. CASE work' # <<>>
    BY <1>1, <1>2, <1>4, <1>6, <1>8, <1>9, <1>11, <2>2 DEF Building, Left2
  <2> QED
    BY <2>1, <2>2
<1> QED
  BY <1>1, <1>2, <1>10, <1>12 DEF RawInv, Carrying

\* The place of an entry among the bytes of a table of `size` entries.
LEMMA Offset ==
  ASSUME NEW size \in Nat \ {0}, NEW n \in Buckets(size), NEW w \in Nat \ {0}
  PROVE  /\ n * w \in Nat /\ size * w \in Nat /\ n * w < size * w
         /\ (n * w) \div w = n
<1>1. n \in Nat /\ n + 1 <= size
  BY DEF Buckets
<1>2. (n + 1) * w <= size * w /\ (n + 1) * w = n * w + w
  BY <1>1
<1>3. n * w \in Nat /\ size * w \in Nat
  BY <1>1
<1> QED
  BY <1>1, <1>2, <1>3, WholeQuotient

\* raw_iblt::read undoes raw_iblt::write.
LEMMA RoundTrip ==
  ASSUME NEW r, IsRawIblt(r)
  PROVE  Len(write(r)) = WireLen(r.size) /\ read(r.size, write(r)) = r
<1> DEFINE size == r.size
           p == write(r)
           total == WireLen(size)
<1>1. /\ size \in Nat \ {0} /\ CountBytes \in Nat \ {0} /\ BucketBytes \in Nat \ {0}
      /\ r.counts = [n \in Buckets(size) |-> r.counts[n]]
      /\ r.buckets = [n \in Buckets(size) |-> r.buckets[n]]
      /\ r = [size |-> size, counts |-> r.counts, buckets |-> r.buckets]
  BY RawAssumption DEF IsRawIblt
<1>2. /\ CountsLen(size) \in Nat /\ total \in Nat
      /\ CountsLen(size) = size * CountBytes
      /\ total = CountsLen(size) + size * BucketBytes
  BY <1>1 DEF CountsLen, WireLen
<1>3. DOMAIN p = 1 .. total /\ Len(p) = total
  BY <1>2 DEF write
<1>4. ASSUME NEW n \in Buckets(size) PROVE p[n * CountBytes + 1][1] = r.counts[n]
  <2> DEFINE i == n * CountBytes + 1
  <2>1. i \in 1 .. total /\ i - 1 = n * CountBytes /\ i - 1 - CountsLen(size) < 0
    <3>1. n * CountBytes \in Nat /\ n * CountBytes < size * CountBytes
      BY <1>1, Offset
    <3>2. size * BucketBytes \in Nat
      BY <1>1
    <3> QED
      BY <1>2, <3>1, <3>2
  <2>2. (n * CountBytes) \div CountBytes = n
    BY <1>1, Offset
  <2> HIDE DEF i
  <2>3. p[i] = <<r.counts[(i - 1) \div CountBytes], (i - 1) % CountBytes>>
    BY <2>1 DEF write
  <2> QED
    BY <2>1, <2>2, <2>3 DEF i
<1>5. ASSUME NEW n \in Buckets(size)
      PROVE  p[CountsLen(size) + n * BucketBytes + 1][1] = r.buckets[n]
  <2> DEFINE i == CountsLen(size) + n * BucketBytes + 1
  <2>1. /\ i \in 1 .. total /\ i - 1 - CountsLen(size) = n * BucketBytes
        /\ ~(i - 1 - CountsLen(size) < 0)
    <3>1. n * BucketBytes \in Nat /\ n * BucketBytes < size * BucketBytes
      BY <1>1, Offset
    <3> QED
      BY <1>1, <1>2, <3>1
  <2>2. (n * BucketBytes) \div BucketBytes = n
    BY <1>1, Offset
  <2> HIDE DEF i
  <2>3. p[i] = <<r.buckets[(i - 1 - CountsLen(size)) \div BucketBytes],
                 (i - 1 - CountsLen(size)) % BucketBytes>>
    BY <2>1 DEF write
  <2> QED
    BY <2>1, <2>2, <2>3 DEF i
<1> HIDE DEF p, size, total
<1>6. read(size, p) = r
  BY <1>1, <1>4, <1>5 DEF read
<1> QED
  BY <1>3, <1>6 DEF p, size, total

LEMMA WriteInv == RawInv /\ Write => RawInv'
<1> SUFFICES ASSUME RawInv, Write PROVE RawInv'
  OBVIOUS
<1>1. /\ raw_pc' = "written" /\ todoTxs = {} /\ work = <<>>
      /\ \E n \in 0 .. WireLen(riblt.size) : bytes' = SubSeq(write(riblt), 1, n)
      /\ UNCHANGED <<hf, txs, riblt, todoTxs, work, hashno, theirs>>
  BY DEF Write
<1>2. RawTypeOK' /\ Building'
  BY <1>1 DEF RawInv, RawTypeOK, Building, Reached
<1> QED
  BY <1>1, <1>2 DEF RawInv, Carrying

LEMMA ReadInv == RawInv /\ Read => RawInv'
<1> SUFFICES ASSUME RawInv, Read PROVE RawInv'
  OBVIOUS
<1> DEFINE size == riblt.size
<1>1. /\ raw_pc = "written" /\ theirs.size = size /\ IsRawIblt(riblt)
      /\ UNCHANGED <<hf, txs, riblt, todoTxs, work, hashno, bytes>>
  BY DEF Read, RawInv, RawTypeOK
<1>2. PICK n \in 0 .. WireLen(size) : bytes = SubSeq(write(riblt), 1, n)
  BY <1>1 DEF RawInv, Carrying
<1>3. Len(write(riblt)) = WireLen(size) /\ read(size, write(riblt)) = riblt
  BY <1>1, RoundTrip
<1>4. WireLen(size) \in Nat
  BY <1>1, RawAssumption DEF WireLen, CountsLen, IsRawIblt
<1>5. write(riblt) \in Seq({write(riblt)[i] : i \in 1 .. WireLen(size)})
  <2>1. write(riblt) = [i \in 1 .. WireLen(size) |-> write(riblt)[i]]
    BY DEF write
  <2> HIDE DEF size
  <2> QED
    BY <1>4, <2>1
<1>6. Len(bytes) = n /\ (n = WireLen(size) => bytes = write(riblt))
  BY <1>2, <1>3, <1>4, <1>5
<1>7. CASE Readable(theirs.size, bytes)
  <2>1. theirs' = riblt /\ raw_pc' = "read"
    BY <1>1, <1>3, <1>6, <1>7 DEF Read, Readable
  <2>2. RawTypeOK' /\ Building'
    BY <1>1, <2>1 DEF RawInv, RawTypeOK, Building, Reached
  <2> QED
    BY <1>1, <2>1, <2>2 DEF RawInv, Carrying
<1>8. CASE ~Readable(theirs.size, bytes)
  <2>1. theirs' = theirs /\ raw_pc' = "refused"
    BY <1>8 DEF Read
  <2>2. Len(bytes) < WireLen(size)
    BY <1>1, <1>4, <1>6, <1>8 DEF Readable
  <2>3. RawTypeOK' /\ Building'
    BY <1>1, <2>1 DEF RawInv, RawTypeOK, Building, Reached
  <2> QED
    BY <1>1, <2>1, <2>2, <2>3 DEF RawInv, Carrying
<1> QED
  BY <1>7, <1>8

LEMMA RawNextInv == RawInv /\ [RawNext]_rvars => RawInv'
<1> SUFFICES ASSUME RawInv, [RawNext]_rvars PROVE RawInv'
  OBVIOUS
<1>1. CASE UNCHANGED rvars
  BY <1>1 DEF rvars, RawInv, RawTypeOK, Building, Carrying, Reached
<1> QED
  BY <1>1, NextTxInv, InsertInv, WriteInv, ReadInv DEF RawNext, Done

THEOREM RawInvHolds == RawSpec => []RawInv
  BY RawInitInv, RawNextInv, PTL DEF RawSpec

\* The raw IBLT is the sketch of the transactions inserted, whatever order the
\* container gave them in and however often a counter overflowed, and what the
\* receiver reads is that sketch: a part of it is refused.
THEOREM SketchIsSent == RawSpec => []SketchArrives
<1>1. RawInv => SketchArrives
  <2> SUFFICES ASSUME RawInv PROVE SketchArrives
    OBVIOUS
  <2>1. \A s : HitSketch(hf, riblt.size, Items(s) \X Seeds, {})
                = Sketch(hf, riblt.size, Items(s), {})
    <3>1. {} \X Seeds = {}
      OBVIOUS
    <3> QED
      BY <3>1, SketchIsHits
  <2>2. BuiltIsSketch
    BY <2>1 DEF BuiltIsSketch, RawInv, Building, Reached
  <2>3. raw_pc # "build" => riblt = Sketch(hf, riblt.size, Items(txs), {})
    <3>1. raw_pc # "build" => work = <<>> /\ txs \ todoTxs = txs
      BY DEF RawInv, Building, Carrying
    <3> QED
      BY <2>1, <3>1 DEF RawInv, Building, Reached
  <2>4. ReceivedIsBuilt
    BY <2>3 DEF ReceivedIsBuilt, RawInv, Carrying
  <2> QED
    BY <2>2, <2>4 DEF SketchArrives
<1> QED
  BY <1>1, RawInvHolds, PTL

-----------------------------------------------------------------------------
(***************************************************************************)
(* The simulator's peers keep in step with the corpus, and nothing of it   *)
(* trips an assertion, for every corpus, cache and range of blocks.        *)
(*                                                                         *)
(* The invariant says, for each place the program may be at, how the peer's*)
(* mempool compares with that of the node: while the entry at hand is still*)
(* to be looked at (forward_to_block), while a block is collected that is  *)
(* still in the mempool (generate_block), and when each entry is dealt with*)
(* as it is read (next_block).                                             *)
(***************************************************************************)

\* What peer::mp and peer::unknown hold when the peer knows of S.
Knows(S) == mp = S \cap Cache /\ unknown = S \ Cache

\* The file, and the entry read from it last.
FileOK ==
  /\ real \in SUBSET CorpusTx /\ listed \in SUBSET real /\ mined \in SUBSET CorpusTx
  /\ top \in Nat
  /\ content \in BOOLEAN
  /\ e.type \in Types
  /\ IF e.type = "COINBASE" THEN e.blocknum = top ELSE e.txid \in CorpusTx
  /\ content => listed = {}
  /\ e.type \in {"COINBASE", "KNOWN", "UNKNOWN"} => content
  /\ e.type \in {"MEMPOOL_ONLY", "INCOMING_TX"} => e.txid \in listed

\* The entry at hand is not heard of yet.
Forwarding ==
  /\ blocknum = First /\ ~skipped
  /\ ~prev_block => Knows({}) /\ (top < First - 1 \/ (top = First - 1 /\ e.type = "COINBASE"))
  /\ prev_block /\ e.type = "COINBASE" => top = First /\ Knows(real)
  /\ prev_block /\ e.type # "COINBASE" => top = First - 1 /\ Knows(listed \ {e.txid})

AtBlock == e.type = "COINBASE" /\ top = blocknum /\ Knows(real)

\* The transactions of the block are in mp as long as it is generated.
Generating ==
  /\ role = "generator"
  /\ ~skipped =>
       /\ top = blocknum /\ content
       /\ block \subseteq mp \cap mined
       /\ mp \ block = real \cap Cache
       /\ unknown = real \ Cache

CorpusInv ==
  /\ FileOK
  /\ blocknum \in Nat
  /\ corpus_pc \in Stopped \cup {"forward", "main", "generate", "next", "done"}
  /\ skipped \in BOOLEAN /\ prev_block \in BOOLEAN
  /\ corpus_pc = "forward" => Forwarding
  /\ corpus_pc = "main" /\ ~skipped => AtBlock
  /\ corpus_pc = "generate" => Generating
  /\ corpus_pc = "next" /\ ~skipped => blocknum = top + 1 /\ Knows(real)
  /\ corpus_pc = "done" /\ ~skipped => Knows(real)
  /\ StopsWithReason

-----------------------------------------------------------------------------
LEMMA CorpusInitInv == CorpusInit => CorpusInv
<1> SUFFICES ASSUME CorpusInit PROVE CorpusInv
  OBVIOUS
<1> USE CorpusAssumption
<1>1. e.type = "COINBASE" /\ e.blocknum = top
  BY DEF CorpusInit
<1>2. top \in Nat /\ top <= First - 1
  BY SMT DEF CorpusInit
<1>3. FileOK
  BY <1>1, <1>2 DEF CorpusInit, FileOK, Types
<1>4. Forwarding
  BY <1>1, <1>2, SMT DEF CorpusInit, Forwarding, Knows
<1>5. QED
  BY <1>3, <1>4 DEF CorpusInit, CorpusInv, Stopped, StopsWithReason

\* Every entry leaves the file as it should be.
LEMMA EntryOK ==
  ASSUME FileOK, next_entry
  PROVE FileOK'
<1>1. CASE ReadCoinbase
  <2>1. e'.type = "COINBASE" /\ e'.blocknum = top' /\ top' = top + 1
        /\ listed' = {} /\ content' = TRUE /\ real' = real /\ mined' = mined
    BY <1>1, SMT DEF ReadCoinbase
  <2>2. QED BY <2>1, SMT DEF FileOK, Types
<1>2. ASSUME NEW t \in CorpusTx, ReadBlockTx(t) PROVE FileOK'
  <2>1. e'.type \in {"KNOWN", "UNKNOWN"} /\ e'.txid = t
        /\ content /\ content' = content /\ listed' = listed /\ top' = top
        /\ real' = real \ {t} /\ mined' = mined \cup {t}
    BY <1>2, SMT DEF ReadBlockTx
  <2>2. listed = {}
    BY <2>1 DEF FileOK
  <2>3. e'.type \in Types /\ e'.type # "COINBASE"
        /\ e'.type \notin {"MEMPOOL_ONLY", "INCOMING_TX"}
    BY <2>1, SMT DEF Types
  <2>4. QED BY <2>1, <2>2, <2>3, SMT DEF FileOK
<1>3. ASSUME NEW t \in CorpusTx, ReadMempoolOnly(t) PROVE FileOK'
  <2>1. e'.type = "MEMPOOL_ONLY" /\ e'.txid = t /\ t \in real
        /\ listed' = listed \cup {t} /\ content' = FALSE
        /\ real' = real /\ mined' = mined /\ top' = top
    BY <1>3, SMT DEF ReadMempoolOnly
  <2>2. e'.type \in Types /\ e'.type # "COINBASE"
        /\ e'.type \notin {"COINBASE", "KNOWN", "UNKNOWN"}
    BY <2>1, SMT DEF Types
  <2>3. e'.txid \in listed' /\ listed' \in SUBSET real'
    BY <2>1, SMT DEF FileOK
  <2>4. QED BY <2>1, <2>2, <2>3 DEF FileOK
<1>4. ASSUME NEW t \in CorpusTx, ReadIncoming(t) PROVE FileOK'
  <2>1. e'.type = "INCOMING_TX" /\ e'.txid = t
        /\ real' = real \cup {t} /\ listed' = real' /\ content' = FALSE
        /\ mined' = mined /\ top' = top
    BY <1>4, SMT DEF ReadIncoming
  <2>2. e'.type \in Types /\ e'.type # "COINBASE"
        /\ e'.type \notin {"COINBASE", "KNOWN", "UNKNOWN"}
    BY <2>1, SMT DEF Types
  <2>3. real' \in SUBSET CorpusTx /\ listed' \in SUBSET real' /\ e'.txid \in listed'
    BY <2>1, SMT DEF FileOK
  <2>4. QED BY <2>1, <2>2, <2>3 DEF FileOK
<1>5. QED BY <1>1, <1>2, <1>3, <1>4 DEF next_entry

\* What an entry of each type says of the node's mempool.
LEMMA EntrySays ==
  ASSUME FileOK, next_entry
  PROVE /\ e'.type \in Types
        /\ e'.type = "COINBASE" =>
             /\ listed = real /\ real' = real /\ mined' = mined
             /\ top' = top + 1 /\ e'.blocknum = top'
        /\ e'.type # "COINBASE" => e'.txid \in CorpusTx /\ top' = top
        /\ e'.type \in {"KNOWN", "UNKNOWN"} =>
             /\ content /\ content' /\ listed = {} /\ listed' = {}
             /\ e'.txid \notin mined
             /\ e'.type = "KNOWN" <=> e'.txid \in real
             /\ real' = real \ {e'.txid}
             /\ mined' = mined \cup {e'.txid}
        /\ e'.type = "MEMPOOL_ONLY" =>
             /\ e'.txid \in real /\ e'.txid \notin listed
             /\ real' = real /\ listed' = listed \cup {e'.txid}
             /\ mined' = mined
        /\ e'.type = "INCOMING_TX" =>
             /\ e'.txid \notin real /\ listed = real
             /\ real' = real \cup {e'.txid} /\ listed' = real'
             /\ mined' = mined
<1>1. CASE ReadCoinbase
  BY <1>1, SMT DEF FileOK, ReadCoinbase, Types
<1>2. ASSUME NEW t \in CorpusTx, ReadBlockTx(t)
      PROVE /\ e'.type \in {"KNOWN", "UNKNOWN"} /\ e'.txid = t /\ top' = top
            /\ content /\ content' /\ listed = {} /\ listed' = {}
            /\ t \notin mined
            /\ e'.type = "KNOWN" <=> t \in real
            /\ real' = real \ {t}
            /\ mined' = mined \cup {t}
  BY <1>2, SMT DEF FileOK, ReadBlockTx
<1>3. ASSUME NEW t \in CorpusTx, ReadMempoolOnly(t)
      PROVE /\ e'.type = "MEMPOOL_ONLY" /\ e'.txid = t /\ top' = top
            /\ t \in real /\ t \notin listed
            /\ real' = real /\ listed' = listed \cup {t} /\ mined' = mined
  BY <1>3, SMT DEF ReadMempoolOnly
<1>4. ASSUME NEW t \in CorpusTx, ReadIncoming(t)
      PROVE /\ e'.type = "INCOMING_TX" /\ e'.txid = t /\ top' = top
            /\ t \notin real /\ listed = real
            /\ real' = real \cup {t} /\ listed' = real' /\ mined' = mined
  BY <1>4, SMT DEF ReadIncoming
<1>5. QED BY <1>1, <1>2, <1>3, <1>4, SMT DEF next_entry, Types

-----------------------------------------------------------------------------
LEMMA ForwardCoinbaseInv == CorpusInv /\ ForwardCoinbase => CorpusInv'
<1> SUFFICES ASSUME CorpusInv, ForwardCoinbase PROVE CorpusInv'
  OBVIOUS
<1> USE CorpusAssumption
<1>1. e.blocknum = top
  BY SMT DEF CorpusInv, FileOK, ForwardCoinbase, Types
<1>2. CASE e.blocknum = blocknum
  <2>1. /\ blocknum = First /\ ~skipped /\ top = First /\ e.type = "COINBASE"
        /\ prev_block /\ Knows(real) /\ FileOK
    BY <1>1, <1>2, SMT DEF CorpusInv, FileOK, ForwardCoinbase, Forwarding
  <2>2. corpus_pc' = "main"
        /\ UNCHANGED <<file, prev_block, role, mp, unknown, blocknum, block, skipped>>
    BY <1>2, <2>1, SMT DEF ForwardCoinbase
  <2>3. FileOK'
    BY <2>1, <2>2 DEF FileOK, file
  <2>4. AtBlock'
    BY <1>2, <1>1, <2>1, <2>2 DEF AtBlock, Knows, file
  <2>5. QED
    BY <2>1, <2>2, <2>3, <2>4 DEF CorpusInv, Stopped, StopsWithReason
<1>3. CASE e.blocknum # blocknum
  <2>1. ~prev_block /\ Knows({}) /\ blocknum = First /\ ~skipped /\ top <= First - 1
    BY <1>1, <1>3, SMT DEF CorpusInv, FileOK, ForwardCoinbase, Forwarding
  <2>2. next_entry /\ prev_block' = (top = First - 1) /\ corpus_pc' = "forward"
        /\ UNCHANGED <<role, mp, unknown, blocknum, block, skipped>>
    BY <1>1, <1>3, <2>1, SMT DEF ForwardCoinbase
  <2>3. FileOK /\ listed = {}
    BY SMT DEF CorpusInv, FileOK, ForwardCoinbase
  <2>4. FileOK'
    BY <2>2, <2>3, EntryOK
  <2>5. Forwarding'
    <3>1. top' = top \/ (top' = top + 1 /\ e'.type = "COINBASE" /\ real' = {})
      BY <2>2, <2>3, EntrySays, SMT
    <3>2. e'.type # "COINBASE" => top' = top /\ listed' \ {e'.txid} = {}
      BY <2>2, <2>3, EntrySays, SMT DEF Types
    <3>3. e'.type = "COINBASE" => top' = top + 1
      BY <2>2, <2>3, EntrySays, SMT
    <3>4. top \in Nat /\ top' \in Nat
      BY <2>3, <2>4 DEF FileOK
    <3>5. Knows({})'
      BY <2>1, <2>2 DEF Knows
    <3>6. blocknum' = First /\ ~skipped'
      BY <2>1, <2>2
    <3>7. CASE top = First - 1
      <4>1. prev_block' = TRUE
        BY <2>2, <3>7
      <4>2. CASE e'.type = "COINBASE"
        <5>1. top' = First /\ real' = {}
          BY <3>1, <3>3, <3>4, <3>7, <4>2, SMT
        <5>2. QED BY <3>5, <3>6, <4>1, <4>2, <5>1 DEF Forwarding
      <4>3. CASE e'.type # "COINBASE"
        <5>1. top' = First - 1 /\ listed' \ {e'.txid} = {}
          BY <3>2, <3>7, <4>3
        <5>2. Knows(listed \ {e.txid})'
          BY <3>5, <5>1 DEF Knows
        <5>3. QED BY <3>6, <4>1, <4>3, <5>1, <5>2 DEF Forwarding
      <4>4. QED BY <4>2, <4>3
    <3>8. CASE top # First - 1
      <4>1. ~prev_block'
        BY <2>2, <3>8
      <4>2. top < First - 1
        BY <2>1, <3>4, <3>8, SMT
      <4>3. top' < First - 1 \/ (top' = First - 1 /\ e'.type = "COINBASE")
        BY <3>1, <3>4, <4>2, SMT
      <4>4. QED BY <3>5, <3>6, <4>1, <4>3 DEF Forwarding
    <3>9. QED BY <3>7, <3>8
  <2>6. QED
    BY <2>1, <2>2, <2>4, <2>5 DEF CorpusInv, Stopped, StopsWithReason
<1>4. QED BY <1>2, <1>3

LEMMA ForwardTxInv == CorpusInv /\ ForwardTx => CorpusInv'
<1> SUFFICES ASSUME CorpusInv, ForwardTx PROVE CorpusInv'
  OBVIOUS
<1> USE CorpusAssumption
<1>1. FileOK /\ next_entry /\ Forwarding /\ e.type # "COINBASE"
  BY DEF CorpusInv, ForwardTx
<1>2. /\ corpus_pc' = "forward"
      /\ UNCHANGED <<role, prev_block, blocknum, block, skipped>>
  BY SMT DEF ForwardTx
<1>3. FileOK'
  BY <1>1, EntryOK
<1>4. prev_block => mp' = listed \cap Cache /\ unknown' = listed \ Cache
  <2>1. e.txid \in CorpusTx /\ e.type \in Types
    BY <1>1, SMT DEF FileOK, Types
  <2>2. CASE e.type \in {"INCOMING_TX", "MEMPOOL_ONLY"}
    BY <1>1, <2>1, <2>2, SMT DEF FileOK, Forwarding, Knows, ForwardTx, Hear
  <2>3. CASE e.type \in {"KNOWN", "UNKNOWN"}
    BY <1>1, <2>1, <2>3, SMT DEF FileOK, Forwarding, Knows, ForwardTx
  <2>4. QED BY <1>1, <2>1, <2>2, <2>3 DEF Types
<1>5. ~prev_block => UNCHANGED <<mp, unknown>>
  BY SMT DEF ForwardTx
<1>6. Forwarding'
  <2>1. top \in Nat /\ top' \in Nat /\ First \in Nat
    BY <1>1, <1>3 DEF FileOK
  <2>2. CASE prev_block
    <3>1. top = First - 1
      BY <1>1, <2>2 DEF Forwarding
    <3>2. CASE e'.type = "COINBASE"
      <4>1. top' = First /\ listed = real /\ real' = real
        BY <1>1, <2>1, <3>1, <3>2, EntrySays, SMT
      <4>2. Knows(real)'
        BY <1>4, <2>2, <4>1 DEF Knows
      <4>3. QED BY <1>1, <1>2, <2>2, <3>2, <4>1, <4>2 DEF Forwarding
    <3>3. CASE e'.type # "COINBASE"
      <4>1. top' = First - 1
        BY <1>1, <3>1, <3>3, EntrySays
      <4>2. listed' \ {e'.txid} = listed
        BY <1>1, <3>3, EntrySays, SMT DEF Types
      <4>3. Knows(listed \ {e.txid})'
        BY <1>4, <2>2, <4>2 DEF Knows
      <4>4. QED BY <1>1, <1>2, <2>2, <3>3, <4>1, <4>3 DEF Forwarding
    <3>4. QED BY <3>2, <3>3
  <2>3. CASE ~prev_block
    <3>1. Knows({}) /\ top < First - 1
      BY <1>1, <2>3 DEF Forwarding
    <3>2. top' = top \/ (top' = top + 1 /\ e'.type = "COINBASE")
      BY <1>1, EntrySays
    <3>3. Knows({})'
      BY <1>5, <2>3, <3>1 DEF Knows
    <3>4. QED BY <1>1, <1>2, <2>1, <2>3, <3>1, <3>2, <3>3, SMT DEF Forwarding
  <2>4. QED BY <2>2, <2>3
<1>7. QED
  BY <1>1, <1>2, <1>3, <1>6 DEF CorpusInv, Stopped, StopsWithReason

-----------------------------------------------------------------------------
\* The block begins, for either role.
LEMMA BeginBlockInv == CorpusInv /\ BeginBlock => CorpusInv'
<1> SUFFICES ASSUME CorpusInv, BeginBlock PROVE CorpusInv'
  OBVIOUS
<1>1. FileOK /\ blocknum \in Nat /\ (~skipped => AtBlock)
  BY DEF CorpusInv, BeginBlock
<1>2. FileOK'
  BY <1>1 DEF FileOK, BeginBlock, file
<1>3. CASE role = "generator"
  <2>1. CASE e.type = "COINBASE"
    <3>1. /\ corpus_pc' \in {"generate", "no coinbase"}
          /\ block' = {} /\ e'.type = "COINBASE"
          /\ UNCHANGED <<role, blocknum, skipped, prev_block, top, real, mp, unknown>>
      BY <1>3, <2>1 DEF BeginBlock, file
    <3>2. Generating'
      <4>1. role' = "generator"
        BY <1>3, <3>1
      <4>2. ASSUME ~skipped' PROVE Generating'
        <5>1. top' = blocknum' /\ mp' = real' \cap Cache /\ unknown' = real' \ Cache
          BY <1>1, <3>1, <4>2 DEF AtBlock, Knows
        <5>2. content'
          BY <1>2, <3>1 DEF FileOK
        <5>3. mp' \ block' = real' \cap Cache
          BY <3>1, <5>1
        <5>4. QED BY <3>1, <4>1, <5>1, <5>2, <5>3 DEF Generating
      <4>3. QED BY <4>1, <4>2 DEF Generating
    <3>3. QED
      BY <1>1, <1>2, <3>1, <3>2 DEF CorpusInv, Stopped, StopsWithReason
  <2>2. CASE e.type # "COINBASE"
    <3>1. corpus_pc' = "errx" /\ skipped
          /\ UNCHANGED <<role, blocknum, skipped, prev_block>>
      BY <1>1, <1>3, <2>2 DEF BeginBlock, AtBlock
    <3>2. QED
      BY <1>1, <1>2, <3>1 DEF CorpusInv, Stopped, StopsWithReason
  <2>3. QED BY <2>1, <2>2
<1>4. CASE role # "generator"
  <2>1. /\ corpus_pc' = "next" /\ blocknum' = blocknum + 1
        /\ UNCHANGED <<role, top, mp, unknown, real, skipped, prev_block>>
    BY <1>4 DEF BeginBlock, file
  <2>2. ~skipped' => blocknum' = top' + 1 /\ Knows(real)'
    BY <1>1, <2>1 DEF AtBlock, Knows
  <2>3. blocknum' \in Nat
    BY <1>1, <2>1, SMT
  <2>4. QED
    BY <1>1, <1>2, <2>1, <2>2, <2>3 DEF CorpusInv, Stopped, StopsWithReason
<1>5. QED BY <1>3, <1>4

\* A transaction of the block: in the block and no longer in the node's mempool.
LEMMA GenerateTxInv == CorpusInv /\ GenerateTx => CorpusInv'
<1> SUFFICES ASSUME CorpusInv, GenerateTx PROVE CorpusInv'
  OBVIOUS
<1> DEFINE t == e'.txid
<1>1. FileOK /\ next_entry /\ Generating /\ blocknum \in Nat
      /\ UNCHANGED <<role, unknown, prev_block, blocknum, skipped>>
      /\ e'.type \in {"KNOWN", "UNKNOWN"}
  BY DEF CorpusInv, GenerateTx
<1>2. FileOK'
  BY <1>1, EntryOK
<1>3. /\ content' /\ t \in CorpusTx /\ t \notin mined
      /\ e'.type = "KNOWN" <=> t \in real
      /\ real' = real \ {t} /\ mined' = mined \cup {t} /\ top' = top
  BY <1>1, EntrySays
<1>4. role' = "generator" /\ role = "generator"
  BY <1>1 DEF Generating
<1>5. CASE corpus_pc' = "generate"
  <2>1. block' = block \cup {t} /\ mp' = mp \cup {t} /\ t \in Cache \cup mp
        /\ (e'.type = "UNKNOWN" => t \in Cache)
    BY <1>5 DEF GenerateTx
  <2>2. ASSUME ~skipped' PROVE Generating'
    <3>1. /\ top = blocknum /\ block \subseteq mp \cap mined
          /\ mp \ block = real \cap Cache /\ unknown = real \ Cache
      BY <1>1, <2>2 DEF Generating
    <3>2. t \in Cache
      BY <1>3, <2>1, <3>1
    <3>3. block' \subseteq mp' \cap mined' /\ mp' \ block' = real' \cap Cache
      BY <1>3, <2>1, <3>1, <3>2, SMT
    <3>4. unknown' = real' \ Cache
      BY <1>1, <1>3, <3>1, <3>2, SMT
    <3>5. QED BY <1>1, <1>3, <1>4, <3>1, <3>3, <3>4 DEF Generating
  <2>3. Generating'
    BY <1>4, <2>2 DEF Generating
  <2>4. QED
    BY <1>1, <1>2, <1>5, <2>3 DEF CorpusInv, Stopped, StopsWithReason
<1>6. CASE corpus_pc' # "generate"
  <2>1. /\ corpus_pc' \in {"abort", "errx", "crash"}
        /\ corpus_pc' = "abort" => e'.type = "UNKNOWN" /\ t \in mp
        /\ corpus_pc' = "errx" => t \notin Cache
        /\ corpus_pc' = "crash" => e'.type = "KNOWN" /\ t \notin mp
    BY <1>6 DEF GenerateTx
  <2>2. skipped' \/ t \notin Cache
    <3>1. SUFFICES ASSUME ~skipped' PROVE t \notin Cache
      OBVIOUS
    <3>2. block \subseteq mined /\ mp \ block = real \cap Cache
      BY <1>1, <3>1, SMT DEF Generating
    <3>3. t \in mp => t \in real
      BY <1>3, <3>2
    <3>4. t \in real /\ t \notin mp => t \notin Cache
      BY <3>2
    <3>5. QED BY <1>1, <1>3, <2>1, <3>3, <3>4, SMT
  <2>3. StopsWithReason'
    BY <1>1, <1>4, <2>2 DEF StopsWithReason
  <2>4. corpus_pc' \in Stopped
        /\ corpus_pc' \notin {"forward", "main", "generate", "next", "done"}
    <3>1. corpus_pc' \in {"abort", "errx", "crash"}
      BY <2>1
    <3>2. QED BY <3>1 DEF Stopped
  <2>5. QED
    BY <1>1, <1>2, <2>3, <2>4 DEF CorpusInv
<1>7. QED BY <1>5, <1>6

\* The block ends: its transactions leave mp.
LEMMA GenerateEndInv == CorpusInv /\ GenerateEnd => CorpusInv'
<1> SUFFICES ASSUME CorpusInv, GenerateEnd PROVE CorpusInv'
  OBVIOUS
<1>1. FileOK /\ next_entry /\ Generating /\ blocknum \in Nat
      /\ UNCHANGED <<role, unknown, prev_block, block>>
      /\ corpus_pc' = "next" /\ blocknum' = blocknum + 1
      /\ mp' = mp \ block
      /\ skipped' = (skipped \/ e'.type # "MEMPOOL_ONLY")
  BY DEF CorpusInv, GenerateEnd
<1>2. FileOK'
  BY <1>1, EntryOK
<1>3. ASSUME ~skipped' PROVE blocknum' = top' + 1 /\ Knows(real)'
  <2>1. ~skipped /\ e'.type = "MEMPOOL_ONLY"
    BY <1>1, <1>3
  <2>2. top' = top /\ real' = real
    BY <1>1, <2>1, EntrySays
  <2>3. top = blocknum /\ mp \ block = real \cap Cache /\ unknown = real \ Cache
    BY <1>1, <2>1 DEF Generating
  <2>4. QED BY <1>1, <2>2, <2>3 DEF Knows
<1>4. skipped' \in BOOLEAN /\ blocknum' \in Nat /\ prev_block' \in BOOLEAN
  BY <1>1, SMT DEF CorpusInv
<1>5. QED
  BY <1>1, <1>2, <1>3, <1>4 DEF CorpusInv, Stopped, StopsWithReason

-----------------------------------------------------------------------------
(***************************************************************************)
(* next_block: what the peer knows follows each entry.                     *)
(***************************************************************************)
LEMMA NextCoinbaseInv == CorpusInv /\ NextCoinbase => CorpusInv'
<1> SUFFICES ASSUME CorpusInv, NextCoinbase PROVE CorpusInv'
  OBVIOUS
<1>1. FileOK /\ next_entry /\ blocknum \in Nat /\ e'.type = "COINBASE"
      /\ UNCHANGED <<role, mp, unknown, prev_block, blocknum, block, skipped>>
      /\ (~skipped => blocknum = top + 1 /\ Knows(real))
  BY DEF CorpusInv, NextCoinbase
<1>2. FileOK'
  BY <1>1, EntryOK
<1>3. real' = real /\ top' = top + 1 /\ e'.blocknum = top'
  BY <1>1, EntrySays
<1>4. Knows(real)' \/ skipped
  BY <1>1, <1>3 DEF Knows
<1>5. /\ corpus_pc' \in {"not an orphan", "done", "main"}
      /\ corpus_pc' = "not an orphan" => e'.blocknum # blocknum
      /\ corpus_pc' # "not an orphan" => e'.blocknum = blocknum
  BY DEF NextCoinbase
<1>6. corpus_pc' = "not an orphan" => skipped'
  BY <1>1, <1>3, <1>5
<1>7. corpus_pc' = "main" /\ ~skipped' => AtBlock'
  BY <1>1, <1>3, <1>4, <1>5 DEF AtBlock
<1>8. QED
  BY <1>1, <1>2, <1>4, <1>5, <1>6, <1>7 DEF CorpusInv, Stopped, StopsWithReason

LEMMA NextIncomingInv == CorpusInv /\ NextIncoming => CorpusInv'
<1> SUFFICES ASSUME CorpusInv, NextIncoming PROVE CorpusInv'
  OBVIOUS
<1>1. FileOK /\ next_entry /\ blocknum \in Nat /\ e'.type = "INCOMING_TX"
      /\ UNCHANGED <<role, prev_block, blocknum, block, corpus_pc, skipped>>
      /\ (~skipped => blocknum = top + 1 /\ Knows(real)) /\ corpus_pc = "next"
  BY DEF CorpusInv, NextIncoming
<1>2. FileOK'
  BY <1>1, EntryOK
<1>3. real' = real \cup {e'.txid} /\ top' = top
  BY <1>1, EntrySays
<1>4. Knows(real)' \/ skipped
  BY <1>1, <1>3, SMT DEF Knows, NextIncoming, Hear
<1>5. QED
  BY <1>1, <1>2, <1>3, <1>4 DEF CorpusInv, Stopped, StopsWithReason

LEMMA NextKnownInv == CorpusInv /\ NextKnown => CorpusInv'
<1> SUFFICES ASSUME CorpusInv, NextKnown PROVE CorpusInv'
  OBVIOUS
<1> DEFINE t == e'.txid
<1>1. FileOK /\ next_entry /\ blocknum \in Nat /\ e'.type = "KNOWN"
      /\ UNCHANGED <<role, prev_block, blocknum, block, skipped>>
      /\ (~skipped => blocknum = top + 1 /\ Knows(real)) /\ corpus_pc = "next"
      /\ mp' = mp \ {t}
      /\ unknown' = (IF t \in mp THEN unknown ELSE unknown \ {t})
      /\ corpus_pc' = (IF t \in mp \cup unknown THEN corpus_pc ELSE "errx")
  BY DEF CorpusInv, NextKnown
<1>2. FileOK'
  BY <1>1, EntryOK
<1>3. t \in real /\ real' = real \ {t} /\ top' = top
  BY <1>1, EntrySays
<1>4. Knows(real) => Knows(real)' /\ corpus_pc' = "next"
  <2>1. SUFFICES ASSUME Knows(real) PROVE Knows(real)' /\ corpus_pc' = "next"
    OBVIOUS
  <2>2. mp = real \cap Cache /\ unknown = real \ Cache
    BY <2>1 DEF Knows
  <2>3. mp' = real' \cap Cache
    BY <1>1, <1>3, <2>2
  <2>4. unknown' = real' \ Cache
    BY <1>1, <1>3, <2>2, SMT
  <2>5. t \in mp \cup unknown
    BY <1>3, <2>2
  <2>6. QED BY <1>1, <2>3, <2>4, <2>5 DEF Knows
<1>5. QED
  BY <1>1, <1>2, <1>3, <1>4 DEF CorpusInv, Stopped, StopsWithReason

LEMMA NextMempoolOnlyInv == CorpusInv /\ NextMempoolOnly => CorpusInv'
<1> SUFFICES ASSUME CorpusInv, NextMempoolOnly PROVE CorpusInv'
  OBVIOUS
<1>1. FileOK /\ next_entry /\ blocknum \in Nat /\ e'.type = "MEMPOOL_ONLY"
      /\ UNCHANGED <<role, mp, unknown, prev_block, blocknum, block, skipped>>
      /\ (~skipped => blocknum = top + 1 /\ Knows(real)) /\ corpus_pc = "next"
      /\ corpus_pc' = (IF e'.txid \in mp \cup unknown THEN corpus_pc ELSE "abort")
  BY DEF CorpusInv, NextMempoolOnly
<1>2. FileOK'
  BY <1>1, EntryOK
<1>3. e'.txid \in real /\ real' = real /\ top' = top
  BY <1>1, EntrySays
<1>4. Knows(real) => Knows(real)' /\ corpus_pc' = "next"
  BY <1>1, <1>3 DEF Knows
<1>5. QED
  BY <1>1, <1>2, <1>3, <1>4 DEF CorpusInv, Stopped, StopsWithReason

LEMMA NextUnknownInv == CorpusInv /\ NextUnknown => CorpusInv'
<1> SUFFICES ASSUME CorpusInv, NextUnknown PROVE CorpusInv'
  OBVIOUS
<1>1. FileOK /\ next_entry /\ blocknum \in Nat /\ e'.type = "UNKNOWN"
      /\ UNCHANGED <<role, mp, unknown, prev_block, blocknum, block, skipped>>
      /\ (~skipped => blocknum = top + 1 /\ Knows(real)) /\ corpus_pc = "next"
      /\ corpus_pc' = (IF e'.txid \in mp THEN "abort" ELSE corpus_pc)
  BY DEF CorpusInv, NextUnknown
<1>2. FileOK'
  BY <1>1, EntryOK
<1>3. e'.txid \notin real /\ real' = real \ {e'.txid} /\ top' = top
  BY <1>1, EntrySays, SMT
<1>4. real' = real
  BY <1>3
<1>5. Knows(real) => Knows(real)' /\ corpus_pc' = "next"
  BY <1>1, <1>3, <1>4 DEF Knows
<1>6. QED
  BY <1>1, <1>2, <1>3, <1>5 DEF CorpusInv, Stopped, StopsWithReason

LEMMA CorpusStepInv == CorpusInv /\ [CorpusNext]_cvars => CorpusInv'
<1> SUFFICES ASSUME CorpusInv, [CorpusNext]_cvars PROVE CorpusInv'
  OBVIOUS
<1>1. CASE UNCHANGED cvars
  BY <1>1 DEF CorpusInv, cvars, file, FileOK, Forwarding, AtBlock, Generating, Knows,
    StopsWithReason
<1>2. CASE Exited
  BY <1>1, <1>2 DEF Exited
<1>3. QED
  BY <1>1, <1>2, ForwardCoinbaseInv, ForwardTxInv, BeginBlockInv, GenerateTxInv,
    GenerateEndInv, NextCoinbaseInv, NextIncomingInv, NextKnownInv, NextMempoolOnlyInv,
    NextUnknownInv DEF CorpusNext

THEOREM AlwaysCorpusInv == CorpusSpec => []CorpusInv
BY CorpusInitInv, CorpusStepInv, PTL DEF CorpusSpec

\* Wherever main starts on a block, the peer has the mempool that its node has
\* (forward_to_block, generate_block, next_block).
THEOREM PeersStaySynced == CorpusSpec => []Synced
<1>1. CorpusInv => Synced
  BY DEF CorpusInv, Synced, AtBlock, Knows
<1>2. QED BY <1>1, AlwaysCorpusInv, PTL

\* Nothing stops the simulator at a regular corpus but the two reasons known
\* (the assertions and errx of generate_block and next_block).
THEOREM CorpusStopsWithReason == CorpusSpec => []StopsWithReason
<1>1. CorpusInv => StopsWithReason
  BY DEF CorpusInv
<1>2. QED BY <1>1, AlwaysCorpusInv, PTL


-----------------------------------------------------------------------------
(***************************************************************************)
(* What min_decode reports, for every max_possible and every behaviour of  *)
(* decode_block.                                                           *)
(***************************************************************************)

SearchInv == MinDecodeTypeOK /\ Bracket

\* A number half way between two different ones is not the upper one.
LEMMA HalfInside ==
  ASSUME NEW a \in Nat, NEW b \in Nat, a < b
  PROVE  (a + b) \div 2 \in a .. b - 1
  BY SMT

LEMMA SearchInitInv == MinDecodeInit => SearchInv
  BY MaxAssumption DEF MinDecodeInit, SearchInv, MinDecodeTypeOK, Bracket

\* Only a search that goes on tries another number.
LEMMA HalfTried ==
  ASSUME MinDecodeTypeOK, min_buckets # max_buckets
  PROVE  /\ Half \in 1 .. max_possible
         /\ Half \in min_buckets .. max_buckets - 1
  <1>1. min_buckets \in Nat /\ max_buckets \in Nat /\ min_buckets < max_buckets
    BY MaxAssumption DEF MinDecodeTypeOK
  <1>2. Half \in min_buckets .. max_buckets - 1
    BY <1>1, HalfInside DEF Half
  <1> QED
    BY <1>1, <1>2, MaxAssumption DEF MinDecodeTypeOK

LEMMA NextIInv == SearchInv /\ [MinDecodeNext]_mvars => SearchInv'
  <1> SUFFICES ASSUME SearchInv, [MinDecodeNext]_mvars
               PROVE  SearchInv'
    OBVIOUS
  <1> USE MaxAssumption
  <1>1. CASE Decoded
    <2>1. /\ Half \in 1 .. max_possible
          /\ Half \in min_buckets .. max_buckets - 1
      BY <1>1, HalfTried DEF SearchInv, Decoded
    <2>2. MinDecodeTypeOK'
      BY <1>1, <2>1 DEF SearchInv, MinDecodeTypeOK, Decoded
    <2>3. Bracket'
      BY <1>1, <2>1 DEF SearchInv, MinDecodeTypeOK, Bracket, Decoded
    <2> QED
      BY <2>2, <2>3 DEF SearchInv
  <1>2. CASE Failed
    <2>1. /\ Half \in 1 .. max_possible
          /\ Half \in min_buckets .. max_buckets - 1
      BY <1>2, HalfTried DEF SearchInv, Failed
    <2>2. MinDecodeTypeOK'
      BY <1>2, <2>1 DEF SearchInv, MinDecodeTypeOK, Failed
    <2>3. Bracket'
      <3>1. Half + 1 - 1 = Half
        BY <2>1 DEF SearchInv, MinDecodeTypeOK
      <3> QED
        BY <1>2, <2>1, <3>1 DEF SearchInv, MinDecodeTypeOK, Bracket, Failed
    <2> QED
      BY <2>2, <2>3 DEF SearchInv
  <1>3. CASE EndSearch
    BY <1>3 DEF SearchInv, MinDecodeTypeOK, Bracket, EndSearch
  <1>4. CASE UNCHANGED mvars
    BY <1>4 DEF SearchInv, MinDecodeTypeOK, Bracket, mvars
  <1> QED
    BY <1>1, <1>2, <1>3, <1>4 DEF MinDecodeNext, SearchStep

\* The interval of min_decode always ends at the size that was last decoded and
\* begins after one that was not.
THEOREM BracketHolds == MinDecodeSpec => [](MinDecodeTypeOK /\ Bracket)
  BY SearchInitInv, NextIInv, PTL DEF MinDecodeSpec, SearchInv

\* When the search ends, a result is the upper end of the interval, and the number
\* below it was tried: the early exit never comes with a result above the lower end.
LEMMA BracketMinimum == SearchInv => LocalMinimum
  <1> SUFFICES ASSUME SearchInv, pc = "done", iblt_slices # 0
               PROVE  /\ decodes[iblt_slices]
                      /\ iblt_slices > 1 => ~decodes[iblt_slices - 1]
    BY DEF LocalMinimum
  <1>1. min_buckets = max_buckets \/ min_buckets = max_possible - 1
    BY DEF SearchInv, Bracket
  <1>2. iblt_slices = max_buckets /\ max_buckets < max_possible /\ decodes[max_buckets]
    BY DEF SearchInv, Bracket
  <1>3. min_buckets = max_buckets
    BY <1>1, <1>2, MaxAssumption DEF SearchInv, MinDecodeTypeOK
  <1> QED
    BY <1>2, <1>3 DEF SearchInv, Bracket

\* However decoding depends on the size, the size that min_decode reports decodes
\* and the next smaller one does not.
THEOREM ReportsLocalMinimum == MinDecodeSpec => []LocalMinimum
  BY BracketHolds, BracketMinimum, PTL DEF SearchInv

\* A search without a result ended at one of the two highest sizes, below which
\* something failed.
LEMMA BracketThreshold == SearchInv => FindsThreshold
  <1> SUFFICES ASSUME SearchInv, pc = "done",
                      NEW t \in 1 .. max_possible - 2,
                      \A n \in 1 .. max_possible : decodes[n] <=> n >= t
               PROVE  iblt_slices = t
    BY DEF FindsThreshold
  <1> USE MaxAssumption
  <1>1. /\ t \in Nat /\ t >= 1 /\ t <= max_possible - 2
        /\ min_buckets \in Nat /\ max_buckets \in Nat /\ iblt_slices \in Nat
        /\ min_buckets <= max_buckets
    BY DEF SearchInv, MinDecodeTypeOK
  <1>2. min_buckets = max_buckets \/ min_buckets = max_possible - 1
    BY DEF SearchInv, Bracket
  <1>3. CASE iblt_slices = 0
    <2>1. max_buckets = max_possible
      BY <1>1, <1>3 DEF SearchInv, Bracket, MinDecodeTypeOK
    <2>2. min_buckets > 1 /\ min_buckets - 1 >= t /\ min_buckets - 1 \in 1 .. max_possible
      BY <1>1, <1>2, <2>1
    <2>3. ~decodes[min_buckets - 1]
      BY <2>2 DEF SearchInv, Bracket
    <2> QED
      BY <2>2, <2>3
  <1>4. CASE iblt_slices # 0
    <2>1. decodes[iblt_slices] /\ (iblt_slices > 1 => ~decodes[iblt_slices - 1])
      BY <1>4, BracketMinimum DEF LocalMinimum
    <2>2. iblt_slices \in 1 .. max_possible
      BY <1>1, <1>4 DEF SearchInv, MinDecodeTypeOK
    <2>3. iblt_slices >= t
      BY <2>1, <2>2
    <2>4. iblt_slices > 1 => ~(iblt_slices - 1 >= t)
      BY <2>1, <2>2
    <2> QED
      BY <1>1, <2>2, <2>3, <2>4
  <1> QED
    BY <1>3, <1>4

\* If every size from some size on decodes, and that is not one of the two highest,
\* min_decode reports it.
THEOREM ReportsThreshold == MinDecodeSpec => []FindsThreshold
  BY BracketHolds, BracketThreshold, PTL DEF SearchInv

-----------------------------------------------------------------------------
(***************************************************************************)
(* The pipe of encoder and decoder: whatever the file, every peer but the  *)
(* first of a block is answered.  All that is written has a place in a     *)
(* line of numbers, and a place c separates what the decoder has read from *)
(* what waits in the pipe (Queued); what it printed is due for the         *)
(* mempools up to there (Printed), and what it does next agrees with what  *)
(* comes next (Decoding).                                                  *)
(***************************************************************************)

LEMMA TotalSize ==
  ASSUME EncodeAssumption, NEW S, S \subseteq Known, IsFiniteSet(S)
  PROVE  total_size(S) \in Nat
<1> DEFINE G == CHOOSE g : g = [T \in SUBSET S |->
                   IF T = {} THEN 0
                   ELSE TxLength[CHOOSE t \in T : TRUE] + g[T \ {CHOOSE t \in T : TRUE}]]
<1>1. total_size(S) = G[S]
  BY DEF total_size, MapThenSumSet, MapThenFoldSet
<1>2. \A t \in S : TxLength[t] \in Nat
  BY DEF EncodeAssumption
<1>3. PICK g \in [SUBSET S -> Nat] : Sums(SUBSET S, TxLength, g)
  BY <1>2, SumsExist
<1>4. Sums(SUBSET S, TxLength, G)
  BY <1>3 DEF Sums, AnyOf
<1> QED
  BY <1>1, <1>2, <1>4, SumsAreNat

\* Every block of the table is a pair of positive numbers.
LEMMA TableOK ==
  ASSUME NEW k \in DOMAIN bfors_table
  PROVE  bfors_table[k][1] \in Nat \ {0} /\ bfors_table[k][2] \in Nat
<1>1. k \in 1 .. 55
  BY DEF bfors_table
<1>2. QED
  BY <1>1 DEF bfors_table

\* A set of naturals with a bound has a greatest member.
LEMMA GreatestOf ==
  ASSUME NEW T, NEW n \in Nat, T \subseteq 0 .. n, T # {}
  PROVE  /\ Max(T) \in T /\ \A y \in T : y <= Max(T)
         /\ \A x \in T : (\A y \in T : y <= x) => x = Max(T)
<1> DEFINE Left == {n - y : y \in T}
<1>0. \A y \in T : y \in Nat /\ y <= n
  BY SMT
<1>1. Left \subseteq Nat /\ Left # {}
  <2>1. \A y \in T : n - y \in Nat
    BY <1>0, SMT
  <2>2. PICK y \in T : TRUE
    OBVIOUS
  <2>3. n - y \in Left
    BY <2>2
  <2> QED BY <2>1, <2>3
<1>2. PICK l \in Left : \A m \in Left : l <= m
  <2> HIDE DEF Left
  <2> QED BY <1>1, LeastNumber
<1>3. PICK x \in T : l = n - x
  OBVIOUS
<1>4. \A y \in T : x >= y
  <2> TAKE y \in T
  <2>1. l <= n - y
    BY <1>2
  <2> QED BY <1>0, <1>3, <2>1, SMT
<1>5. Max(T) \in T /\ \A y \in T : Max(T) >= y
  BY <1>4 DEF Max
<1>6. ASSUME NEW z \in T, \A y \in T : y <= z
      PROVE  z = Max(T)
  <2> DEFINE M == Max(T)
  <2>1. z <= M /\ M <= z
    BY <1>0, <1>5, <1>6
  <2>2. z \in Nat /\ M \in Nat
    BY <1>0, <1>5, <1>6
  <2> HIDE DEF M
  <2>3. z = M
    BY <2>1, <2>2, SMT
  <2> QED BY <2>3 DEF M
<1> QED
  BY <1>0, <1>5, <1>6

LEMMA DynamicBuckets ==
  ASSUME EncodeAssumption, NEW S, S \subseteq Known, IsFiniteSet(S), NEW mempool
  PROVE  dynamic_buckets(S, mempool) \in Nat
<1> DEFINE D == S \ mempool
           F == [t \in Known |-> num_slices_for(TxLength[t])]
           G == CHOOSE g : g = [T \in SUBSET D |->
                   IF T = {} THEN 0
                   ELSE num_slices_for(TxLength[CHOOSE t \in T : TRUE])
                          + g[T \ {CHOOSE t \in T : TRUE}]]
           sum == MapThenSumSet(LAMBDA t : num_slices_for(TxLength[t]), D)
           slices == INITIAL_SLICES + sum
           before == {k \in DOMAIN bfors_table :
                   \A m \in 1 .. k : bfors_table[m][1] <= slices}
           coded == bfors_table[Max(before)]
<1>1. sum = G[D]
  BY DEF MapThenSumSet, MapThenFoldSet
<1>2. IsFiniteSet(D) /\ D \subseteq Known
  BY FS_Subset
<1>3. \A t \in D : F[t] \in Nat
  BY <1>2 DEF EncodeAssumption, num_slices_for
<1>4. PICK g \in [SUBSET D -> Nat] : Sums(SUBSET D, F, g)
  BY <1>2, <1>3, SumsExist
<1>5. Sums(SUBSET D, F, G)
  <2>1. \A T \in SUBSET D : T # {} => F[AnyOf(T)] = num_slices_for(TxLength[AnyOf(T)])
    BY <1>2 DEF AnyOf
  <2> DEFINE Is(h) ==
        h = [T \in SUBSET D |-> IF T = {} THEN 0
               ELSE num_slices_for(TxLength[AnyOf(T)]) + h[T \ {AnyOf(T)}]]
  <2>2. \A h : Sums(SUBSET D, F, h) <=> Is(h)
    <3> TAKE h
    <3> HIDE DEF F, D
    <3> QED BY <2>1 DEF Sums
  <2>3. G = CHOOSE h : Is(h)
    <3> HIDE DEF F, D
    <3> QED BY DEF AnyOf
  <2> HIDE DEF F, D, G, Is
  <2>4. Is(G)
    BY <1>4, <2>2, <2>3
  <2> QED BY <2>2, <2>4
<1>6. sum \in Nat
  <2> HIDE DEF G, F, D, sum
  <2> QED BY <1>1, <1>2, <1>3, <1>5, SumsAreNat
<1> HIDE DEF sum, G, F, D
<1>7. slices \in Nat
  BY <1>6 DEF INITIAL_SLICES
<1> HIDE DEF slices
<1>8. before # {} => Max(before) \in DOMAIN bfors_table
  <2>1. DOMAIN bfors_table = 1 .. 55
    BY DEF bfors_table
  <2>2. before \subseteq 0 .. 55
    BY <2>1
  <2> HIDE DEF before
  <2>3. before # {} => Max(before) \in before
    BY <2>2, GreatestOf
  <2> QED BY <2>3 DEF before
<1> HIDE DEF before
<1>9. before # {} => coded[1] \in Nat \ {0} /\ coded[2] \in Nat
  BY <1>8, TableOK
<1> HIDE DEF coded
<1>10. before # {} => (slices * coded[2] * 135) \div (coded[1] * 100) \in Nat
  <2> SUFFICES ASSUME before # {}
      PROVE (slices * coded[2] * 135) \div (coded[1] * 100) \in Nat
    OBVIOUS
  <2>1. slices * coded[2] * 135 \in Nat
    BY <1>7, <1>9
  <2>2. coded[1] * 100 \in Nat /\ coded[1] * 100 > 0
    BY <1>9
  <2> DEFINE a == slices * coded[2] * 135
             b == coded[1] * 100
  <2> HIDE DEF a, b
  <2> SUFFICES a \div b \in Nat
    BY DEF a, b
  <2>3. a \in Nat /\ b \in Nat /\ b > 0
    BY <2>1, <2>2 DEF a, b
  <2> QED BY <2>3
<1>11. dynamic_buckets(S, mempool)
         = IF before = {} THEN 0 ELSE (slices * coded[2] * 135) \div (coded[1] * 100)
  BY DEF dynamic_buckets, sum, slices, before, coded, D
<1> QED BY <1>10, <1>11

-----------------------------------------------------------------------------
\* A sequence lists what f says of the numbers in K, in their order.
Listed(s, K, f) ==
  /\ Len(s) = Cardinality(K)
  /\ \A k \in K : s[Cardinality({m \in K : m <= k})] = f[k]

\* The place of a number among those of a finite set.
LEMMA RankOf ==
  ASSUME NEW K, IsFiniteSet(K), K \subseteq Nat, NEW k \in K
  PROVE  /\ Cardinality({m \in K : m <= k}) \in 1 .. Cardinality(K)
         /\ IsFiniteSet({m \in K : m <= k})
         /\ Cardinality(K) \in Nat
<1> DEFINE B == {m \in K : m <= k}
<1>1. IsFiniteSet(B) /\ Cardinality(B) <= Cardinality(K)
  BY FS_Subset
<1>2. Cardinality(B) \in Nat /\ Cardinality(K) \in Nat
  BY <1>1, FS_CardinalityType
<1>3. k \in B
  OBVIOUS
<1>4. Cardinality(B) # 0
  BY <1>1, <1>3, FS_EmptySet
<1> HIDE DEF B
<1>5. Cardinality(B) \in 1 .. Cardinality(K)
  BY <1>1, <1>2, <1>4
<1> QED BY <1>1, <1>2, <1>5 DEF B

\* A greater number than all is listed last.
LEMMA ListedAppend ==
  ASSUME NEW A, NEW s \in Seq(A), NEW K, IsFiniteSet(K), K \subseteq Nat,
         NEW f, NEW x \in Nat, \A k \in K : k < x, f[x] \in A, Listed(s, K, f)
  PROVE  /\ Append(s, f[x]) \in Seq(A)
         /\ IsFiniteSet(K \cup {x})
         /\ Listed(Append(s, f[x]), K \cup {x}, f)
<1> DEFINE t == Append(s, f[x])
           L == K \cup {x}
<1>1. IsFiniteSet(L) /\ Cardinality(L) = Cardinality(K) + 1
  <2>1. x \notin K
    OBVIOUS
  <2> QED BY <2>1, FS_AddElement
<1>2. t \in Seq(A) /\ Len(t) = Len(s) + 1 /\ t[Len(s) + 1] = f[x]
      /\ \A n \in 1 .. Len(s) : t[n] = s[n]
  OBVIOUS
<1>3. Len(s) = Cardinality(K) /\ Cardinality(K) \in Nat
  BY FS_CardinalityType DEF Listed
<1>4. Len(t) = Cardinality(L)
  BY <1>1, <1>2, <1>3
<1>5. ASSUME NEW k \in K
      PROVE  t[Cardinality({m \in L : m <= k})] = f[k]
  <2>1. {m \in L : m <= k} = {m \in K : m <= k}
    <3>1. k \in Nat /\ k < x
      OBVIOUS
    <3> QED BY <3>1
  <2>2. Cardinality({m \in K : m <= k}) \in 1 .. Cardinality(K)
    BY RankOf
  <2>3. s[Cardinality({m \in K : m <= k})] = f[k]
    BY DEF Listed
  <2> HIDE DEF t, L
  <2> QED BY <1>2, <1>3, <2>1, <2>2, <2>3
<1>6. t[Cardinality({m \in L : m <= x})] = f[x]
  <2>1. {m \in L : m <= x} = L
    <3>1. \A m \in L : m <= x
      OBVIOUS
    <3> QED BY <3>1
  <2> HIDE DEF t, L
  <2> QED BY <2>1, <1>1, <1>2, <1>3
<1>7. Listed(t, L, f)
  BY <1>4, <1>5, <1>6 DEF Listed
<1> QED BY <1>1, <1>2, <1>7

\* The least number is listed first.
Leads(A, s, K, f, x) ==
  /\ s \in Seq(A) /\ Listed(s, K, f)
  /\ IsFiniteSet(K) /\ K \subseteq Nat
  /\ x \in K /\ \A k \in K : x <= k

LEMMA ListedTail ==
  ASSUME NEW A, NEW s, NEW K, NEW f, NEW x, Leads(A, s, K, f, x)
  PROVE  /\ s # <<>>
         /\ Head(s) = f[x]
         /\ Tail(s) \in Seq(A)
         /\ IsFiniteSet(K \ {x})
         /\ Listed(Tail(s), K \ {x}, f)
<1> DEFINE L == K \ {x}
<1> USE DEF Leads
<1>1. IsFiniteSet(L) /\ Cardinality(L) = Cardinality(K) - 1
  BY FS_RemoveElement
<1>2. Len(s) = Cardinality(K) /\ Cardinality(K) \in Nat
  BY FS_CardinalityType DEF Listed
<1>3. Cardinality({m \in K : m <= x}) = 1
  <2>1. {m \in K : m <= x} = {x}
    <3>1. \A m \in K : m <= x => m = x
      <4> TAKE m \in K
      <4>1. m \in Nat /\ x \in Nat /\ x <= m
        OBVIOUS
      <4> QED BY <4>1
    <3>2. x <= x
      <4>1. x \in Nat
        OBVIOUS
      <4> QED BY <4>1
    <3> QED BY <3>1, <3>2
  <2>2. Cardinality({x}) = 1
    BY FS_Singleton
  <2> QED BY <2>1, <2>2
<1>4. s[1] = f[x]
  BY <1>3 DEF Listed
<1>5. Len(s) # 0
  BY <1>2, FS_EmptySet
<1>6. s # <<>> /\ Head(s) = f[x] /\ Tail(s) \in Seq(A) /\ Len(Tail(s)) = Len(s) - 1
      /\ \A n \in 1 .. Len(s) - 1 : Tail(s)[n] = s[n + 1]
  BY <1>4, <1>5
<1>7. ASSUME NEW k \in L
      PROVE  Tail(s)[Cardinality({m \in L : m <= k})] = f[k]
  <2> DEFINE B == {m \in L : m <= k}
  <2>1. L \subseteq Nat
    OBVIOUS
  <2>2. IsFiniteSet(B) /\ Cardinality(B) \in 1 .. Cardinality(L)
    <3> HIDE DEF L
    <3> QED BY <1>1, <2>1, RankOf
  <2>3. {m \in K : m <= k} = B \cup {x}
    <3>1. x <= k
      OBVIOUS
    <3> QED BY <3>1
  <2>4. Cardinality(B \cup {x}) = Cardinality(B) + 1
    BY <2>2, FS_AddElement
  <2>5. s[Cardinality(B) + 1] = f[k]
    BY <2>3, <2>4 DEF Listed
  <2> HIDE DEF B, L
  <2>6. Cardinality(B) \in 1 .. Len(s) - 1
    BY <1>1, <1>2, <2>2
  <2>7. Tail(s)[Cardinality(B)] = f[k]
    BY <1>6, <2>5, <2>6
  <2> QED BY <2>7 DEF B
<1>8. Listed(Tail(s), L, f)
  BY <1>1, <1>2, <1>6, <1>7 DEF Listed
<1> QED BY <1>1, <1>6, <1>8

\* Nothing is listed by the empty sequence only.
LEMMA ListedNone ==
  ASSUME NEW A, NEW s \in Seq(A), NEW K, IsFiniteSet(K), NEW f, Listed(s, K, f)
  PROVE  s = <<>> <=> K = {}
<1>1. Len(s) = Cardinality(K)
  BY DEF Listed
<1>2. Cardinality(K) = 0 <=> K = {}
  BY FS_EmptySet
<1>3. s = <<>> <=> Len(s) = 0
  OBVIOUS
<1> QED BY <1>1, <1>2, <1>3

\* The mempools that were read, those that come first in their block, and what
\* is made of one of these: the buckets planned with it, whether an IBLT is
\* sent, and the block line.
Mempools == {k \in 2 .. line - 1 : input[k].kind = "mempool"}
Firsts == {k \in Mempools : input[k - 1].kind = "block"}
Planned(k) == BucketsFor(read_txids(input[k - 1]), read_txids(input[k]))
Plain(k) == total_size(read_txids(input[k - 1]))
AsIblt(k) == ~(EncodedSize(Planned(k)) >= Plain(k)) /\ do_iblt
Announced(k) ==
  Line("block", input[k - 1].id,
       input[k - 1].n + IF AsIblt(k) THEN EncodedSize(Planned(k)) ELSE Plain(k),
       read_txids(input[k - 1]))

\* All that was written, by the mempool k that made it so: place 2 k is the
\* block line or the copy of the mempool, place 2 k + 1 the IBLT.
Places == {2 * k : k \in Mempools} \cup {2 * k + 1 : k \in {m \in Firsts : AsIblt(m)}}
Copy(k) == Line("mempool", input[k].id, 0, read_txids(input[k]))
At(w) ==
  LET k == w \div 2
  IN IF w % 2 = 1 THEN Line("iblt", 0, Planned(k), {})
     ELSE IF input[k - 1].kind = "block" THEN Announced(k)
     ELSE Copy(k)
AtF == [w \in Nat |-> At(w)]
DueF == [k \in Nat |-> Due(k)]

EncoderEnded == enc \in {"done", "threw", "failed"}

\* The encoder has read blocks, each followed by mempools.
Parsed ==
  /\ \A k \in 1 .. line - 1 : input[k].kind \in {"block", "mempool"}
  /\ line > 1 => input[1].kind = "block"
  /\ \A k \in 2 .. line - 1 : input[k - 1].kind = "block" => input[k].kind = "mempool"
  /\ enc = "first" => line > 1 /\ input[line - 1].kind = "block" /\ blockline = input[line - 1]
  /\ enc = "peers" => line > 2 /\ input[line - 1].kind = "mempool"
  /\ enc = "blocks" => line = 1 \/ input[line - 1].kind = "mempool"

\* What the decoder that read as far as place c has before it, what it has
\* printed, and where it is.
Unread(c) == {w \in Places : w > c}
Queued(c) == Listed(out, Unread(c), AtF)
Printed(c) == Listed(results, {k \in Peers : k <= c \div 2}, DueF)
AtBlocks(c) ==
  /\ \A w \in Unread(c) : (\A u \in Unread(c) : w <= u) => \E k \in Firsts : w = 2 * k
  /\ Unread(c) = {} => c = 0 \/ EncoderEnded
AtIblt(c) ==
  \E f \in Firsts : c = 2 * f /\ from_encoder = [block |-> Announced(f), buckets |-> 0]
AtPeers(c) ==
  \E f \in Firsts, k \in Mempools :
    /\ f <= k
    /\ \A m \in f .. k : input[m].kind = "mempool"
    /\ from_encoder = [block |-> Announced(f), buckets |-> IF AsIblt(f) THEN Planned(f) ELSE 0]
    /\ \/ c = 2 * k /\ (k = f => ~AsIblt(f))
       \/ c = 2 * k + 1 /\ k = f
Decoding(c) ==
  /\ warned = {} /\ dec # "threw"
  /\ dec = "blocks" => AtBlocks(c)
  /\ dec = "iblt" => AtIblt(c)
  /\ dec = "peers" => AtPeers(c)
  /\ dec = "done" => Unread(c) = {} /\ EncoderEnded

PipeInv ==
  /\ EncodeTypeOK
  /\ Parsed
  /\ \E c \in 0 .. 2 * line - 1 : Queued(c) /\ Printed(c) /\ Decoding(c)

\* The state as far as these lemmas need it.
LEMMA InputIs ==
  ASSUME EncodeAssumption, EncodeTypeOK
  PROVE  /\ input \in Seq(Lines) /\ Len(input) \in Nat /\ line \in Nat \ {0}
         /\ \A k \in 1 .. line - 1 : k \in 1 .. Len(input) /\ input[k] \in Lines
         /\ line <= Len(input) => input[line] \in Lines /\ Coming = input[line]
         /\ Coming \in Lines
<1>1. input \in Seq(Lines)
  BY DEF EncodeAssumption, EncodeTypeOK
<1>2. Len(input) \in Nat /\ line \in 1 .. Len(input) + 1
  BY <1>1 DEF EncodeTypeOK
<1>3. NoLine \in Lines
  BY DEF NoLine, Line, Lines
<1>4. \A k \in 1 .. Len(input) : input[k] \in Lines
  BY <1>1
<1> QED BY <1>1, <1>2, <1>3, <1>4 DEF Coming

LEMMA ReadIs ==
  ASSUME EncodeAssumption, NEW l \in Lines
  PROVE  /\ read_txids(l) \subseteq Known /\ IsFiniteSet(read_txids(l))
         /\ read_txids(l) \in SUBSET TxIds
BY FS_Subset DEF EncodeAssumption, read_txids

\* The numbers of a block.
LEMMA Numbers ==
  ASSUME EncodeAssumption, EncodeTypeOK,
         NEW b \in Lines, NEW m \in Lines
  PROVE  /\ BucketsFor(read_txids(b), read_txids(m)) \in Nat
         /\ EncodedSize(BucketsFor(read_txids(b), read_txids(m))) \in Nat
         /\ total_size(read_txids(b)) \in Nat
<1>1. BucketsFor(read_txids(b), read_txids(m)) \in Nat
  BY ReadIs, DynamicBuckets DEF BucketsFor, EncodeTypeOK, EncodeAssumption
<1>2. EncodedSize(BucketsFor(read_txids(b), read_txids(m))) \in Nat
  <2> DEFINE n == BucketsFor(read_txids(b), read_txids(m))
  <2>1. n \in Nat /\ IBLT_SIZE \in Nat
    BY <1>1 DEF EncodeAssumption
  <2> HIDE DEF n
  <2>2. varint_len(n) \in Nat
    BY <2>1 DEF varint_len
  <2>3. n * (2 + 8 + IBLT_SIZE) \in Nat
    BY <2>1
  <2>4. EncodedSize(n) \in Nat
    BY <2>2, <2>3 DEF EncodedSize
  <2> QED BY <2>4 DEF n
<1> QED BY <1>1, <1>2, ReadIs, TotalSize

\* What is written for the mempool k, which may be the next one to be read.
LEMMA Writing ==
  ASSUME EncodeAssumption, EncodeTypeOK,
         NEW k \in Nat, k > 1, input[k] \in Lines, input[k - 1] \in Lines
  PROVE  /\ Planned(k) \in Nat /\ EncodedSize(Planned(k)) \in Nat /\ Plain(k) \in Nat
         /\ AsIblt(k) \in BOOLEAN
         /\ Announced(k) \in Lines /\ Copy(k) \in Lines
         /\ Line("iblt", 0, Planned(k), {}) \in Lines
         /\ AtF[2 * k + 1] = Line("iblt", 0, Planned(k), {})
         /\ input[k - 1].kind = "block" => AtF[2 * k] = Announced(k)
         /\ input[k - 1].kind # "block" => AtF[2 * k] = Copy(k)
<1>1. Planned(k) \in Nat /\ EncodedSize(Planned(k)) \in Nat /\ Plain(k) \in Nat
  BY Numbers DEF Planned, Plain
<1>2. AsIblt(k) \in BOOLEAN
  BY DEF AsIblt
<1>3. Announced(k) \in Lines
  <2>1. input[k - 1].n + (IF AsIblt(k) THEN EncodedSize(Planned(k)) ELSE Plain(k)) \in Nat
    <3>1. input[k - 1].n \in Nat
      BY DEF Lines
    <3> QED BY <1>1, <3>1
  <2> QED BY <2>1, ReadIs DEF Announced, Line, Lines
<1>4. Copy(k) \in Lines
  BY ReadIs DEF Copy, Line, Lines
<1>5. Line("iblt", 0, Planned(k), {}) \in Lines
  BY <1>1 DEF Line, Lines
<1>6. /\ 2 * k + 1 \in Nat /\ (2 * k + 1) % 2 = 1 /\ (2 * k + 1) \div 2 = k
      /\ 2 * k \in Nat /\ (2 * k) % 2 = 0 /\ (2 * k) \div 2 = k
  OBVIOUS
<1>7. AtF[2 * k + 1] = Line("iblt", 0, Planned(k), {})
  BY <1>6 DEF AtF, At
<1>8. AtF[2 * k] = IF input[k - 1].kind = "block" THEN Announced(k) ELSE Copy(k)
  BY <1>6 DEF AtF, At
<1> QED BY <1>1, <1>2, <1>3, <1>4, <1>5, <1>7, <1>8

\* The cost of a block that is sent one way or the other.
LEMMA CostIs ==
  ASSUME EncodeAssumption, EncodeTypeOK,
         NEW k \in Nat, k > 1, input[k] \in Lines, input[k - 1] \in Lines
  PROVE  LET cost == Cost(read_txids(input[k - 1]), Planned(k))
         IN  /\ cost = IF AsIblt(k) THEN EncodedSize(Planned(k)) ELSE Plain(k)
             /\ cost < Plain(k) <=> AsIblt(k)
<1> DEFINE coded == EncodedSize(Planned(k))
           q == Plain(k)
           cost == Cost(read_txids(input[k - 1]), Planned(k))
<1>1. coded \in Nat /\ q \in Nat
  BY Writing
<1>2. cost = Min({q} \cup IF do_iblt THEN {coded} ELSE {})
  BY DEF Cost, Plain
<1>3. AsIblt(k) <=> (~(coded >= q) /\ do_iblt)
  BY DEF AsIblt
<1> HIDE DEF coded, q, cost
<1>4. do_iblt => cost \in {q, coded} /\ cost <= q /\ cost <= coded
  <2> DEFINE T == {q, coded}
  <2>1. \E x \in T : \A y \in T : x <= y
    <3>1. CASE q <= coded
      BY <1>1, <3>1
    <3>2. CASE ~(q <= coded)
      BY <1>1, <3>2
    <3> QED BY <3>1, <3>2
  <2>2. do_iblt => cost = Min(T)
    BY <1>2
  <2> HIDE DEF T
  <2>3. Min(T) \in T /\ \A y \in T : Min(T) <= y
    BY <2>1 DEF Min
  <2> QED BY <2>2, <2>3 DEF T
<1>5. ~do_iblt => cost = q
  BY <1>1, <1>2 DEF Min
<1>6. cost = IF AsIblt(k) THEN coded ELSE q
  BY <1>1, <1>3, <1>4, <1>5
<1>7. cost < q <=> AsIblt(k)
  BY <1>1, <1>3, <1>6
<1> QED BY <1>6, <1>7 DEF coded, q, cost

\* What is due for a mempool that follows others of its block.
LEMMA DueIs ==
  ASSUME EncodeAssumption, EncodeTypeOK, Parsed,
         NEW f \in Firsts, NEW k \in Mempools, f < k,
         \A m \in f .. k : input[m].kind = "mempool"
  PROVE  /\ k \in Peers
         /\ DueF[k] = <<Announced(f).id, Announced(f).n,
                        IF AsIblt(f) THEN Planned(f) ELSE 0, Copy(k).id>>
         /\ DueF[k] \in Nat \X Nat \X Nat \X Nat
<1> DEFINE b == Max({m \in 1 .. k : input[m].kind = "block"})
<1>1. f \in Nat /\ f > 1 /\ k \in Nat /\ k < line /\ line \in Nat
      /\ input[f - 1].kind = "block" /\ input[k] \in Lines /\ input[f] \in Lines
      /\ input[f - 1] \in Lines
  BY InputIs DEF Firsts, Mempools
<1>2. b = f - 1
  <2> DEFINE T == {m \in 1 .. k : input[m].kind = "block"}
  <2>1. f - 1 \in T
    BY <1>1
  <2>2. \A m \in T : m <= f - 1
    BY <1>1
  <2>3. T \subseteq 0 .. k
    OBVIOUS
  <2> HIDE DEF T
  <2>4. Max(T) = f - 1
    BY <1>1, <2>1, <2>2, <2>3, GreatestOf
  <2> QED BY <2>4 DEF T
<1>3. k \in Peers
  <2>1. k - 1 \in f .. k /\ k \in f .. k /\ k \in 2 .. line - 1
    BY <1>1
  <2> QED BY <2>1 DEF Peers
<1> DEFINE cost == Cost(read_txids(input[f - 1]), Planned(f))
<1>4. Due(k) = <<input[f - 1].id, input[f - 1].n + cost,
                 IF cost < Plain(f) THEN Planned(f) ELSE 0, input[k].id>>
  <2>1. b + 1 = f
    BY <1>1, <1>2
  <2>2. b = f - 1
    BY <1>2
  <2> HIDE DEF b
  <2>3. Planned(f) = BucketsFor(read_txids(input[b]), read_txids(input[b + 1]))
    BY <2>1, <2>2 DEF Planned
  <2>4. Plain(f) = total_size(read_txids(input[b]))
    BY <2>2 DEF Plain
  <2>5. Due(k) = <<input[b].id, input[b].n + Cost(read_txids(input[b]), Planned(f)),
                   IF Cost(read_txids(input[b]), Planned(f)) < Plain(f)
                   THEN Planned(f) ELSE 0, input[k].id>>
    BY <2>3, <2>4 DEF Due, b
  <2> QED BY <2>2, <2>5
<1>5. /\ cost = IF AsIblt(f) THEN EncodedSize(Planned(f)) ELSE Plain(f)
      /\ cost < Plain(f) <=> AsIblt(f)
  BY <1>1, CostIs
<1>6. Announced(f).id = input[f - 1].id /\ Announced(f).n = input[f - 1].n + cost
      /\ Copy(k).id = input[k].id
  BY <1>5 DEF Announced, Copy, Line
<1>7. DueF[k] = Due(k)
  BY <1>1 DEF DueF
<1>8. Announced(f) \in Lines /\ Planned(f) \in Nat
  BY <1>1, Writing
<1>9. DueF[k] = <<Announced(f).id, Announced(f).n,
                        IF AsIblt(f) THEN Planned(f) ELSE 0, Copy(k).id>>
  BY <1>4, <1>5, <1>6, <1>7
<1>10. DueF[k] \in Nat \X Nat \X Nat \X Nat
  <2>1. Copy(k).id \in Nat
    BY <1>1, <1>6 DEF Lines
  <2>2. Announced(f).id \in Nat /\ Announced(f).n \in Nat
    BY <1>8 DEF Lines
  <2> QED BY <1>8, <1>9, <2>1, <2>2
<1> QED BY <1>3, <1>9, <1>10

\* What is written does not change.
LEMMA FileStays ==
  ASSUME UNCHANGED options
  PROVE  /\ \A k : /\ Planned(k)' = Planned(k) /\ AsIblt(k)' = AsIblt(k)
                   /\ Announced(k)' = Announced(k) /\ Copy(k)' = Copy(k)
         /\ AtF' = AtF /\ DueF' = DueF
<1>1. input' = input /\ fixed_buckets' = fixed_buckets /\ do_iblt' = do_iblt
  BY DEF options
<1>2. \A k : Planned(k)' = Planned(k)
  BY <1>1 DEF Planned, BucketsFor
<1>3. \A k : Plain(k)' = Plain(k)
  BY <1>1 DEF Plain
<1>4. \A k : AsIblt(k)' = AsIblt(k)
  BY <1>1, <1>2, <1>3 DEF AsIblt
<1>5. \A k : Announced(k)' = Announced(k)
  BY <1>1, <1>2, <1>3, <1>4 DEF Announced
<1>6. \A k : Copy(k)' = Copy(k)
  BY <1>1 DEF Copy
<1>7. \A w : At(w)' = At(w)
  BY <1>1, <1>2, <1>5, <1>6 DEF At
<1>10. \A k : Due(k)' = Due(k)
  <2> TAKE k
  <2> DEFINE b == Max({m \in 1 .. k : input[m].kind = "block"})
  <2>1. b' = b
    <3>1. {m \in 1 .. k : input'[m].kind = "block"} = {m \in 1 .. k : input[m].kind = "block"}
      BY <1>1
    <3> QED BY <3>1
  <2> DEFINE S == read_txids(input[b])
             n == BucketsFor(S, read_txids(input[b + 1]))
  <2>2. Due(k) = <<input[b].id, input[b].n + Cost(S, n),
                   IF Cost(S, n) < total_size(S) THEN n ELSE 0, input[k].id>>
    BY DEF Due
  <2>3. Due(k)' = <<input[b].id, input[b].n + Cost(S, n),
                    IF Cost(S, n) < total_size(S) THEN n ELSE 0, input[k].id>>'
    BY DEF Due
  <2> HIDE DEF b
  <2>4. S' = S
    BY <1>1, <2>1
  <2>5. n' = n
    BY <1>1, <2>1, <2>4 DEF BucketsFor
  <2> HIDE DEF S, n
  <2>6. Cost(S, n)' = Cost(S, n)
    BY <1>1, <2>4, <2>5 DEF Cost
  <2> QED BY <1>1, <2>1, <2>2, <2>3, <2>4, <2>5, <2>6
<1>11. AtF' = AtF
  BY <1>7 DEF AtF
<1>12. DueF' = DueF
  BY <1>10 DEF DueF
<1> QED BY <1>2, <1>4, <1>5, <1>6, <1>11, <1>12

\* What was read is some of what is there.
LEMMA PlacesAre ==
  ASSUME EncodeAssumption, EncodeTypeOK
  PROVE  /\ Places \subseteq 0 .. 2 * line - 1 /\ IsFiniteSet(Places)
         /\ \A c : Unread(c) \subseteq Nat /\ IsFiniteSet(Unread(c))
         /\ \A k : k \in Mempools => /\ k \in Nat /\ k > 1 /\ k < line
                                     /\ input[k] \in Lines /\ input[k - 1] \in Lines
         /\ \A k : k \in Firsts => k \in Mempools
         /\ Peers \subseteq Mempools
         /\ \A r : {k \in Peers : k <= r} \subseteq Nat /\ IsFiniteSet({k \in Peers : k <= r})
<1>1. line \in Nat \ {0}
  BY InputIs
<1>2. \A k : k \in Mempools => /\ k \in Nat /\ k > 1 /\ k < line
                               /\ input[k] \in Lines /\ input[k - 1] \in Lines
  BY InputIs DEF Mempools
<1>3. Firsts \subseteq Mempools
  BY DEF Firsts
<1>4. Places \subseteq 0 .. 2 * line - 1
  BY <1>1, <1>2, <1>3 DEF Places
<1>5. IsFiniteSet(0 .. 2 * line - 1) /\ IsFiniteSet(0 .. line)
  BY <1>1, FS_Interval
<1>6. IsFiniteSet(Places)
  BY <1>4, <1>5, FS_Subset
<1>7. \A c : Unread(c) \subseteq Places
  BY DEF Unread
<1>8. \A c : Unread(c) \subseteq Nat /\ IsFiniteSet(Unread(c))
  <2> TAKE c
  <2>1. Unread(c) \subseteq Places
    BY <1>7
  <2>2. IsFiniteSet(Unread(c))
    BY <1>6, <2>1, FS_Subset
  <2>3. 0 .. 2 * line - 1 \subseteq Nat
    BY <1>1
  <2> QED BY <1>4, <2>1, <2>2, <2>3
<1>9. Peers \subseteq Mempools
  BY DEF Peers, Mempools
<1>10. Peers \subseteq 0 .. line
  BY <1>1, <1>2, <1>9
<1>11. \A r : {k \in Peers : k <= r} \subseteq 0 .. line
  BY <1>10
<1>12. \A r : {k \in Peers : k <= r} \subseteq Nat /\ IsFiniteSet({k \in Peers : k <= r})
  <2> TAKE r
  <2> DEFINE K == {k \in Peers : k <= r}
  <2>1. K \subseteq 0 .. line
    BY <1>11
  <2> HIDE DEF K
  <2>2. IsFiniteSet(K)
    BY <1>5, <2>1, FS_Subset
  <2>3. K \subseteq Nat
    BY <1>1, <2>1
  <2> QED BY <2>2, <2>3 DEF K
<1> QED BY <1>2, <1>3, <1>4, <1>6, <1>8, <1>9, <1>12

LEMMA PipeInitInv == ASSUME EncodeAssumption, EncodeInit PROVE PipeInv
<1>1. NoLine \in Lines
  BY DEF NoLine, Line, Lines
<1>2. input \in Seq(Lines) /\ Len(input) \in Nat
  BY DEF EncodeInit, EncodeAssumption
<1>3. EncodeTypeOK
  BY <1>1, <1>2 DEF EncodeInit, EncodeTypeOK
<1>4. Parsed
  BY DEF EncodeInit, Parsed
<1>5. Mempools = {} /\ Firsts = {} /\ Peers = {}
  BY DEF EncodeInit, Mempools, Firsts, Peers
<1>6. Places = {} /\ Unread(0) = {} /\ {k \in Peers : k <= 0 \div 2} = {}
  BY <1>5 DEF Places, Unread
<1>7. Len(<<>>) = 0 /\ Cardinality({}) = 0
  BY FS_EmptySet
<1>8. Queued(0) /\ Printed(0)
  BY <1>6, <1>7 DEF Queued, Printed, Listed, EncodeInit
<1>9. Decoding(0)
  BY <1>6 DEF Decoding, AtBlocks, EncodeInit
<1>10. 0 \in 0 .. 2 * line - 1
  BY DEF EncodeInit
<1> QED BY <1>3, <1>4, <1>8, <1>9, <1>10 DEF PipeInv

\* What the decoder is at does not depend on what the encoder reads next.
LEMMA DecodingStays ==
  ASSUME EncodeAssumption, EncodeTypeOK, UNCHANGED <<options, decoder>>, Firsts \subseteq Firsts',
         Mempools \subseteq Mempools', NEW c \in Nat, Decoding(c),
         EncoderEnded => EncoderEnded' /\ Unread(c)' = Unread(c),
         AtBlocks(c) => AtBlocks(c)'
  PROVE  Decoding(c)'
<1>1. input' = input /\ dec' = dec /\ from_encoder' = from_encoder /\ warned' = warned
  BY DEF options, decoder
<1>2. \A k : /\ Planned(k)' = Planned(k) /\ AsIblt(k)' = AsIblt(k)
             /\ Announced(k)' = Announced(k)
  BY FileStays
<1>3. AtIblt(c) => AtIblt(c)'
  BY <1>1, <1>2 DEF AtIblt
<1>4. AtPeers(c) => AtPeers(c)'
  BY <1>1, <1>2 DEF AtPeers
<1> QED BY <1>1, <1>3, <1>4 DEF Decoding

\* The encoder reads a block, or nothing more: nothing is written.
LEMMA EncodeBlockInv ==
  ASSUME EncodeAssumption, PipeInv, EncodeBlock
  PROVE  PipeInv'
<1> USE EncodeAssumption
<1>1. EncodeTypeOK /\ Parsed
  BY DEF PipeInv
<1>2. PICK c \in 0 .. 2 * line - 1 : Queued(c) /\ Printed(c) /\ Decoding(c)
  BY DEF PipeInv
<1>3. /\ enc = "blocks" /\ UNCHANGED <<options, out, decoder>>
      /\ input' = input /\ results' = results /\ out' = out /\ dec' = dec
  BY DEF EncodeBlock, options, decoder
<1>4. /\ line \in Nat \ {0} /\ Len(input) \in Nat /\ Coming \in Lines
      /\ \A k \in 1 .. line - 1 : k \in 1 .. Len(input) /\ input[k] \in Lines
      /\ line <= Len(input) => Coming = input[line]
  BY <1>1, InputIs
<1>5. Coming.kind = "block" => line <= Len(input)
  BY <1>4 DEF Coming, NoLine, Line
<1>6. \/ line' = line /\ blockline' = blockline /\ enc' \in {"done", "threw"}
      \/ /\ Coming.kind = "block" /\ enc' = "first"
         /\ line' = line + 1 /\ blockline' = Coming
  BY DEF EncodeBlock
<1>7. EncodeTypeOK'
  <2>1. line \in 1 .. Len(input) + 1
    BY <1>1 DEF EncodeTypeOK
  <2>2. line' \in 1 .. Len(input) + 1
    BY <1>4, <1>5, <1>6, <2>1
  <2>3. blockline' \in Lines /\ enc' \in {"first", "done", "threw"}
    BY <1>1, <1>4, <1>6 DEF EncodeTypeOK
  <2> QED BY <1>1, <1>3, <2>2, <2>3 DEF EncodeTypeOK, options, decoder
<1>8. Parsed'
  <2>1. CASE line' = line
    <3>1. enc' \in {"done", "threw"}
      BY <1>4, <1>6, <2>1
    <3> QED BY <1>1, <1>3, <2>1, <3>1 DEF Parsed
  <2>2. CASE line' = line + 1
    <3>1. /\ input[line].kind = "block" /\ enc' = "first" /\ blockline' = input[line]
          /\ line = 1 \/ input[line - 1].kind = "mempool"
      BY <1>1, <1>3, <1>4, <1>5, <1>6, <2>2 DEF Parsed
    <3>2. line' - 1 = line /\ 1 .. line' - 1 = (1 .. line - 1) \cup {line}
          /\ 2 .. line' - 1 \subseteq (2 .. line - 1) \cup {line}
      BY <1>4, <2>2
    <3>3. \A k \in 1 .. line' - 1 : input[k].kind \in {"block", "mempool"}
      BY <1>1, <3>1, <3>2 DEF Parsed
    <3>4. \A k \in 2 .. line' - 1 : input[k - 1].kind = "block" => input[k].kind = "mempool"
      <4>1. line = 1 => line \notin 2 .. line' - 1
        OBVIOUS
      <4> QED BY <1>1, <1>4, <3>1, <3>2, <4>1 DEF Parsed
    <3>5. input[1].kind = "block"
      BY <1>1, <1>4, <3>1 DEF Parsed
    <3> QED BY <1>3, <1>4, <2>2, <3>1, <3>2, <3>3, <3>4, <3>5 DEF Parsed
  <2> QED BY <1>6, <2>1, <2>2
<1>9. Mempools' = Mempools /\ Peers' = Peers
  <2>1. line' = line \/ (line' = line + 1 /\ input[line].kind = "block")
    BY <1>4, <1>5, <1>6
  <2>2. ASSUME line' = line + 1, input[line].kind = "block"
        PROVE  Mempools' = Mempools /\ Peers' = Peers
    <3>1. 2 .. line' - 1 = (2 .. line - 1) \cup IF line >= 2 THEN {line} ELSE {}
      BY <1>4, <2>2
    <3> QED BY <1>3, <2>2, <3>1 DEF Mempools, Peers
  <2> QED BY <1>3, <2>1, <2>2 DEF Mempools, Peers
<1>10. AtF' = AtF /\ DueF' = DueF /\ \A k : AsIblt(k)' = AsIblt(k)
  BY <1>3, FileStays
<1>11. Firsts' = Firsts
  BY <1>3, <1>9 DEF Firsts
<1>12. Places' = Places
  BY <1>9, <1>10, <1>11 DEF Places
<1>13. Unread(c)' = Unread(c)
  BY <1>12 DEF Unread
<1>14. Queued(c)' /\ Printed(c)'
  BY <1>2, <1>3, <1>9, <1>10, <1>13 DEF Queued, Printed
<1>15. Decoding(c)'
  <2>1. ~EncoderEnded
    BY <1>3 DEF EncoderEnded
  <2>2. AtBlocks(c) => AtBlocks(c)'
    BY <1>11, <1>13, <2>1 DEF AtBlocks
  <2>3. c \in Nat
    BY <1>4
  <2> QED BY <1>1, <1>2, <1>3, <1>9, <1>11, <2>1, <2>2, <2>3, DecodingStays
<1>16. c \in 0 .. 2 * line' - 1
  BY <1>4, <1>6
<1> QED BY <1>7, <1>8, <1>14, <1>15, <1>16 DEF PipeInv

\* The encoder stops, or is done with a block.
LEMMA EncoderTurnsInv ==
  ASSUME EncodeAssumption, PipeInv, UNCHANGED <<options, line, blockline, out, decoder>>,
         ~EncoderEnded,
         enc' \in {"threw", "failed"} \/ (enc = "peers" /\ enc' = "blocks")
  PROVE  PipeInv'
<1> USE EncodeAssumption
<1>1. EncodeTypeOK /\ Parsed
  BY DEF PipeInv
<1>2. PICK c \in 0 .. 2 * line - 1 : Queued(c) /\ Printed(c) /\ Decoding(c)
  BY DEF PipeInv
<1>3. input' = input /\ results' = results /\ line' = line /\ out' = out
  BY DEF options, decoder
<1>4. EncodeTypeOK'
  BY <1>1, <1>3 DEF EncodeTypeOK, options, decoder
<1>5. Parsed'
  BY <1>1, <1>3 DEF Parsed
<1>6. Mempools' = Mempools /\ Peers' = Peers
  BY <1>3 DEF Mempools, Peers
<1>7. AtF' = AtF /\ DueF' = DueF /\ \A k : AsIblt(k)' = AsIblt(k)
  BY FileStays
<1>8. Firsts' = Firsts
  BY <1>3, <1>6 DEF Firsts
<1>9. Unread(c)' = Unread(c)
  BY <1>6, <1>7, <1>8 DEF Unread, Places
<1>10. Queued(c)' /\ Printed(c)'
  BY <1>2, <1>3, <1>6, <1>7, <1>9 DEF Queued, Printed
<1>11. AtBlocks(c) => AtBlocks(c)'
  BY <1>8, <1>9 DEF AtBlocks, EncoderEnded
<1>12. c \in Nat
  BY <1>1, InputIs
<1>13. Decoding(c)'
  BY <1>1, <1>2, <1>6, <1>8, <1>11, <1>12, DecodingStays
<1> QED BY <1>2, <1>3, <1>4, <1>5, <1>10, <1>13 DEF PipeInv

\* The encoder reads a mempool and writes what is due for it.
LEMMA EncoderReadsInv ==
  ASSUME EncodeAssumption, PipeInv, UNCHANGED <<options, blockline, decoder>>,
         ~EncoderEnded, enc' = "peers",
         line > 1, line <= Len(input), line' = line + 1, input[line].kind = "mempool",
         out' = IF input[line - 1].kind # "block" THEN Append(out, Copy(line))
                ELSE IF AsIblt(line)
                THEN Append(Append(out, Announced(line)),
                            Line("iblt", 0, Planned(line), {}))
                ELSE Append(out, Announced(line))
  PROVE  PipeInv'
<1> USE EncodeAssumption
<1>1. EncodeTypeOK /\ Parsed
  BY DEF PipeInv
<1>2. PICK c \in 0 .. 2 * line - 1 : Queued(c) /\ Printed(c) /\ Decoding(c)
  BY DEF PipeInv
<1>3. input' = input /\ results' = results /\ dec' = dec
  BY DEF options, decoder
<1>4. /\ line \in Nat \ {0} /\ Len(input) \in Nat /\ input[line] \in Lines
      /\ input[line - 1] \in Lines
  BY <1>1, InputIs
<1> DEFINE l == line
<1>5. /\ Planned(l) \in Nat /\ AsIblt(l) \in BOOLEAN
      /\ Announced(l) \in Lines /\ Copy(l) \in Lines
      /\ Line("iblt", 0, Planned(l), {}) \in Lines
      /\ AtF[2 * l + 1] = Line("iblt", 0, Planned(l), {})
      /\ input[l - 1].kind = "block" => AtF[2 * l] = Announced(l)
      /\ input[l - 1].kind # "block" => AtF[2 * l] = Copy(l)
  BY <1>1, <1>4, Writing
<1>6. out \in Seq(Lines) /\ Queued(c) /\ c \in Nat
  BY <1>1, <1>2, <1>4 DEF EncodeTypeOK
<1>7. /\ Places \subseteq 0 .. 2 * line - 1 /\ Unread(c) \subseteq Nat
      /\ IsFiniteSet(Unread(c)) /\ Unread(c) \subseteq Places
      /\ \A w \in Unread(c) : w < 2 * l
  <2>1. /\ Places \subseteq 0 .. 2 * line - 1 /\ Unread(c) \subseteq Nat
        /\ IsFiniteSet(Unread(c)) /\ Unread(c) \subseteq Places
    BY <1>1, PlacesAre DEF Unread
  <2>2. \A w \in Unread(c) : w < 2 * l
    BY <1>4, <2>1
  <2> QED BY <2>1, <2>2
<1>8. Mempools' = Mempools \cup {l}
  <2>1. 2 .. line' - 1 = (2 .. line - 1) \cup {l}
    BY <1>4
  <2> QED BY <1>3, <2>1 DEF Mempools
<1>9. Firsts' = Firsts \cup IF input[l - 1].kind = "block" THEN {l} ELSE {}
  BY <1>3, <1>8 DEF Firsts
<1>10. AtF' = AtF /\ DueF' = DueF /\ \A k : AsIblt(k)' = AsIblt(k)
  BY FileStays
<1>11. Unread(c)' = Unread(c) \cup {2 * l}
                     \cup IF input[l - 1].kind = "block" /\ AsIblt(l) THEN {2 * l + 1} ELSE {}
  <2>1. Places' = Places \cup {2 * l}
                     \cup IF input[l - 1].kind = "block" /\ AsIblt(l) THEN {2 * l + 1} ELSE {}
    <3>1. {2 * k : k \in Mempools'} = {2 * k : k \in Mempools} \cup {2 * l}
      BY <1>8
    <3>2. {2 * k + 1 : k \in {m \in Firsts' : AsIblt(m)}}
            = {2 * k + 1 : k \in {m \in Firsts : AsIblt(m)}}
                \cup IF input[l - 1].kind = "block" /\ AsIblt(l) THEN {2 * l + 1} ELSE {}
      <4>1. {m \in Firsts' : AsIblt(m)}
              = {m \in Firsts : AsIblt(m)}
                  \cup IF input[l - 1].kind = "block" /\ AsIblt(l) THEN {l} ELSE {}
        BY <1>9
      <4> QED BY <4>1
    <3>3. Places' = {2 * k : k \in Mempools'}
                      \cup {2 * k + 1 : k \in {m \in Firsts' : AsIblt(m)}}
      BY <1>10 DEF Places
    <3> QED BY <3>1, <3>2, <3>3 DEF Places
  <2>2. c < 2 * l /\ c < 2 * l + 1
    BY <1>4
  <2>3. Unread(c)' = {w \in Places' : w > c}
    BY DEF Unread
  <2>4. Unread(c) = {w \in Places : w > c}
    BY DEF Unread
  <2> QED BY <1>4, <1>6, <2>1, <2>2, <2>3, <2>4
<1>12. out' \in Seq(Lines) /\ Queued(c)'
  <2>1. Listed(out, Unread(c), AtF)
    BY <1>6 DEF Queued
  <2> HIDE DEF l
  <2>2. 2 * l \in Nat /\ 2 * l + 1 \in Nat /\ AtF[2 * l] \in Lines /\ AtF[2 * l + 1] \in Lines
    BY <1>4, <1>5 DEF l
  <2> DEFINE o == Append(out, AtF[2 * l])
             K == Unread(c) \cup {2 * l}
  <2>3. o \in Seq(Lines) /\ IsFiniteSet(K) /\ Listed(o, K, AtF)
    BY <1>6, <1>7, <2>1, <2>2, ListedAppend
  <2>4. K \subseteq Nat /\ \A k \in K : k < 2 * l + 1
    BY <1>7, <2>2
  <2>5. Append(o, AtF[2 * l + 1]) \in Seq(Lines)
        /\ Listed(Append(o, AtF[2 * l + 1]), K \cup {2 * l + 1}, AtF)
    <3> HIDE DEF o, K
    <3> QED BY <2>2, <2>3, <2>4, ListedAppend
  <2>6. CASE input[l - 1].kind = "block" /\ AsIblt(l)
    <3>1. out' = Append(o, AtF[2 * l + 1]) /\ Unread(c)' = K \cup {2 * l + 1}
      BY <1>5, <1>11, <2>6 DEF l
    <3> QED BY <1>10, <2>5, <3>1 DEF Queued
  <2>7. CASE ~(input[l - 1].kind = "block" /\ AsIblt(l))
    <3>1. out' = o /\ Unread(c)' = K
      BY <1>5, <1>11, <2>7 DEF l
    <3> QED BY <1>10, <2>3, <3>1 DEF Queued
  <2> QED BY <2>6, <2>7
<1>13. Printed(c)'
  <2>1. Peers' \subseteq Peers \cup {l} /\ Peers \subseteq Peers'
    <3>1. 2 .. line' - 1 = (2 .. line - 1) \cup {l}
      BY <1>4
    <3> QED BY <1>3, <3>1 DEF Peers
  <2>2. ~(l <= c \div 2)
    BY <1>4
  <2>3. {k \in Peers' : k <= c \div 2} = {k \in Peers : k <= c \div 2}
    BY <2>1, <2>2
  <2>4. Printed(c)' = Listed(results', {k \in Peers' : k <= c \div 2}, DueF')
    BY DEF Printed
  <2> QED BY <1>2, <1>3, <1>10, <2>3, <2>4 DEF Printed
<1>14. EncodeTypeOK'
  <2>1. line' \in 1 .. Len(input) + 1
    BY <1>4
  <2> QED BY <1>1, <1>3, <1>12, <2>1 DEF EncodeTypeOK, options, decoder
<1>15. Parsed'
  <2>1. line' - 1 = line /\ 1 .. line' - 1 = (1 .. line - 1) \cup {line}
        /\ 2 .. line' - 1 = (2 .. line - 1) \cup {line}
    BY <1>4
  <2>2. \A k \in 1 .. line' - 1 : input[k].kind \in {"block", "mempool"}
    BY <1>1, <2>1 DEF Parsed
  <2>3. \A k \in 2 .. line' - 1 : input[k - 1].kind = "block" => input[k].kind = "mempool"
    BY <1>1, <2>1 DEF Parsed
  <2>4. input[1].kind = "block"
    BY <1>1 DEF Parsed
  <2> QED BY <1>3, <1>4, <2>1, <2>2, <2>3, <2>4 DEF Parsed
<1>16. AtBlocks(c) => AtBlocks(c)'
  <2> SUFFICES ASSUME AtBlocks(c) PROVE AtBlocks(c)'
    OBVIOUS
  <2>1. Unread(c)' # {}
    BY <1>11
  <2>2. ASSUME NEW w \in Unread(c)', \A u \in Unread(c)' : w <= u
        PROVE  \E k \in Firsts' : w = 2 * k
    <3>1. CASE Unread(c) = {}
      <4>1. c = 0
        BY <3>1 DEF AtBlocks
      <4>2. Mempools = {}
        <5>1. SUFFICES ASSUME NEW k \in Mempools PROVE FALSE
          OBVIOUS
        <5>2. 2 * k \in Places /\ k \in Nat /\ k > 1
          BY <1>1, PlacesAre DEF Places
        <5>3. 2 * k \in Unread(c)
          BY <4>1, <5>2 DEF Unread
        <5> QED BY <3>1, <5>3
      <4>3. input[l - 1].kind = "block"
        <5>1. l = 2 \/ l - 1 \in 2 .. line - 1
          BY <1>4
        <5>2. l - 1 \in 2 .. line - 1 => input[l - 1].kind # "mempool"
          BY <4>2 DEF Mempools
        <5>3. l - 1 \in 1 .. line - 1
          BY <1>4
        <5> QED BY <1>1, <5>1, <5>2, <5>3 DEF Parsed
      <4>4. w = 2 * l
        <5>1. 2 * l \in Unread(c)' /\ w \in {2 * l, 2 * l + 1}
          BY <1>11, <2>2, <3>1
        <5>2. w <= 2 * l
          BY <2>2, <5>1
        <5> QED BY <1>4, <5>1, <5>2
      <4> QED BY <1>9, <4>3, <4>4
    <3>2. CASE Unread(c) # {}
      <4>1. PICK v \in Unread(c) : \A u \in Unread(c) : v <= u
        BY <1>7, <3>2, LeastNumber
      <4>2. w <= v /\ v < 2 * l /\ v \in Nat
        BY <1>7, <1>11, <2>2, <4>1
      <4>3. w \in Unread(c)
        BY <1>4, <1>11, <4>2
      <4>4. \A u \in Unread(c) : w <= u
        BY <1>11, <2>2
      <4> QED BY <1>9, <4>3, <4>4 DEF AtBlocks
    <3> QED BY <3>1, <3>2
  <2> QED BY <2>1, <2>2 DEF AtBlocks
<1>17. Decoding(c)'
  BY <1>1, <1>2, <1>6, <1>8, <1>9, <1>16, DecodingStays
<1>18. c \in 0 .. 2 * line' - 1
  BY <1>4
<1> QED BY <1>12, <1>13, <1>14, <1>15, <1>17, <1>18 DEF PipeInv

LEMMA EncodeFirstInv ==
  ASSUME EncodeAssumption, PipeInv, EncodeFirst
  PROVE  PipeInv'
<1>1. EncodeTypeOK /\ Parsed
  BY DEF PipeInv
<1>2. /\ enc = "first" /\ UNCHANGED <<options, blockline, decoder>>
      /\ blockline = input[line - 1] /\ input[line - 1].kind = "block" /\ line > 1
      /\ ~EncoderEnded
  BY <1>1 DEF EncodeFirst, Parsed, EncoderEnded
<1>3. CASE ~(Coming.kind = "mempool" /\ Coming.whole)
  <2>1. enc' \in {"threw", "failed"} /\ UNCHANGED <<line, out>>
    BY <1>3 DEF EncodeFirst
  <2> QED BY <1>2, <2>1, EncoderTurnsInv
<1>4. CASE Coming.kind = "mempool" /\ Coming.whole
  <2>1. line <= Len(input) /\ Coming = input[line]
    BY <1>1, <1>4, InputIs DEF Coming, NoLine, Line
  <2> DEFINE S == read_txids(blockline)
             n == BucketsFor(S, read_txids(Coming))
             coded == EncodedSize(n)
             q == total_size(S)
  <2>2. /\ S = read_txids(input[line - 1]) /\ n = Planned(line) /\ q = Plain(line)
        /\ coded = EncodedSize(Planned(line))
    BY <1>2, <2>1 DEF Planned, Plain
  <2>3. /\ enc' = "peers" /\ line' = line + 1
        /\ out' = out \o
                  IF coded >= q \/ ~do_iblt
                  THEN <<Line("block", blockline.id, blockline.n + q, S)>>
                  ELSE <<Line("block", blockline.id, blockline.n + coded, S),
                         Line("iblt", 0, n, {})>>
    BY <1>4 DEF EncodeFirst
  <2> HIDE DEF S, n, coded, q
  <2>4. AsIblt(line) <=> ~(coded >= q \/ ~do_iblt)
    BY <2>2 DEF AsIblt
  <2>5. Announced(line) = Line("block", blockline.id,
                               blockline.n + IF AsIblt(line) THEN coded ELSE q, S)
    BY <1>2, <2>2 DEF Announced
  <2>6. out \in Seq(Lines) /\ Announced(line) \in Lines
        /\ Line("iblt", 0, n, {}) \in Lines
    <3>1. line \in Nat /\ input[line] \in Lines /\ input[line - 1] \in Lines
      BY <1>1, <1>2, <2>1, InputIs
    <3> QED BY <1>1, <1>2, <2>2, <3>1, Writing DEF EncodeTypeOK
  <2>7. out' = IF AsIblt(line)
                THEN Append(Append(out, Announced(line)), Line("iblt", 0, n, {}))
                ELSE Append(out, Announced(line))
    <3>1. CASE AsIblt(line)
      <4>1. out' = out \o <<Announced(line), Line("iblt", 0, n, {})>>
        BY <2>3, <2>4, <2>5, <3>1
      <4> QED BY <2>6, <3>1, <4>1
    <3>2. CASE ~AsIblt(line)
      <4>1. out' = out \o <<Announced(line)>>
        BY <2>3, <2>4, <2>5, <3>2
      <4> QED BY <2>6, <3>2, <4>1
    <3> QED BY <3>1, <3>2
  <2> QED BY <1>2, <1>4, <2>1, <2>2, <2>3, <2>7, EncoderReadsInv
<1> QED BY <1>3, <1>4

LEMMA EncodePeerInv ==
  ASSUME EncodeAssumption, PipeInv, EncodePeer
  PROVE  PipeInv'
<1>1. EncodeTypeOK /\ Parsed
  BY DEF PipeInv
<1>2. /\ enc = "peers" /\ UNCHANGED <<options, blockline, decoder>>
      /\ input[line - 1].kind = "mempool" /\ line > 1 /\ ~EncoderEnded
  BY <1>1, InputIs DEF EncodePeer, Parsed, EncoderEnded
<1>3. CASE ~(Coming.kind = "mempool" /\ Coming.whole)
  <2>1. enc' \in {"threw", "blocks"} /\ UNCHANGED <<line, out>>
    BY <1>3 DEF EncodePeer
  <2> QED BY <1>2, <2>1, EncoderTurnsInv
<1>4. CASE Coming.kind = "mempool" /\ Coming.whole
  <2>1. line <= Len(input) /\ Coming = input[line]
    BY <1>1, <1>4, InputIs DEF Coming, NoLine, Line
  <2>2. /\ enc' = "peers" /\ line' = line + 1
        /\ out' = Append(out, Copy(line))
    BY <1>2, <1>4, <2>1 DEF EncodePeer, Copy
  <2> QED BY <1>2, <1>4, <2>1, <2>2, EncoderReadsInv
<1> QED BY <1>3, <1>4

\* With nothing that was read and nothing written, the decoder sees all as it was.
LEMMA DecoderSees ==
  ASSUME EncodeAssumption, PipeInv, UNCHANGED <<options, line, enc, blockline>>
  PROVE  /\ Parsed' /\ Mempools' = Mempools /\ Firsts' = Firsts /\ Peers' = Peers
         /\ Places' = Places /\ AtF' = AtF /\ DueF' = DueF
         /\ \A c : Unread(c)' = {w \in Places : w > c}
         /\ \A k : /\ Planned(k)' = Planned(k) /\ AsIblt(k)' = AsIblt(k)
                   /\ Announced(k)' = Announced(k)
         /\ EncoderEnded' = EncoderEnded
         /\ input' = input /\ line' = line
<1>1. input' = input /\ line' = line /\ enc' = enc /\ blockline' = blockline
  BY DEF options
<1>2. Parsed'
  BY <1>1 DEF PipeInv, Parsed
<1>3. Mempools' = Mempools /\ Peers' = Peers /\ EncoderEnded' = EncoderEnded
  BY <1>1 DEF Mempools, Peers, EncoderEnded
<1>4. Firsts' = Firsts
  BY <1>1, <1>3 DEF Firsts
<1>5. /\ AtF' = AtF /\ DueF' = DueF
      /\ \A k : /\ Planned(k)' = Planned(k) /\ AsIblt(k)' = AsIblt(k)
                /\ Announced(k)' = Announced(k)
  BY FileStays
<1>6. Places' = Places
  BY <1>3, <1>4, <1>5 DEF Places
<1>7. \A c : Unread(c)' = {w \in Places : w > c}
  BY <1>6 DEF Unread
<1> QED BY <1>1, <1>2, <1>3, <1>4, <1>5, <1>6, <1>7

\* A line before the decoder: the least place it has not read.
LEMMA AheadIs ==
  ASSUME EncodeAssumption, PipeInv, NEW c \in 0 .. 2 * line - 1, Queued(c)
  PROVE  \/ /\ out = <<>> /\ Unread(c) = {} /\ Ahead = NoLine
         \/ /\ out # <<>> /\ Ahead = Head(out)
            /\ Tail(out) \in Seq(Lines)
            /\ \E w \in Unread(c) :
                 /\ \A u \in Unread(c) : w <= u
                 /\ Ahead = AtF[w]
                 /\ Listed(Tail(out), Unread(c) \ {w}, AtF)
                 /\ Unread(c) \ {w} = Unread(w)
<1>1. EncodeTypeOK
  BY DEF PipeInv
<1>2. out \in Seq(Lines) /\ Listed(out, Unread(c), AtF)
  BY <1>1 DEF EncodeTypeOK, Queued
<1>3. Unread(c) \subseteq Nat /\ IsFiniteSet(Unread(c)) /\ Places \subseteq Nat
  <2>1. line \in Nat \ {0}
    BY <1>1, InputIs
  <2> QED BY <1>1, <2>1, PlacesAre
<1>4. CASE Unread(c) = {}
  <2>1. out = <<>>
    BY <1>2, <1>3, <1>4, ListedNone
  <2> QED BY <1>4, <2>1 DEF Ahead
<1>5. CASE Unread(c) # {}
  <2>1. PICK w \in Unread(c) : \A u \in Unread(c) : w <= u
    BY <1>3, <1>5, LeastNumber
  <2>2. /\ out # <<>> /\ Head(out) = AtF[w] /\ Tail(out) \in Seq(Lines)
        /\ Listed(Tail(out), Unread(c) \ {w}, AtF)
    <3>1. Leads(Lines, out, Unread(c), AtF, w)
      BY <1>2, <1>3, <2>1 DEF Leads
    <3> QED BY <3>1, ListedTail
  <2>3. Unread(c) \ {w} = Unread(w)
    <3>1. c \in Int
      BY <1>1, InputIs
    <3>2. w > c /\ w \in Nat
      BY <1>3 DEF Unread
    <3>3. \A u \in Unread(c) \ {w} : u > w
      BY <1>3, <2>1
    <3>4. \A u \in Places : u > w => u > c /\ u # w
      BY <1>3, <3>1, <3>2
    <3> QED BY <3>3, <3>4 DEF Unread
  <2> QED BY <2>1, <2>2, <2>3 DEF Ahead
<1> QED BY <1>4, <1>5

\* What lies at a place: the line of a block, a copy, or an IBLT.
LEMMA LineIs ==
  ASSUME EncodeAssumption, PipeInv, NEW w \in Places
  PROVE  /\ AtF[w] \in Lines /\ AtF[w].whole /\ AtF[w].txs \subseteq Known
         /\ \/ \E f \in Firsts : /\ w = 2 * f
                                 /\ AtF[w] = Announced(f) /\ AtF[w].kind = "block"
            \/ \E k \in Mempools \ Firsts : /\ w = 2 * k
                                            /\ AtF[w] = Copy(k) /\ AtF[w].kind = "mempool"
            \/ \E f \in Firsts : /\ w = 2 * f + 1 /\ AsIblt(f)
                                 /\ AtF[w] = Line("iblt", 0, Planned(f), {})
                                 /\ AtF[w].kind = "iblt" /\ AtF[w].n = Planned(f)
<1>1. EncodeTypeOK
  BY DEF PipeInv
<1>2. ASSUME NEW k \in Mempools
      PROVE  /\ Announced(k) \in Lines /\ Copy(k) \in Lines
             /\ Line("iblt", 0, Planned(k), {}) \in Lines
             /\ AtF[2 * k + 1] = Line("iblt", 0, Planned(k), {})
             /\ k \in Firsts => AtF[2 * k] = Announced(k)
             /\ k \notin Firsts => AtF[2 * k] = Copy(k)
             /\ input[k] \in Lines /\ input[k - 1] \in Lines
  <2>1. k \in Nat /\ k > 1 /\ input[k] \in Lines /\ input[k - 1] \in Lines
    BY <1>1, PlacesAre
  <2> QED BY <1>1, <2>1, Writing DEF Firsts
<1>3. \A k : Announced(k).kind = "block" /\ Announced(k).whole
             /\ Announced(k).txs = read_txids(input[k - 1])
  BY DEF Announced, Line
<1>4. \A k : Copy(k).kind = "mempool" /\ Copy(k).whole /\ Copy(k).txs = read_txids(input[k])
  BY DEF Copy, Line
<1>5. \A n : LET i == Line("iblt", 0, n, {}) IN i.kind = "iblt" /\ i.whole /\ i.txs = {} /\ i.n = n
  BY DEF Line
<1>6. CASE \E k \in Mempools : w = 2 * k
  <2>1. PICK k \in Mempools : w = 2 * k
    BY <1>6
  <2>2. read_txids(input[k]) \subseteq Known /\ read_txids(input[k - 1]) \subseteq Known
    BY <1>2, ReadIs
  <2>3. CASE k \in Firsts
    BY <1>2, <1>3, <2>1, <2>2, <2>3
  <2>4. CASE k \notin Firsts
    BY <1>2, <1>4, <2>1, <2>2, <2>4
  <2> QED BY <2>3, <2>4
<1>7. CASE \E k \in Firsts : w = 2 * k + 1 /\ AsIblt(k)
  <2>1. PICK k \in Firsts : w = 2 * k + 1 /\ AsIblt(k)
    BY <1>7
  <2>2. k \in Mempools
    BY DEF Firsts
  <2> QED BY <1>2, <1>5, <2>1, <2>2
<1> QED BY <1>6, <1>7 DEF Places

\* The decoder gets as far as place w, with out being what it has not read and
\* nothing more printed.
LEMMA DecoderMoves ==
  ASSUME EncodeAssumption, PipeInv, UNCHANGED <<options, line, enc, blockline, results>>,
         NEW c \in 0 .. 2 * line - 1, NEW w \in 0 .. 2 * line - 1, Printed(c),
         out' \in Seq(Lines), Listed(out', Unread(w), AtF),
         \A k \in Peers : k <= c \div 2 <=> k <= w \div 2,
         warned' = {}, dec' \in {"blocks", "iblt", "peers", "done"},
         from_encoder' \in {NoLine} \cup [block : Lines, buckets : Nat],
         Decoding(w)'
  PROVE  PipeInv'
<1>1. EncodeTypeOK
  BY DEF PipeInv
<1>2. /\ Parsed' /\ Peers' = Peers /\ AtF' = AtF /\ DueF' = DueF /\ Places' = Places
      /\ input' = input /\ line' = line
      /\ \A x : Unread(x)' = {u \in Places : u > x}
  BY DecoderSees
<1>3. EncodeTypeOK'
  BY <1>1, <1>2 DEF EncodeTypeOK, options
<1>4. Queued(w)'
  <2>1. Unread(w)' = Unread(w)
    BY <1>2 DEF Unread
  <2> QED BY <1>2, <2>1 DEF Queued
<1>5. Printed(w)'
  <2>1. {k \in Peers : k <= w \div 2} = {k \in Peers : k <= c \div 2}
    OBVIOUS
  <2>2. results' = results
    OBVIOUS
  <2> QED BY <1>2, <2>1, <2>2 DEF Printed
<1> QED BY <1>2, <1>3, <1>4, <1>5 DEF PipeInv

LEMMA DecodeBlockInv ==
  ASSUME EncodeAssumption, PipeInv, DecodeBlock
  PROVE  PipeInv'
<1> USE EncodeAssumption
<1>1. EncodeTypeOK /\ Parsed
  BY DEF PipeInv
<1>2. PICK c \in 0 .. 2 * line - 1 : Queued(c) /\ Printed(c) /\ Decoding(c)
  BY DEF PipeInv
<1>3. /\ dec = "blocks" /\ UNCHANGED <<options, line, enc, blockline, results>>
      /\ AtBlocks(c) /\ warned = {} /\ (out # <<>> \/ EncoderEnded)
  BY <1>2 DEF DecodeBlock, Decoding, Arrived, EncoderEnded
<1>4. /\ Firsts' = Firsts /\ Places' = Places
      /\ \A x : Unread(x)' = {u \in Places : u > x}
      /\ \A k : /\ Planned(k)' = Planned(k) /\ AsIblt(k)' = AsIblt(k)
                /\ Announced(k)' = Announced(k)
      /\ EncoderEnded' = EncoderEnded
  BY <1>3, DecoderSees
<1>5. line \in Nat \ {0}
  BY <1>1, InputIs
<1>6. CASE out = <<>>
  <2>1. Unread(c) = {} /\ Ahead = NoLine
    BY <1>2, <1>6, AheadIs
  <2>2. dec' = "done" /\ UNCHANGED <<out, from_encoder, warned>>
    BY <2>1 DEF DecodeBlock, NoLine, Line
  <2>3. Decoding(c)'
    BY <1>3, <1>4, <1>6, <2>1, <2>2 DEF Decoding, Unread
  <2>4. out' \in Seq(Lines) /\ Listed(out', Unread(c), AtF)
        /\ from_encoder' \in {NoLine} \cup [block : Lines, buckets : Nat]
    BY <1>1, <1>2, <2>2 DEF Queued, EncodeTypeOK
  <2> QED BY <1>2, <1>3, <2>2, <2>3, <2>4, DecoderMoves
<1>7. CASE out # <<>>
  <2>1. PICK w \in Unread(c) :
          /\ \A u \in Unread(c) : w <= u
          /\ Ahead = AtF[w] /\ Tail(out) \in Seq(Lines)
          /\ Listed(Tail(out), Unread(c) \ {w}, AtF)
          /\ Unread(c) \ {w} = Unread(w)
    BY <1>2, <1>7, AheadIs
  <2>2. PICK f \in Firsts : w = 2 * f
    BY <1>3, <2>1 DEF AtBlocks
  <2>3. /\ Firsts \subseteq Mempools /\ \A k \in Mempools : k \in Nat
        /\ Places \subseteq 0 .. 2 * line - 1 /\ w \in Places /\ w > c
    BY <1>1, <2>1, PlacesAre DEF Unread
  <2>4. /\ Ahead = Announced(f) /\ Ahead.kind = "block" /\ Ahead.whole
        /\ Ahead \in Lines /\ Ahead.txs \subseteq Known
    <3>1. \A k \in Mempools \ Firsts : w # 2 * k
      BY <2>2, <2>3
    <3>2. \A g \in Firsts : w # 2 * g + 1 /\ (w = 2 * g => g = f)
      BY <2>2, <2>3
    <3> QED BY <2>1, <2>3, <3>1, <3>2, LineIs
  <2>5. /\ dec' = "iblt" /\ from_encoder' = [block |-> Ahead, buckets |-> 0]
        /\ out' = Tail(out) /\ warned' = {}
    BY <1>3, <2>4 DEF DecodeBlock, Warn
  <2>6. Decoding(w)'
    <3>1. AtIblt(w)'
      BY <1>4, <2>2, <2>4, <2>5 DEF AtIblt
    <3> QED BY <2>5, <3>1 DEF Decoding
  <2>7. \A k \in Peers : k <= c \div 2 <=> k <= w \div 2
    <3> TAKE k \in Peers
    <3>1. k \in Mempools /\ k \in Nat /\ k # f
      BY <1>1, <2>3, PlacesAre DEF Peers, Firsts
    <3>2. 2 * k \in Places
      BY <3>1 DEF Places
    <3>3. 2 * k > c => 2 * k >= w
      BY <2>1, <3>2 DEF Unread
    <3> QED BY <1>5, <2>2, <2>3, <3>1, <3>3
  <2> QED BY <1>2, <1>3, <2>1, <2>3, <2>4, <2>5, <2>6, <2>7, DecoderMoves
<1> QED BY <1>6, <1>7

LEMMA DecodeIbltInv ==
  ASSUME EncodeAssumption, PipeInv, DecodeIblt
  PROVE  PipeInv'
<1> USE EncodeAssumption
<1>1. EncodeTypeOK /\ Parsed
  BY DEF PipeInv
<1>2. PICK c \in 0 .. 2 * line - 1 : Queued(c) /\ Printed(c) /\ Decoding(c)
  BY DEF PipeInv
<1>3. /\ dec = "iblt" /\ dec' = "peers" /\ UNCHANGED <<options, line, enc, blockline, results>>
      /\ AtIblt(c) /\ warned' = {}
  BY <1>2 DEF DecodeIblt, Decoding
<1>4. /\ Firsts' = Firsts /\ Mempools' = Mempools /\ input' = input
      /\ \A k : /\ Planned(k)' = Planned(k) /\ AsIblt(k)' = AsIblt(k)
                /\ Announced(k)' = Announced(k)
  BY <1>3, DecoderSees
<1>5. PICK f \in Firsts : c = 2 * f /\ from_encoder = [block |-> Announced(f), buckets |-> 0]
  BY <1>3 DEF AtIblt
<1>6. /\ Firsts \subseteq Mempools /\ \A k \in Mempools : k \in Nat
      /\ Places \subseteq 0 .. 2 * line - 1 /\ line \in Nat \ {0}
      /\ input[f].kind = "mempool"
  BY <1>1, PlacesAre, InputIs DEF Firsts, Mempools
<1>7. Planned(f) \in Nat /\ Announced(f) \in Lines /\ AsIblt(f) \in BOOLEAN
  <2>1. f \in Nat /\ f > 1 /\ input[f] \in Lines /\ input[f - 1] \in Lines
    BY <1>1, <1>6, PlacesAre
  <2> QED BY <1>1, <2>1, Writing
<1>8. AsIblt(f) => 2 * f + 1 \in Unread(c)
  <2>1. 2 * f + 1 > c
    BY <1>5, <1>6
  <2> QED BY <2>1 DEF Unread, Places
<1>9. CASE Ahead.kind # "iblt"
  <2>1. UNCHANGED <<out, from_encoder>>
    BY <1>9 DEF DecodeIblt
  <2>2. ~AsIblt(f)
    <3> SUFFICES ASSUME AsIblt(f) PROVE FALSE
      BY <1>7
    <3>1. PICK w \in Unread(c) : (\A u \in Unread(c) : w <= u) /\ Ahead = AtF[w]
      BY <1>2, <1>8, AheadIs
    <3>2. w <= 2 * f + 1 /\ w > 2 * f /\ w \in Places
      BY <1>5, <1>8, <3>1 DEF Unread
    <3>3. w = 2 * f + 1
      BY <1>6, <3>2
    <3>4. \A k \in Mempools : w # 2 * k
      BY <1>6, <3>3
    <3> QED BY <1>6, <1>9, <3>1, <3>2, <3>4, LineIs
  <2>3. Decoding(c)'
    <3>1. \A m \in f .. f : input[m].kind = "mempool"
      BY <1>6
    <3>2. AtPeers(c)'
      BY <1>4, <1>5, <1>6, <2>1, <2>2, <3>1 DEF AtPeers
    <3> QED BY <1>3, <3>2 DEF Decoding
  <2>4. out' \in Seq(Lines) /\ Listed(out', Unread(c), AtF)
        /\ from_encoder' \in {NoLine} \cup [block : Lines, buckets : Nat]
    BY <1>1, <1>2, <2>1 DEF Queued, EncodeTypeOK
  <2> QED BY <1>2, <1>3, <2>3, <2>4, DecoderMoves
<1>10. CASE Ahead.kind = "iblt"
  <2>1. Ahead # NoLine
    BY <1>10 DEF NoLine, Line
  <2>2. PICK w \in Unread(c) :
          /\ \A u \in Unread(c) : w <= u
          /\ Ahead = AtF[w] /\ Tail(out) \in Seq(Lines)
          /\ Listed(Tail(out), Unread(c) \ {w}, AtF)
          /\ Unread(c) \ {w} = Unread(w)
    BY <1>2, <2>1, AheadIs
  <2>3. PICK g \in Firsts : w = 2 * g + 1 /\ AsIblt(g) /\ Ahead.n = Planned(g)
    BY <1>10, <2>2, LineIs DEF Unread
  <2>4. g = f
    <3>1. g \in Nat /\ f \in Nat /\ 2 * g \in Places
      BY <1>6 DEF Places
    <3>2. w > 2 * f
      BY <1>5, <2>2 DEF Unread
    <3>3. 2 * g > c => w <= 2 * g
      BY <2>2, <3>1 DEF Unread
    <3> QED BY <1>5, <2>3, <3>1, <3>2, <3>3
  <2>5. /\ from_encoder' = [block |-> Announced(f), buckets |-> Planned(f)]
        /\ out' = Tail(out)
    BY <1>5, <1>10, <2>3, <2>4 DEF DecodeIblt
  <2>6. Decoding(w)'
    <3>1. \A m \in f .. f : input[m].kind = "mempool"
      BY <1>6
    <3>2. AtPeers(w)'
      BY <1>4, <1>6, <2>3, <2>4, <2>5, <3>1 DEF AtPeers
    <3> QED BY <1>3, <3>2 DEF Decoding
  <2>7. c \div 2 = w \div 2 /\ w \in 0 .. 2 * line - 1
    <3>1. w \in Places
      BY <2>2 DEF Unread
    <3> QED BY <1>5, <1>6, <2>3, <2>4, <3>1
  <2> QED BY <1>2, <1>3, <1>7, <2>2, <2>5, <2>6, <2>7, DecoderMoves
<1> QED BY <1>9, <1>10

LEMMA DecodePeerInv ==
  ASSUME EncodeAssumption, PipeInv, DecodePeer
  PROVE  PipeInv'
<1> USE EncodeAssumption
<1>1. EncodeTypeOK /\ Parsed
  BY DEF PipeInv
<1>2. PICK c \in 0 .. 2 * line - 1 : Queued(c) /\ Printed(c) /\ Decoding(c)
  BY DEF PipeInv
<1>3. /\ dec = "peers" /\ UNCHANGED <<options, line, enc, blockline, from_encoder>>
      /\ AtPeers(c) /\ warned = {} /\ (out # <<>> \/ EncoderEnded)
  BY <1>2 DEF DecodePeer, Decoding, Arrived, EncoderEnded
<1>4. /\ Firsts' = Firsts /\ Mempools' = Mempools /\ input' = input /\ line' = line
      /\ Places' = Places /\ Peers' = Peers /\ AtF' = AtF /\ DueF' = DueF /\ Parsed'
      /\ EncoderEnded' = EncoderEnded
      /\ \A x : Unread(x)' = {u \in Places : u > x}
      /\ \A k : /\ Planned(k)' = Planned(k) /\ AsIblt(k)' = AsIblt(k)
                /\ Announced(k)' = Announced(k)
  BY <1>3, DecoderSees
<1>5. PICK f \in Firsts, k \in Mempools :
        /\ f <= k
        /\ \A m \in f .. k : input[m].kind = "mempool"
        /\ from_encoder = [block |-> Announced(f),
                           buckets |-> IF AsIblt(f) THEN Planned(f) ELSE 0]
        /\ \/ c = 2 * k /\ (k = f => ~AsIblt(f))
           \/ c = 2 * k + 1 /\ k = f
  BY <1>3 DEF AtPeers
<1>6. /\ Firsts \subseteq Mempools /\ \A m \in Mempools : m \in Nat /\ m > 1 /\ m < line
      /\ Places \subseteq 0 .. 2 * line - 1 /\ line \in Nat \ {0}
      /\ \A m \in Mempools : 2 * m \in Places
      /\ \A g \in Firsts : input[g - 1].kind = "block"
  BY <1>1, PlacesAre, InputIs DEF Firsts, Places
<1>7. c >= 2 * k /\ c <= 2 * k + 1 /\ c \div 2 = k
  BY <1>5, <1>6
<1>8. CASE Ahead.kind # "mempool"
  <2>1. dec' = "blocks" /\ UNCHANGED <<out, warned, results>>
    BY <1>8 DEF DecodePeer
  <2>2. Unread(c)' = Unread(c)
    BY <1>4 DEF Unread
  <2>3. ASSUME NEW w \in Unread(c), \A u \in Unread(c) : w <= u
        PROVE  \E g \in Firsts : w = 2 * g
    <3>1. PICK v \in Unread(c) : (\A u \in Unread(c) : v <= u) /\ Ahead = AtF[v]
      BY <1>2, AheadIs
    <3>2. v = w /\ w \in Places /\ w > c
      BY <1>6, <2>3, <3>1 DEF Unread
    <3>3. CASE \E g \in Firsts : w = 2 * g + 1 /\ AsIblt(g)
      <4>1. PICK g \in Firsts : w = 2 * g + 1 /\ AsIblt(g)
        BY <3>3
      <4>2. g \in Nat /\ k \in Nat /\ f \in Nat /\ 2 * g \in Places
        BY <1>6
      <4>3. ~(2 * g > c)
        <5>1. 2 * g > c => 2 * g \in Unread(c)
          BY <4>2 DEF Unread
        <5> QED BY <2>3, <4>1, <4>2, <5>1
      <4>4. g = k /\ c = 2 * k
        BY <1>5, <1>7, <3>2, <4>1, <4>2, <4>3
      <4>5. f = k
        <5>1. f < k => k - 1 \in f .. k
          BY <4>2
        <5> QED BY <1>5, <1>6, <4>2, <4>4, <5>1
      <4> QED BY <1>5, <4>1, <4>2, <4>4, <4>5
    <3> QED BY <1>8, <3>1, <3>2, <3>3, LineIs
  <2>4. AtBlocks(c)'
    <3>1. Unread(c) = {} => EncoderEnded
      BY <1>2, <1>3, AheadIs
    <3> QED BY <1>4, <2>2, <2>3, <3>1 DEF AtBlocks
  <2>5. Decoding(c)'
    BY <1>3, <2>1, <2>4 DEF Decoding
  <2>6. out' \in Seq(Lines) /\ Listed(out', Unread(c), AtF)
        /\ from_encoder' \in {NoLine} \cup [block : Lines, buckets : Nat]
    BY <1>1, <1>2, <1>3, <2>1 DEF Queued, EncodeTypeOK
  <2> QED BY <1>2, <1>3, <2>1, <2>5, <2>6, DecoderMoves
<1>9. CASE Ahead.kind = "mempool"
  <2>1. Ahead # NoLine
    BY <1>9 DEF NoLine, Line
  <2>2. PICK w \in Unread(c) :
          /\ \A u \in Unread(c) : w <= u
          /\ Ahead = AtF[w] /\ Tail(out) \in Seq(Lines)
          /\ Listed(Tail(out), Unread(c) \ {w}, AtF)
          /\ Unread(c) \ {w} = Unread(w)
    BY <1>2, <2>1, AheadIs
  <2>3. w \in Places /\ w > c
    BY <2>2 DEF Unread
  <2>4. PICK n \in Mempools \ Firsts : w = 2 * n /\ Ahead = Copy(n)
    BY <1>9, <2>2, <2>3, LineIs
  <2>5. Ahead.whole /\ Ahead.txs \subseteq Known
    BY <2>2, <2>3, LineIs
  <2>6. n \in Nat /\ k \in Nat /\ f \in Nat /\ n < line /\ n > k
    BY <1>6, <1>7, <2>3, <2>4
  <2>7. \A m \in Mempools : m > k => m >= n
    <3> TAKE m \in Mempools
    <3>1. m \in Nat /\ 2 * m \in Places
      BY <1>6
    <3>2. 2 * m > c => w <= 2 * m
      BY <2>2, <3>1 DEF Unread
    <3> QED BY <1>7, <2>4, <2>6, <3>1, <3>2
  <2>8. n = k + 1
    <3> SUFFICES ASSUME n # k + 1 PROVE FALSE
      OBVIOUS
    <3>1. k + 1 \in 1 .. line - 1 /\ k + 1 \in 2 .. line - 1 /\ k + 2 \in 2 .. line - 1
      BY <1>6, <2>6
    <3>2. input[k + 1].kind = "block"
      <4>1. input[k + 1].kind # "mempool"
        BY <2>6, <2>7, <3>1 DEF Mempools
      <4> QED BY <1>1, <3>1, <4>1 DEF Parsed
    <3>3. (k + 2) - 1 = k + 1
      BY <2>6
    <3>4. input[k + 2].kind = "mempool"
      BY <1>1, <3>1, <3>2, <3>3 DEF Parsed
    <3>5. k + 2 \in Firsts
      BY <3>1, <3>2, <3>3, <3>4 DEF Firsts, Mempools
    <3>6. k + 2 >= n
      BY <1>6, <2>6, <2>7, <3>5
    <3> QED BY <2>4, <2>6, <3>5, <3>6
  <2>9. f < n /\ \A m \in f .. n : input[m].kind = "mempool"
    <3>1. f < n /\ \A m \in f .. n : m \in f .. k \/ m = n
      BY <1>5, <2>6, <2>8
    <3>2. input[n].kind = "mempool"
      BY <2>4 DEF Mempools
    <3> QED BY <1>5, <3>1, <3>2
  <2>10. /\ n \in Peers
         /\ DueF[n] = <<Announced(f).id, Announced(f).n,
                        IF AsIblt(f) THEN Planned(f) ELSE 0, Copy(n).id>>
         /\ DueF[n] \in Nat \X Nat \X Nat \X Nat
    BY <1>1, <2>9, DueIs
  <2>11. /\ dec' = "peers" /\ out' = Tail(out) /\ warned' = {}
         /\ results' = Append(results, DueF[n])
    BY <1>3, <1>5, <1>9, <2>4, <2>5, <2>10 DEF DecodePeer, Warn
  <2> DEFINE K == {m \in Peers : m <= k}
  <2>12. K \subseteq Nat /\ IsFiniteSet(K) /\ \A m \in K : m < n
    <3>1. K \subseteq Nat /\ IsFiniteSet(K)
      BY <1>1, PlacesAre
    <3>2. \A m \in K : m < n
      BY <2>6, <3>1
    <3> QED BY <3>1, <3>2
  <2>13. results \in Seq(Nat \X Nat \X Nat \X Nat) /\ Listed(results, K, DueF)
    BY <1>1, <1>2, <1>7 DEF EncodeTypeOK, Printed
  <2>14. {m \in Peers : m <= n} = K \cup {n}
    <3>1. \A m \in Peers : m \in Nat
      BY <1>1, <1>6, PlacesAre
    <3>2. \A m \in Peers : m <= n <=> m <= k \/ m = n
      BY <2>6, <2>8, <3>1
    <3> QED BY <2>10, <3>2
  <2>15. /\ results' \in Seq(Nat \X Nat \X Nat \X Nat)
         /\ Listed(results', K \cup {n}, DueF)
    <3> HIDE DEF K
    <3> QED BY <2>6, <2>10, <2>11, <2>12, <2>13, ListedAppend
  <2>16. Printed(w)'
    <3>1. w \div 2 = n
      BY <2>4, <2>6
    <3> QED BY <1>4, <2>14, <2>15, <3>1 DEF Printed
  <2>17. Queued(w)'
    <3>1. Unread(w)' = Unread(w)
      BY <1>4 DEF Unread
    <3> QED BY <1>4, <2>2, <2>11, <3>1 DEF Queued
  <2>18. Decoding(w)'
    <3>1. n \in Mempools /\ f <= n /\ n # f
      BY <2>4, <2>6, <2>9
    <3>2. AtPeers(w)'
      BY <1>3, <1>4, <1>5, <2>4, <2>9, <3>1 DEF AtPeers
    <3> QED BY <2>11, <3>2 DEF Decoding
  <2>19. EncodeTypeOK'
    BY <1>1, <1>3, <1>4, <2>2, <2>11, <2>15 DEF EncodeTypeOK, options
  <2>20. w \in 0 .. 2 * line' - 1
    BY <1>4, <1>6, <2>3
  <2> QED BY <1>4, <2>16, <2>17, <2>18, <2>19, <2>20 DEF PipeInv
<1> QED BY <1>8, <1>9

\* Every step keeps the invariant.
LEMMA PipeNextInv ==
  ASSUME EncodeAssumption, PipeInv, [EncodeNext]_evars
  PROVE  PipeInv'
<1>1. CASE EncodeStep
  BY <1>1, EncodeBlockInv, EncodeFirstInv, EncodePeerInv DEF EncodeStep
<1>2. CASE DecodeStep
  BY <1>2, DecodeBlockInv, DecodeIbltInv, DecodePeerInv DEF DecodeStep
<1>3. CASE UNCHANGED evars
  <2>1. /\ UNCHANGED <<options, line, enc, blockline>>
        /\ out' = out /\ dec' = dec /\ from_encoder' = from_encoder
        /\ warned' = warned /\ results' = results
    BY <1>3 DEF evars, options
  <2>2. PICK c \in 0 .. 2 * line - 1 : Queued(c) /\ Printed(c) /\ Decoding(c)
    BY DEF PipeInv
  <2>3. /\ Parsed' /\ Mempools' = Mempools /\ Firsts' = Firsts /\ Peers' = Peers
        /\ AtF' = AtF /\ DueF' = DueF /\ line' = line
        /\ Unread(c)' = Unread(c)
        /\ \A k : /\ Planned(k)' = Planned(k) /\ AsIblt(k)' = AsIblt(k)
                  /\ Announced(k)' = Announced(k)
        /\ EncoderEnded' = EncoderEnded /\ input' = input
    BY <2>1, DecoderSees DEF Unread
  <2>4. EncodeTypeOK'
    BY <2>1 DEF PipeInv, EncodeTypeOK, options
  <2>5. Queued(c)' /\ Printed(c)'
    BY <2>1, <2>2, <2>3 DEF Queued, Printed
  <2>6. (AtBlocks(c) => AtBlocks(c)') /\ (AtIblt(c) => AtIblt(c)')
        /\ (AtPeers(c) => AtPeers(c)')
    BY <2>1, <2>3 DEF AtBlocks, AtIblt, AtPeers
  <2>7. Decoding(c)'
    BY <2>1, <2>2, <2>3, <2>6 DEF Decoding
  <2> QED BY <2>3, <2>4, <2>5, <2>7 DEF PipeInv
<1> QED BY <1>1, <1>2, <1>3 DEF EncodeNext, PipeEnded

\* What was printed is what the results are.
LEMMA PrintedAnswers ==
  ASSUME NEW K, K \subseteq Nat, Listed(results, K, DueF)
  PROVE  Answered(K)
<1>1. \A k \in K : DueF[k] = Due(k)
  BY DEF DueF
<1> QED BY <1>1 DEF Listed, Answered

LEMMA PipeInvAnswers ==
  ASSUME EncodeAssumption, PipeInv
  PROVE  PeersAnswered
<1>1. PICK c \in 0 .. 2 * line - 1 : Queued(c) /\ Printed(c) /\ Decoding(c)
  BY DEF PipeInv
<1>2. EncodeTypeOK /\ line \in Nat \ {0}
  BY InputIs DEF PipeInv
<1>3. /\ \A r : {k \in Peers : k <= r} \subseteq Nat
      /\ Peers \subseteq Mempools /\ \A k \in Mempools : k \in Nat
      /\ \A k \in Mempools : 2 * k \in Places
  BY <1>2, PlacesAre DEF Places
<1>4. c \div 2 \in 0 .. line - 1
  BY <1>2
<1>5. Answered({k \in Peers : k <= c \div 2})
  BY <1>1, <1>3, PrintedAnswers DEF Printed
<1>6. dec = "done" => Answered(Peers)
  <2> SUFFICES ASSUME dec = "done" PROVE Answered(Peers)
    OBVIOUS
  <2>1. Unread(c) = {}
    BY <1>1 DEF Decoding
  <2>2. \A k \in Peers : k <= c \div 2
    <3> TAKE k \in Peers
    <3>1. k \in Nat /\ 2 * k \in Places
      BY <1>3
    <3>2. ~(2 * k > c)
      BY <2>1, <3>1 DEF Unread
    <3> QED BY <1>2, <3>1, <3>2
  <2>3. {k \in Peers : k <= c \div 2} = Peers
    BY <2>2
  <2> QED BY <1>5, <2>3
<1> QED BY <1>1, <1>4, <1>5, <1>6 DEF PeersAnswered, Decoding

\* Whatever is fed to the encoder, the decoder that reads its output answers each
\* block to each peer but the first, with what was sent for it, and neither
\* chokes nor misses a transaction (main of iblt-encode.cpp and iblt-decode.cpp).
THEOREM PeersAlwaysAnswered == EncodeSpec => [](EncodeTypeOK /\ PeersAnswered)
<1>1. EncodeInit => PipeInv
  BY EncodeAssumption, PipeInitInv
<1>2. PipeInv /\ [EncodeNext]_evars => PipeInv'
  BY EncodeAssumption, PipeNextInv
<1>3. PipeInv => EncodeTypeOK /\ PeersAnswered
  BY EncodeAssumption, PipeInvAnswers DEF PipeInv
<1> QED BY <1>1, <1>2, <1>3, PTL DEF EncodeSpec

-----------------------------------------------------------------------------
(***************************************************************************)
(* The functions that accept a take()n argument (ccan/tal/str/str.c):      *)
(* whatever they are given, what take() marked is used up when they return. *)
(***************************************************************************)

\* RemoveFirst takes out the element at the only place there is.
LEMMA RemoveFirstIs ==
  ASSUME NEW s \in Seq(Int), NEW x, NEW k \in 1 .. Len(s), s[k] = x,
         {i \in 1 .. Len(s) : s[i] = x} = {k}
  PROVE  RemoveFirst(s, x) = SubSeq(s, 1, k - 1) \o SubSeq(s, k + 1, Len(s))
<1>1. Min({k}) = k
  BY DEF Min
<1>2. SelectInSeq(s, LAMBDA v : v = x) = k
  BY <1>1 DEF SelectInSeq
<1>3. RemoveFirst(s, x) = RemoveAt(s, k)
  BY <1>2 DEF RemoveFirst
<1> QED BY <1>3 DEF RemoveAt

LEMMA RemoveOnly ==
  ASSUME NEW p \in Int
  PROVE  RemoveFirst(<<p>>, p) = <<>>
<1>1. {i \in 1 .. Len(<<p>>) : <<p>>[i] = p} = {1}
  OBVIOUS
<1>2. RemoveFirst(<<p>>, p) = SubSeq(<<p>>, 1, 1 - 1) \o SubSeq(<<p>>, 1 + 1, Len(<<p>>))
  <2> DEFINE s == <<p>>
  <2>1. s \in Seq(Int) /\ 1 \in 1 .. Len(s) /\ s[1] = p
    OBVIOUS
  <2> HIDE DEF s
  <2> QED BY <1>1, <2>1, RemoveFirstIs DEF s
<1>3. SubSeq(<<p>>, 1, 1 - 1) = <<>> /\ SubSeq(<<p>>, 1 + 1, Len(<<p>>)) = <<>>
  OBVIOUS
<1>4. <<>> \o <<>> = <<>>
  OBVIOUS
<1> QED BY <1>2, <1>3, <1>4

LEMMA RemoveOfTwo ==
  /\ RemoveFirst(<<1, 2>>, 1) = <<2>>
  /\ RemoveFirst(<<1, 2>>, 2) = <<1>>
<1> DEFINE s == <<1, 2>>
<1>0. s \in Seq(Int) /\ Len(s) = 2 /\ s[1] = 1 /\ s[2] = 2
  OBVIOUS
<1>1. {i \in 1 .. Len(s) : s[i] = 1} = {1} /\ {i \in 1 .. Len(s) : s[i] = 2} = {2}
  OBVIOUS
<1>2. RemoveFirst(s, 1) = SubSeq(s, 1, 1 - 1) \o SubSeq(s, 1 + 1, Len(s))
  <2> HIDE DEF s
  <2> QED BY <1>0, <1>1, RemoveFirstIs
<1>3. RemoveFirst(s, 2) = SubSeq(s, 1, 2 - 1) \o SubSeq(s, 2 + 1, Len(s))
  <2> HIDE DEF s
  <2> QED BY <1>0, <1>1, RemoveFirstIs
<1>4. SubSeq(s, 1, 1 - 1) \o SubSeq(s, 1 + 1, Len(s)) = <<2>>
  <2> DEFINE t == SubSeq(s, 2, 2)
  <2>3. t \in Seq(Int) /\ Len(t) = 1 /\ t[1] = 2
    OBVIOUS
  <2>4. t = <<2>>
    <3> HIDE DEF t
    <3> QED BY <2>3
  <2>5. SubSeq(s, 1, 0) = <<>> /\ Len(s) = 2
    OBVIOUS
  <2>1. SubSeq(s, 1, 1 - 1) = <<>> /\ SubSeq(s, 1 + 1, Len(s)) = <<2>>
    <3> HIDE DEF s
    <3> QED BY <2>4, <2>5
  <2>2. <<>> \o <<2>> = <<2>>
    OBVIOUS
  <2> HIDE DEF s
  <2> QED BY <2>1, <2>2
<1>5. SubSeq(s, 1, 2 - 1) \o SubSeq(s, 2 + 1, Len(s)) = <<1>>
  <2> DEFINE t == SubSeq(s, 1, 1)
  <2>3. t \in Seq(Int) /\ Len(t) = 1 /\ t[1] = 1
    OBVIOUS
  <2>4. t = <<1>>
    <3> HIDE DEF t
    <3> QED BY <2>3
  <2>5. SubSeq(s, 3, 2) = <<>> /\ Len(s) = 2
    OBVIOUS
  <2>1. SubSeq(s, 1, 2 - 1) = <<1>> /\ SubSeq(s, 2 + 1, Len(s)) = <<>>
    <3> HIDE DEF s
    <3> QED BY <2>4, <2>5
  <2>2. <<1>> \o <<>> = <<1>>
    OBVIOUS
  <2> HIDE DEF s
  <2> QED BY <2>1, <2>2
<1> QED BY <1>2, <1>3, <1>4, <1>5

\* The list of the pointers T, taken in the order of the arguments.
InOrder(T) ==
  CASE T = {} -> <<>> [] T = {1} -> <<1>> [] T = {2} -> <<2>> [] OTHER -> <<1, 2>>

\* The owners: the caller has its blocks K and T; X are the blocks of the call.
OwnBy(B, X) == [q \in B \cup DOMAIN X |-> IF q \in DOMAIN X THEN X[q] ELSE CTX]
HeapOf(K, T, n, X) == [taken |-> InOrder(T), allocfail |-> n, own |-> OwnBy(K \cup T, X)]

NoBlocks == [q \in {} |-> CTX]
WithBlock(X, b, ctx) == [q \in DOMAIN X \cup {b} |-> IF q = b THEN ctx ELSE X[q]]

LEMMA BlocksAre ==
  ASSUME NEW b \in Blocks
  PROVE  b \in Int /\ b \notin {NULL, CTX, CRASH, DONE, INSIDE} /\ b \notin Given
BY TalStrAssumption

\* What a heap may be during a call.
Shape(K, T, n, X) ==
  /\ K \subseteq Given /\ T \subseteq Given \ K /\ n \in Nat
  /\ DOMAIN X \cap (K \cup T) = {}
  /\ X = [q \in DOMAIN X |-> X[q]]
  /\ \A q \in DOMAIN X : q \in Given \cup Blocks /\ X[q] \in Blocks \cup {CTX}

LEMMA GivenSets ==
  ASSUME NEW T, T \subseteq Given
  PROVE  T = {} \/ T = {1} \/ T = {2} \/ T = {1, 2}
BY DEF Given

\* is_taken and taken on such a heap.
LEMMA IsTakenIs ==
  ASSUME NEW K, NEW T, NEW n, NEW X, Shape(K, T, n, X), NEW p
  PROVE  is_taken(HeapOf(K, T, n, X), p) <=> (p = NULL /\ n > 0) \/ p \in T
<1>1. T \subseteq Given
  BY DEF Shape
<1>2. ToSet(InOrder(T)) = T
  <2>1. CASE T = {}
    BY <2>1 DEF InOrder, ToSet
  <2>2. CASE T = {1}
    BY <2>2 DEF InOrder, ToSet
  <2>3. CASE T = {2}
    BY <2>3 DEF InOrder, ToSet
  <2>4. CASE T = {1, 2}
    BY <2>4 DEF InOrder, ToSet
  <2> QED BY <1>1, <2>1, <2>2, <2>3, <2>4, GivenSets
<1> QED BY <1>2 DEF is_taken, HeapOf

LEMMA UntakeIs ==
  ASSUME NEW K, NEW T, NEW n, NEW X, Shape(K, T, n, X), NEW p \in T
  PROVE  Untake(HeapOf(K, T, n, X), p)
           = [taken |-> InOrder(T \ {p}), allocfail |-> n, own |-> OwnBy(K \cup T, X)]
<1>1. T \subseteq Given /\ p \in {1, 2}
  BY DEF Shape, Given
<1>2. RemoveFirst(InOrder(T), p) = InOrder(T \ {p})
  <2>1. CASE T = {1} \/ T = {2}
    <3>1. InOrder(T) = <<p>> /\ InOrder(T \ {p}) = <<>>
      BY <2>1 DEF InOrder
    <3> QED BY <1>1, <3>1, RemoveOnly
  <2>2. CASE T = {1, 2}
    <3>1. InOrder({1, 2}) = <<1, 2>> /\ InOrder({2}) = <<2>> /\ InOrder({1}) = <<1>>
      BY DEF InOrder
    <3>2. T \ {1} = {2} /\ T \ {2} = {1}
      BY <2>2
    <3>3. InOrder(T) = <<1, 2>> /\ InOrder(T \ {1}) = <<2>> /\ InOrder(T \ {2}) = <<1>>
      BY <2>2, <3>1, <3>2
    <3> QED BY <1>1, <3>3, RemoveOfTwo
  <2> QED BY <1>1, <2>1, <2>2, GivenSets
<1> QED BY <1>1, <1>2 DEF Untake, HeapOf, NULL

LEMMA UntakeNone ==
  ASSUME NEW K, NEW T, NEW n, NEW X, Shape(K, T, n, X), n > 0
  PROVE  Untake(HeapOf(K, T, n, X), NULL) = HeapOf(K, T, n - 1, X)
BY DEF Untake, HeapOf, NULL

\* tal_free of a block of the caller, or of none.
LEMMA FreeGivenIs ==
  ASSUME NEW K, NEW T, NEW n, NEW X, Shape(K, T, n, X), NEW p \in T
  PROVE  FreeTaken(HeapOf(K, T, n, X), p) = HeapOf(K, T \ {p}, n, X)
<1> DEFINE own == OwnBy(K \cup T, X)
           D == {q \in DOMAIN own : q # p /\ own[q] # p}
<1>1. is_taken(HeapOf(K, T, n, X), p)
  BY IsTakenIs DEF Shape, Given
<1>2. p \in {1, 2} /\ p \notin K /\ p \notin DOMAIN X
  BY DEF Shape, Given
<1>3. \A q \in DOMAIN own : own[q] # p
  BY <1>2, BlocksAre DEF OwnBy, CTX, Shape, Given
<1>4. D = (K \cup (T \ {p})) \cup DOMAIN X
  BY <1>2, <1>3 DEF OwnBy
<1>5. Restrict(own, D) = OwnBy(K \cup (T \ {p}), X)
  <2> DEFINE new == OwnBy(K \cup (T \ {p}), X)
  <2>1. \A q \in D : own[q] = new[q]
    BY <1>4 DEF OwnBy
  <2>2. Restrict(own, D) = [q \in D |-> own[q]]
    BY DEF Restrict
  <2>3. new = [q \in D |-> new[q]]
    BY <1>4 DEF OwnBy
  <2> HIDE DEF D, own, new
  <2>4. Restrict(own, D) = new
    BY <2>1, <2>2, <2>3
  <2> QED BY <2>4 DEF new
<1> HIDE DEF D
<1>6. tal_free([taken |-> InOrder(T \ {p}), allocfail |-> n, own |-> own], p)
        = HeapOf(K, T \ {p}, n, X)
  BY <1>5 DEF tal_free, HeapOf, D
<1> QED BY <1>1, <1>6, UntakeIs DEF FreeTaken

\* The same for a take() that failed, and for a block that was not take()n.
LEMMA FreeNoneIs ==
  ASSUME NEW K, NEW T, NEW n, NEW X, Shape(K, T, n, X)
  PROVE  FreeTaken(HeapOf(K, T, n, X), NULL) = HeapOf(K, T, IF n > 0 THEN n - 1 ELSE n, X)
<1>1. is_taken(HeapOf(K, T, n, X), NULL) <=> n > 0
  <2>1. NULL \notin T
    BY DEF Shape, Given, NULL
  <2> QED BY <2>1, IsTakenIs DEF NULL
<1>2. CASE n > 0
  <2> DEFINE own == OwnBy(K \cup T, X)
             D == {q \in DOMAIN own : q # NULL /\ own[q] # NULL}
  <2>1. \A q \in DOMAIN own : q # NULL /\ own[q] # NULL
    BY BlocksAre DEF OwnBy, CTX, Shape, NULL, Given
  <2>2. D = DOMAIN own
    BY <2>1
  <2>3. Restrict(own, D) = own
    BY <2>2 DEF Restrict, OwnBy
  <2> HIDE DEF D
  <2>4. tal_free(HeapOf(K, T, n - 1, X), NULL) = HeapOf(K, T, n - 1, X)
    BY <2>3 DEF tal_free, HeapOf, D
  <2> QED BY <1>1, <1>2, <2>4, UntakeNone DEF FreeTaken
<1>3. CASE ~(n > 0)
  BY <1>1, <1>3 DEF FreeTaken
<1> QED BY <1>2, <1>3

LEMMA FreeOtherIs ==
  ASSUME NEW K, NEW T, NEW n, NEW X, Shape(K, T, n, X), NEW p, p \notin T, p # NULL
  PROVE  FreeTaken(HeapOf(K, T, n, X), p) = HeapOf(K, T, n, X)
BY IsTakenIs DEF FreeTaken

LEMMA FreeKeptIs ==
  ASSUME NEW K, NEW T, NEW n, NEW X, Shape(K, T, n, X), NEW p \in K
  PROVE  FreeTaken(HeapOf(K, T, n, X), p) = HeapOf(K, T, n, X)
<1>1. p \in {1, 2} /\ p \notin T
  BY DEF Shape, Given
<1> QED BY <1>1, FreeOtherIs DEF NULL

\* The arguments that are still to be consumed.
One(x) == IF x = NULL THEN 1 ELSE 0
Holds(K, T, p) == p \in K \/ p \in T \/ p = NULL
Pending1(K, T, n, q) == Holds(K, T, q) /\ T = {q} \ (K \cup {NULL}) /\ n = One(q)
Pending2(K, T, n, p, q) ==
  /\ Holds(K, T, p) /\ Holds(K, T, q) /\ (p = q => p = NULL)
  /\ T = {p, q} \ (K \cup {NULL}) /\ n = One(p) + One(q)

LEMMA PendingSwap ==
  ASSUME NEW K, NEW T, NEW n, NEW p, NEW q, Pending2(K, T, n, p, q)
  PROVE  Pending2(K, T, n, q, p)
BY DEF Pending2, One

\* What is left of two arguments when the first was consumed.
LEMMA PendingFirst ==
  ASSUME NEW K, NEW T, NEW n, NEW X, Shape(K, T, n, X), NEW p, NEW q,
         Pending2(K, T, n, p, q)
  PROVE  /\ Pending1(K, T \ {p}, n - One(p), q)
         /\ Shape(K, T \ {p}, n - One(p), X)
<1>1. NULL \notin K
  BY DEF Shape, Given, NULL
<1>2. n - One(p) = One(q) /\ One(q) \in Nat
  BY DEF Pending2, One
<1>3. T \ {p} = {q} \ (K \cup {NULL})
  BY <1>1 DEF Pending2
<1>4. Holds(K, T \ {p}, q)
  BY DEF Pending2, Holds
<1> QED BY <1>2, <1>3, <1>4 DEF Pending1, Shape

LEMMA FreeFirst ==
  ASSUME NEW K, NEW T, NEW n, NEW X, Shape(K, T, n, X), NEW p, Holds(K, T, p),
         n >= One(p), p = NULL \/ p \in T \cup K
  PROVE  FreeTaken(HeapOf(K, T, n, X), p) = HeapOf(K, T \ {p}, n - One(p), X)
<1>1. CASE p \in K
  <2>1. T \ {p} = T /\ n - One(p) = n
    BY <1>1 DEF Shape, One, Given, NULL
  <2> QED BY <1>1, <2>1, FreeKeptIs
<1>2. CASE p \in T
  <2>1. n - One(p) = n
    BY <1>2 DEF Shape, One, Given, NULL
  <2>2. FreeTaken(HeapOf(K, T, n, X), p) = HeapOf(K, T \ {p}, n, X)
    BY <1>2, FreeGivenIs
  <2> QED BY <2>1, <2>2
<1>3. CASE p = NULL
  <2>1. T \ {p} = T /\ One(p) = 1 /\ n > 0
    BY <1>3 DEF Shape, One, Given, NULL
  <2>2. FreeTaken(HeapOf(K, T, n, X), NULL) = HeapOf(K, T, n - 1, X)
    BY <2>1, FreeNoneIs
  <2> QED BY <1>3, <2>1, <2>2
<1> QED BY <1>1, <1>2, <1>3

\* Freeing the last argument, and both.
LEMMA FreeLast ==
  ASSUME NEW K, NEW T, NEW n, NEW X, Shape(K, T, n, X), NEW q, Pending1(K, T, n, q)
  PROVE  FreeTaken(HeapOf(K, T, n, X), q) = HeapOf(K, {}, 0, X)
<1>1. FreeTaken(HeapOf(K, T, n, X), q) = HeapOf(K, T \ {q}, n - One(q), X)
  BY FreeFirst DEF Pending1, Holds, One
<1>2. T \ {q} = {} /\ n - One(q) = 0
  BY DEF Pending1, One
<1> QED BY <1>1, <1>2

LEMMA FreeBoth ==
  ASSUME NEW K, NEW T, NEW n, NEW X, Shape(K, T, n, X), NEW p, NEW q,
         Pending2(K, T, n, p, q)
  PROVE  FreeTaken(FreeTaken(HeapOf(K, T, n, X), p), q) = HeapOf(K, {}, 0, X)
<1>0. Holds(K, T, p) /\ n >= One(p)
  BY DEF Pending2, One
<1>1. FreeTaken(HeapOf(K, T, n, X), p) = HeapOf(K, T \ {p}, n - One(p), X)
  BY <1>0, FreeFirst DEF Holds
<1> QED BY <1>1, PendingFirst, FreeLast

\* An allocation fails, or there is a new block.
LEMMA AllocIs ==
  ASSUME NEW K, NEW T, NEW n, NEW X, Shape(K, T, n, X), NEW ctx,
         NEW o \in tal_alloc(HeapOf(K, T, n, X), ctx)
  PROVE  \/ o = [h |-> HeapOf(K, T, n, X), ret |-> NULL]
         \/ \E b \in Blocks :
              /\ b \notin DOMAIN X /\ b \notin K \cup T
              /\ o = [h |-> HeapOf(K, T, n, WithBlock(X, b, ctx)), ret |-> b]
<1> DEFINE own == OwnBy(K \cup T, X)
           h == HeapOf(K, T, n, X)
           free == Blocks \ DOMAIN own
           b == CHOOSE x \in free : TRUE
           own2 == [q \in DOMAIN own \cup {b} |-> IF q = b THEN ctx ELSE own[q]]
<1>1. DOMAIN own = K \cup T \cup DOMAIN X
  BY DEF OwnBy
<1>2. own2 = OwnBy(K \cup T, WithBlock(X, b, ctx))
  BY DEF OwnBy, WithBlock
<1>3. h.own = own
  BY DEF HeapOf
<1>4. [h EXCEPT !.own = own2] = HeapOf(K, T, n, WithBlock(X, b, ctx))
  <2> HIDE DEF own2
  <2> QED BY <1>2 DEF HeapOf
<1>5. free # {} => b \in free
  OBVIOUS
<1> HIDE DEF own, own2, b, h
<1>6. tal_alloc(h, ctx) = Out(h, NULL) \cup IF free = {} THEN {}
                                            ELSE Out([h EXCEPT !.own = own2], b)
  BY <1>3 DEF tal_alloc, own2, b
<1>7. o = [h |-> h, ret |-> NULL] \/ (free # {} /\ o = [h |-> [h EXCEPT !.own = own2], ret |-> b])
  BY <1>6 DEF Out, h
<1>8. CASE free # {} /\ o = [h |-> [h EXCEPT !.own = own2], ret |-> b]
  <2>1. b \in Blocks /\ b \notin DOMAIN X /\ b \notin K \cup T
    BY <1>1, <1>5, <1>8
  <2> QED BY <1>4, <1>8, <2>1
<1> QED BY <1>7, <1>8 DEF h

LEMMA AllocShape ==
  ASSUME NEW K, NEW T, NEW n, NEW X, Shape(K, T, n, X), NEW b \in Given \cup Blocks,
         b \notin K \cup T, NEW ctx \in Blocks \cup {CTX}
  PROVE  Shape(K, T, n, WithBlock(X, b, ctx))
BY DEF Shape, WithBlock

\* An outcome that is as it should be when a call has ended.
Settled(K, h, r) ==
  r # CRASH =>
    \E X : /\ Shape(K, {}, 0, X) /\ h = HeapOf(K, {}, 0, X)
           /\ \A q \in DOMAIN X : r # NULL /\ r \in {q, X[q]}
           /\ r # NULL => r \in K \cup DOMAIN X
AllSettled(K, outs) == \A o \in outs : Settled(K, o.h, o.ret)

\* Results without a block of the call: none, or one of the caller's.
LEMMA SettledNull ==
  ASSUME NEW K, K \subseteq Given
  PROVE  Settled(K, HeapOf(K, {}, 0, NoBlocks), NULL)
<1>1. Shape(K, {}, 0, NoBlocks) /\ DOMAIN NoBlocks = {}
  BY DEF NoBlocks, Shape
<1> HIDE DEF NoBlocks
<1> QED BY <1>1 DEF Settled

LEMMA SettledKept ==
  ASSUME NEW K, K \subseteq Given, NEW r \in K
  PROVE  Settled(K, HeapOf(K, {}, 0, NoBlocks), r)
<1>1. Shape(K, {}, 0, NoBlocks) /\ DOMAIN NoBlocks = {}
  BY DEF NoBlocks, Shape
<1> HIDE DEF NoBlocks
<1> QED BY <1>1 DEF Settled

LEMMA NoShape ==
  ASSUME NEW K, K \subseteq Given, NEW T, T \subseteq Given \ K, NEW n \in Nat
  PROVE  Shape(K, T, n, NoBlocks)
BY DEF NoBlocks, Shape

\* What tal_dup_ makes of a block: nothing, or a block of the call.
Dup(K, T, n, X, ctx, p, o) ==
  \/ o.ret = NULL /\ o.h = HeapOf(K, T \ {p}, n - One(p), X)
  \/ \E b \in IF p \in T THEN {p} ELSE Blocks :
       /\ b \in Given \cup Blocks /\ b \notin DOMAIN X /\ b \notin K \cup (T \ {p})
       /\ o.ret = b
       /\ o.h = HeapOf(K, T \ {p}, n - One(p), WithBlock(X, b, ctx))

LEMMA DupIs ==
  ASSUME NEW K, NEW T, NEW n, NEW X, Shape(K, T, n, X), NEW p, n >= One(p), NEW ctx,
         NEW o \in tal_dup_(HeapOf(K, T, n, X), ctx, p)
  PROVE  Dup(K, T, n, X, ctx, p, o)
<1> USE DEF Dup
<1> DEFINE h == HeapOf(K, T, n, X)
           k == Untake(h, p)
<1>0. NULL \notin T
  BY DEF Shape, Given, NULL
<1>1. CASE p \notin T /\ p # NULL
  <2>1. ~is_taken(HeapOf(K, T, n, X), p) /\ T \ {p} = T /\ n - One(p) = n
    BY <1>1, IsTakenIs DEF Shape, One
  <2>2. o \in tal_alloc(h, ctx)
    BY <2>1 DEF tal_dup_
  <2>4. \/ o = [h |-> h, ret |-> NULL]
        \/ \E b \in Blocks :
              /\ b \notin DOMAIN X /\ b \notin K \cup T
              /\ o = [h |-> HeapOf(K, T, n, WithBlock(X, b, ctx)), ret |-> b]
    BY <2>2, AllocIs
  <2> HIDE DEF h
  <2> QED BY <1>1, <2>1, <2>4 DEF h
<1>2. CASE p = NULL
  <2>1. is_taken(h, p) /\ T \ {p} = T /\ n - One(p) = n - 1 /\ n > 0
    BY <1>2, IsTakenIs DEF Shape, One, Given, NULL
  <2>2. k = HeapOf(K, T, n - 1, X)
    BY <1>2, <2>1, UntakeNone
  <2>3. tal_dup_(h, ctx, p) = Out(k, NULL)
    BY <1>2, <2>1 DEF tal_dup_
  <2> HIDE DEF h, k
  <2> QED BY <2>1, <2>2, <2>3 DEF Out, h
<1>3. CASE p \in T
  <2>1. is_taken(h, p) /\ p # NULL /\ n - One(p) = n
    BY <1>3, <1>0, IsTakenIs DEF Shape, One
  <2>2. tal_free(k, p) = HeapOf(K, T \ {p}, n, X)
    BY <1>3, <2>1, FreeGivenIs DEF FreeTaken
  <2>3. k = [taken |-> InOrder(T \ {p}), allocfail |-> n, own |-> OwnBy(K \cup T, X)]
    <3>1. Shape(K, T, n, X) /\ p \in T
      BY <1>3
    <3> HIDE DEF h, k
    <3>2. Untake(HeapOf(K, T, n, X), p)
            = [taken |-> InOrder(T \ {p}), allocfail |-> n, own |-> OwnBy(K \cup T, X)]
      BY ONLY <3>1, UntakeIs
    <3> QED BY <3>2 DEF h, k
  <2> DEFINE own == OwnBy(K \cup T, X)
             new == OwnBy(K \cup (T \ {p}), WithBlock(X, p, ctx))
  <2>8. p \in DOMAIN own /\ own = [q \in DOMAIN own |-> own[q]]
    BY <1>3 DEF OwnBy
  <2>9. DOMAIN new = DOMAIN own /\ new = [q \in DOMAIN new |-> new[q]]
    BY <1>3 DEF OwnBy, WithBlock
  <2>10. \A q \in DOMAIN own : new[q] = IF q = p THEN ctx ELSE own[q]
    BY <1>3 DEF OwnBy, WithBlock
  <2> HIDE DEF k, own, new
  <2>4. [own EXCEPT ![p] = ctx] = new
    BY <2>8, <2>9, <2>10
  <2>5. [k EXCEPT !.own[p] = ctx] = HeapOf(K, T \ {p}, n, WithBlock(X, p, ctx))
    <3>1. k.own = own /\ k = [taken |-> InOrder(T \ {p}), allocfail |-> n, own |-> own]
      BY <2>3 DEF own
    <3>2. [k EXCEPT !.own[p] = ctx] = [k EXCEPT !.own = [own EXCEPT ![p] = ctx]]
      BY <3>1
    <3>3. [k EXCEPT !.own = new] = [taken |-> InOrder(T \ {p}), allocfail |-> n, own |-> new]
      BY <3>1
    <3> QED BY <2>4, <3>2, <3>3 DEF HeapOf, new
  <2>6. p \in Given \cup Blocks /\ p \notin DOMAIN X /\ p \notin K \cup (T \ {p})
    BY <1>3 DEF Shape, Given
  <2>7. tal_dup_(h, ctx, p) = Out(tal_free(k, p), NULL) \cup Out([k EXCEPT !.own[p] = ctx], p)
    BY <2>1 DEF tal_dup_, k
  <2> HIDE DEF h
  <2>11. \/ o = [h |-> tal_free(k, p), ret |-> NULL]
         \/ o = [h |-> [k EXCEPT !.own[p] = ctx], ret |-> p]
    BY <2>7 DEF Out, h
  <2>12. CASE o = [h |-> tal_free(k, p), ret |-> NULL]
    BY <2>1, <2>2, <2>12
  <2>13. CASE o = [h |-> [k EXCEPT !.own[p] = ctx], ret |-> p]
    <3>1. o.ret = p /\ o.h = [k EXCEPT !.own[p] = ctx]
      BY <2>13
    <3> QED BY <1>3, <2>1, <2>5, <2>6, <3>1
  <2> QED BY <2>11, <2>12, <2>13
<1> QED BY <1>1, <1>2, <1>3

\* One lemma for each function: its outcomes are settled.
LEMMA ExpandSettled ==
  ASSUME NEW K, NEW T, NEW n, Shape(K, T, n, NoBlocks), NEW p \in K, NEW q, Pending1(K, T, n, q)
  PROVE  AllSettled(K, tal_expand_(HeapOf(K, T, n, NoBlocks), p, q))
<1> DEFINE h == HeapOf(K, T, n, NoBlocks)
<1>1. FreeTaken(h, q) = HeapOf(K, {}, 0, NoBlocks)
  BY FreeLast
<1>2. K \subseteq Given
  BY DEF Shape
<1> HIDE DEF h
<1> SUFFICES ASSUME NEW o \in tal_expand_(h, p, q)
             PROVE  Settled(K, o.h, o.ret)
  BY DEF AllSettled, h
<1>3. o.h = HeapOf(K, {}, 0, NoBlocks) /\ (o.ret = CRASH \/ o.ret = p \/ o.ret = NULL)
  BY <1>1 DEF tal_expand_, Out
<1>4. CASE o.ret = CRASH
  BY <1>4 DEF Settled
<1>5. CASE o.ret = p
  BY <1>2, <1>3, <1>5, SettledKept
<1>6. CASE o.ret = NULL
  BY <1>2, <1>3, <1>6, SettledNull
<1> QED BY <1>3, <1>4, <1>5, <1>6

\* A result with its own block or blocks.
LEMMA SettledBlock ==
  ASSUME NEW K, K \subseteq Given, NEW b \in Given \cup Blocks, b \notin K
  PROVE  Settled(K, HeapOf(K, {}, 0, WithBlock(NoBlocks, b, CTX)), b)
<1> DEFINE X == WithBlock(NoBlocks, b, CTX)
<1>0. b # NULL
  BY BlocksAre DEF Given, NULL
<1>1. DOMAIN X = {b} /\ X[b] = CTX
  BY DEF WithBlock, NoBlocks
<1>2. Shape(K, {}, 0, X)
  <2>1. Shape(K, {}, 0, NoBlocks)
    BY NoShape
  <2> QED BY <2>1, AllocShape
<1> HIDE DEF X
<1>3. Settled(K, HeapOf(K, {}, 0, X), b)
  BY <1>0, <1>1, <1>2 DEF Settled
<1> QED BY <1>3 DEF X

LEMMA DupSettled ==
  ASSUME NEW K, NEW T, NEW n, Shape(K, T, n, NoBlocks), NEW p, Pending1(K, T, n, p)
  PROVE  AllSettled(K, tal_dup_(HeapOf(K, T, n, NoBlocks), CTX, p))
<1> SUFFICES ASSUME NEW o \in tal_dup_(HeapOf(K, T, n, NoBlocks), CTX, p)
             PROVE  Settled(K, o.h, o.ret)
  BY DEF AllSettled
<1>1. T \ {p} = {} /\ n - One(p) = 0 /\ Holds(K, T, p) /\ n >= One(p)
  BY DEF Pending1, One
<1>2. K \subseteq Given
  BY DEF Shape
<1>3. \/ o.ret = NULL /\ o.h = HeapOf(K, {}, 0, NoBlocks)
      \/ \E b \in Given \cup Blocks :
           /\ b \notin K
           /\ o.ret = b
           /\ o.h = HeapOf(K, {}, 0, WithBlock(NoBlocks, b, CTX))
  <2> HIDE DEF NoBlocks
  <2>2. Dup(K, T, n, NoBlocks, CTX, p, o)
    BY <1>1, DupIs
  <2> QED BY <1>1, <2>2 DEF Dup
<1> QED BY <1>2, <1>3, SettledNull, SettledBlock

\* tal_free of the block of a call on which its others hang.
LEMMA FreeBlockIs ==
  ASSUME NEW K, NEW T, NEW n, NEW X, Shape(K, T, n, X), NEW b \in Blocks,
         b \in DOMAIN X, \A q \in DOMAIN X : q = b \/ X[q] = b
  PROVE  tal_free(HeapOf(K, T, n, X), b) = HeapOf(K, T, n, NoBlocks)
<1> DEFINE own == OwnBy(K \cup T, X)
           D == {q \in DOMAIN own : q # b /\ own[q] # b}
           new == OwnBy(K \cup T, NoBlocks)
<1>0. b # CTX /\ b \notin Given
  BY BlocksAre
<1>1. D = K \cup T
  BY <1>0 DEF OwnBy, Shape
<1>2. new = [q \in D |-> new[q]]
  BY <1>1 DEF OwnBy, NoBlocks
<1>3. \A q \in D : own[q] = new[q]
  BY <1>1 DEF OwnBy, NoBlocks, Shape
<1>4. HeapOf(K, T, n, X).own = own
  BY DEF HeapOf
<1> HIDE DEF D, own, new
<1>5. Restrict(own, D) = new
  BY <1>2, <1>3 DEF Restrict
<1>6. tal_free(HeapOf(K, T, n, X), b) = [HeapOf(K, T, n, X) EXCEPT !.own = new]
  BY <1>4, <1>5 DEF tal_free, D
<1>7. [HeapOf(K, T, n, X) EXCEPT !.own = new] = HeapOf(K, T, n, NoBlocks)
  BY DEF HeapOf, new
<1> QED BY <1>6, <1>7

\* The call's own block, and one under it.
Parts(b) == WithBlock(NoBlocks, b, CTX)

LEMMA PartsIs ==
  ASSUME NEW K, NEW T, NEW n, Shape(K, T, n, NoBlocks), NEW b \in Blocks
  PROVE  Shape(K, T, n, Parts(b)) /\ DOMAIN Parts(b) = {b} /\ Parts(b)[b] = CTX
<1>1. b \notin K \cup T
  BY BlocksAre DEF Shape
<1>2. Shape(K, T, n, WithBlock(NoBlocks, b, CTX))
  <2> HIDE DEF NoBlocks
  <2> QED BY <1>1, AllocShape
<1>3. DOMAIN Parts(b) = {b} /\ Parts(b)[b] = CTX
  BY DEF Parts, WithBlock, NoBlocks
<1> QED BY <1>2, <1>3 DEF Parts

LEMMA AllocParts ==
  ASSUME NEW K, NEW T, NEW n, Shape(K, T, n, NoBlocks),
         NEW o \in tal_alloc(HeapOf(K, T, n, NoBlocks), CTX)
  PROVE  \/ o = [h |-> HeapOf(K, T, n, NoBlocks), ret |-> NULL]
         \/ \E b \in Blocks : o = [h |-> HeapOf(K, T, n, Parts(b)), ret |-> b]
<1> HIDE DEF NoBlocks
<1> QED BY AllocIs DEF Parts

LEMMA StrcatSettled ==
  ASSUME NEW K, NEW T, NEW n, Shape(K, T, n, NoBlocks), NEW p, NEW q,
         Pending2(K, T, n, p, q)
  PROVE  AllSettled(K, tal_strcat(HeapOf(K, T, n, NoBlocks), p, q))
<1> DEFINE h == HeapOf(K, T, n, NoBlocks)
<1>0. K \subseteq Given
  BY DEF Shape
<1> HIDE DEF NoBlocks
<1> SUFFICES ASSUME NEW o \in tal_strcat(h, p, q)
             PROVE  Settled(K, o.h, o.ret)
  BY DEF AllSettled
<1>1. CASE q = NULL
  <2>1. n > 0 /\ One(q) = 1 /\ T \ {q} = T
    BY <1>1 DEF Pending2, One, Shape, Given, NULL
  <2>2. is_taken(h, q)
    BY <1>1, <2>1, IsTakenIs DEF NULL
  <2>3. Untake(h, q) = HeapOf(K, T, n - 1, NoBlocks)
    BY <1>1, <2>1, UntakeNone
  <2>4. Pending1(K, T, n - 1, p) /\ Shape(K, T, n - 1, NoBlocks)
    BY <2>1, PendingSwap, PendingFirst
  <2>5. FreeTaken(Untake(h, q), p) = HeapOf(K, {}, 0, NoBlocks)
    BY <2>3, <2>4, FreeLast
  <2> HIDE DEF h
  <2>7. tal_strcat(h, p, q) = {[h |-> FreeTaken(Untake(h, q), p), ret |-> NULL]}
    BY <1>1, <2>2 DEF tal_strcat, Out
  <2>8. o = [h |-> FreeTaken(Untake(h, q), p), ret |-> NULL]
    BY <2>7
  <2>6. o.h = HeapOf(K, {}, 0, NoBlocks) /\ o.ret = NULL
    BY <2>5, <2>8
  <2> QED BY <1>0, <2>6, SettledNull
<1>2. CASE q # NULL
  <2> HIDE DEF h
  <2>1. PICK d \in tal_dup_(h, CTX, p) : o = [h |-> FreeTaken(d.h, q), ret |-> d.ret]
    BY <1>2 DEF tal_strcat, Then, Out
  <2>2. n >= One(p)
    BY DEF Pending2, One
  <2>3. Dup(K, T, n, NoBlocks, CTX, p, d)
    BY <2>1, <2>2, DupIs DEF h
  <2>4. Pending1(K, T \ {p}, n - One(p), q) /\ Shape(K, T \ {p}, n - One(p), NoBlocks)
    BY PendingFirst
  <2>5. CASE d.ret = NULL /\ d.h = HeapOf(K, T \ {p}, n - One(p), NoBlocks)
    <3>1. o.ret = NULL /\ o.h = HeapOf(K, {}, 0, NoBlocks)
      BY <2>1, <2>4, <2>5, FreeLast
    <3> QED BY <1>0, <3>1, SettledNull
  <2>6. ASSUME NEW b \in Given \cup Blocks, b \notin K \cup (T \ {p}), d.ret = b,
               d.h = HeapOf(K, T \ {p}, n - One(p), WithBlock(NoBlocks, b, CTX))
        PROVE  Settled(K, o.h, o.ret)
    <3>1. Shape(K, T \ {p}, n - One(p), WithBlock(NoBlocks, b, CTX))
      BY <2>4, <2>6, AllocShape
    <3>2. o.ret = b /\ o.h = HeapOf(K, {}, 0, WithBlock(NoBlocks, b, CTX))
      BY <2>1, <2>4, <2>6, <3>1, FreeLast
    <3> QED BY <1>0, <2>6, <3>2, SettledBlock
  <2> QED BY <2>3, <2>5, <2>6 DEF Dup
<1> QED BY <1>1, <1>2

\* The outcomes of freeing both arguments at last.
LEMMA OutNull ==
  ASSUME NEW K, NEW T, NEW n, Shape(K, T, n, NoBlocks), NEW p, NEW q,
         Pending2(K, T, n, p, q)
  PROVE  Settled(K, FreeTaken(FreeTaken(HeapOf(K, T, n, NoBlocks), p), q), NULL)
<1>1. K \subseteq Given
  BY DEF Shape
<1> QED BY <1>1, FreeBoth, SettledNull

LEMMA OutParts ==
  ASSUME NEW K, NEW T, NEW n, Shape(K, T, n, NoBlocks), NEW p, NEW q,
         Pending2(K, T, n, p, q), NEW b \in Blocks
  PROVE  Settled(K, FreeTaken(FreeTaken(HeapOf(K, T, n, Parts(b)), p), q), b)
<1>1. K \subseteq Given /\ b \notin K
  BY BlocksAre DEF Shape
<1>2. Shape(K, T, n, Parts(b))
  BY PartsIs
<1>3. FreeTaken(FreeTaken(HeapOf(K, T, n, Parts(b)), p), q) = HeapOf(K, {}, 0, Parts(b))
  BY <1>2, FreeBoth
<1> QED BY <1>1, <1>3, SettledBlock DEF Parts

LEMMA FreeParts ==
  ASSUME NEW K, NEW T, NEW n, Shape(K, T, n, NoBlocks), NEW b \in Blocks
  PROVE  tal_free(HeapOf(K, T, n, Parts(b)), b) = HeapOf(K, T, n, NoBlocks)
BY PartsIs, FreeBlockIs

LEMMA StrjoinSettled ==
  ASSUME NEW K, NEW T, NEW n, Shape(K, T, n, NoBlocks), NEW p, NEW q,
         Pending2(K, T, n, p, q)
  PROVE  AllSettled(K, tal_strjoin(HeapOf(K, T, n, NoBlocks), p, q))
<1> DEFINE h == HeapOf(K, T, n, NoBlocks)
           g(b) == HeapOf(K, T, n, Parts(b))
           ans(k, r) == [h |-> FreeTaken(FreeTaken(k, p), q), ret |-> r]
<1> SUFFICES ASSUME NEW o \in tal_strjoin(h, p, q)
             PROVE  Settled(K, o.h, o.ret)
  BY DEF AllSettled
<1>1. \A d \in tal_alloc(h, CTX) : \/ d = [h |-> h, ret |-> NULL]
                                   \/ \E b \in Blocks : d = [h |-> g(b), ret |-> b]
  <2> HIDE DEF NoBlocks
  <2> QED BY AllocParts
<1>2. \A b \in Blocks : tal_free(g(b), b) = h
  BY FreeParts
<1> HIDE DEF h, g
<1>3. \/ o = ans(h, NULL)
      \/ \E d \in tal_alloc(h, CTX) :
           o = ans(d.h, d.ret) \/ (d.ret # NULL /\ o = ans(tal_free(d.h, d.ret), NULL))
  BY DEF tal_strjoin, Then, Out
<1>4. o = ans(h, NULL) \/ \E b \in Blocks : o = ans(g(b), b)
  <2>1. ASSUME NEW d \in tal_alloc(h, CTX),
               o = ans(d.h, d.ret) \/ (d.ret # NULL /\ o = ans(tal_free(d.h, d.ret), NULL))
        PROVE  o = ans(h, NULL) \/ \E b \in Blocks : o = ans(g(b), b)
    <3> HIDE DEF ans
    <3>1. CASE d = [h |-> h, ret |-> NULL]
      BY <2>1, <3>1
    <3>2. ASSUME NEW b \in Blocks, d = [h |-> g(b), ret |-> b]
          PROVE  o = ans(h, NULL) \/ o = ans(g(b), b)
      BY <1>2, <2>1, <3>2
    <3> QED BY <1>1, <2>1, <3>1, <3>2
  <2> QED BY <1>3, <2>1
<1>5. Settled(K, ans(h, NULL).h, NULL) /\ \A b \in Blocks : Settled(K, ans(g(b), b).h, b)
  BY OutNull, OutParts DEF h, g
<1> QED BY <1>4, <1>5

\* tal_strsplit has a block under its own, which goes with it or not at all.
LEMMA StrsplitSettled ==
  ASSUME NEW K, NEW T, NEW n, Shape(K, T, n, NoBlocks), NEW p, NEW q,
         Pending2(K, T, n, p, q)
  PROVE  AllSettled(K, tal_strsplit(HeapOf(K, T, n, NoBlocks), p, q))
<1> DEFINE h == HeapOf(K, T, n, NoBlocks)
           g(b) == HeapOf(K, T, n, Parts(b))
           U == T \ {p}
           m == n - One(p)
           Under(b, X) == b \in DOMAIN X /\ \A x \in DOMAIN X : x = b \/ X[x] = b
<1>0. K \subseteq Given
  BY DEF Shape
<1> SUFFICES ASSUME NEW o \in tal_strsplit(h, p, q)
             PROVE  Settled(K, o.h, o.ret)
  BY DEF AllSettled
<1>1. \A d \in tal_alloc(h, CTX) : \/ d = [h |-> h, ret |-> NULL]
                                   \/ \E b \in Blocks : d = [h |-> g(b), ret |-> b]
  <2> HIDE DEF NoBlocks
  <2> QED BY AllocParts
<1>2. Pending1(K, U, m, q) /\ Shape(K, U, m, NoBlocks)
  BY PendingFirst
<1>3. \A b \in Blocks : /\ Shape(K, T, n, Parts(b)) /\ DOMAIN Parts(b) = {b}
                        /\ Parts(b)[b] = CTX /\ Shape(K, U, m, Parts(b))
  BY <1>2, PartsIs
<1>4. FreeTaken(HeapOf(K, U, m, NoBlocks), q) = HeapOf(K, {}, 0, NoBlocks)
  BY <1>2, FreeLast
<1> HIDE DEF h, g, U, m
<1>5. \/ o = [h |-> FreeTaken(FreeTaken(h, p), q), ret |-> NULL]
      \/ \E b \in Blocks : \E d \in tal_dup_(g(b), b, p) :
           \/ o = [h |-> FreeTaken(tal_free(d.h, b), q), ret |-> NULL]
           \/ o = [h |-> FreeTaken(d.h, q), ret |-> b]
  <2>1. \E k \in tal_alloc(h, CTX) :
          IF k.ret = NULL THEN o = [h |-> FreeTaken(FreeTaken(k.h, p), q), ret |-> NULL]
          ELSE \E d \in tal_dup_(k.h, k.ret, p) :
                 \/ o = [h |-> FreeTaken(tal_free(d.h, k.ret), q), ret |-> NULL]
                 \/ o = [h |-> FreeTaken(d.h, q), ret |-> k.ret]
    BY DEF tal_strsplit, Then, Out
  <2>2. PICK k \in tal_alloc(h, CTX) :
          IF k.ret = NULL THEN o = [h |-> FreeTaken(FreeTaken(k.h, p), q), ret |-> NULL]
          ELSE \E d \in tal_dup_(k.h, k.ret, p) :
                 \/ o = [h |-> FreeTaken(tal_free(d.h, k.ret), q), ret |-> NULL]
                 \/ o = [h |-> FreeTaken(d.h, q), ret |-> k.ret]
    BY <2>1
  <2>3. CASE k = [h |-> h, ret |-> NULL]
    BY <2>2, <2>3
  <2>4. ASSUME NEW b \in Blocks, k = [h |-> g(b), ret |-> b]
        PROVE  \E d \in tal_dup_(g(b), b, p) :
                 \/ o = [h |-> FreeTaken(tal_free(d.h, b), q), ret |-> NULL]
                 \/ o = [h |-> FreeTaken(d.h, q), ret |-> b]
    <3>1. k.ret = b /\ k.h = g(b) /\ b # NULL
      BY <2>4, BlocksAre
    <3> QED BY <2>2, <3>1
  <2> QED BY <1>1, <2>2, <2>3, <2>4
<1>6. CASE o = [h |-> FreeTaken(FreeTaken(h, p), q), ret |-> NULL]
  BY <1>6, OutNull DEF h
<1>7. ASSUME NEW b \in Blocks, NEW d \in tal_dup_(g(b), b, p)
      PROVE  \E X : Shape(K, U, m, X) /\ d.h = HeapOf(K, U, m, X) /\ Under(b, X)
  <2>1. n >= One(p)
    BY DEF Pending2, One
  <2>2. Dup(K, T, n, Parts(b), b, p, d)
    BY <1>3, <1>7, <2>1, DupIs DEF g
  <2>3. CASE d.h = HeapOf(K, U, m, Parts(b))
    BY <1>3, <2>3
  <2>4. ASSUME NEW c \in Given \cup Blocks, c \notin DOMAIN Parts(b), c \notin K \cup U,
               d.h = HeapOf(K, U, m, WithBlock(Parts(b), c, b))
        PROVE  \E X : Shape(K, U, m, X) /\ d.h = HeapOf(K, U, m, X) /\ Under(b, X)
    <3> DEFINE X == WithBlock(Parts(b), c, b)
    <3>1. Shape(K, U, m, X)
      BY <1>3, <2>4, AllocShape
    <3>2. Under(b, X)
      BY <1>3 DEF WithBlock
    <3> HIDE DEF X, Under
    <3> QED BY <2>4, <3>1, <3>2 DEF X
  <2> HIDE DEF Under
  <2> QED BY <2>2, <2>3, <2>4 DEF Dup, U, m
<1>8. ASSUME NEW b \in Blocks, NEW d \in tal_dup_(g(b), b, p),
             o = [h |-> FreeTaken(tal_free(d.h, b), q), ret |-> NULL]
      PROVE  Settled(K, o.h, o.ret)
  <2>1. tal_free(d.h, b) = HeapOf(K, U, m, NoBlocks)
    BY <1>7, FreeBlockIs
  <2>2. o.h = HeapOf(K, {}, 0, NoBlocks) /\ o.ret = NULL
    BY <1>4, <1>8, <2>1
  <2> QED BY <1>0, <2>2, SettledNull
<1>9. ASSUME NEW b \in Blocks, NEW d \in tal_dup_(g(b), b, p),
             o = [h |-> FreeTaken(d.h, q), ret |-> b]
      PROVE  Settled(K, o.h, o.ret)
  <2>1. PICK X : Shape(K, U, m, X) /\ d.h = HeapOf(K, U, m, X) /\ Under(b, X)
    BY <1>7
  <2>2. o.h = HeapOf(K, {}, 0, X) /\ o.ret = b
    BY <1>2, <1>9, <2>1, FreeLast
  <2>3. Shape(K, {}, 0, X) /\ b # NULL
    BY <2>1, BlocksAre DEF Shape
  <2> QED BY <2>1, <2>2, <2>3 DEF Settled
<1> QED BY <1>5, <1>6, <1>8, <1>9

\* A heap after the argument p was given; t: it was marked, or freed by the failing
\* take_.
Gave(K, T, n, p, t, a) ==
  LET Left == IF t THEN K \ {p} ELSE K
      U == T \cup ({a.ret} \ (Left \cup {NULL}))
  IN /\ a.ret \in {p, NULL} /\ (~t => a.ret = p)
     /\ a.h = HeapOf(Left, U, n + One(a.ret), NoBlocks)
     /\ Shape(Left, U, n + One(a.ret), NoBlocks)

\* Giving an argument, in their order: what take_ did of its three.
LEMMA GiveIs ==
  ASSUME NEW K, NEW T, NEW n, Shape(K, T, n, NoBlocks), NEW p \in K, \A x \in T : x < p,
         NEW taking \in BOOLEAN, NEW a \in Give(HeapOf(K, T, n, NoBlocks), p, taking)
  PROVE  /\ Gave(K, T, n, p, a.h # HeapOf(K, T, n, NoBlocks), a)
         /\ ~taking => a.h = HeapOf(K, T, n, NoBlocks)
<1> USE DEF Gave
<1> DEFINE t == a.h # HeapOf(K, T, n, NoBlocks)
           Left == IF t THEN K \ {p} ELSE K
           U == T \cup ({a.ret} \ (Left \cup {NULL}))
           h == HeapOf(K, T, n, NoBlocks)
           h1 == [h EXCEPT !.taken = Append(@, p)]
           h2 == [h EXCEPT !.allocfail = @ + 1, !.own = Restrict(h.own, DOMAIN h.own \ {p})]
<1>0. \/ a = [h |-> h, ret |-> p]
      \/ taking /\ a = [h |-> h1, ret |-> p]
      \/ taking /\ a = [h |-> h2, ret |-> NULL]
  BY DEF Give, take_, Out
<1>1. p \in {1, 2} /\ p # NULL /\ One(p) = 0 /\ One(NULL) = 1 /\ NULL \notin K /\ NULL \notin T
      /\ p \notin T /\ n \in Nat
  BY DEF Shape, Given, One, NULL
<1>9. ~taking => ~t
  <2> HIDE DEF h
  <2> QED BY <1>0 DEF h
<1>2. CASE ~t
  <2>2. a.h = h /\ a.ret = p
    <3>1. h.allocfail = n /\ h2.allocfail = n + 1
      BY DEF HeapOf
    <3>2. n + 1 # n
      BY <1>1
    <3>3. a.h = h /\ h2 # h
      BY <1>2, <3>1, <3>2
    <3> HIDE DEF h, h1, h2, t
    <3> QED BY <1>0, <3>3
  <2>3. Left = K /\ U = T /\ n + One(a.ret) = n
    BY <1>1, <1>2, <2>2
  <2> HIDE DEF Left, U
  <2>4. /\ a.ret \in {p, NULL} /\ (~t => a.ret = p)
        /\ a.h = HeapOf(Left, U, n + One(a.ret), NoBlocks)
        /\ Shape(Left, U, n + One(a.ret), NoBlocks)
    BY <1>2, <2>2, <2>3
  <2> QED BY <1>9, <2>4 DEF Left, U
<1>3. CASE t
  <2>0. Left = K \ {p} /\ Left \subseteq Given
    BY <1>3 DEF Shape
  <2>1. a = [h |-> h1, ret |-> p] \/ a = [h |-> h2, ret |-> NULL]
    <3>1. a # [h |-> h, ret |-> p]
      BY <1>3
    <3> HIDE DEF h, h1, h2
    <3> QED BY <1>0, <3>1
  <2>2. CASE a = [h |-> h1, ret |-> p]
    <3>1. a.ret = p /\ a.h = h1
      BY <2>2
    <3>2. U = T \cup {p} /\ n + One(a.ret) = n
      BY <1>1, <2>0, <3>1
    <3>3. Append(InOrder(T), p) = InOrder(T \cup {p})
      <4>1. T = {} \/ (T = {1} /\ p = 2)
        BY <1>1 DEF Shape, Given
      <4>2. CASE T = {}
        <5>1. Append(<<>>, p) = <<p>>
          OBVIOUS
        <5> QED BY <1>1, <4>2, <5>1 DEF InOrder
      <4>3. CASE T = {1} /\ p = 2
        <5>1. Append(<<1>>, 2) = <<1, 2>>
          <6> DEFINE z == Append(<<1>>, 2)
          <6>1. z \in Seq(Int) /\ Len(z) = 2 /\ z[1] = 1 /\ z[2] = 2
            OBVIOUS
          <6> HIDE DEF z
          <6>2. z = <<1, 2>>
            BY <6>1
          <6> QED BY <6>2 DEF z
        <5>2. InOrder({1}) = <<1>> /\ InOrder({1, 2}) = <<1, 2>> /\ T \cup {p} = {1, 2}
          BY <4>3 DEF InOrder
        <5> QED BY <4>3, <5>1, <5>2
      <4> QED BY <4>1, <4>2, <4>3
    <3>4. K \cup T = Left \cup U
      BY <2>0, <3>2
    <3> HIDE DEF Left, U
    <3>5. h1 = HeapOf(Left, U, n, NoBlocks)
      <4>1. h1 = [taken |-> Append(InOrder(T), p), allocfail |-> n,
                  own |-> OwnBy(K \cup T, NoBlocks)]
        <5> DEFINE x == InOrder(T)
                   y == OwnBy(K \cup T, NoBlocks)
        <5>1. h = [taken |-> x, allocfail |-> n, own |-> y]
          BY DEF HeapOf
        <5> HIDE DEF h, x, y
        <5>2. [h EXCEPT !.taken = Append(@, p)]
                = [taken |-> Append(x, p), allocfail |-> n, own |-> y]
          BY <5>1
        <5> QED BY <5>2 DEF x, y
      <4> QED BY <3>2, <3>3, <3>4, <4>1 DEF HeapOf
    <3>6. U \subseteq Given \ Left
      BY <1>1, <2>0, <3>2 DEF Shape, Given
    <3>7. Shape(Left, U, n, NoBlocks)
      BY <1>1, <2>0, <3>6, NoShape
    <3> QED BY <3>1, <3>2, <3>5, <3>7, <1>3, <1>9 DEF Left, U
  <2>3. CASE a = [h |-> h2, ret |-> NULL]
    <3>1. a.ret = NULL /\ a.h = h2
      BY <2>3
    <3>2. U = T /\ n + One(a.ret) = n + 1
      BY <1>1, <3>1
    <3> DEFINE own == OwnBy(K \cup T, NoBlocks)
               new == OwnBy(Left \cup U, NoBlocks)
    <3>3. DOMAIN own \ {p} = Left \cup U
      BY <1>1, <2>0, <3>2 DEF OwnBy, NoBlocks
    <3>4. new = [q \in Left \cup U |-> CTX] /\ \A q \in Left \cup U : own[q] = CTX
      BY <1>1, <2>0, <3>2 DEF OwnBy, NoBlocks
    <3> HIDE DEF Left, U
    <3>5. Restrict(own, DOMAIN own \ {p}) = new
      <4> HIDE DEF own, new
      <4> QED BY <3>3, <3>4 DEF Restrict
    <3>6. h2 = [taken |-> InOrder(T), allocfail |-> n + 1, own |-> Restrict(own, DOMAIN own \ {p})]
      <4> DEFINE x == InOrder(T)
      <4>1. h = [taken |-> x, allocfail |-> n, own |-> own]
        BY DEF HeapOf
      <4> HIDE DEF h, x, own
      <4>2. h2 = [taken |-> x, allocfail |-> n + 1, own |-> Restrict(own, DOMAIN own \ {p})]
        <5> DEFINE r == Restrict(h.own, DOMAIN h.own \ {p})
        <5>1. h.own = own
          BY <4>1
        <5>2. r = Restrict(own, DOMAIN own \ {p})
          BY <5>1
        <5> HIDE DEF r
        <5>3. [h EXCEPT !.allocfail = @ + 1]
                = [taken |-> x, allocfail |-> n + 1, own |-> own]
          BY <4>1
        <5>4. [[h EXCEPT !.allocfail = @ + 1] EXCEPT !.own = r]
                = [taken |-> x, allocfail |-> n + 1, own |-> r]
          <6> DEFINE k == [h EXCEPT !.allocfail = @ + 1]
          <6>1. k = [taken |-> x, allocfail |-> n + 1, own |-> own]
            BY <5>3
          <6> HIDE DEF k
          <6>2. [k EXCEPT !.own = r] = [taken |-> x, allocfail |-> n + 1, own |-> r]
            BY <6>1
          <6> QED BY <6>2 DEF k
        <5>5. h2 = [[h EXCEPT !.allocfail = @ + 1] EXCEPT !.own = r]
          BY DEF r
        <5> QED BY <5>2, <5>4, <5>5 DEF r
      <4> QED BY <4>2 DEF x, own
    <3>7. h2 = HeapOf(Left, U, n + 1, NoBlocks)
      BY <3>2, <3>5, <3>6 DEF HeapOf
    <3>8. U \subseteq Given \ Left /\ n + 1 \in Nat
      BY <1>1, <2>0, <3>2 DEF Shape
    <3>9. Shape(Left, U, n + 1, NoBlocks)
      BY <2>0, <3>8, NoShape
    <3> QED BY <3>1, <3>2, <3>7, <3>9, <1>3, <1>9 DEF Left, U
  <2> QED BY <2>1, <2>2, <2>3
<1> QED BY <1>2, <1>3

\* What is kept of both arguments.
KeptOf(t1, t2) == {p \in Given : IF p = 1 THEN ~t1 ELSE ~t2}

LEMMA GiveBoth ==
  ASSUME NEW t1 \in BOOLEAN, NEW t2 \in BOOLEAN, heap = HeapOf(Given, {}, 0, NoBlocks),
         NEW a \in Give(heap, 1, t1), NEW b \in Give(a.h, 2, t2),
         NEW u1, u1 = (a.h # heap), NEW u2, u2 = (b.h # a.h)
  PROVE  /\ \E T, n : /\ b.h = HeapOf(KeptOf(u1, u2), T, n, NoBlocks)
                      /\ Shape(KeptOf(u1, u2), T, n, NoBlocks)
                      /\ Pending2(KeptOf(u1, u2), T, n, a.ret, b.ret)
                      /\ (~u1 => a.ret = 1) /\ (~u2 => b.ret = 2)
         /\ (~t1 => ~u1) /\ (~t2 => ~u2)
         /\ a.ret \in {1, NULL} /\ b.ret \in {2, NULL}
<1> DEFINE Left == IF u1 THEN Given \ {1} ELSE Given
           U == {a.ret} \ (Left \cup {NULL})
           M == IF u2 THEN Left \ {2} ELSE Left
           V == U \cup ({b.ret} \ (M \cup {NULL}))
<1>1. Shape(Given, {}, 0, NoBlocks) /\ 1 \in Given
  BY NoShape DEF Given
<1>2. /\ a.ret \in {1, NULL} /\ (~u1 => a.ret = 1) /\ (~t1 => ~u1)
      /\ a.h = HeapOf(Left, {} \cup U, 0 + One(a.ret), NoBlocks)
      /\ Shape(Left, {} \cup U, 0 + One(a.ret), NoBlocks)
  <2>1. \A x \in {} : x < 1
    OBVIOUS
  <2> HIDE DEF NoBlocks, Given
  <2>2. Gave(Given, {}, 0, 1, u1, a) /\ (~t1 => ~u1)
    BY <1>1, <2>1, GiveIs
  <2> QED BY <2>2 DEF Gave
<1>3. {} \cup U = U /\ 0 + One(a.ret) = One(a.ret) /\ One(a.ret) \in Nat
  BY DEF One
<1>4. /\ a.h = HeapOf(Left, U, One(a.ret), NoBlocks)
      /\ Shape(Left, U, One(a.ret), NoBlocks)
  BY <1>2, <1>3
<1>5. 2 \in Left /\ \A x \in U : x < 2
  BY <1>2 DEF Given, NULL
<1>6. /\ b.ret \in {2, NULL} /\ (~u2 => b.ret = 2) /\ (~t2 => ~u2)
      /\ b.h = HeapOf(M, V, One(a.ret) + One(b.ret), NoBlocks)
      /\ Shape(M, V, One(a.ret) + One(b.ret), NoBlocks)
  <2> HIDE DEF NoBlocks, Left, U
  <2>1. b \in Give(HeapOf(Left, U, One(a.ret), NoBlocks), 2, t2)
    BY <1>4
  <2>2. Gave(Left, U, One(a.ret), 2, u2, b) /\ (~t2 => ~u2)
    BY <1>4, <1>5, <2>1, GiveIs
  <2> QED BY <2>2 DEF Gave
<1>7. M = KeptOf(u1, u2)
  BY DEF KeptOf, Given
<1>8. V = {a.ret, b.ret} \ (M \cup {NULL})
  BY <1>2, <1>6 DEF Given, NULL
<1>9. Holds(M, V, a.ret) /\ Holds(M, V, b.ret)
  BY <1>8 DEF Holds
<1>10. a.ret = b.ret => a.ret = NULL
  BY <1>2, <1>6 DEF NULL
<1>11. Pending2(M, V, One(a.ret) + One(b.ret), a.ret, b.ret)
  <2> HIDE DEF M, V
  <2> QED BY <1>8, <1>9, <1>10 DEF Pending2
<1> HIDE DEF M, V
<1> QED BY <1>2, <1>6, <1>7, <1>11

\* What the caller keeps in a call of tal_fmt or tal_append_fmt.
FmtKept(taking) == IF taking THEN {2} ELSE Given
FmtHeap(f, taking, b) ==
  HeapOf(FmtKept(taking), Given \ FmtKept(taking), 0,
         IF f = "tal_fmt" THEN Parts(b) ELSE NoBlocks)

\* The heap in the loop of tal_strreg: its own blocks are those stored.
RegHeap(K, X) ==
  LET T == Given \ (K \cup stored)
  IN /\ heap = HeapOf(K, T, 0, X) /\ Shape(K, T, 0, X)
     /\ DOMAIN X = stored /\ 2 \notin stored /\ \A q \in stored : X[q] = CTX

\* The heap when tal_strreg has returned.
RegSettled(K) ==
  \E X : Shape(K, {}, 0, X) /\ heap = HeapOf(K, {}, 0, X) /\ DOMAIN X = stored

\* Until a call returns the heap is one of a few; then it is settled.
StrInv ==
  /\ called = <<>> => heap = HeapOf(Given, {}, 0, NoBlocks) /\ stored = {}
  /\ Formatting =>
       /\ stored = {}
       /\ \E f \in {"tal_fmt", "tal_append_fmt"}, taking \in BOOLEAN : \E b :
            /\ called = <<"do_vfmt", f, taking>>
            /\ f = "tal_fmt" => b \in Blocks
            /\ heap = FmtHeap(f, taking, b)
            /\ ret = IF f = "tal_fmt" THEN b ELSE 2
  /\ Matching =>
       \E u1, u2 \in BOOLEAN : \E X :
         called = <<"regexec", u1, u2>> /\ RegHeap(KeptOf(u1, u2), X)
  /\ called # <<>> /\ ~Formatting /\ ~Matching =>
       \/ ret = CRASH
       \/ stored = {} /\ Settled(Kept, heap, ret)
       \/ ret \in {NULL, DONE} /\ RegSettled(Kept)

\* A settled outcome is what the property asks for.
LEMMA SettledConsumed == StrInv => TakenIsConsumed
<1> SUFFICES ASSUME StrInv, Returned
             PROVE  /\ heap.taken = <<>> /\ heap.allocfail = 0
                    /\ \A p \in Kept : p \in DOMAIN heap.own /\ heap.own[p] = CTX
                    /\ \A p \in DOMAIN heap.own \ Kept :
                         p \in stored \/ (ret # NULL /\ ret \in {p, heap.own[p]})
                    /\ (stored \cup {ret}) \ {NULL, DONE} \subseteq DOMAIN heap.own
  BY DEF TakenIsConsumed
<1> DEFINE K == Kept
<1>1. \/ stored = {} /\ Settled(K, heap, ret) /\ ret # CRASH
      \/ ret \in {NULL, DONE} /\ RegSettled(K)
  BY DEF Returned, StrInv
<1> HIDE DEF K
<1>2. ASSUME NEW X, Shape(K, {}, 0, X), heap = HeapOf(K, {}, 0, X)
      PROVE  /\ heap.taken = <<>> /\ heap.allocfail = 0 /\ DOMAIN heap.own = K \cup DOMAIN X
             /\ \A q \in K : heap.own[q] = CTX
             /\ \A q \in DOMAIN X : heap.own[q] = X[q]
  <2>1. heap.taken = <<>> /\ heap.allocfail = 0 /\ heap.own = OwnBy(K, X)
    BY <1>2 DEF HeapOf, InOrder
  <2> QED BY <1>2, <2>1 DEF OwnBy, Shape
<1>3. CASE stored = {} /\ Settled(K, heap, ret) /\ ret # CRASH
  <2>1. PICK X : /\ Shape(K, {}, 0, X) /\ heap = HeapOf(K, {}, 0, X)
                 /\ \A q \in DOMAIN X : ret # NULL /\ ret \in {q, X[q]}
                 /\ ret # NULL => ret \in K \cup DOMAIN X
    BY <1>3 DEF Settled
  <2> QED BY <1>2, <1>3, <2>1 DEF K
<1>4. CASE ret \in {NULL, DONE} /\ RegSettled(K)
  <2>1. PICK X : Shape(K, {}, 0, X) /\ heap = HeapOf(K, {}, 0, X) /\ DOMAIN X = stored
    BY <1>4 DEF RegSettled
  <2> QED BY <1>2, <1>4, <2>1 DEF K
<1> QED BY <1>1, <1>3, <1>4

LEMMA StrInitInv == StrInit => StrInv
<1> SUFFICES ASSUME StrInit PROVE StrInv
  OBVIOUS
<1>1. called = <<>> /\ heap = [taken |-> <<>>, allocfail |-> 0, own |-> [p \in Given |-> CTX]]
      /\ stored = {}
  BY DEF StrInit
<1>2. OwnBy(Given \cup {}, NoBlocks) = [p \in Given |-> CTX]
  BY DEF OwnBy, NoBlocks
<1>3. HeapOf(Given, {}, 0, NoBlocks) = heap
  BY <1>1, <1>2 DEF HeapOf, InOrder
<1> QED BY <1>1, <1>3 DEF StrInv, Formatting, Matching

\* The functions, after both arguments were given.
LEMMA OutcomesSettled ==
  ASSUME NEW f \in Functions, NEW t1 \in BOOLEAN, NEW t2 \in BOOLEAN,
         f = "tal_dup" => ~t2, f = "tal_expand" => ~t1,
         heap = HeapOf(Given, {}, 0, NoBlocks),
         NEW a \in Give(heap, 1, t1), NEW b \in Give(a.h, 2, t2),
         NEW u1, u1 = (a.h # heap), NEW u2, u2 = (b.h # a.h)
  PROVE  AllSettled(KeptOf(u1, u2), Outcomes(f, b.h, a.ret, b.ret))
<1> DEFINE K == KeptOf(u1, u2)
<1>0. (~t1 => ~u1) /\ (~t2 => ~u2)
  BY GiveBoth
<1>1. PICK T, n : /\ b.h = HeapOf(K, T, n, NoBlocks)
                  /\ Shape(K, T, n, NoBlocks)
                  /\ Pending2(K, T, n, a.ret, b.ret)
                  /\ (~u1 => a.ret = 1) /\ (~u2 => b.ret = 2)
  BY GiveBoth
<1>2. (~u1 => 1 \in K) /\ (~u2 => 2 \in K)
  BY DEF KeptOf, Given
<1> HIDE DEF K
<1>3. CASE f = "tal_expand"
  <2>1. a.ret = 1 /\ 1 \in K
    BY <1>0, <1>1, <1>2, <1>3
  <2>2. Pending1(K, T, n, b.ret)
    BY <1>1, <2>1 DEF Pending2, Pending1, One, NULL
  <2>3. Outcomes(f, b.h, a.ret, b.ret) = tal_expand_(b.h, a.ret, b.ret)
    BY <1>3 DEF Outcomes
  <2> QED BY <1>1, <2>1, <2>2, <2>3, ExpandSettled DEF K
<1>4. CASE f = "tal_dup"
  <2>1. b.ret = 2 /\ 2 \in K
    BY <1>0, <1>1, <1>2, <1>4
  <2>2. Pending1(K, T, n, a.ret)
    BY <1>1, <2>1 DEF Pending2, Pending1, One, NULL
  <2>3. Outcomes(f, b.h, a.ret, b.ret) = tal_dup_(b.h, CTX, a.ret)
    BY <1>4 DEF Outcomes
  <2> QED BY <1>1, <2>2, <2>3, DupSettled DEF K
<1>5. CASE f = "tal_strcat"
  <2>1. Outcomes(f, b.h, a.ret, b.ret) = tal_strcat(b.h, a.ret, b.ret)
    BY <1>5 DEF Outcomes
  <2> QED BY <1>1, <2>1, StrcatSettled DEF K
<1>6. CASE f = "tal_strsplit"
  <2>1. Outcomes(f, b.h, a.ret, b.ret) = tal_strsplit(b.h, a.ret, b.ret)
    BY <1>6 DEF Outcomes
  <2> QED BY <1>1, <2>1, StrsplitSettled DEF K
<1>7. CASE f = "tal_strjoin"
  <2>1. Outcomes(f, b.h, a.ret, b.ret) = tal_strjoin(b.h, a.ret, b.ret)
    BY <1>7 DEF Outcomes
  <2> QED BY <1>1, <2>1, StrjoinSettled DEF K
<1> QED BY <1>3, <1>4, <1>5, <1>6, <1>7 DEF Functions

LEMMA CallFunctionInv ==
  ASSUME StrInv, CallFunction
  PROVE  StrInv'
<1>1. heap = HeapOf(Given, {}, 0, NoBlocks) /\ stored = {} /\ stored' = {}
  BY DEF StrInv, CallFunction
<1>2. PICK f \in Functions, t1 \in BOOLEAN, t2 \in BOOLEAN :
        /\ f = "tal_dup" => ~t2
        /\ f = "tal_expand" => ~t1
        /\ \E a \in Give(heap, 1, t1) : \E b \in Give(a.h, 2, t2) :
             \E o \in Outcomes(f, b.h, a.ret, b.ret) :
               called' = <<f, a.h # heap, b.h # a.h>> /\ heap' = o.h /\ ret' = o.ret
  BY DEF CallFunction
<1>3. PICK a \in Give(heap, 1, t1) : \E b \in Give(a.h, 2, t2) :
        \E o \in Outcomes(f, b.h, a.ret, b.ret) :
          called' = <<f, a.h # heap, b.h # a.h>> /\ heap' = o.h /\ ret' = o.ret
  BY <1>2
<1>4. PICK b \in Give(a.h, 2, t2) :
        \E o \in Outcomes(f, b.h, a.ret, b.ret) :
          called' = <<f, a.h # heap, b.h # a.h>> /\ heap' = o.h /\ ret' = o.ret
  BY <1>3
<1>5. PICK o \in Outcomes(f, b.h, a.ret, b.ret) :
        called' = <<f, a.h # heap, b.h # a.h>> /\ heap' = o.h /\ ret' = o.ret
  BY <1>4
<1> DEFINE u1 == a.h # heap
           u2 == b.h # a.h
<1>6. AllSettled(KeptOf(u1, u2), Outcomes(f, b.h, a.ret, b.ret))
  BY <1>1, <1>2, OutcomesSettled
<1>7. Settled(KeptOf(u1, u2), heap', ret')
  BY <1>5, <1>6 DEF AllSettled
<1>8. called' = <<f, u1, u2>>
  BY <1>5
<1> HIDE DEF u1, u2
<1>9. f # "do_vfmt" /\ f # "regexec" /\ called' # <<>> /\ called'[1] = f /\ Len(called') = 3
      /\ called'[2] = u1 /\ called'[3] = u2
  BY <1>2, <1>8 DEF Functions
<1>10. Kept' = KeptOf(u1, u2)
  BY <1>9 DEF Kept, KeptOf, Given
<1> QED BY <1>1, <1>7, <1>9, <1>10 DEF StrInv, Formatting, Matching

\* The loop of do_vfmt: what is take()n stays so until it ends.
LEMMA StartFmtInv ==
  ASSUME StrInv, NEW f \in {"tal_fmt", "tal_append_fmt"}, NEW t \in BOOLEAN,
         NEW n \in 0 .. MaxFmt, StartFmt(f, t, n)
  PROVE  StrInv'
<1>1. heap = HeapOf(Given, {}, 0, NoBlocks) /\ stored' = {}
  BY DEF StrInv, StartFmt
<1>3. PICK a \in Give(heap, 1, t) :
        IF a.ret = NULL /\ is_taken(a.h, NULL)
        THEN /\ heap' = Untake(a.h, NULL) /\ ret' = NULL
             /\ called' = <<f, a.h # heap>> /\ UNCHANGED vfmt
        ELSE \E b \in IF f = "tal_fmt" THEN tal_alloc(a.h, CTX) ELSE Out(a.h, 2) :
               /\ heap' = b.h
               /\ ret' = IF b.ret = NULL THEN CRASH ELSE b.ret
               /\ called' = IF b.ret = NULL THEN <<f, a.h # heap>>
                            ELSE <<"do_vfmt", f, a.h # heap>>
               /\ vfmt' \in [max : {2 * n}, text : IF n < 2 THEN {n} ELSE 0 .. MaxText, turn : {0}]
  BY DEF StartFmt
<1> DEFINE taking == a.h # heap
           K == FmtKept(taking)
           Left == IF taking THEN Given \ {1} ELSE Given
<1>2. Left = K /\ 2 \in K /\ K \subseteq Given /\ NULL \notin K
  BY DEF FmtKept, Given, NULL
<1>4. Gave(Given, {}, 0, 1, taking, a)
  <2>1. Shape(Given, {}, 0, NoBlocks) /\ 1 \in Given /\ \A x \in {} : x < 1
    BY NoShape DEF Given
  <2> HIDE DEF NoBlocks, Given
  <2> QED BY <1>1, <2>1, GiveIs
<1>0. taking \in BOOLEAN
  OBVIOUS
<1>30. IF a.ret = NULL /\ is_taken(a.h, NULL)
       THEN heap' = Untake(a.h, NULL) /\ ret' = NULL /\ called' = <<f, taking>>
       ELSE \E b \in IF f = "tal_fmt" THEN tal_alloc(a.h, CTX) ELSE Out(a.h, 2) :
              /\ heap' = b.h
              /\ ret' = IF b.ret = NULL THEN CRASH ELSE b.ret
              /\ called' = IF b.ret = NULL THEN <<f, taking>> ELSE <<"do_vfmt", f, taking>>
  BY <1>3
<1> HIDE DEF taking
<1>5. /\ a.ret \in {1, NULL} /\ (~taking => a.ret = 1)
      /\ a.h = HeapOf(K, {a.ret} \ (K \cup {NULL}), One(a.ret), NoBlocks)
      /\ Shape(K, {a.ret} \ (K \cup {NULL}), One(a.ret), NoBlocks)
  <2> DEFINE U == {a.ret} \ (Left \cup {NULL})
  <2>1. /\ a.ret \in {1, NULL} /\ (~taking => a.ret = 1)
        /\ a.h = HeapOf(Left, {} \cup U, 0 + One(a.ret), NoBlocks)
        /\ Shape(Left, {} \cup U, 0 + One(a.ret), NoBlocks)
    BY <1>4 DEF Gave
  <2>2. {} \cup U = U /\ 0 + One(a.ret) = One(a.ret)
    BY DEF One
  <2> HIDE DEF K, Left, U
  <2>3. U = {a.ret} \ (K \cup {NULL})
    BY <1>2 DEF U
  <2> QED BY <1>2, <2>1, <2>2, <2>3
<1>6. CASE a.ret = NULL
  <2>1. One(a.ret) = 1 /\ {a.ret} \ (K \cup {NULL}) = {}
    BY <1>6 DEF One
  <2>2. a.h = HeapOf(K, {}, 1, NoBlocks) /\ Shape(K, {}, 1, NoBlocks)
    BY <1>5, <2>1
  <2> HIDE DEF K
  <2>3. is_taken(a.h, NULL)
    BY <2>2, IsTakenIs
  <2>4. Untake(a.h, NULL) = HeapOf(K, {}, 1 - 1, NoBlocks)
    BY <2>2, UntakeNone
  <2>5. heap' = HeapOf(K, {}, 0, NoBlocks) /\ ret' = NULL /\ called' = <<f, taking>>
    BY <1>30, <1>6, <2>3, <2>4
  <2>6. called' # <<>> /\ called'[1] \notin {"do_vfmt", "regexec"} /\ called'[2] = taking
        /\ Len(called') = 2
    BY <2>5
  <2>7. Kept' = K
    BY <2>6 DEF Kept, K, FmtKept, Given
  <2>8. Settled(K, heap', ret')
    BY <1>2, <2>5, SettledNull
  <2> QED BY <1>1, <2>6, <2>7, <2>8 DEF StrInv, Formatting, Matching
<1>7. CASE a.ret = 1
  <2>1. One(a.ret) = 0 /\ {a.ret} \ (K \cup {NULL}) = Given \ K
    BY <1>7 DEF One, FmtKept, Given, NULL
  <2>2. a.h = HeapOf(K, Given \ K, 0, NoBlocks) /\ Shape(K, Given \ K, 0, NoBlocks)
    BY <1>5, <2>1
  <2>3. PICK b \in IF f = "tal_fmt" THEN tal_alloc(a.h, CTX) ELSE Out(a.h, 2) :
           /\ heap' = b.h
           /\ ret' = IF b.ret = NULL THEN CRASH ELSE b.ret
           /\ called' = IF b.ret = NULL THEN <<f, taking>> ELSE <<"do_vfmt", f, taking>>
    BY <1>30, <1>7 DEF NULL
  <2>4. CASE b.ret = NULL
    <3>1. ret' = CRASH /\ called' = <<f, taking>>
      BY <2>3, <2>4
    <3>2. called' # <<>> /\ called'[1] \notin {"do_vfmt", "regexec"}
      BY <3>1
    <3> QED BY <3>1, <3>2 DEF StrInv, Formatting, Matching
  <2>5. CASE b.ret # NULL
    <3>1. \E c : /\ f = "tal_fmt" => c \in Blocks
                 /\ b.h = FmtHeap(f, taking, c) /\ b.ret = IF f = "tal_fmt" THEN c ELSE 2
      <4>1. CASE f = "tal_fmt"
        <5> HIDE DEF K, NoBlocks
        <5>1. PICK c \in Blocks : b = [h |-> HeapOf(K, Given \ K, 0, Parts(c)), ret |-> c]
          <6>1. b \in tal_alloc(HeapOf(K, Given \ K, 0, NoBlocks), CTX)
            BY <2>2, <2>3, <4>1
          <6>2. b # [h |-> HeapOf(K, Given \ K, 0, NoBlocks), ret |-> NULL]
            BY <2>5
          <6> QED BY <2>2, <6>1, <6>2, AllocParts
        <5> QED BY <4>1, <5>1 DEF FmtHeap, K
      <4>2. CASE f # "tal_fmt"
        <5> HIDE DEF K, NoBlocks
        <5>1. b = [h |-> a.h, ret |-> 2]
          BY <2>3, <4>2 DEF Out
        <5> QED BY <2>2, <4>2, <5>1 DEF FmtHeap, K
      <4> QED BY <4>1, <4>2
    <3>2. called' = <<"do_vfmt", f, taking>>
      BY <2>3, <2>5
    <3>4. \E c : /\ f = "tal_fmt" => c \in Blocks
                 /\ heap' = FmtHeap(f, taking, c) /\ ret' = IF f = "tal_fmt" THEN c ELSE 2
      BY <2>3, <2>5, <3>1
    <3>3. called' # <<>> /\ called'[1] = "do_vfmt"
      BY <3>2
    <3> HIDE DEF K
    <3> QED BY <1>0, <1>1, <3>2, <3>3, <3>4 DEF StrInv, Formatting, Matching
  <2> QED BY <2>4, <2>5
<1> QED BY <1>5, <1>6, <1>7

LEMMA MatchingIs ==
  ASSUME StrInv, Matching
  PROVE  \E u1, u2 \in BOOLEAN : \E X :
           called = <<"regexec", u1, u2>> /\ RegHeap(KeptOf(u1, u2), X)
BY DEF StrInv

LEMMA StrStutter ==
  ASSUME StrInv, UNCHANGED <<called, heap, ret, stored>>
  PROVE  StrInv'
<1>1. (Formatting' <=> Formatting) /\ (Matching' <=> Matching) /\ Kept' = Kept
  BY DEF Formatting, Matching, Kept
<1>2. ASSUME NEW K, NEW X
      PROVE  RegHeap(K, X)' <=> RegHeap(K, X)
  BY DEF RegHeap
<1>4. Matching' => \E u1, u2 \in BOOLEAN : \E X :
                     called' = <<"regexec", u1, u2>> /\ RegHeap(KeptOf(u1, u2), X)'
  BY <1>1, <1>2, MatchingIs
<1>5. RegSettled(Kept)' <=> RegSettled(Kept)
  BY <1>1 DEF RegSettled
<1> QED BY <1>1, <1>4, <1>5 DEF StrInv

LEMMA TryFmtInv ==
  ASSUME StrInv, TryFmt
  PROVE  StrInv'
<1>1. PICK f \in {"tal_fmt", "tal_append_fmt"}, taking \in BOOLEAN : \E b :
        /\ called = <<"do_vfmt", f, taking>>
        /\ f = "tal_fmt" => b \in Blocks
        /\ heap = FmtHeap(f, taking, b)
        /\ ret = IF f = "tal_fmt" THEN b ELSE 2
  BY DEF StrInv, TryFmt
<1>11. PICK b :
        /\ called = <<"do_vfmt", f, taking>>
        /\ f = "tal_fmt" => b \in Blocks
        /\ heap = FmtHeap(f, taking, b)
        /\ ret = IF f = "tal_fmt" THEN b ELSE 2
  BY <1>1
<1>12. stored = {} /\ stored' = {}
  BY DEF StrInv, TryFmt
<1> DEFINE K == FmtKept(taking)
           X == IF f = "tal_fmt" THEN Parts(b) ELSE NoBlocks
<1>2. K \subseteq Given /\ 2 \in K
  BY DEF FmtKept, Given
<1>3. Shape(K, Given \ K, 0, NoBlocks)
  BY <1>2, NoShape
<1>4. Shape(K, Given \ K, 0, X)
  <2> HIDE DEF K, NoBlocks
  <2> QED BY <1>3, <1>11, PartsIs
<1>5. Pending1(K, Given \ K, 0, 1)
  BY DEF Pending1, Holds, One, FmtKept, Given, NULL
<1>6. FreeTaken(heap, 1) = HeapOf(K, {}, 0, X)
  <2>1. heap = HeapOf(K, Given \ K, 0, X)
    BY <1>11 DEF FmtHeap
  <2> HIDE DEF K, X
  <2> QED BY <1>4, <1>5, <2>1, FreeLast
<1>7. called[2] = f /\ called[3] = taking
  BY <1>11
<1>8. ASSUME NEW ok \in BOOLEAN, EndFmt(ok)
      PROVE  StrInv'
  <2>1. called' = <<f, taking>>
    BY <1>7, <1>8 DEF EndFmt
  <2>2. called' # <<>> /\ called'[1] \notin {"do_vfmt", "regexec"} /\ called'[2] = taking
        /\ Len(called') = 2
    BY <2>1
  <2>3. Kept' = K
    BY <2>2 DEF Kept, FmtKept, Given
  <2>4. CASE ok
    <3>1. heap' = HeapOf(K, {}, 0, X) /\ ret' = ret
      BY <1>6, <1>8, <2>4 DEF EndFmt
    <3>2. CASE f = "tal_fmt"
      <4>1. heap' = HeapOf(K, {}, 0, Parts(b)) /\ ret' = b /\ b \in Blocks
        BY <1>11, <3>1, <3>2
      <4>3. b \notin K
        BY <1>2, <4>1, BlocksAre
      <4> HIDE DEF K
      <4>2. Settled(K, heap', ret')
        BY <1>2, <4>1, <4>3, SettledBlock DEF Parts
      <4> QED BY <1>12, <2>2, <2>3, <4>2 DEF StrInv, Formatting, Matching
    <3>3. CASE f # "tal_fmt"
      <4>1. heap' = HeapOf(K, {}, 0, NoBlocks) /\ ret' = 2
        BY <1>11, <3>1, <3>3
      <4> HIDE DEF K
      <4>2. Settled(K, heap', ret')
        BY <1>2, <4>1, SettledKept
      <4> QED BY <1>12, <2>2, <2>3, <4>2 DEF StrInv, Formatting, Matching
    <3> QED BY <3>2, <3>3
  <2>5. CASE ~ok
    <3>1. ret' = NULL /\ heap' = IF f = "tal_fmt" THEN tal_free(HeapOf(K, {}, 0, X), ret)
                                 ELSE HeapOf(K, {}, 0, X)
      BY <1>6, <1>7, <1>8, <2>5 DEF EndFmt
    <3>2. Shape(K, {}, 0, NoBlocks)
      BY <1>2, NoShape
    <3>3. heap' = HeapOf(K, {}, 0, NoBlocks)
      <4> HIDE DEF K, NoBlocks
      <4> QED BY <1>11, <3>1, <3>2, FreeParts
    <3> HIDE DEF K
    <3>4. Settled(K, heap', ret')
      BY <1>2, <3>1, <3>3, SettledNull
    <3> QED BY <1>12, <2>2, <2>3, <3>4 DEF StrInv, Formatting, Matching
  <2> QED BY <2>4, <2>5
<1>9. EndFmt(FALSE) \/ EndFmt(TRUE) \/ UNCHANGED <<called, heap, ret, stored>>
  BY DEF TryFmt
<1>10. CASE UNCHANGED <<called, heap, ret, stored>>
  BY <1>10, StrStutter
<1> QED BY <1>8, <1>9, <1>10

\* The loop of tal_strreg. When it ends both arguments go, if they are still taken.
LEMMA EndRegInv ==
  ASSUME NEW u1 \in BOOLEAN, NEW u2 \in BOOLEAN, NEW T, NEW X, NEW h,
         Shape(KeptOf(u1, u2), T, 0, X), h = HeapOf(KeptOf(u1, u2), T, 0, X),
         DOMAIN X = stored', NEW r \in {NULL, DONE}, EndReg(h, 1, r),
         called' = <<"tal_strreg", u1, u2>>
  PROVE  StrInv'
<1> DEFINE K == KeptOf(u1, u2)
<1>1. \A U, p : (Shape(K, U, 0, X) /\ p \in {1, 2}) =>
        FreeTaken(HeapOf(K, U, 0, X), p) = HeapOf(K, U \ {p}, 0, X)
  <2> SUFFICES ASSUME NEW U, NEW p \in {1, 2}, Shape(K, U, 0, X)
               PROVE  FreeTaken(HeapOf(K, U, 0, X), p) = HeapOf(K, U \ {p}, 0, X)
    OBVIOUS
  <2> HIDE DEF K
  <2>1. CASE p \in U
    BY <2>1, FreeGivenIs
  <2>2. CASE p \notin U
    <3>1. U \ {p} = U /\ p # NULL
      BY <2>2 DEF NULL
    <3> QED BY <2>2, <3>1, FreeOtherIs
  <2> QED BY <2>1, <2>2
<1>2. Shape(K, T \ {2}, 0, X) /\ Shape(K, {}, 0, X) /\ (T \ {2}) \ {1} = {}
  BY DEF Shape, Given
<1>3. heap' = HeapOf(K, {}, 0, X) /\ ret' = r
  <2> HIDE DEF K
  <2>1. FreeTaken(h, 2) = HeapOf(K, T \ {2}, 0, X)
    BY <1>1 DEF K
  <2>2. FreeTaken(FreeTaken(h, 2), 1) = HeapOf(K, {}, 0, X)
    BY <1>1, <1>2, <2>1
  <2> QED BY <2>2 DEF EndReg
<1>4. called' # <<>> /\ called'[1] \notin {"do_vfmt", "regexec"} /\ Len(called') = 3
      /\ called'[2] = u1 /\ called'[3] = u2
  OBVIOUS
<1>5. Kept' = K
  BY <1>4 DEF Kept, KeptOf, Given
<1> HIDE DEF K
<1>6. RegSettled(Kept)'
  BY <1>2, <1>3, <1>5 DEF RegSettled
<1> QED BY <1>3, <1>4, <1>6 DEF StrInv, Formatting, Matching

LEMMA StartRegInv ==
  ASSUME StrInv, NEW t1 \in BOOLEAN, NEW t2 \in BOOLEAN, StartReg(t1, t2)
  PROVE  StrInv'
<1>1. heap = HeapOf(Given, {}, 0, NoBlocks) /\ stored = {} /\ stored' = {}
  BY DEF StrInv, StartReg
<1>2. PICK a \in Give(heap, 1, t1) : \E b \in Give(a.h, 2, t2) :
        \/ /\ called' = <<"tal_strreg", a.h # heap, b.h # a.h>> /\ ret' = CRASH
        \/ /\ b.ret # NULL
           /\ called' = <<"tal_strreg", a.h # heap, b.h # a.h>>
           /\ EndReg(b.h, a.ret, NULL)
        \/ /\ b.ret # NULL /\ a.ret # NULL
           /\ called' = <<"regexec", a.h # heap, b.h # a.h>>
           /\ heap' = b.h
  BY DEF StartReg
<1>3. PICK b \in Give(a.h, 2, t2) :
        \/ /\ called' = <<"tal_strreg", a.h # heap, b.h # a.h>> /\ ret' = CRASH
        \/ /\ b.ret # NULL
           /\ called' = <<"tal_strreg", a.h # heap, b.h # a.h>>
           /\ EndReg(b.h, a.ret, NULL)
        \/ /\ b.ret # NULL /\ a.ret # NULL
           /\ called' = <<"regexec", a.h # heap, b.h # a.h>>
           /\ heap' = b.h
  BY <1>2
<1>0. PICK u1, u2 : u1 = (a.h # heap) /\ u2 = (b.h # a.h)
  OBVIOUS
<1> DEFINE K == KeptOf(u1, u2)
<1>4. PICK T, n : /\ b.h = HeapOf(K, T, n, NoBlocks)
                  /\ Shape(K, T, n, NoBlocks)
                  /\ Pending2(K, T, n, a.ret, b.ret)
  <2> HIDE DEF NoBlocks
  <2> QED BY <1>0, <1>1, GiveBoth
<1>5. a.ret \in {1, NULL} /\ b.ret \in {2, NULL}
  <2> HIDE DEF NoBlocks
  <2> QED BY <1>0, <1>1, GiveBoth
<1>6. u1 \in BOOLEAN /\ u2 \in BOOLEAN
  BY <1>0
<1>7. \/ called' = <<"tal_strreg", u1, u2>> /\ ret' = CRASH
      \/ b.ret # NULL /\ called' = <<"tal_strreg", u1, u2>> /\ EndReg(b.h, a.ret, NULL)
      \/ b.ret # NULL /\ a.ret # NULL /\ called' = <<"regexec", u1, u2>> /\ heap' = b.h
  BY <1>0, <1>3
<1>8. CASE called' = <<"tal_strreg", u1, u2>> /\ ret' = CRASH
  <2>1. called' # <<>> /\ called'[1] \notin {"do_vfmt", "regexec"}
    BY <1>8
  <2> QED BY <1>8, <2>1 DEF StrInv, Formatting, Matching
<1>9. CASE b.ret # NULL /\ called' = <<"tal_strreg", u1, u2>> /\ EndReg(b.h, a.ret, NULL)
  <2>1. called' # <<>> /\ called'[1] \notin {"do_vfmt", "regexec"} /\ Len(called') = 3
        /\ called'[2] = u1 /\ called'[3] = u2
    BY <1>9
  <2>2. Kept' = K
    BY <2>1 DEF Kept, KeptOf, Given
  <2> HIDE DEF K, NoBlocks
  <2>3. Settled(K, FreeTaken(FreeTaken(b.h, b.ret), a.ret), NULL)
    BY <1>4, PendingSwap, OutNull
  <2>4. b.ret = 2
    BY <1>5, <1>9
  <2>5. Settled(K, heap', ret')
    BY <1>9, <2>3, <2>4 DEF EndReg
  <2> QED BY <1>1, <2>1, <2>2, <2>5 DEF StrInv, Formatting, Matching
<1>10. CASE b.ret # NULL /\ a.ret # NULL /\ called' = <<"regexec", u1, u2>> /\ heap' = b.h
  <2>1. a.ret = 1 /\ b.ret = 2
    BY <1>5, <1>10
  <2>2. n = 0 /\ T = {1, 2} \ K
    <3>1. One(1) = 0 /\ One(2) = 0 /\ NULL \notin {1, 2}
      BY DEF One, NULL
    <3> HIDE DEF K
    <3> QED BY <1>4, <2>1, <3>1 DEF Pending2
  <2>3. T = Given \ (K \cup stored')
    BY <1>1, <2>2 DEF Given
  <2>4. DOMAIN NoBlocks = {}
    BY DEF NoBlocks
  <2> HIDE DEF K, NoBlocks
  <2>5. heap' = HeapOf(K, T, 0, NoBlocks) /\ Shape(K, T, 0, NoBlocks)
    BY <1>4, <1>10, <2>2
  <2>6. RegHeap(K, NoBlocks)'
    BY <1>1, <2>3, <2>4, <2>5 DEF RegHeap
  <2>7. called' # <<>> /\ called'[1] = "regexec"
    BY <1>10
  <2> QED BY <1>6, <1>10, <2>6, <2>7 DEF StrInv, Formatting, Matching, K
<1> QED BY <1>7, <1>8, <1>9, <1>10

LEMMA SubexpressionInv ==
  ASSUME StrInv, Subexpression
  PROVE  StrInv'
<1>1. PICK u1 \in BOOLEAN, u2 \in BOOLEAN : \E X :
        called = <<"regexec", u1, u2>> /\ RegHeap(KeptOf(u1, u2), X)
  BY MatchingIs DEF Subexpression
<1>2. PICK X : called = <<"regexec", u1, u2>> /\ RegHeap(KeptOf(u1, u2), X)
  BY <1>1
<1> DEFINE K == KeptOf(u1, u2)
           T == Given \ (K \cup stored)
<1>3. /\ heap = HeapOf(K, T, 0, X) /\ Shape(K, T, 0, X)
      /\ DOMAIN X = stored /\ 2 \notin stored /\ \A q \in stored : X[q] = CTX
  BY <1>2 DEF RegHeap
<1>4. called # <<>> /\ called[1] = "regexec" /\ called[2] = u1 /\ called[3] = u2
  BY <1>2
<1>5. CASE UNCHANGED <<called, heap, ret, stored>>
  BY <1>5, StrStutter
<1>6. CASE ret' = CRASH /\ called' = <<"tal_strreg", called[2], called[3]>>
  <2>1. called' # <<>> /\ called'[1] \notin {"do_vfmt", "regexec"}
    BY <1>6
  <2> QED BY <1>6, <2>1 DEF StrInv, Formatting, Matching
<1>7. ASSUME NEW start \in {1, INSIDE}, NEW o \in tal_dup_(heap, CTX, start),
             IF o.ret = NULL
             THEN /\ EndReg(o.h, 1, NULL) /\ UNCHANGED stored
                  /\ called' = <<"tal_strreg", called[2], called[3]>>
             ELSE heap' = o.h /\ stored' = stored \cup {o.ret} /\ UNCHANGED <<called, ret>>
      PROVE  StrInv'
  <2>1. start # NULL /\ start # 2 /\ One(start) = 0
    BY DEF INSIDE, NULL, One
  <2>2. Dup(K, T, 0, X, CTX, start, o)
    <3> HIDE DEF K, T
    <3> QED BY <1>3, <1>7, <2>1, DupIs
  <2>3. Shape(K, T \ {start}, 0, X)
    BY <1>3 DEF Shape
  <2> HIDE DEF T
  <2>4. CASE o.ret = NULL
    <3>1. o.h = HeapOf(K, T \ {start}, 0, X)
      <4>1. \A b \in Given \cup Blocks : b # NULL
        BY BlocksAre DEF Given, NULL
      <4>2. 0 - 0 = 0
        OBVIOUS
      <4> QED BY <2>1, <2>2, <2>4, <4>1, <4>2 DEF Dup
    <3>2. EndReg(o.h, 1, NULL) /\ stored' = stored /\ called' = <<"tal_strreg", u1, u2>>
      BY <1>4, <1>7, <2>4
    <3> QED BY <1>3, <2>3, <3>1, <3>2, EndRegInv
  <2>5. CASE o.ret # NULL
    <3>1. PICK b \in IF start \in T THEN {start} ELSE Blocks :
             /\ b \in Given \cup Blocks /\ b \notin DOMAIN X /\ b \notin K \cup (T \ {start})
             /\ o.ret = b
             /\ o.h = HeapOf(K, T \ {start}, 0, WithBlock(X, b, CTX))
      <4>1. 0 - 0 = 0
        OBVIOUS
      <4> QED BY <2>1, <2>2, <2>5, <4>1 DEF Dup
    <3> DEFINE Y == WithBlock(X, b, CTX)
    <3>2. Shape(K, T \ {start}, 0, Y)
      BY <2>3, <3>1, AllocShape
    <3>3. stored' = stored \cup {b} /\ heap' = o.h /\ called' = called
      BY <1>7, <2>5, <3>1
    <3>4. T \ {start} = Given \ (K \cup stored') /\ 2 \notin stored'
      <4>1. CASE start \in T
        <5>1. b = start
          BY <3>1, <4>1
        <5> QED BY <1>3, <2>1, <3>3, <5>1 DEF T
      <4>2. CASE start \notin T
        <5>1. b \in Blocks /\ b \notin Given
          BY <3>1, <4>2, BlocksAre
        <5> QED BY <1>3, <3>3, <4>2, <5>1 DEF T, Given
      <4> QED BY <4>1, <4>2
    <3>5. DOMAIN Y = stored' /\ \A q \in stored' : Y[q] = CTX
      BY <1>3, <3>3 DEF WithBlock
    <3> HIDE DEF K, Y
    <3>6. RegHeap(K, Y)'
      BY <3>1, <3>2, <3>3, <3>4, <3>5 DEF RegHeap, Y
    <3>7. called' = <<"regexec", u1, u2>> /\ called' # <<>> /\ called'[1] = "regexec"
      BY <1>2, <1>4, <3>3
    <3> QED BY <3>6, <3>7 DEF StrInv, Formatting, Matching, K
  <2> QED BY <2>4, <2>5
<1>8. \/ UNCHANGED <<called, heap, ret, stored>>
      \/ ret' = CRASH /\ called' = <<"tal_strreg", called[2], called[3]>>
      \/ \E start \in {1, INSIDE} : \E o \in tal_dup_(heap, CTX, start) :
          IF o.ret = NULL
          THEN /\ EndReg(o.h, 1, NULL) /\ UNCHANGED stored
               /\ called' = <<"tal_strreg", called[2], called[3]>>
          ELSE heap' = o.h /\ stored' = stored \cup {o.ret} /\ UNCHANGED <<called, ret>>
  BY DEF Subexpression
<1> QED BY <1>5, <1>6, <1>7, <1>8

LEMMA MatchedInv ==
  ASSUME StrInv, Matched
  PROVE  StrInv'
<1>1. PICK u1 \in BOOLEAN, u2 \in BOOLEAN : \E X :
        called = <<"regexec", u1, u2>> /\ RegHeap(KeptOf(u1, u2), X)
  BY MatchingIs DEF Matched
<1>2. PICK X : called = <<"regexec", u1, u2>> /\ RegHeap(KeptOf(u1, u2), X)
  BY <1>1
<1> DEFINE K == KeptOf(u1, u2)
           T == Given \ (K \cup stored)
<1>3. heap = HeapOf(K, T, 0, X) /\ Shape(K, T, 0, X) /\ DOMAIN X = stored'
  BY <1>2 DEF RegHeap, Matched
<1>4. called' = <<"tal_strreg", u1, u2>> /\ EndReg(heap, 1, DONE)
  BY <1>2 DEF Matched
<1> HIDE DEF T
<1> QED BY <1>3, <1>4, EndRegInv

\* An argument that take() marked, or freed in failing, is consumed by the call, fail
\* where it may, and the others stay; what is left behind is what tal_strreg
\* stored (ccan/take, ccan/tal/str/str.c, tal_dup_ and tal_expand_ of tal.c).
THEOREM TakenAlwaysConsumed == StrSpec => []TakenIsConsumed
<1>1. StrInit => StrInv
  BY StrInitInv
<1>2. StrInv /\ [StrNext]_svars => StrInv'
  <2> SUFFICES ASSUME StrInv, [StrNext]_svars
               PROVE  StrInv'
    OBVIOUS
  <2>1. CASE CallFunction
    BY <2>1, CallFunctionInv
  <2>2. ASSUME NEW f \in {"tal_fmt", "tal_append_fmt"}, NEW taking \in BOOLEAN,
               NEW n \in 0 .. MaxFmt, StartFmt(f, taking, n)
        PROVE  StrInv'
    BY <2>2, StartFmtInv
  <2>3. CASE TryFmt
    BY <2>3, TryFmtInv
  <2>4. ASSUME NEW t1 \in BOOLEAN, NEW t2 \in BOOLEAN, StartReg(t1, t2)
        PROVE  StrInv'
    BY <2>4, StartRegInv
  <2>5. CASE Subexpression
    BY <2>5, SubexpressionInv
  <2>6. CASE Matched
    BY <2>6, MatchedInv
  <2>7. CASE UNCHANGED svars
    BY <2>7, StrStutter DEF svars
  <2> QED BY <2>1, <2>2, <2>3, <2>4, <2>5, <2>6, <2>7 DEF StrNext
<1>3. StrInv => TakenIsConsumed
  BY SettledConsumed
<1> QED BY <1>1, <1>2, <1>3, PTL DEF StrSpec
=============================================================================
