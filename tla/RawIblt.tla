------------------------------- MODULE RawIblt -------------------------------
(***************************************************************************)
(* class raw_iblt (rawiblt.cpp): a sender inserts the slices of its        *)
(* transactions one bucket at a time, writes the counters and the buckets  *)
(* out as bytes, and a receiver reads them back into a raw_iblt of the     *)
(* size it was told (iblt-encode.cpp, read_iblt in iblt-decode.cpp).       *)
(*                                                                         *)
(* The transactions are in an unordered container: any order of iteration  *)
(* can occur.  The receiver's line may end early.                          *)
(***************************************************************************)
EXTENDS Slices

CONSTANTS
  Sizes,         \* numbers of buckets under consideration
  CountBytes,    \* sizeof(s16)
  BucketBytes    \* txslice::size()

VARIABLES
  hf,       \* which function MurmurHash3 is: never changes
  txs,      \* the argument of the constructor: never changes
  riblt,    \* the raw_iblt being built
  todoTxs,  \* transactions the constructor's loop has not reached
  work,     \* slices of the current one still to be inserted
  hashno,   \* iteration of frob_buckets
  raw_pc,       \* "build", "written", "read" or "refused"
  bytes,     \* what write returned, and what arrived of it
  theirs    \* the receiver's raw_iblt

rvars == <<hf, txs, riblt, todoTxs, work, hashno, raw_pc, bytes, theirs>>

ASSUME RawAssumption ==
  /\ Sizes \subseteq Nat \ {0}
  /\ CountBytes \in Nat \ {0}
  /\ BucketBytes \in Nat \ {0}

CountsLen(size) == size * CountBytes
WireLen(size) == CountsLen(size) + size * BucketBytes

\* raw_iblt::write.  A byte is a value and its place in the value.
write(r) ==
  [i \in 1 .. WireLen(r.size) |->
     LET b == i - 1 - CountsLen(r.size)
     IN IF b < 0
        THEN <<r.counts[(i - 1) \div CountBytes], (i - 1) % CountBytes>>
        ELSE <<r.buckets[b \div BucketBytes], b % BucketBytes>>]

\* raw_iblt::read into a raw_iblt of a given size: the first byte of each value
\* stands for the value.
Readable(size, p) == Len(p) = WireLen(size)

\* Mutant: an index into the counters is taken for an offset in bytes.
read_ByteIndex(size, p) ==
  [size |-> size,
   counts |-> [n \in Buckets(size) |-> p[n + 1][1]],
   buckets |-> [n \in Buckets(size) |->
                  p[CountsLen(size) + n * BucketBytes + 1][1]]]

read(size, p) ==
  [size |-> size,
   counts |-> [n \in Buckets(size) |-> p[n * CountBytes + 1][1]],
   buckets |-> [n \in Buckets(size) |->
                  p[CountsLen(size) + n * BucketBytes + 1][1]]]

RawInit ==
  /\ hf \in HashFns
  /\ txs \in SUBSET Tx
  /\ \E size \in Sizes : riblt = EmptyIblt(size) /\ theirs = EmptyIblt(size)
  /\ todoTxs = txs
  /\ work = <<>>
  /\ hashno = 0
  /\ raw_pc = "build"
  /\ bytes = <<>>

\* The next transaction of the constructor's loop.
NextTx(t) ==
  /\ raw_pc = "build"
  /\ work = <<>>
  /\ todoTxs' = todoTxs \ {t}
  /\ work' = slice_tx(t)
  /\ UNCHANGED <<hf, txs, riblt, hashno, raw_pc, bytes, theirs>>

\* An iteration of the loop of raw_iblt::frob_buckets, called by insert.
Insert ==
  /\ raw_pc = "build"
  /\ work # <<>>
  /\ riblt' = frob_bucket(riblt,
                          select_buckets(hf, riblt.size, Head(work))[hashno],
                          Head(work), 1)
  /\ hashno' = (hashno + 1) % NUM_HASHES
  /\ work' = IF hashno' = 0 THEN Tail(work) ELSE work
  /\ UNCHANGED <<hf, txs, todoTxs, raw_pc, bytes, theirs>>

\* The sender writes; all of it or a first part arrives.
Write ==
  /\ raw_pc = "build"
  /\ work = <<>>
  /\ todoTxs = {}
  /\ raw_pc' = "written"
  /\ \E n \in 0 .. WireLen(riblt.size) : bytes' = SubSeq(write(riblt), 1, n)
  /\ UNCHANGED <<hf, txs, riblt, todoTxs, work, hashno, theirs>>

\* read_iblt: the size came in front of the bytes.
Read ==
  /\ raw_pc = "written"
  /\ IF Readable(theirs.size, bytes)
     THEN raw_pc' = "read" /\ theirs' = read(theirs.size, bytes)
     ELSE raw_pc' = "refused" /\ UNCHANGED theirs
  /\ UNCHANGED <<hf, txs, riblt, todoTxs, work, hashno, bytes>>

Done == raw_pc \in {"read", "refused"} /\ UNCHANGED rvars

RawNext == (\E t \in todoTxs : NextTx(t)) \/ Insert \/ Write \/ Read \/ Done

RawSpec == RawInit /\ [][RawNext]_rvars

-----------------------------------------------------------------------------
RawTypeOK ==
  /\ hf \in HashFns
  /\ txs \in SUBSET Tx
  /\ IsRawIblt(riblt)
  /\ todoTxs \in SUBSET txs
  /\ work \in Seq(Slice)
  /\ hashno \in 0 .. NUM_HASHES - 1
  /\ raw_pc \in {"build", "written", "read", "refused"}
  /\ IsRawIblt(theirs)
  /\ theirs.size = riblt.size

\* After any number of transactions, in whatever order the container gave them,
\* the raw IBLT is the sketch of those inserted: the order leaves no trace, two
\* or three hits of one bucket count and XOR as often as they occur, and an s16
\* that overflows comes back (raw_iblt::raw_iblt, insert).
BuiltIsSketch ==
  raw_pc = "build" /\ work = <<>> =>
    riblt = Sketch(hf, riblt.size, Items(txs \ todoTxs), {})

\* What the receiver reads is what the sender built, and only when all of it
\* arrived (raw_iblt::write, raw_iblt::read).
ReceivedIsBuilt ==
  /\ raw_pc = "read" => theirs = Sketch(hf, riblt.size, Items(txs), {})
  /\ raw_pc = "refused" => Len(bytes) < WireLen(riblt.size)

\* The sketch of the sender's transactions arrives, whole and as it is defined.
SketchArrives == BuiltIsSketch /\ ReceivedIsBuilt
=============================================================================
