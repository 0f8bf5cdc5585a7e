------------------------------- MODULE Slices -------------------------------
(***************************************************************************)
(* The data an IBLT is made of: struct txslice (txslice.h), the slices of  *)
(* a transaction (txslice.cpp), class txid48 (txid48.h) and the buckets a  *)
(* slice hashes to (rawiblt.cpp).                                          *)
(*                                                                         *)
(* A txslice is plain old data that the code XORs byte by byte, so a slice *)
(* is modelled as the set of its 1 bits: XOR is symmetric difference, and  *)
(* each field is the part of the set that lies in the field's bits.  This  *)
(* keeps what XORing several slices together does to every field, which is *)
(* what a bucket holding more than one slice contains.                     *)
(*                                                                         *)
(* SHA-256, MurmurHash3 and the bytes of a transaction are constants: any  *)
(* functions of the right type.                                            *)
(***************************************************************************)
EXTENDS Integers, FiniteSets, Sequences

CONSTANTS
  IdBits,        \* bits of the field txidbits (48 of them)
  FragBits,      \* bits of the field fragid (16)
  ContentBits,   \* bits of the field contents (8 * IBLT_SIZE)
  FragNum,       \* the u16 that a set of fragment bits stands for
  FragPattern,   \* the set of fragment bits that a u16 stands for
  FragBase,      \* txid48::frag_base: the low 16 bits of SHA-256 of an id
  U16,           \* 2^16, the number of values of a u16
  S16,           \* 2^15, a counter is an s16: -S16 .. S16-1
  Tx,            \* the transactions anyone has
  TxId48,        \* the txid48 of a transaction under the seed in use
  TxContents,    \* the contents fields of a transaction's slices, in order
  Expected,      \* txslice::slices_expected of a contents field
  HashFns,       \* the behaviours of MurmurHash3 under consideration
  MurmurHash3(_, _, _)  \* MurmurHash3(h, i, s): behaviour h, hash seed i

Slice == SUBSET (IdBits \cup FragBits \cup ContentBits)
Counter == -S16 .. S16 - 1
FragId == 0 .. U16 - 1
NUM_HASHES == 3

\* Fields do not overlap, and FragNum/FragPattern are the two directions of
\* reading a fragment field as a number.
ASSUME FieldsAssumption ==
  /\ IdBits \cap FragBits = {}
  /\ IdBits \cap ContentBits = {}
  /\ FragBits \cap ContentBits = {}
  /\ U16 \in Nat \ {0}
  /\ S16 \in Nat \ {0, 1}
  /\ FragNum \in [SUBSET FragBits -> FragId]
  /\ FragPattern \in [FragId -> SUBSET FragBits]
  /\ \A f \in FragId : FragNum[FragPattern[f]] = f
  /\ FragBase \in [SUBSET IdBits -> FragId]

ASSUME HashAssumption ==
  \A h \in HashFns, i \in 0 .. NUM_HASHES - 1, s \in Slice :
    MurmurHash3(h, i, s) \in Nat

\* A transaction is cut into at least one slice and at most U16 - 1; the
\* count of slices is written in front of it, so that the first slice's
\* contents announce it (slice_tx, txslice::slices_expected).  Nobody has ever
\* more than finitely many transactions: blocks and mempools are containers.
ASSUME TxAssumption ==
  /\ IsFiniteSet(Tx)
  /\ TxId48 \in [Tx -> SUBSET IdBits]
  /\ Expected \in [SUBSET ContentBits -> Nat]
  /\ \A t \in Tx :
       /\ TxContents[t] \in Seq(SUBSET ContentBits)
       /\ Len(TxContents[t]) \in 1 .. U16 - 1
       /\ Expected[TxContents[t][1]] = Len(TxContents[t])

-----------------------------------------------------------------------------
\* Mutant: a bucket gathers slices with |= instead of ^=.
Xor_Or(a, b) == a \cup b

Xor(a, b) == (a \ b) \cup (b \ a)

get_txid48(s) == s \cap IdBits
fragid(s) == FragNum[s \cap FragBits]
contents(s) == s \cap ContentBits
frag_base(id) == FragBase[id]

\* The offset of a slice in its transaction, as iblt computes it: a u16.
FragOff(s) == (fragid(s) - frag_base(get_txid48(s))) % U16

\* slice_tx: slice i carries the id, the fragment number frag_base + i
\* truncated to a u16, and the i-th piece of the linearized transaction.
slice_tx(t) ==
  [i \in 1 .. Len(TxContents[t]) |->
     TxId48[t]
       \cup FragPattern[(i - 1 + frag_base(TxId48[t])) % U16]
       \cup TxContents[t][i]]

\* The slices of a set of transactions, each with its owner: transactions whose
\* txid48s clash may have equal slices.
Items(txs) ==
  UNION {{<<t, slice_tx(t)[i]>> : i \in DOMAIN slice_tx(t)} : t \in txs}

-----------------------------------------------------------------------------
(***************************************************************************)
(* class raw_iblt: a vector of counters and a vector of buckets.           *)
(***************************************************************************)
Buckets(size) == 0 .. size - 1

IsRawIblt(r) ==
  /\ r.size \in Nat \ {0}
  /\ r.counts \in [Buckets(r.size) -> Counter]
  /\ r.buckets \in [Buckets(r.size) -> Slice]
  /\ r = [size |-> r.size, counts |-> r.counts, buckets |-> r.buckets]

\* What assigning an int to an s16 does.
Wrap(x) == ((x + S16) % (2 * S16)) - S16

\* raw_iblt::select_buckets: one bucket per hash seed, which may coincide.
select_buckets(h, size, s) ==
  [i \in 0 .. NUM_HASHES - 1 |-> MurmurHash3(h, i, s) % size]

\* Mutant: counters wider than an s16, the assignment truncates nothing.
frob_bucket_NoWrap(r, n, s, dir) ==
  [size |-> r.size,
   counts |-> [r.counts EXCEPT ![n] = @ + dir],
   buckets |-> [r.buckets EXCEPT ![n] = Xor(@, s)]]

\* raw_iblt::frob_bucket.
frob_bucket(r, n, s, dir) ==
  [size |-> r.size,
   counts |-> [r.counts EXCEPT ![n] = Wrap(@ + dir)],
   buckets |-> [r.buckets EXCEPT ![n] = Xor(@, s)]]

EmptyIblt(size) ==
  [size |-> size,
   counts |-> [n \in Buckets(size) |-> 0],
   buckets |-> [n \in Buckets(size) |-> {}]]

\* The raw IBLT in which the slices of the items `plus` were inserted and those
\* of `minus` removed, stated without building it: a counter is the number of
\* times its bucket was hit, and a bit of a bucket is set when an odd number of
\* the hits brought it.  An item is an owner and a slice.
Hits(h, size, items, n) ==
  {hit \in items \X (0 .. NUM_HASHES - 1) :
     select_buckets(h, size, hit[1][2])[hit[2]] = n}

Sketch(h, size, plus, minus) ==
  LET Brought(items, n, b) ==
        Cardinality({hit \in Hits(h, size, items, n) : b \in hit[1][2]})
  IN [size |-> size,
      counts |-> [n \in Buckets(size) |->
        Wrap(Cardinality(Hits(h, size, plus, n))
             - Cardinality(Hits(h, size, minus, n)))],
      buckets |-> [n \in Buckets(size) |->
        {b \in IdBits \cup FragBits \cup ContentBits :
           (Brought(plus, n, b) + Brought(minus, n, b)) % 2 = 1}]]
=============================================================================
