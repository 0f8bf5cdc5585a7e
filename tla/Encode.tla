------------------------------- MODULE Encode -------------------------------
(***************************************************************************)
(* iblt-encode piped into iblt-decode (main of both, with the line formats *)
(* of io.cpp).  The encoder answers each block of its input with a block   *)
(* line, an IBLT line when that is smaller than the block, and the lines   *)
(* of all peers but the first, whose mempool it used to size the IBLT.     *)
(* The decoder prints a result for every peer it reads.                    *)
(*                                                                         *)
(* The two are processes of a pipeline: the decoder takes lines whenever   *)
(* there are some, and sees the end of the file when the encoder exited.   *)
(* Which result recover_block has is the subject of module Decode.         *)
(***************************************************************************)
EXTENDS Integers, FiniteSetsExt, SequencesExt

CONSTANTS
  Inputs,       \* files under consideration: sequences of lines
  TxIds,        \* the txids that may be in them
  Known,        \* the transactions txcache/ has
  TxLength,     \* bytes of a transaction
  IBLT_SIZE,    \* bytes of the contents of a slice
  FixedBuckets  \* values of --buckets; 0 is no option

\* A line: its kind is its first character; n is the overhead of a block or
\* the buckets of an IBLT.  The file may end inside a line, which is then not
\* whole and throws, wherever the end is.
Lines == [kind : {"block", "mempool", "iblt", "other", "end"}, id : Nat, n : Nat,
          txs : SUBSET TxIds, whole : BOOLEAN]

ASSUME EncodeAssumption ==
  /\ Inputs \subseteq Seq(Lines)
  /\ Known \subseteq TxIds /\ IsFiniteSet(Known)
  /\ TxLength \in [Known -> Nat]
  /\ IBLT_SIZE \in Nat \ {0}
  /\ FixedBuckets \subseteq Nat

\* <<slices, buckets>>: how many buckets give so many slices a 95% chance.
bfors_table ==
  <<<<1, 5>>, <<2, 9>>, <<3, 12>>, <<4, 15>>, <<5, 17>>, <<6, 20>>,
    <<7, 22>>, <<8, 24>>, <<9, 27>>, <<10, 29>>, <<11, 31>>, <<12, 32>>,
    <<13, 34>>, <<14, 36>>, <<15, 38>>, <<16, 40>>, <<17, 41>>, <<18, 43>>,
    <<19, 45>>, <<20, 46>>, <<21, 48>>, <<22, 49>>, <<23, 51>>, <<24, 53>>,
    <<25, 54>>, <<26, 56>>, <<27, 57>>, <<28, 58>>, <<29, 60>>, <<30, 61>>,
    <<40, 75>>, <<50, 88>>, <<60, 100>>, <<70, 112>>, <<80, 124>>,
    <<90, 137>>, <<100, 149>>, <<200, 273>>, <<300, 398>>, <<400, 524>>,
    <<500, 649>>, <<600, 774>>, <<700, 898>>, <<800, 1023>>, <<900, 1147>>,
    <<1000, 1271>>, <<2000, 2510>>, <<3000, 3745>>, <<4000, 4978>>,
    <<5000, 6209>>, <<6000, 7440>>, <<7000, 8669>>, <<8000, 9898>>,
    <<9000, 11127>>, <<10000, 12355>>>>

INITIAL_SLICES == 10

VARIABLES
  input,     \* the encoder's file: never changes
  fixed_buckets, do_iblt,  \* its options: never change
  line,      \* the number of its next line
  enc,       \* "blocks", "first" or "peers": which read it is at; "done",
             \* "threw" or "failed": how it ended
  blockline, \* the block line it works on
  out,       \* what it wrote and the decoder has not read
  dec,       \* "blocks", "iblt", "peers", "done" or "threw"
  from_encoder,    \* the decoder's block line and IBLT; 0 buckets is a null pointer
  warned,    \* transactions the decoder warned it could not find
  results    \* the decoder's output

evars == <<input, fixed_buckets, do_iblt, line, enc, blockline, out, dec,
           from_encoder, warned, results>>
options == <<input, fixed_buckets, do_iblt>>
decoder == <<dec, from_encoder, warned, results>>

Line(kind, id, n, S) == [kind |-> kind, id |-> id, n |-> n, txs |-> S, whole |-> TRUE]
NoLine == [Line("end", 0, 0, {}) EXCEPT !.whole = FALSE]

\* read_txids leaves out what get_tx does not find.
read_txids(l) == l.txs \cap Known

Coming == IF line <= Len(input) THEN input[line] ELSE NoLine

-----------------------------------------------------------------------------
varint_len(n) == IF n < 253 THEN 1 ELSE IF n <= 65535 THEN 3 ELSE 5
num_slices_for(bytes) == (bytes + IBLT_SIZE - 1) \div IBLT_SIZE

total_size(S) == MapThenSumSet(LAMBDA t : TxLength[t], S)

\* The factor of the last entry before a larger one, times 1.35.
dynamic_buckets(S, mempool) ==
  LET slices == INITIAL_SLICES
        + MapThenSumSet(LAMBDA t : num_slices_for(TxLength[t]), S \ mempool)
      before == {k \in DOMAIN bfors_table :
                   \A m \in 1 .. k : bfors_table[m][1] <= slices}
      e == bfors_table[Max(before)]
  IN IF before = {} THEN 0 ELSE (slices * e[2] * 135) \div (e[1] * 100)

\* The length of the encoded vector: buckets, seed, counters and slices.
EncodedSize(buckets) == varint_len(buckets) + 16 + buckets * (2 + 8 + IBLT_SIZE)

BucketsFor(S, mempool) ==
  IF fixed_buckets # 0 THEN fixed_buckets ELSE dynamic_buckets(S, mempool)

EncodeInit ==
  /\ input \in Inputs
  /\ fixed_buckets \in FixedBuckets
  /\ do_iblt \in BOOLEAN
  /\ line = 1
  /\ enc = "blocks"
  /\ blockline = NoLine
  /\ out = <<>>
  /\ dec = "blocks"
  /\ from_encoder = NoLine
  /\ warned = {}
  /\ results = <<>>

\* read_blockline in iblt-encode: anything that is not a block ends it.
EncodeBlock ==
  /\ enc = "blocks"
  /\ IF Coming.kind # "block" THEN enc' = "done" /\ UNCHANGED <<line, blockline>>
     ELSE IF ~Coming.whole THEN enc' = "threw" /\ UNCHANGED <<line, blockline>>
     ELSE enc' = "first" /\ line' = line + 1 /\ blockline' = Coming
  /\ UNCHANGED <<options, out, decoder>>

\* Mutant: the overhead of an IBLT is added to what the last block had.
EncodeFirst_Carry ==
  /\ enc = "first"
  /\ IF Coming.kind = "mempool" /\ Coming.whole
     THEN LET S == read_txids(blockline)
              buckets == BucketsFor(S, read_txids(Coming))
              encoded == EncodedSize(buckets)
              plain == total_size(S)
          IN /\ enc' = "peers"
             /\ line' = line + 1
             /\ out' = out \o
                  IF encoded > plain \/ ~do_iblt
                  THEN <<Line("block", blockline.id, blockline.n + plain, S)>>
                  ELSE <<Line("block", blockline.id, blockline.n + plain, S),
                         Line("iblt", 0, buckets, {})>>
     ELSE /\ enc' = IF Coming.kind = "mempool" THEN "threw" ELSE "failed"
          /\ UNCHANGED <<line, out>>
  /\ UNCHANGED <<options, blockline, decoder>>

\* The first peer's mempool, which must be there, and all that is written
\* about the block.
EncodeFirst ==
  /\ enc = "first"
  /\ IF Coming.kind = "mempool" /\ Coming.whole
     THEN LET S == read_txids(blockline)
              buckets == BucketsFor(S, read_txids(Coming))
              encoded == EncodedSize(buckets)
              plain == total_size(S)
          IN /\ enc' = "peers"
             /\ line' = line + 1
             /\ out' = out \o
                  IF encoded >= plain \/ ~do_iblt
                  THEN <<Line("block", blockline.id, blockline.n + plain, S)>>
                  ELSE <<Line("block", blockline.id, blockline.n + encoded, S),
                         Line("iblt", 0, buckets, {})>>
     ELSE /\ enc' = IF Coming.kind = "mempool" THEN "threw" ELSE "failed"
          /\ UNCHANGED <<line, out>>
  /\ UNCHANGED <<options, blockline, decoder>>

\* The other peers' mempools are copied.
EncodePeer ==
  /\ enc = "peers"
  /\ IF Coming.kind # "mempool" THEN enc' = "blocks" /\ UNCHANGED <<line, out>>
     ELSE IF ~Coming.whole THEN enc' = "threw" /\ UNCHANGED <<line, out>>
     ELSE /\ line' = line + 1
          /\ out' = Append(out, Line("mempool", Coming.id, 0, read_txids(Coming)))
          /\ UNCHANGED enc
  /\ UNCHANGED <<options, blockline, decoder>>

-----------------------------------------------------------------------------
\* peek in iblt-decode waits for a line or for the end.
Arrived == out # <<>> \/ enc \in {"done", "threw", "failed"}
Ahead == IF out = <<>> THEN NoLine ELSE Head(out)

\* get_tx of the decoder, without the set that would stop a second warning.
Warn == warned' = warned \cup (Ahead.txs \ Known)

DecodeBlock ==
  /\ dec = "blocks" /\ Arrived
  /\ IF Ahead.kind # "block" THEN dec' = "done" /\ UNCHANGED <<out, from_encoder, warned>>
     ELSE IF ~Ahead.whole THEN dec' = "threw" /\ UNCHANGED <<out, from_encoder, warned>>
     ELSE /\ dec' = "iblt"
          /\ from_encoder' = [block |-> Ahead, buckets |-> 0]
          /\ out' = Tail(out)
          /\ Warn
  /\ UNCHANGED <<options, line, enc, blockline, results>>

\* Mutant: the IBLT of the block before stays when there is none.
DecodeIblt_Stale ==
  /\ dec = "iblt" /\ Arrived
  /\ dec' = "peers"
  /\ IF Ahead.kind = "iblt"
     THEN from_encoder' = [from_encoder EXCEPT !.buckets = Ahead.n] /\ UNCHANGED out
     ELSE UNCHANGED <<out, from_encoder>>
  /\ UNCHANGED <<options, line, enc, blockline, warned, results>>

\* read_iblt: a line that starts with i, or none.
DecodeIblt ==
  /\ dec = "iblt" /\ Arrived
  /\ dec' = "peers"
  /\ IF Ahead.kind = "iblt"
     THEN from_encoder' = [from_encoder EXCEPT !.buckets = Ahead.n] /\ out' = Tail(out)
     ELSE UNCHANGED <<out, from_encoder>>
  /\ UNCHANGED <<options, line, enc, blockline, warned, results>>

DecodePeer ==
  /\ dec = "peers" /\ Arrived
  /\ IF Ahead.kind # "mempool" THEN dec' = "blocks" /\ UNCHANGED <<out, warned, results>>
     ELSE IF ~Ahead.whole THEN dec' = "threw" /\ UNCHANGED <<out, warned, results>>
     ELSE /\ results' = Append(results, <<from_encoder.block.id, from_encoder.block.n,
                                          from_encoder.buckets, Ahead.id>>)
          /\ out' = Tail(out)
          /\ Warn
          /\ UNCHANGED dec
  /\ UNCHANGED <<options, line, enc, blockline, from_encoder>>

EncodeStep == EncodeBlock \/ EncodeFirst \/ EncodePeer
DecodeStep == DecodeBlock \/ DecodeIblt \/ DecodePeer
PipeEnded == dec \in {"done", "threw"} /\ enc \in {"done", "threw", "failed"}
            /\ UNCHANGED evars

EncodeNext == EncodeStep \/ DecodeStep \/ PipeEnded
EncodeSpec == EncodeInit /\ [][EncodeNext]_evars

-----------------------------------------------------------------------------
EncodeTypeOK ==
  /\ input \in Inputs
  /\ fixed_buckets \in FixedBuckets
  /\ do_iblt \in BOOLEAN
  /\ line \in 1 .. Len(input) + 1
  /\ enc \in {"blocks", "first", "peers", "done", "threw", "failed"}
  /\ blockline \in Lines
  /\ out \in Seq(Lines)
  /\ dec \in {"blocks", "iblt", "peers", "done", "threw"}
  /\ from_encoder \in {NoLine} \cup [block : Lines, buckets : Nat]
  /\ warned \subseteq TxIds
  /\ results \in Seq(Nat \X Nat \X Nat \X Nat)

\* The bytes a block costs: the IBLT or its transactions, what is smaller.
Cost(S, buckets) ==
  Min({total_size(S)} \cup IF do_iblt THEN {EncodedSize(buckets)} ELSE {})

\* The lines the encoder has read for which a result is due: the mempools but
\* the first of their block.
Peers == {k \in 2 .. line - 1 : input[k].kind = "mempool" /\ input[k - 1].kind = "mempool"}

\* The result for one of them.
Due(k) ==
  LET b == Max({m \in 1 .. k : input[m].kind = "block"})
      S == read_txids(input[b])
      buckets == BucketsFor(S, read_txids(input[b + 1]))
      cost == Cost(S, buckets)
  IN <<input[b].id, input[b].n + cost,
       IF cost < total_size(S) THEN buckets ELSE 0, input[k].id>>

\* The results are those of the peers K, in their order.
Answered(K) ==
  /\ Len(results) = Cardinality(K)
  /\ \A k \in K : results[Cardinality({m \in K : m <= k})] = Due(k)

\* Whatever the encoder's file is and wherever it stops, the decoder never
\* chokes on its output nor misses a transaction, and prints for each block
\* and each peer but the first one result, with the overhead that was there
\* and the bytes that are sent for this block, as an IBLT only when that is
\* less (iblt-encode.cpp main, iblt-decode.cpp main).
PeersAnswered ==
  /\ dec # "threw"
  /\ warned = {}
  /\ \E r \in 0 .. line - 1 : Answered({k \in Peers : k <= r})
  /\ dec = "done" => Answered(Peers)
=============================================================================
