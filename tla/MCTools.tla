------------------------------- MODULE MCTools -------------------------------
(***************************************************************************)
(* The tools around the IBLT, on small instances: the sketch and its bytes *)
(* (RawIblt), the block message (Wire), the corpus simulator (Corpus) and  *)
(* its search for a size (MinDecode), the pipe of iblt-encode and          *)
(* iblt-decode (Encode), and the transaction (Tx).  And, to keep MCObjects *)
(* small, linked lists (List).  They are programs and calls that share no  *)
(* state: each behaviour is one of one of them.                            *)
(***************************************************************************)
EXTENDS RawIblt, Wire, Corpus, MinDecode, Encode, Tx, List

VARIABLE part   \* what runs: never changes

\* RawIblt: three transactions of one or two slices, two of which have one
\* txid48 and an equal slice; an s16 cut to 2 bits, so that four hits of a
\* bucket overflow it; values of two or three bytes.
MCIdBits == {"i0"}
MCFragBits == {"f0", "f1"}
MCContentBits == {"c0"}
MCFragNum ==
  [f \in SUBSET MCFragBits |->
     (IF "f0" \in f THEN 1 ELSE 0) + (IF "f1" \in f THEN 2 ELSE 0)]
MCFragPattern ==
  [n \in 0 .. 3 |-> CHOOSE f \in SUBSET MCFragBits : MCFragNum[f] = n]
MCFragBase == [id \in SUBSET MCIdBits |-> IF id = {} THEN 1 ELSE 3]

MCTx == {"t0", "t1", "t2"}
MCTxId48 == [t0 |-> {}, t1 |-> {"i0"}, t2 |-> {"i0"}]
MCTxContents == [t0 |-> <<{}>>, t1 |-> <<{"c0"}, {}>>, t2 |-> <<{"c0"}, {"c0"}>>]
MCExpected == [c \in SUBSET MCContentBits |-> IF c = {} THEN 1 ELSE 2]

\* Each slice of the transactions has one of four placements.
MCHashFns ==
  [{item[2] : item \in Items(MCTx)} -> {<<0, 1, 2>>, <<0, 0, 1>>, <<2, 2, 2>>}]
MCMurmurHash3(h, n, s) == IF s \in DOMAIN h THEN h[s][n + 1] ELSE 0

\* Wire: bytes of two bits and strings of up to three, so that a string fits in
\* a byte, fills it or goes over its end: two strings of one length, a gap
\* between lengths, the longest length, and the string of no bits that
\* add_bitset skips.  At most MaxStrings of them are in a set.
Strung == {<<>>, <<TRUE>>, <<FALSE>>, <<TRUE, FALSE>>, <<FALSE, TRUE, TRUE>>}
MaxStrings == 3
MCBitsets == {b \in SUBSET Strung : Cardinality(b) <= MaxStrings}

\* Corpus: four transactions, one of which is not in the cache, and two blocks
\* after the one the peer synchronises at.
MCCorpusTx == {"t0", "t1", "t2", "t3"}
MCCache == MCCorpusTx \ {"t3"}

\* Encode: files of at most MaxLines lines, the last of which may be cut off; a
\* block that is cheaper as an IBLT, when the first peer has most of it, and
\* transactions that are not in the cache.
MaxLines == 4
MCTxIds == {"t1", "t2", "u"}
MCKnown == {"t1", "t2"}
MCTxLength == [t1 |-> 4000, t2 |-> 500]
WholeLines ==
  {Line("block", 1, 3, S) : S \in {{}, {"t1", "u"}, {"t1", "t2"}}}
    \cup {Line("mempool", 7, 0, S) : S \in {{}, {"t1", "u"}}}
    \cup {Line("other", 0, 0, {})}
CutLines == {[Line(k, 1, 3, {}) EXCEPT !.whole = FALSE] : k \in {"block", "mempool"}}
MCInputs ==
  UNION {[1 .. n -> WholeLines] : n \in 0 .. MaxLines}
    \cup {Append(f, l) : f \in UNION {[1 .. n -> WholeLines] : n \in 0 .. MaxLines - 1},
                         l \in CutLines}

\* Tx: bytes of four values, of which 1 to 3 announce a longer varint, slices of
\* three bytes, blocks of four; scripts of one to three bytes and of none.
Input(script) ==
  [txid |-> <<1, 2>>, index |-> 1, script |-> script, sequence_number |-> 3]
Output(script) == [amount |-> 7, script |-> script]
MCTxs ==
  [version : {1}, lock_time : {3},
   input : {<<>>, <<Input(<<>>)>>, <<Input(<<2>>), Input(<<>>)>>},
   output : {<<>>, <<Output(<<3, 1, 2>>)>>, <<Output(<<1>>), Output(<<>>)>>}]

-----------------------------------------------------------------------------
\* A part that does not run has one initial state.
ToolsInit ==
  /\ part \in {"sketch", "message", "corpus", "search", "pipe", "tx", "lists"}
  /\ \/ part = "sketch"
     \/ txs = {} /\ hf = (CHOOSE h \in HashFns : TRUE) /\ riblt = EmptyIblt(1)
  /\ RawInit
  /\ \/ part = "message"
     \/ sent = (CHOOSE m \in Messages : TRUE) /\ wire = <<>>
  /\ WireInit
  /\ \/ part = "corpus"
     \/ role = "receiver" /\ real = {} /\ top = First - 1
  /\ CorpusInit
  /\ part = "search" \/ decodes = [n \in 1 .. max_possible |-> TRUE]
  /\ MinDecodeInit
  /\ \/ part = "pipe"
     \/ input = <<>> /\ fixed_buckets = 0 /\ do_iblt = TRUE
  /\ EncodeInit
  /\ \/ part = "tx"
     \/ btx = (CHOOSE t \in Txs : TRUE) /\ adder = "pull" /\ data = <<>>
  /\ TxInit
  /\ ListInit

SketchPart == part = "sketch" /\ RawNext
                /\ UNCHANGED <<part, wvars, cvars, mvars, evars, tvars, lvars>>
MessagePart == part = "message" /\ WireNext
                /\ UNCHANGED <<part, rvars, cvars, mvars, evars, tvars, lvars>>
CorpusPart == part = "corpus" /\ CorpusNext
                /\ UNCHANGED <<part, rvars, wvars, mvars, evars, tvars, lvars>>
SearchPart == part = "search" /\ MinDecodeNext
                /\ UNCHANGED <<part, rvars, wvars, cvars, evars, tvars, lvars>>
PipePart == part = "pipe" /\ EncodeNext
                /\ UNCHANGED <<part, rvars, wvars, cvars, mvars, tvars, lvars>>
TxPart == part = "tx" /\ TxNext
                /\ UNCHANGED <<part, rvars, wvars, cvars, mvars, evars, lvars>>

ListsPart == part = "lists" /\ ListNext
               /\ UNCHANGED <<part, rvars, wvars, cvars, mvars, evars, tvars>>

ToolsNext ==
  \/ SketchPart \/ MessagePart \/ CorpusPart \/ SearchPart \/ PipePart \/ TxPart
  \/ ListsPart

toolsvars == <<part, rvars, wvars, cvars, mvars, evars, tvars, lvars>>

ToolsSpec ==
  ToolsInit /\ [][ToolsNext]_toolsvars /\ WF_toolsvars(MessagePart)

\* Every variable has its type.
TypesOK == RawTypeOK /\ WireTypeOK /\ CorpusTypeOK /\ MinDecodeTypeOK /\ EncodeTypeOK

\* DecodeEnds where a message is what is decoded.
MessageEnds == part = "message" => DecodeEnds
=============================================================================
