------------------------------ MODULE MCDecode ------------------------------
(***************************************************************************)
(* Decode on a small instance: three transactions, one of them cut into    *)
(* two slices, and every way the four slices can be dealt one of a few     *)
(* placements: three buckets, two, or one hit three times.  A fourth one   *)
(* has the txid48 of the first, and takes the place of the third.          *)
(***************************************************************************)
EXTENDS Decode

MCIdBits == {"i0", "i1"}
MCFragBits == {"f0", "f1"}
MCContentBits == {"c0", "c1"}

Bit(set, b, weight) == IF b \in set THEN weight ELSE 0

MCFragNum ==
  [f \in SUBSET MCFragBits |-> Bit(f, "f0", 1) + Bit(f, "f1", 2)]
MCFragPattern ==
  [n \in 0 .. 3 |-> CHOOSE f \in SUBSET MCFragBits : MCFragNum[f] = n]
MCIdNum == [id \in SUBSET MCIdBits |-> Bit(id, "i0", 1) + Bit(id, "i1", 2)]

\* The slices of t1 are numbered 1 and 2.
MCFragBase == [id \in SUBSET MCIdBits |-> MCIdNum[id] % 3]
\* Those of t1 are numbered 3 and, when the u16 has wrapped, 0.
WrapFragBase == [id \in SUBSET MCIdBits |-> 3]

MCTx == {"t0", "t1", "t2", "t3"}
\* t3 clashes with t0.
MCTxId48 == [t0 |-> {"i1"}, t1 |-> {"i0"}, t2 |-> {"i0", "i1"}, t3 |-> {"i1"}]

\* Bit c1 says that there is a second slice.
MCTxContents == [t0 |-> <<{}>>, t1 |-> <<{"c1"}, {"c0", "c1"}>>, t2 |-> <<{"c0"}>>,
                 t3 |-> <<{"c0", "c1"}, {}>>]
MCExpected == [c \in SUBSET MCContentBits |-> IF "c1" \in c THEN 2 ELSE 1]

MCRebuild(c) ==
  IF \E t \in MCTx : MCTxContents[t] = c
  THEN CHOOSE t \in MCTx : MCTxContents[t] = c
  ELSE "none"

-----------------------------------------------------------------------------
SlicesOf(txs) == {item[2] : item \in Items(txs)}

\* A behaviour of MurmurHash3 gives each genuine slice one of the placements; a
\* slice that is none, the XOR of several, goes somewhere that depends on it.
\* The slices of a transaction nobody has are all placed alike.
Placements(txs, P) ==
  {[s \in SlicesOf(Tx) |-> IF s \in SlicesOf(txs) THEN h[s] ELSE <<0, 1, 2>>] :
     h \in [SlicesOf(txs) -> P]}

MCMurmurHash3(h, i, s) ==
  IF s \in DOMAIN h THEN h[s][i + 1]
  ELSE MCFragNum[s \cap MCFragBits] + i * (1 + Cardinality(s))

\* Three buckets, two buckets, and one bucket hit three times.
Many == Placements(MCTx \ {"t3"}, {<<0, 1, 2>>, <<1, 2, 3>>, <<0, 3, 3>>, <<2, 2, 2>>})
Few == Placements(MCTx \ {"t2"}, {<<0, 1, 2>>, <<0, 3, 3>>})
MCHashFns == Many \cup Few
FewHashFns == Placements(MCTx \ {"t3"}, {<<0, 1, 2>>, <<0, 3, 3>>})

WithoutClash == HashFns \cap (Many \cup FewHashFns)
WithClash == HashFns \cap Few

MCSizes == {4}

\* The flags are uninitialised; FALSE is the value under which iblt_todo::del
\* throws.
MCInit ==
  /\ manually_removed = [t \in TodoTypes |-> FALSE]
  /\ block \in SUBSET Tx
  /\ mempool \in SUBSET Tx
  /\ \/ "t3" \notin block \cup mempool /\ hf \in WithoutClash
     \/ "t3" \in block \cup mempool /\ "t2" \notin block \cup mempool
        /\ hf \in WithClash
  /\ DecodeInit

MCSpec == MCInit /\ [][DecodeNext]_vars
FairMCSpec == MCSpec /\ WF_vars(DecodeNext)
=============================================================================
