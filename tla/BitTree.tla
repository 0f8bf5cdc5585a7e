------------------------------ MODULE BitTree ------------------------------
(***************************************************************************)
(* The bit tree over the txid48s of a mempool, struct tx_tree (txtree.h)   *)
(* and the searches of class ibltpool (ibltpool.cpp): a transaction is     *)
(* found by a prefix of its txid48, and each is given the shortest prefix  *)
(* nobody else has.  TxTree builds one call by call; this module says what *)
(* a tree is and what is read from it.                                     *)
(*                                                                         *)
(* A tree is modelled by its slots that are not NULL: a function from the  *)
(* path that leads to a slot (the sides taken, from the root) to Node or   *)
(* to the transaction of the leaf.                                         *)
(***************************************************************************)
EXTENDS Integers, FiniteSets, SequencesExt

CONSTANTS
  Tx,        \* the transactions anyone has
  IdBitLen,  \* txid48::BITS, 48
  IdBits     \* IdBits[t]: the bits of the txid48 of t, least significant first

Sides == {0, 1}
Node == "node"

ASSUME TreeAssumption ==
  /\ IdBitLen \in Nat \ {0}
  /\ IdBits \in [Tx -> [1 .. IdBitLen -> Sides]]
  /\ Node \notin Tx

\* get_id() >> depth & 1: the upper bits of the u64 are 0.
Side(t, depth) == IF depth < IdBitLen THEN IdBits[t][depth + 1] ELSE 0

\* txid48::matches: does the txid48 of t start with these bits?
matches(t, bits) == \A i \in DOMAIN bits : IdBits[t][i] = bits[i]

SameId(t, u) == IdBits[t] = IdBits[u]
IdsDistinct(txs) == \A t, u \in txs : SameId(t, u) => t = u

Extend(f, path, x) == [p \in DOMAIN f \cup {path} |-> IF p = path THEN x ELSE f[p]]

-----------------------------------------------------------------------------
\* Mutant: the bit that tells the leaf from its neighbour is not pushed.
get_unique_bitid_Short(tr, t) ==
  LET path(n) == SubSeq([i \in 1 .. IdBitLen |-> IdBits[t][i]], 1, n)
      end == CHOOSE n \in 1 .. IdBitLen :
               /\ tr[path(n)] # Node
               /\ \A m \in 1 .. n - 1 : tr[path(m)] = Node
  IN path(end - 1)

\* get_unique_bitid(txid48 of t): follow the bits while there are nodes.  The
\* loop does not test for an empty slot: t must be in the tree.
get_unique_bitid(tr, t) ==
  LET path(n) == SubSeq([i \in 1 .. IdBitLen |-> IdBits[t][i]], 1, n)
      end == CHOOSE n \in 1 .. IdBitLen :
               /\ tr[path(n)] # Node
               /\ \A m \in 1 .. n - 1 : tr[path(m)] = Node
  IN path(end)

\* gather: every leaf below a node.
gather(tr, path) ==
  {tr[p] : p \in {q \in DOMAIN tr : tr[q] # Node /\ IsPrefix(path, q)}}

\* Mutant: a leaf met half way is taken without comparing the other bits.
get_txs_AnyLeaf(tr, bits) ==
  LET ends == {n \in 1 .. Len(bits) :
                 \/ SubSeq(bits, 1, n) \notin DOMAIN tr
                 \/ tr[SubSeq(bits, 1, n)] # Node}
      first == SubSeq(bits, 1, CHOOSE n \in ends : \A m \in ends : n <= m)
  IN IF ends = {} THEN gather(tr, bits)
     ELSE {t \in Tx : first \in DOMAIN tr /\ tr[first] = t}

\* ibltpool::get_txs: follow the bits; an empty slot or a leaf ends the search,
\* and the end of the bits selects everything from here down.
get_txs(tr, bits) ==
  LET ends == {n \in 1 .. Len(bits) :
                 \/ SubSeq(bits, 1, n) \notin DOMAIN tr
                 \/ tr[SubSeq(bits, 1, n)] # Node}
      first == SubSeq(bits, 1, CHOOSE n \in ends : \A m \in ends : n <= m)
  IN IF ends = {} THEN gather(tr, bits)
     ELSE {t \in Tx : first \in DOMAIN tr /\ tr[first] = t /\ matches(t, bits)}

\* The tree of a set of transactions, stated without building it: a prefix of a
\* txid48 is a node when two transactions share it, and a leaf when one has it
\* to itself but not the prefix that is one shorter.
TreeOf(txs) ==
  LET Having(p) == {t \in txs : matches(t, p)}
      shared(p) == \E t, u \in Having(p) : t # u
      Paths == {p \in UNION {[1 .. n -> Sides] : n \in 1 .. IdBitLen} :
                  Having(p) # {} /\ (Len(p) > 1 => shared(Front(p)))}
  IN [p \in Paths |-> IF shared(p) THEN Node ELSE CHOOSE t \in Having(p) : TRUE]
=============================================================================
