----------------------------- MODULE Heuristic -----------------------------
(***************************************************************************)
(* The filter iblt-selection-heuristic (iblt-selection-heuristic.cpp).  For*)
(* each block the first mempool line is the sender's: a fee hint is chosen *)
(* and the exceptions to it are listed by the shortest prefix of their     *)
(* txid48.  Every other mempool is cut down to what the hint and the two   *)
(* lists select, which should be the part of the block it holds.           *)
(***************************************************************************)
EXTENDS BitTree

CONSTANTS
  Fee,      \* tx::fee
  Length    \* bitcoin_tx::length()

\* Mempools and blocks are containers: they hold finitely many transactions.
ASSUME FeeAssumption ==
  /\ IsFiniteSet(Tx)
  /\ Fee \in [Tx -> Nat]
  /\ Length \in [Tx -> Nat \ {0}]

VARIABLES
  block,      \* the transactions of the block line
  sender,     \* mempool of the first peer
  bi, mi,     \* indices into bvec and mvec
  fee, best_fee, num_txs_excepted,     \* locals of estimate_fees
  added_list, removed_list,
  mempool,    \* mempool of the peer at hand
  rest,       \* what the loop at hand has not reached: transactions or prefixes
  newmempool,
  pc

estimating == <<bi, mi, fee, best_fee, num_txs_excepted>>
lists == <<added_list, removed_list>>
hvars == <<block, sender, estimating, lists, mempool, rest, newmempool, pc>>

\* tx::satoshi_per_byte, in the precedence C++ gives it: fee << (13 / length).
satoshi_per_byte(t) == Fee[t] * 2 ^ (13 \div Length[t])

\* std::sort with fee_compare: the order of those at one fee does not matter.
Sorted(txs) ==
  CHOOSE vec \in [1 .. Cardinality(txs) -> txs] :
    /\ IsInjective(vec)
    /\ \A i, j \in DOMAIN vec :
         i <= j => satoshi_per_byte(vec[i]) <= satoshi_per_byte(vec[j])
bvec == Sorted(block)
mvec == Sorted(sender \ block)

\* The two loops of next_fee: past the transactions at this fee.
PastFee(vec, i, at) ==
  CHOOSE n \in i .. Len(vec) :
    /\ \A m \in i + 1 .. n : satoshi_per_byte(vec[m]) = at
    /\ n < Len(vec) => satoshi_per_byte(vec[n + 1]) # at

\* estimate_fees returns best_fee.
fee_hint == best_fee

-----------------------------------------------------------------------------
HeuristicInit ==
  /\ block = {} /\ sender = {}
  /\ bi = 0 /\ mi = 0 /\ fee = 0 /\ best_fee = 0 /\ num_txs_excepted = 0
  /\ added_list = {} /\ removed_list = {}
  /\ mempool = {} /\ rest = {} /\ newmempool = {}
  /\ pc = "start"

\* read_blockline, when the lines of the block before have run out: the lists are
\* declared in the loop over blocks, so they start empty for each.
ReadBlock(b) ==
  /\ pc \in {"start", "first", "peers"}
  /\ block' = b /\ sender' = {}
  /\ bi' = 0 /\ mi' = 0 /\ fee' = 0 /\ best_fee' = 0 /\ num_txs_excepted' = 0
  /\ added_list' = {} /\ removed_list' = {}
  /\ mempool' = {} /\ rest' = {} /\ newmempool' = {}
  /\ pc' = "first"

\* Mutant: the whole mempool is counted as excepted at a fee of 0.
ReadSender_CountsAll(m) ==
  /\ pc = "first"
  /\ IdsDistinct(m)
  /\ sender' = m /\ mempool' = m
  /\ num_txs_excepted' = Cardinality(m)
  /\ pc' = "estimate"
  /\ UNCHANGED <<block, bi, mi, fee, best_fee, lists, rest, newmempool>>

\* read_mempool and the ibltpool for it, for the first peer: estimate_fees begins
\* with a fee of 0, which excepts everything that is not in the block.
ReadSender(m) ==
  /\ pc = "first"
  /\ IdsDistinct(m)
  /\ sender' = m /\ mempool' = m
  /\ num_txs_excepted' = Cardinality(m \ block)
  /\ pc' = "estimate"
  /\ UNCHANGED <<block, bi, mi, fee, best_fee, lists, rest, newmempool>>

\* Mutant: the cost is taken from the indices before next_fee moves them.
Estimate_StaleCost ==
  LET b == PastFee(bvec, bi, fee)
      m == PastFee(mvec, mi, fee)
      heads == {bvec[i] : i \in {b + 1} \cap DOMAIN bvec}
                 \cup {mvec[i] : i \in {m + 1} \cap DOMAIN mvec}
      cost == bi + Len(mvec) - mi
  IN /\ pc = "estimate"
     /\ heads # {}
     /\ bi' = b /\ mi' = m
     /\ fee' = Min({satoshi_per_byte(t) : t \in heads})
     /\ num_txs_excepted' = IF cost < num_txs_excepted THEN cost ELSE num_txs_excepted
     /\ best_fee' = IF cost < num_txs_excepted THEN fee' ELSE best_fee
     /\ UNCHANGED <<block, sender, lists, mempool, rest, newmempool, pc>>

\* A round of estimate_fees that finds a next fee, and the cost of it.
Estimate ==
  LET b == PastFee(bvec, bi, fee)
      m == PastFee(mvec, mi, fee)
      heads == {bvec[i] : i \in {b + 1} \cap DOMAIN bvec}
                 \cup {mvec[i] : i \in {m + 1} \cap DOMAIN mvec}
      cost == b + Len(mvec) - m
  IN /\ pc = "estimate"
     /\ heads # {}
     /\ bi' = b /\ mi' = m
     /\ fee' = Min({satoshi_per_byte(t) : t \in heads})
     /\ \/ /\ cost < num_txs_excepted
           /\ num_txs_excepted' = cost
           /\ best_fee' = fee'
        \/ /\ cost >= num_txs_excepted
           /\ UNCHANGED <<num_txs_excepted, best_fee>>
     /\ UNCHANGED <<block, sender, lists, mempool, rest, newmempool, pc>>

\* next_fee finds none, and the loop over the mempool of the sender begins.
Estimated ==
  /\ pc = "estimate"
  /\ PastFee(bvec, bi, fee) = Len(bvec)
  /\ PastFee(mvec, mi, fee) = Len(mvec)
  /\ rest' = sender
  /\ pc' = "encode"
  /\ UNCHANGED <<block, sender, estimating, lists, mempool, newmempool>>

\* A transaction of the sender, in the order of the map: an exception to the hint
\* is listed by its prefix.
Listed(list, t, exception) ==
  IF exception THEN list \cup {get_unique_bitid(TreeOf(sender), t)} ELSE list

\* Mutant: a transaction at the hint counts as below it.
Encode_AtHintIsLow(t) ==
  LET low == satoshi_per_byte(t) <= fee_hint
  IN /\ pc = "encode"
     /\ t \in rest
     /\ rest' = rest \ {t}
     /\ added_list' = Listed(added_list, t, low /\ t \in block)
     /\ removed_list' = Listed(removed_list, t, ~low /\ t \notin block)
     /\ UNCHANGED <<block, sender, estimating, mempool, newmempool, pc>>

Encode(t) ==
  LET low == satoshi_per_byte(t) < fee_hint
  IN /\ pc = "encode"
     /\ t \in rest
     /\ rest' = rest \ {t}
     /\ added_list' = Listed(added_list, t, low /\ t \in block)
     /\ removed_list' = Listed(removed_list, t, ~low /\ t \notin block)
     /\ UNCHANGED <<block, sender, estimating, mempool, newmempool, pc>>

\* The lines for the first peer are written, and the next is read.
Encoded ==
  /\ pc = "encode" /\ rest = {}
  /\ pc' = "peers"
  /\ UNCHANGED <<block, sender, estimating, lists, mempool, rest, newmempool>>

\* Mutant: what only just meets the hint is not included.
ReadPeer_AboveHint(m) ==
  /\ pc = "peers"
  /\ IdsDistinct(m)
  /\ mempool' = m
  /\ newmempool' = {t \in m : satoshi_per_byte(t) > fee_hint}
  /\ rest' = added_list
  /\ pc' = "add"
  /\ UNCHANGED <<block, sender, estimating, lists>>

\* Another peer: its newmempool starts with every transaction that meets the hint.
ReadPeer(m) ==
  /\ pc = "peers"
  /\ IdsDistinct(m)
  /\ mempool' = m
  /\ newmempool' = {t \in m : satoshi_per_byte(t) >= fee_hint}
  /\ rest' = added_list
  /\ pc' = "add"
  /\ UNCHANGED <<block, sender, estimating, lists>>

\* A list is an array of unordered sets: the shorter prefixes come first.
NextPrefix(bits) == bits \in rest /\ \A other \in rest : Len(bits) <= Len(other)

AddAdded(bits) ==
  /\ pc = "add"
  /\ NextPrefix(bits)
  /\ newmempool' = newmempool \cup get_txs(TreeOf(mempool), bits)
  /\ rest' = rest \ {bits}
  /\ UNCHANGED <<block, sender, estimating, lists, mempool, pc>>

Added ==
  /\ pc = "add" /\ rest = {}
  /\ rest' = removed_list
  /\ pc' = "remove"
  /\ UNCHANGED <<block, sender, estimating, lists, mempool, newmempool>>

RemoveRemoved(bits) ==
  /\ pc = "remove"
  /\ NextPrefix(bits)
  /\ newmempool' = newmempool \ get_txs(TreeOf(mempool), bits)
  /\ rest' = rest \ {bits}
  /\ UNCHANGED <<block, sender, estimating, lists, mempool, pc>>

\* write_mempool.
Removed ==
  /\ pc = "remove" /\ rest = {}
  /\ pc' = "peers"
  /\ UNCHANGED <<block, sender, estimating, lists, mempool, rest, newmempool>>

HeuristicNext ==
  \/ \E txs \in SUBSET Tx : ReadBlock(txs) \/ ReadSender(txs) \/ ReadPeer(txs)
  \/ Estimate \/ Estimated
  \/ \E t \in Tx : Encode(t)
  \/ Encoded
  \/ \E bits \in rest : AddAdded(bits) \/ RemoveRemoved(bits)
  \/ Added \/ Removed

HeuristicSpec == HeuristicInit /\ [][HeuristicNext]_hvars

-----------------------------------------------------------------------------
BitIds == UNION {[1 .. n -> Sides] : n \in 1 .. IdBitLen}

HeuristicTypeOK ==
  /\ block \in SUBSET Tx /\ sender \in SUBSET Tx
  /\ bi \in 0 .. Cardinality(block) /\ mi \in 0 .. Cardinality(sender \ block)
  /\ fee \in {0} \cup {satoshi_per_byte(t) : t \in Tx}
  /\ best_fee \in 0 .. fee
  /\ num_txs_excepted \in 0 .. Cardinality(sender \ block)
  /\ added_list \in SUBSET BitIds /\ removed_list \in SUBSET BitIds
  /\ mempool \in SUBSET Tx /\ newmempool \in SUBSET mempool
  /\ rest \in SUBSET (IF pc = "encode" THEN Tx ELSE BitIds)
  /\ pc \in {"start", "first", "estimate", "encode", "peers", "add", "remove"}

\* What estimate_fees counts (the comment of line 65): the transactions of the
\* block below a threshold, and those only in the mempool that are not.
Exceptions(threshold) ==
  {t \in block : satoshi_per_byte(t) < threshold}
    \cup {t \in sender \ block : satoshi_per_byte(t) >= threshold}

\* The hint has as few exceptions as zero and every fee that occurs, though the
\* walk over two sorted vectors only ever keeps a running count.
HintIsBestOfFees ==
  pc \in {"encode", "peers"} =>
    /\ num_txs_excepted = Cardinality(Exceptions(fee_hint))
    /\ \A t \in block \cup sender :
         num_txs_excepted <= Cardinality(Exceptions(satoshi_per_byte(t)))

\* Every exception the sender holds has a prefix of its own in the lists.  What the
\* estimate also counts, and nothing lists, is what the sender lacks of its block.
ListedAsEstimated ==
  pc = "peers" =>
    Cardinality(added_list) + Cardinality(removed_list)
      = num_txs_excepted - Cardinality(Exceptions(fee_hint) \ sender)

\* A prefix may also select transactions it was not made for, but never one of the
\* sender's: of those a peer shares with the sender it keeps exactly the block's.
SharedAgree ==
  pc = "remove" /\ rest = {} =>
    newmempool \cap sender = block \cap sender \cap mempool

\* "Minimum fee per byte (fixed point at 2^13)" (README.md:30): the hint drops no
\* transaction that pays more for a byte than one it keeps.
FeeRate(t) == (Fee[t] * 2 ^ 13) \div Length[t]
HintIsAFeeRate ==
  pc = "add" /\ rest = added_list =>
    \A kept \in newmempool, dropped \in mempool \ newmempool :
      FeeRate(dropped) <= FeeRate(kept)
=============================================================================
