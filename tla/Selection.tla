----------------------------- MODULE Selection -----------------------------
(***************************************************************************)
(* How the corpus simulator selects what goes into an IBLT (iblt-test.cpp):*)
(* generate_block lists the exceptions to a minimum fee per byte by their  *)
(* prefixes in the generator's mempool, and decode_block picks candidates  *)
(* from the receiver's mempool, whose IBLT is subtracted from the block's. *)
(***************************************************************************)
EXTENDS BitTree

CONSTANTS
  Rate,  \* tx::satoshi_per_byte, see module Heuristic
  min_fee_per_byte   \* fixed, 10 << 13

ASSUME RateAssumption ==
  /\ Rate \in [Tx -> Nat]
  /\ min_fee_per_byte \in Nat

VARIABLES
  mined,           \* the block: never changes
  pool,            \* the generator's mempool with the block: never changes
  receiver,         \* the receiver's: never changes
  added, removed,  \* the two txbitsSets
  candidates,
  pending,            \* what the loop at hand has not reached
  stage

svars == <<mined, pool, receiver, added, removed, candidates, pending, stage>>

Low(t) == Rate[t] < min_fee_per_byte
Prefix(t) == get_unique_bitid(TreeOf(pool), t)

SelectionInit ==
  /\ pool \in {m \in SUBSET Tx : IdsDistinct(m)}
  /\ mined \in SUBSET pool
  /\ receiver \in {m \in SUBSET Tx : IdsDistinct(m)}
  /\ added = {} /\ removed = {}
  /\ candidates = {}
  /\ pending = mined
  /\ stage = "add exceptions"

\* generate_block, a transaction of the block.
ListAdded(t) ==
  /\ stage = "add exceptions"
  /\ t \in pending
  /\ pending' = pending \ {t}
  /\ added' = added \cup (IF Low(t) THEN {Prefix(t)} ELSE {})
  /\ UNCHANGED <<mined, pool, receiver, removed, candidates, stage>>

EndAdded ==
  /\ stage = "add exceptions" /\ pending = {}
  /\ stage' = "remove exceptions"
  /\ pending' = pool
  /\ UNCHANGED <<mined, pool, receiver, added, removed, candidates>>

\* Mutant: only what is above the minimum fee is listed.
ListRemoved_Above(t) ==
  /\ stage = "remove exceptions"
  /\ t \in pending
  /\ pending' = pending \ {t}
  /\ removed' = removed \cup
       (IF Rate[t] > min_fee_per_byte /\ t \notin mined THEN {Prefix(t)} ELSE {})
  /\ UNCHANGED <<mined, pool, receiver, added, candidates, stage>>

\* Mutant: what is in the block is listed as well.
ListRemoved_Block(t) ==
  /\ stage = "remove exceptions"
  /\ t \in pending
  /\ pending' = pending \ {t}
  /\ removed' = removed \cup (IF ~Low(t) THEN {Prefix(t)} ELSE {})
  /\ UNCHANGED <<mined, pool, receiver, added, candidates, stage>>

\* generate_block, a transaction of the mempool.
ListRemoved(t) ==
  /\ stage = "remove exceptions"
  /\ t \in pending
  /\ pending' = pending \ {t}
  /\ removed' = removed \cup (IF ~Low(t) /\ t \notin mined THEN {Prefix(t)} ELSE {})
  /\ UNCHANGED <<mined, pool, receiver, added, candidates, stage>>

\* decode_block takes its whole mempool, whatever it pays, and begins with what to
\* remove.
TakeAll ==
  /\ stage = "remove exceptions" /\ pending = {}
  /\ candidates' = receiver
  /\ pending' = removed
  /\ stage' = "remove"
  /\ UNCHANGED <<mined, pool, receiver, added, removed>>

\* A set is an array by length: the shorter prefixes come first.
ShortestFirst(bits) == bits \in pending /\ \A other \in pending : Len(bits) <= Len(other)

DropRemoved(bits) ==
  /\ stage = "remove"
  /\ ShortestFirst(bits)
  /\ candidates' = candidates \ get_txs(TreeOf(receiver), bits)
  /\ pending' = pending \ {bits}
  /\ UNCHANGED <<mined, pool, receiver, added, removed, stage>>

EndRemove ==
  /\ stage = "remove" /\ pending = {}
  /\ pending' = added
  /\ stage' = "add"
  /\ UNCHANGED <<mined, pool, receiver, added, removed, candidates>>

\* Only transactions below the minimum fee are put in, or back in.
PutAdded(bits) ==
  /\ stage = "add"
  /\ ShortestFirst(bits)
  /\ candidates' = candidates \cup {t \in get_txs(TreeOf(receiver), bits) : Low(t)}
  /\ pending' = pending \ {bits}
  /\ UNCHANGED <<mined, pool, receiver, added, removed, stage>>

\* The candidates' IBLT is built: module Decode goes on from here.
Selected == stage = "add" /\ pending = {} /\ UNCHANGED svars

SelectionNext ==
  \/ \E t \in Tx : ListAdded(t) \/ ListRemoved(t)
  \/ EndAdded \/ TakeAll
  \/ \E bits \in pending : DropRemoved(bits) \/ PutAdded(bits)
  \/ EndRemove \/ Selected

SelectionSpec == SelectionInit /\ [][SelectionNext]_svars

-----------------------------------------------------------------------------
PrefixBits == UNION {[1 .. n -> Sides] : n \in 1 .. IdBitLen}

SelectionTypeOK ==
  /\ mined \in SUBSET pool /\ pool \in SUBSET Tx /\ receiver \in SUBSET Tx
  /\ added \in SUBSET PrefixBits /\ removed \in SUBSET PrefixBits
  /\ candidates \in SUBSET receiver
  /\ stage \in {"add exceptions", "remove exceptions", "remove", "add"}
  /\ pending \in SUBSET (IF stage \in {"remove", "add"} THEN PrefixBits ELSE pool)

IsSelected == stage = "add" /\ pending = {}

\* Of what both have, the receiver selects the block and all that is below the minimum
\* fee, which it never leaves out, and no other: a prefix, unique in the generator's
\* mempool, selects and leaves out there what it was listed for.
SelectionIsBlock ==
  IsSelected =>
    candidates \cap pool = {t \in pool \cap receiver : t \in mined \/ Low(t)}

\* iblt-test.cpp of decode_block: "First, take all which exceed the given
\* satoshi_per_byte."  Until what was added is put in, all candidates do.
CandidatesPayTheFee == stage = "remove" => \A t \in candidates : ~Low(t)
=============================================================================
