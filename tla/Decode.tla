------------------------------- MODULE Decode -------------------------------
(***************************************************************************)
(* recover_block (iblt-decode.cpp): a receiver has a peer's raw IBLT of a  *)
(* block and its own mempool; it subtracts the mempool's IBLT, peels the   *)
(* difference, reassembles the slices it collected into transactions and   *)
(* compares what it then has with the block.                               *)
(*                                                                         *)
(* The difference is the object of module Iblt, whose steps interleave     *)
(* with the steps of the loops here exactly as the calls do.               *)
(***************************************************************************)
EXTENDS Iblt

CONSTANTS
  Sizes,        \* numbers of buckets the sender may have chosen
  IdNum,        \* the number that a txidbits field is, for operator<
  Rebuild(_)    \* rebuild_tx's parse of a list of contents: a transaction, or
                \* something not in Tx when it fails or nobody has the result

VARIABLES
  block,        \* the sender's block: never changes
  mempool,      \* the receiver's mempool: never changes
  pool,         \* what is left in ibltpool::tx_by_txid48
  slices,       \* std::set<txslice> slices
  phase,        \* which loop of recover_block runs
  left,         \* slices the assembly loop has not reached
  transaction,  \* the slices put together so far: count is its length
  expected,     \* transaction.size()
  recovered,    \* transactions put together
  result        \* what recover_block returns

dvars == <<block, mempool, pool, slices, phase, left, transaction, expected,
           recovered, result>>
vars == <<ivars, dvars>>

\* txidbits is compared as a number, no two of which are one field; and rebuild_tx
\* undoes slice_tx.  "learned", the owner of what has none, is no transaction.
ASSUME DecodeAssumption ==
  /\ Sizes \subseteq Nat \ {0}
  /\ IdNum \in [SUBSET IdBits -> Nat]
  /\ \A a, b \in SUBSET IdBits : IdNum[a] = IdNum[b] => a = b
  /\ "learned" \notin Tx
  /\ \A t \in Tx : Rebuild(TxContents[t]) = t

IdsDistinct(txs) == \A t, u \in txs : TxId48[t] = TxId48[u] => t = u

\* Mutant: two slices of one transaction compare equal.
Before_IdOnly(s, u) == IdNum[get_txid48(s)] < IdNum[get_txid48(u)]

\* operator<(txslice, txslice): by txidbits, then by fragid.
Before(s, u) ==
  \/ IdNum[get_txid48(s)] < IdNum[get_txid48(u)]
  \/ get_txid48(s) = get_txid48(u) /\ fragid(s) < fragid(u)

SameKey(s, u) == ~Before(s, u) /\ ~Before(u, s)

\* The slice the loop over the std::set comes to next.
FirstLeft == CHOOSE s \in left : \A u \in left : ~Before(u, s)

-----------------------------------------------------------------------------
\* The receiver builds its own IBLT with the sender's size and seed.  Two
\* transactions of the mempool with one txid48 never get this far: the
\* constructor of ibltpool does not return (tx_tree::insert).
DecodeInit ==
  /\ hf \in HashFns
  /\ block \in SUBSET Tx
  /\ mempool \in {m \in SUBSET Tx : IdsDistinct(m)}
  /\ \E size \in Sizes :
       /\ riblt = Sketch(hf, size, Items(block), {})
       /\ ours = Sketch(hf, size, Items(mempool), {})
  /\ todo = NoTodo
  /\ manually_removed \in [TodoTypes -> BOOLEAN]
  /\ pc = "ctor"
  /\ fixed = 0
  /\ work = <<>>
  /\ hashno = 0
  /\ dir = 1
  /\ cancelled = {}
  /\ pool = mempool
  /\ slices = {}
  /\ phase = "peel"
  /\ left = {}
  /\ transaction = <<>>
  /\ expected = 0
  /\ recovered = <<>>
  /\ result = FALSE

Return(r) == phase' = "done" /\ result' = r

\* Inside a call on the difference.
DiffStep == (Construct \/ Fixup \/ FrobBucket) /\ UNCHANGED dvars

\* next gave OURS: remove the whole transaction, or fail when nobody has it.
PeelOurs ==
  LET found == {t \in pool : TxId48[t] = get_txid48(NextSlice)}
  IN /\ phase = "peel"
     /\ pc = "idle"
     /\ NextType(todo) = OURS
     /\ \/ /\ found = {}
           /\ Return(FALSE)
           /\ UNCHANGED <<ivars, pool>>
        \/ \E t \in found :
             /\ RemoveOurTx(t)
             /\ pool' = pool \ {t}
             /\ UNCHANGED <<phase, result>>
     /\ UNCHANGED <<block, mempool, slices, left, transaction, expected, recovered>>

\* Mutant: a slice that was seen before is peeled again.
PeelTheirs_NoProgress ==
  /\ phase = "peel"
  /\ pc = "idle"
  /\ NextType(todo) = THEIRS
  /\ slices' = slices \cup {NextSlice}
  /\ RemoveTheirSlice(NextSlice)
  /\ UNCHANGED <<phase, result, block, mempool, pool, left, transaction, expected,
                 recovered>>

\* next gave THEIRS: keep the slice, or fail when its key is there already.
PeelTheirs ==
  /\ phase = "peel"
  /\ pc = "idle"
  /\ NextType(todo) = THEIRS
  /\ IF \E s \in slices : SameKey(s, NextSlice)
     THEN Return(FALSE) /\ UNCHANGED <<ivars, slices>>
     ELSE /\ slices' = slices \cup {NextSlice}
          /\ RemoveTheirSlice(NextSlice)
          /\ UNCHANGED <<phase, result>>
  /\ UNCHANGED <<block, mempool, pool, left, transaction, expected, recovered>>

\* next gave NEITHER.
PeelEnd ==
  /\ phase = "peel"
  /\ pc = "idle"
  /\ NextType(todo) = NEITHER
  /\ IF Empty(riblt)
     THEN phase' = "assemble" /\ left' = slices /\ UNCHANGED result
     ELSE Return(FALSE) /\ UNCHANGED left
  /\ UNCHANGED <<ivars, block, mempool, pool, slices, transaction, expected, recovered>>

-----------------------------------------------------------------------------
\* The assembly loop: does slice s start a transaction, or continue one?
Starts(s) ==
  /\ fragid(s) = frag_base(get_txid48(s))
  /\ Expected[contents(s)] \in 1 .. U16 - 1

\* fragid + 1 is an int: 65535 is followed by nothing.
Continues(s) ==
  LET last == transaction[Len(transaction)]
  IN get_txid48(s) = get_txid48(last) /\ fragid(s) = fragid(last) + 1

Assemble ==
  /\ phase = "assemble"
  /\ left # {}
  /\ LET s == FirstLeft
         grown == Append(transaction, s)
         size == IF transaction = <<>> THEN Expected[contents(s)] ELSE expected
         tx == Rebuild([i \in DOMAIN grown |-> contents(grown[i])])
     IN IF \/ (IF transaction = <<>> THEN ~Starts(s) ELSE ~Continues(s))
           \/ Len(grown) = size /\ tx \notin Tx
        THEN Return(FALSE) /\ UNCHANGED <<left, transaction, expected, recovered>>
        ELSE /\ left' = left \ {s}
             /\ expected' = size
             /\ IF Len(grown) = size
                THEN transaction' = <<>> /\ recovered' = Append(recovered, tx)
                ELSE transaction' = grown /\ UNCHANGED recovered
             /\ UNCHANGED <<phase, result>>
  /\ UNCHANGED <<ivars, block, mempool, pool, slices>>

Got == {recovered[i] : i \in DOMAIN recovered}

\* Mutant: what was left in the pool is not taken out of the block.
Compare_ForgetsPool ==
  /\ phase = "assemble"
  /\ left = {}
  /\ Return(transaction = <<>> /\ Got = block)
  /\ UNCHANGED <<ivars, block, mempool, pool, slices, left, transaction,
                 expected, recovered>>

\* Erase from the block everything recovered and everything left in the pool.
Compare ==
  /\ phase = "assemble"
  /\ left = {}
  /\ Return(/\ transaction = <<>>
            /\ \A i, j \in DOMAIN recovered : recovered[i] = recovered[j] => i = j
            /\ Got \cap pool = {}
            /\ Got \cup pool = block)
  /\ UNCHANGED <<ivars, block, mempool, pool, slices, left, transaction,
                 expected, recovered>>

\* recover_block has returned.
Returned == phase = "done" /\ UNCHANGED vars

DecodeNext ==
  DiffStep \/ PeelOurs \/ PeelTheirs \/ PeelEnd \/ Assemble \/ Compare \/ Returned

DecodeSpec == DecodeInit /\ [][DecodeNext]_vars

\* One thread runs recover_block: it takes its next step while it has one.
FairDecodeSpec == DecodeSpec /\ WF_vars(DecodeNext)
-----------------------------------------------------------------------------
DecodeTypeOK ==
  /\ IbltTypeOK
  /\ block \in SUBSET Tx
  /\ mempool \in SUBSET Tx
  /\ pool \in SUBSET mempool
  /\ slices \in SUBSET Slice
  /\ phase \in {"peel", "assemble", "done"}
  /\ left \in SUBSET slices
  /\ transaction \in Seq(slices)
  /\ expected \in Nat
  /\ recovered \in Seq(Tx)
  /\ result \in BOOLEAN

Missing == block \ mempool
Extra == mempool \ block

\* What the receiver learned, as items: where they came from is not known.
Learned == {<<"learned", s>> : s \in slices}

\* Between two iterations of the peeling loop, after any number of false
\* singletons, the difference is the IBLT one would build from the block, the
\* transactions still in the pool and the slices collected: the common
\* transactions and everything peeled have cancelled, bit for bit
\* (iblt::iblt, remove_our_tx, remove_their_slice).
Conservation ==
  phase = "peel" /\ pc = "idle" =>
    riblt = Sketch(hf, riblt.size, Items(block), Items(pool) \cup Learned)

\* With transactions missing on one side only nothing cancels out wrongly:
\* every slice collected is a slice of a missing transaction, and no transaction
\* of the block is taken out of the pool (recover_block's loop).
OneSided == mempool \subseteq block \/ block \subseteq mempool

OneSidedIsGenuine ==
  OneSided =>
    /\ \A s \in slices : \E item \in Items(Missing) : item[2] = s
    /\ block \cap mempool \subseteq pool

\* A set of items can be peeled when each part of it leaves some bucket with a
\* single hit.  Ours are peeled by whole transactions.
AloneSomewhere(items) ==
  \E n \in Buckets(riblt.size) : Cardinality(Hits(hf, riblt.size, items, n)) = 1

MissingPeels == \A I \in SUBSET Items(Missing) : I # {} => AloneSomewhere(I)
ExtraPeels == \A X \in SUBSET Extra : X # {} => AloneSomewhere(Items(X))

\* Whatever order the priorities impose, recover_block succeeds exactly when
\* the difference can be peeled in some order: it never gives up early, takes a
\* wrong turn, or fails to reassemble what it peeled.
SucceedsIffPeelable ==
  phase = "done" /\ OneSided /\ IdsDistinct(block \cup mempool) =>
    (result <=> MissingPeels /\ ExtraPeels)

\* Once the receiver has peeled the slices of exactly the missing transactions
\* and dropped exactly the extra ones, it returns success: the README's
\* "7. Recover iblt as normal".
GenuineIsEnough ==
  /\ phase = "done"
  /\ IdsDistinct(block)
  /\ slices = {item[2] : item \in Items(Missing)}
  /\ pool = block \cap mempool
  => result

\* Peeling cannot go on for ever, though a false singleton may put back what it
\* takes away: each turn of the loop takes a transaction out of the pool or adds
\* a slice with a new key (recover_block, "Make sure we make progress").
Terminates == <>(phase = "done")
=============================================================================
