------------------------------- MODULE TxTree -------------------------------
(***************************************************************************)
(* How the tree of a mempool comes to be: the constructor of class         *)
(* ibltpool (ibltpool.cpp) adds the transactions in the order of an        *)
(* unordered_map, and tx_tree::insert (txtree.h) calls itself down the     *)
(* tree, one step here for one call.                                       *)
(***************************************************************************)
EXTENDS BitTree

CONSTANT MaxDepth   \* calls of insert that there is stack for, or memory for the nodes

ASSUME DepthAssumption == MaxDepth \in Nat /\ MaxDepth >= IdBitLen

VARIABLES
  pooled,   \* argument of the constructor of ibltpool: never changes
  toAdd,     \* transactions its loop has not reached
  tree,      \* ibltpool::tree
  byId,      \* the transactions in ibltpool::tx_by_txid48
  cursor,    \* path of the node whose insert runs
  leaf,      \* its argument
  tree_pc         \* "loop", "insert", "built", or "overflow" of stack or memory

tvars == <<pooled, toAdd, tree, byId, cursor, leaf, tree_pc>>

-----------------------------------------------------------------------------
TreeInit ==
  /\ pooled \in SUBSET Tx
  /\ toAdd = pooled
  /\ tree = <<>>
  /\ byId = {}
  /\ cursor = <<>>
  /\ leaf \in Tx
  /\ tree_pc = "loop"

\* Mutant: insert goes on where the last one ended instead of at the root.
Add_NotAtRoot(t) ==
  /\ tree_pc = "loop"
  /\ toAdd' = toAdd \ {t}
  /\ byId' = IF \E u \in byId : SameId(t, u) THEN byId ELSE byId \cup {t}
  /\ leaf' = t
  /\ tree_pc' = "insert"
  /\ UNCHANGED <<pooled, tree, cursor>>

\* ibltpool::add: the map keeps the first transaction with an id; then insert is
\* called on the root.
Add(t) ==
  /\ tree_pc = "loop"
  /\ toAdd' = toAdd \ {t}
  /\ byId' = IF \E u \in byId : SameId(t, u) THEN byId ELSE byId \cup {t}
  /\ leaf' = t
  /\ cursor' = <<>>
  /\ tree_pc' = "insert"
  /\ UNCHANGED <<pooled, tree>>

\* Mutant: the leaf in the way is dropped when its slot becomes a node.
Insert_DropsLeaf ==
  LET depth == Len(cursor)
      slot == Append(cursor, Side(leaf, depth))
  IN /\ tree_pc = "insert"
     /\ \/ /\ slot \notin DOMAIN tree
           /\ tree' = Extend(tree, slot, leaf)
           /\ tree_pc' = "loop"
           /\ UNCHANGED cursor
        \/ /\ slot \in DOMAIN tree
           /\ tree' = Extend(tree, slot, Node)
           /\ cursor' = slot
           /\ UNCHANGED tree_pc
     /\ UNCHANGED <<pooled, toAdd, byId, leaf>>

\* Mutant: the call that should go on in the node goes on where it was.
Insert_NoDescent ==
  LET slot == Append(cursor, Side(leaf, Len(cursor)))
  IN /\ tree_pc = "insert"
     /\ IF slot \in DOMAIN tree
        THEN UNCHANGED <<tree, tree_pc>>
        ELSE tree' = Extend(tree, slot, leaf) /\ tree_pc' = "loop"
     /\ UNCHANGED <<pooled, toAdd, byId, cursor, leaf>>

\* A call of tx_tree::insert.  A leaf in the way moves into a new node, where
\* inserting it returns at once, and the call goes on in that node.
Insert ==
  LET depth == Len(cursor)
      slot == Append(cursor, Side(leaf, depth))
      down == /\ cursor' = slot
              /\ tree_pc' = IF depth + 1 = MaxDepth THEN "overflow" ELSE "insert"
  IN /\ tree_pc = "insert"
     /\ \/ /\ slot \notin DOMAIN tree
           /\ tree' = Extend(tree, slot, leaf)
           /\ tree_pc' = "loop"
           /\ UNCHANGED cursor
        \/ /\ slot \in DOMAIN tree
           /\ tree[slot] # Node
           /\ tree' = Extend(Extend(tree, slot, Node),
                             Append(slot, Side(tree[slot], depth + 1)), tree[slot])
           /\ down
        \/ /\ slot \in DOMAIN tree
           /\ tree[slot] = Node
           /\ UNCHANGED tree
           /\ down
     /\ UNCHANGED <<pooled, toAdd, byId, leaf>>

Built == tree_pc = "loop" /\ toAdd = {} /\ tree_pc' = "built"
         /\ UNCHANGED <<pooled, toAdd, tree, byId, cursor, leaf>>

Idle == tree_pc \in {"built", "overflow"} /\ UNCHANGED tvars

TreeNext == (\E t \in toAdd : Add(t)) \/ Insert \/ Built \/ Idle

TreeSpec == TreeInit /\ [][TreeNext]_tvars

\* The constructor runs to its end: it is a loop of one thread.
FairTreeSpec == TreeSpec /\ WF_tvars(TreeNext)

-----------------------------------------------------------------------------
Paths(n) == UNION {[1 .. m -> Sides] : m \in 0 .. n}

\* Without a clash the tree is never deeper than an id has bits.
TreeTypeOK ==
  /\ pooled \in SUBSET Tx
  /\ toAdd \in SUBSET pooled
  /\ DOMAIN tree \subseteq
       Paths(IF IdsDistinct(pooled) THEN IdBitLen ELSE MaxDepth + 1) \ {<<>>}
  /\ \A p \in DOMAIN tree : tree[p] \in Tx \cup {Node}
  /\ byId \in SUBSET pooled
  /\ cursor \in Paths(MaxDepth)
  /\ leaf \in Tx
  /\ tree_pc \in {"loop", "insert", "built", "overflow"}

\* Whatever the order of an unordered_map, between two calls of add the tree is
\* the tree of the transactions added, provided their txid48s differ.
TreeIsCanonical ==
  tree_pc = "loop" /\ IdsDistinct(pooled) =>
    tree = TreeOf(pooled \ toAdd) /\ byId = pooled \ toAdd

\* The prefix a transaction is given is its own: get_txs finds it and nothing
\* else by it, and finds something else by any shorter one.
UniqueBitIdIsUnique ==
  tree_pc = "built" =>
    \A t \in pooled :
      LET bits == get_unique_bitid(tree, t)
      IN /\ get_txs(tree, bits) = {t}
         /\ \A n \in 1 .. Len(bits) - 1 : get_txs(tree, SubSeq(bits, 1, n)) # {t}

\* get_txs finds the transactions of the pool whose txid48 starts with the bits,
\* however the bits relate to the shape of the tree.
GetTxsMatches ==
  tree_pc = "built" =>
    \A bits \in UNION {[1 .. n -> Sides] : n \in 0 .. IdBitLen} :
      get_txs(tree, bits) = {t \in pooled : matches(t, bits)}

\* A prefix names what its bits say, and the one made for a transaction only it.
PrefixesFind == UniqueBitIdIsUnique /\ GetTxsMatches

\* The pool of a mempool is built when its txid48s differ.
PoolIsBuilt == IdsDistinct(pooled) ~> tree_pc = "built"

\* README.md of the seed: "(try again if it has a collision)".  Whatever the txid48s
\* it is built in the end ("FIXME: Handle clashes!" in ibltpool.h:16).
PoolIsBuiltAnyway == <>(tree_pc = "built")
=============================================================================
