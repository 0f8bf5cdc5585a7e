--------------------------- MODULE GeneratorProofs ---------------------------
(***************************************************************************)
(* Proofs about what a sender makes of its mempool and what its peers make *)
(* of it: the bit tree of the txid48s (modules BitTree and TxTree), for    *)
(* ids of any length, the selection of the corpus simulator, which asks it *)
(* (module Selection), the programs of the selection heuristic (module     *)
(* Heuristic), and the values of the options that programs are given       *)
(* (module OptValues), for integers of any width and any bases.            *)
(***************************************************************************)
EXTENDS Selection, Heuristic, TxTree, OptValues, CommonLemmas, FiniteSetTheorems,
        WellFoundedInduction, TLAPS

-----------------------------------------------------------------------------
(***************************************************************************)
(* What is read from the bit tree of a set of transactions whose txid48s   *)
(* differ: the prefix a transaction is given is nobody else's, and a search*)
(* finds what its bits say, for ids of any length.                         *)
(***************************************************************************)

\* The first n bits of a txid48, and when two of txs start with p.
Path(t, n) == [i \in 1 .. n |-> IdBits[t][i]]
Shared(txs, p) == \E t, u \in txs : matches(t, p) /\ matches(u, p) /\ t # u
BitStrings == UNION {[1 .. n -> Sides] : n \in 1 .. IdBitLen}

\* A set of numbers has a least one.
LEMMA Least ==
  ASSUME NEW T, T \subseteq Nat, T # {}
  PROVE  \E x \in T : \A y \in T : x <= y
<1>1. IsWellFoundedOn(OpToRel(<, Nat), Nat)
  BY NatLessThanWellFounded
<1>2. PICK x \in T : \A y \in T : ~(<<y, x>> \in OpToRel(<, Nat))
  BY <1>1, WFMin
<1>3. \A y \in T : ~(y < x)
  BY <1>2 DEF OpToRel
<1>4. QED BY <1>3, SMT

LEMMA PathType ==
  ASSUME NEW t \in Tx, NEW n \in 1 .. IdBitLen
  PROVE  /\ Path(t, n) \in BitStrings
         /\ Path(t, n) \in [1 .. n -> Sides]
         /\ Len(Path(t, n)) = n /\ DOMAIN Path(t, n) = 1 .. n
         /\ matches(t, Path(t, n))
         /\ SubSeq([i \in 1 .. IdBitLen |-> IdBits[t][i]], 1, n) = Path(t, n)
         /\ \A m \in 1 .. n : SubSeq(Path(t, n), 1, m) = Path(t, m)
         /\ n > 1 => Front(Path(t, n)) = Path(t, n - 1)
<1> USE TreeAssumption
<1>1. Path(t, n) \in [1 .. n -> Sides]
  BY SMT DEF Path
<1>2. Len(Path(t, n)) = n /\ DOMAIN Path(t, n) = 1 .. n
  BY SMT DEF Path
<1>3. Path(t, n) \in BitStrings
  BY <1>1 DEF BitStrings
<1>4. matches(t, Path(t, n))
  BY SMT DEF matches, Path
<1>5. SubSeq([i \in 1 .. IdBitLen |-> IdBits[t][i]], 1, n) = Path(t, n)
  BY SMT DEF Path
<1>6. \A m \in 1 .. n : SubSeq(Path(t, n), 1, m) = Path(t, m)
  BY SMT DEF Path
<1>7. n > 1 => Front(Path(t, n)) = Path(t, n - 1)
  BY <1>2, <1>6, SMT DEF Front
<1>8. QED BY <1>1, <1>2, <1>3, <1>4, <1>5, <1>6, <1>7

\* A prefix that a transaction matches is the one of its length.
LEMMA MatchIsPath ==
  ASSUME NEW t \in Tx, NEW n \in 1 .. IdBitLen, NEW p \in [1 .. n -> Sides]
  PROVE  /\ matches(t, p) <=> p = Path(t, n)
         /\ Len(p) = n /\ p \in BitStrings
<1>1. matches(t, p) <=> p = Path(t, n)
  BY SMT DEF matches, Path
<1>2. Len(p) = n
  BY TreeAssumption, SMT
<1>3. QED BY <1>1, <1>2 DEF BitStrings

LEMMA TreeShape ==
  ASSUME NEW txs \in SUBSET Tx
  PROVE  /\ \A p : p \in DOMAIN TreeOf(txs) <=>
                     /\ p \in BitStrings
                     /\ \E t \in txs : matches(t, p)
                     /\ Len(p) > 1 => Shared(txs, Front(p))
         /\ \A p \in DOMAIN TreeOf(txs) :
              /\ Shared(txs, p) => TreeOf(txs)[p] = Node
              /\ ~Shared(txs, p) =>
                   /\ TreeOf(txs)[p] \in txs /\ TreeOf(txs)[p] # Node
                   /\ matches(TreeOf(txs)[p], p)
                   /\ \A u \in txs : matches(u, p) => u = TreeOf(txs)[p]
<1> DEFINE Having(p) == {t \in txs : matches(t, p)}
           shared(p) == \E t, u \in Having(p) : t # u
           Slots == {p \in BitStrings : Having(p) # {} /\ (Len(p) > 1 => shared(Front(p)))}
<1>1. \A p : shared(p) <=> Shared(txs, p)
  BY DEF Shared
<1>2. TreeOf(txs) = [p \in Slots |-> IF shared(p) THEN Node ELSE CHOOSE t \in Having(p) : TRUE]
  BY DEF TreeOf, BitStrings
<1>3. ASSUME NEW p
      PROVE  p \in Slots <=> /\ p \in BitStrings
                             /\ \E t \in txs : matches(t, p)
                             /\ Len(p) > 1 => Shared(txs, Front(p))
  <2>1. Having(p) # {} <=> \E t \in txs : matches(t, p)
    OBVIOUS
  <2>2. shared(Front(p)) <=> Shared(txs, Front(p))
    BY <1>1
  <2> HIDE DEF shared, Having
  <2>3. QED BY <2>1, <2>2
<1>4. ASSUME NEW p \in Slots, ~shared(p)
      PROVE  /\ TreeOf(txs)[p] \in Having(p)
             /\ \A u \in Having(p) : u = TreeOf(txs)[p]
  <2>1. TreeOf(txs)[p] = CHOOSE t \in Having(p) : TRUE
    BY <1>2, <1>4
  <2>2. Having(p) # {}
    OBVIOUS
  <2>3. TreeOf(txs)[p] \in Having(p)
    BY <2>1, <2>2
  <2>4. QED BY <1>4, <2>3
<1>5. ASSUME NEW p \in Slots, shared(p) PROVE TreeOf(txs)[p] = Node
  BY <1>2, <1>5
<1>6. Node \notin txs
  BY TreeAssumption
<1> HIDE DEF Slots
<1>7. DOMAIN TreeOf(txs) = Slots
  BY <1>2
<1>8. ASSUME NEW p \in DOMAIN TreeOf(txs), ~Shared(txs, p)
      PROVE  /\ TreeOf(txs)[p] \in txs /\ TreeOf(txs)[p] # Node
             /\ matches(TreeOf(txs)[p], p)
             /\ \A u \in txs : matches(u, p) => u = TreeOf(txs)[p]
  BY <1>1, <1>4, <1>6, <1>7, <1>8
<1>9. ASSUME NEW p \in DOMAIN TreeOf(txs), Shared(txs, p) PROVE TreeOf(txs)[p] = Node
  BY <1>1, <1>5, <1>7, <1>9
<1> HIDE DEF Having, shared
<1>10. QED BY <1>3, <1>7, <1>8, <1>9

\* The way down to a transaction: nodes, and then its leaf.
LeafAt(txs, t, n) ==
  /\ n \in 1 .. IdBitLen
  /\ \A m \in 1 .. n : Path(t, m) \in DOMAIN TreeOf(txs)
  /\ \A m \in 1 .. n - 1 : TreeOf(txs)[Path(t, m)] = Node
  /\ TreeOf(txs)[Path(t, n)] = t
  /\ \A u \in txs : matches(u, Path(t, n)) => u = t

LEMMA HasLeaf ==
  ASSUME NEW txs \in SUBSET Tx, IdsDistinct(txs), NEW t \in txs
  PROVE  \E n \in 1 .. IdBitLen : LeafAt(txs, t, n)
<1> USE TreeAssumption
<1> DEFINE T == {n \in 1 .. IdBitLen : ~Shared(txs, Path(t, n))}
<1>1. IdBitLen \in T
  <2>1. ASSUME NEW u \in txs, matches(u, Path(t, IdBitLen)) PROVE u = t
    <3>1. \A i \in 1 .. IdBitLen : IdBits[u][i] = IdBits[t][i]
      BY <2>1, SMT DEF matches, Path
    <3>2. IdBits[u] \in [1 .. IdBitLen -> Sides] /\ IdBits[t] \in [1 .. IdBitLen -> Sides]
      OBVIOUS
    <3>3. IdBits[u] = IdBits[t]
      BY <3>1, <3>2
    <3>4. QED BY <3>3 DEF IdsDistinct, SameId
  <2>2. ~Shared(txs, Path(t, IdBitLen))
    BY <2>1 DEF Shared
  <2>3. QED BY <2>2, SMT
<1>2. PICK n \in T : \A m \in T : n <= m
  <2>1. T \subseteq Nat /\ T # {}
    BY <1>1, SMT
  <2>2. QED BY <2>1, Least
<1>3. n \in 1 .. IdBitLen /\ ~Shared(txs, Path(t, n))
  OBVIOUS
<1>4. ASSUME NEW m \in 1 .. n - 1 PROVE m \in 1 .. IdBitLen /\ Shared(txs, Path(t, m))
  BY <1>2, <1>3, SMT
<1>5. ASSUME NEW m \in 1 .. n PROVE Path(t, m) \in DOMAIN TreeOf(txs)
  <2>1. m \in 1 .. IdBitLen
    BY <1>3, SMT
  <2>2. Path(t, m) \in BitStrings /\ matches(t, Path(t, m)) /\ Len(Path(t, m)) = m
        /\ (m > 1 => Front(Path(t, m)) = Path(t, m - 1))
    BY <2>1, PathType
  <2>3. m > 1 => m - 1 \in 1 .. n - 1
    BY <1>3, SMT
  <2>4. m > 1 => Shared(txs, Front(Path(t, m)))
    BY <1>4, <2>2, <2>3
  <2>5. \E u \in txs : matches(u, Path(t, m))
    BY <2>2
  <2>6. QED BY <2>2, <2>4, <2>5, TreeShape
<1>6. ASSUME NEW m \in 1 .. n - 1 PROVE TreeOf(txs)[Path(t, m)] = Node
  <2>1. m \in 1 .. n
    BY <1>3, SMT
  <2>2. QED BY <1>4, <1>5, <2>1, TreeShape
<1>7. n \in 1 .. n
  BY <1>3, SMT
<1>8. Path(t, n) \in DOMAIN TreeOf(txs)
  BY <1>5, <1>7
<1>9. matches(t, Path(t, n))
  BY <1>3, PathType
<1>10. TreeOf(txs)[Path(t, n)] = t /\ \A u \in txs : matches(u, Path(t, n)) => u = t
  <2>1. \A u \in txs : matches(u, Path(t, n)) => u = TreeOf(txs)[Path(t, n)]
    BY <1>3, <1>8, TreeShape
  <2>2. QED BY <1>9, <2>1
<1>11. LeafAt(txs, t, n)
  BY <1>3, <1>5, <1>6, <1>10 DEF LeafAt
<1>12. QED BY <1>3, <1>11

\* get_unique_bitid follows the bits of a transaction down to its leaf.
LEMMA BitIdIsPath ==
  ASSUME NEW txs \in SUBSET Tx, IdsDistinct(txs), NEW t \in txs
  PROVE  \E n \in 1 .. IdBitLen :
           LeafAt(txs, t, n) /\ get_unique_bitid(TreeOf(txs), t) = Path(t, n)
<1> DEFINE tr == TreeOf(txs)
           path(n) == SubSeq([i \in 1 .. IdBitLen |-> IdBits[t][i]], 1, n)
           Ends(n) == tr[path(n)] # Node /\ \A m \in 1 .. n - 1 : tr[path(m)] = Node
           end == CHOOSE n \in 1 .. IdBitLen : Ends(n)
<1>1. \A m \in 1 .. IdBitLen : path(m) = Path(t, m)
  BY PathType
<1>2. PICK n \in 1 .. IdBitLen : LeafAt(txs, t, n)
  BY HasLeaf
<1>3. Ends(n)
  <2>1. path(n) = Path(t, n) /\ tr[path(n)] = t
    BY <1>1, <1>2 DEF LeafAt
  <2>2. t # Node
    BY TreeAssumption
  <2>3. \A m \in 1 .. n - 1 : m \in 1 .. IdBitLen
    BY TreeAssumption, SMT
  <2>4. \A m \in 1 .. n - 1 : tr[path(m)] = Node
    BY <1>1, <1>2, <2>3 DEF LeafAt
  <2>5. QED BY <2>1, <2>2, <2>4
<1>4. ASSUME NEW k \in 1 .. IdBitLen, Ends(k) PROVE k = n
  <2>1. ~(k < n) /\ ~(n < k)
    <3>1. k < n => k \in 1 .. n - 1
      BY TreeAssumption, SMT
    <3>2. n < k => n \in 1 .. k - 1
      BY TreeAssumption, SMT
    <3>3. QED BY <1>3, <1>4, <3>1, <3>2
  <2>2. QED BY <2>1, TreeAssumption, SMT
<1> HIDE DEF Ends
<1>5. end = n
  BY <1>3, <1>4
<1>6. get_unique_bitid(tr, t) = path(end)
  BY DEF get_unique_bitid, Ends
<1>7. get_unique_bitid(tr, t) = Path(t, n)
  BY <1>1, <1>5, <1>6
<1>8. QED BY <1>2, <1>7

\* The prefix a transaction of the tree is given is one that it matches, and no
\* other transaction of the tree.
LEMMA UniqueBitId ==
  ASSUME NEW txs \in SUBSET Tx, IdsDistinct(txs), NEW t \in txs
  PROVE  /\ get_unique_bitid(TreeOf(txs), t) \in BitStrings
         /\ \A u \in txs : matches(u, get_unique_bitid(TreeOf(txs), t)) <=> u = t
<1>1. PICK n \in 1 .. IdBitLen :
        LeafAt(txs, t, n) /\ get_unique_bitid(TreeOf(txs), t) = Path(t, n)
  BY BitIdIsPath
<1>2. Path(t, n) \in BitStrings /\ matches(t, Path(t, n))
  BY PathType
<1>3. \A u \in txs : matches(u, Path(t, n)) => u = t
  BY <1>1 DEF LeafAt
<1>4. QED BY <1>1, <1>2, <1>3

\* get_txs finds the transactions whose txid48 starts with the bits.
LEMMA GetTxsFinds ==
  ASSUME NEW txs \in SUBSET Tx, IdsDistinct(txs), NEW bits \in BitStrings
  PROVE  get_txs(TreeOf(txs), bits) = {t \in txs : matches(t, bits)}
<1> USE TreeAssumption
<1> DEFINE tr == TreeOf(txs)
           ends == {n \in 1 .. Len(bits) :
                      \/ SubSeq(bits, 1, n) \notin DOMAIN tr
                      \/ tr[SubSeq(bits, 1, n)] # Node}
           first == SubSeq(bits, 1, CHOOSE n \in ends : \A m \in ends : n <= m)
<1>1. PICK len \in 1 .. IdBitLen : bits \in [1 .. len -> Sides] /\ Len(bits) = len
  BY MatchIsPath DEF BitStrings
<1>2. ASSUME NEW t \in Tx, matches(t, bits)
      PROVE  /\ bits = Path(t, len)
             /\ \A m \in 1 .. len : SubSeq(bits, 1, m) = Path(t, m)
  <2>1. bits = Path(t, len)
    BY <1>1, <1>2, MatchIsPath
  <2>2. QED BY <2>1, PathType
<1>3. CASE ends = {}
  <2>1. get_txs(tr, bits) = gather(tr, bits)
    BY <1>3 DEF get_txs
  <2>2. ASSUME NEW t \in gather(tr, bits) PROVE t \in txs /\ matches(t, bits)
    <3>1. PICK q \in DOMAIN tr : tr[q] # Node /\ IsPrefix(bits, q) /\ t = tr[q]
      BY <2>2 DEF gather
    <3>2. t \in txs /\ matches(t, q) /\ q \in BitStrings
      <4>1. q \in BitStrings
        BY <3>1, TreeShape
      <4>2. tr[q] \in txs /\ matches(tr[q], q)
        BY <3>1, TreeShape
      <4>3. QED BY <3>1, <4>1, <4>2
    <3>3. PICK k \in 1 .. IdBitLen : q \in [1 .. k -> Sides] /\ Len(q) = k
      <4>1. PICK k \in 1 .. IdBitLen : q \in [1 .. k -> Sides]
        BY <3>2 DEF BitStrings
      <4>2. Len(q) = k
        BY <3>2, <4>1, MatchIsPath
      <4>3. QED BY <4>1, <4>2
    <3>4. len <= k /\ \A i \in 1 .. len : bits[i] = q[i]
      BY <1>1, <3>1, <3>3, SMT DEF IsPrefix
    <3>5. matches(t, bits)
      BY <1>1, <3>2, <3>3, <3>4, SMT DEF matches
    <3>6. QED BY <3>2, <3>5
  <2>3. ASSUME NEW t \in txs, matches(t, bits) PROVE t \in gather(tr, bits)
    <3>1. PICK n \in 1 .. IdBitLen : LeafAt(txs, t, n)
      BY HasLeaf
    <3>2. tr[Path(t, n)] = t /\ Path(t, n) \in DOMAIN tr /\ t # Node
      BY <3>1, SMT DEF LeafAt
    <3>3. ~(n <= len)
      <4>1. SUFFICES ASSUME n <= len PROVE FALSE
        OBVIOUS
      <4>2. n \in 1 .. Len(bits) /\ n \in 1 .. len
        BY <1>1, <4>1, SMT
      <4>3. tr[SubSeq(bits, 1, n)] = Node
        BY <1>3, <4>2
      <4>4. QED BY <1>2, <2>3, <3>2, <4>2, <4>3
    <3>4. len \in 1 .. n /\ len <= n
      BY <3>3, SMT
    <3>5. SubSeq(Path(t, n), 1, len) = bits /\ Len(Path(t, n)) = n
      BY <1>2, <2>3, <3>4, PathType
    <3>6. SubSeq(bits, 1, len) = bits
      BY <1>1, SMT
    <3>7. IsPrefix(bits, Path(t, n))
      BY <1>1, <3>4, <3>5, <3>6 DEF IsPrefix
    <3>8. QED BY <3>2, <3>7 DEF gather
  <2>4. QED BY <2>1, <2>2, <2>3
<1>4. CASE ends # {}
  <2>1. get_txs(tr, bits) = {t \in Tx : first \in DOMAIN tr /\ tr[first] = t /\ matches(t, bits)}
    BY <1>4 DEF get_txs
  <2>2. PICK n \in ends : first = SubSeq(bits, 1, n) /\ \A m \in ends : n <= m
    <3>1. ends \subseteq Nat
      BY <1>1, SMT
    <3>2. \E n \in ends : \A m \in ends : n <= m
      BY <1>4, <3>1, Least
    <3>3. QED BY <3>2
  <2>3. n \in 1 .. len
    BY <1>1
  <2>4. ASSUME NEW t \in Tx, first \in DOMAIN tr, tr[first] = t PROVE t \in txs
    BY <2>4, TreeShape
  <2>5. ASSUME NEW t \in txs, matches(t, bits) PROVE first \in DOMAIN tr /\ tr[first] = t
    <3>1. PICK k \in 1 .. IdBitLen : LeafAt(txs, t, k)
      BY HasLeaf
    <3>2. \A m \in 1 .. len : SubSeq(bits, 1, m) = Path(t, m)
      BY <1>2, <2>5
    <3>3. first = Path(t, n)
      BY <2>2, <2>3, <3>2
    <3>4. ~(n < k)
      <4>1. SUFFICES ASSUME n < k PROVE FALSE
        OBVIOUS
      <4>2. n \in 1 .. k - 1 /\ n \in 1 .. k
        BY <2>3, <4>1, SMT
      <4>3. tr[Path(t, n)] = Node /\ Path(t, n) \in DOMAIN tr
        BY <3>1, <4>2 DEF LeafAt
      <4>4. QED BY <2>2, <3>3, <4>3
    <3>5. ~(k < n)
      <4>1. SUFFICES ASSUME k < n PROVE FALSE
        OBVIOUS
      <4>2. k \in 1 .. len /\ k \in 1 .. Len(bits)
        BY <1>1, <2>3, <4>1, SMT
      <4>3. SubSeq(bits, 1, k) = Path(t, k) /\ tr[Path(t, k)] = t /\ t # Node
        BY <3>1, <3>2, <4>2 DEF LeafAt
      <4>4. k \in ends
        BY <4>2, <4>3
      <4>5. n <= k
        BY <2>2, <4>4
      <4>6. QED BY <2>3, <4>1, <4>5, SMT
    <3>6. n = k
      BY <2>3, <3>4, <3>5, SMT
    <3>7. k \in 1 .. k
      BY SMT
    <3>8. QED BY <3>1, <3>3, <3>6, <3>7 DEF LeafAt
  <2>6. QED BY <2>1, <2>4, <2>5
<1>5. QED BY <1>3, <1>4


-----------------------------------------------------------------------------
(***************************************************************************)
(* The tree that the constructor of ibltpool builds is the tree of its     *)
(* transactions, whatever the order of the map it takes them from, for any *)
(* transactions whose txid48s differ and ids of any length; and what is    *)
(* looked up in it is what the prefixes say.                               *)
(*                                                                         *)
(* Insert goes down along the bits of its leaf. On its way the tree is that*)
(* of the transactions before it, with the path behind the cursor made of  *)
(* nodes: Growing says so, and is kept by every call of insert.            *)
(***************************************************************************)

\* The slots that hold a node, in the tree of S into which the first d bits of l
\* have been followed.
Nodal(S, l, d, p) == Shared(S, p) \/ (Len(p) <= d /\ matches(l, p))

InTree(S, l, d, p) ==
  /\ p \in BitStrings
  /\ \E t \in S : matches(t, p)
  /\ Len(p) > 1 => Nodal(S, l, d, Front(p))

Growing(tr, S, l, d) ==
  /\ tr = [p \in DOMAIN tr |-> tr[p]]
  /\ \A p : p \in DOMAIN tr <=> InTree(S, l, d, p)
  /\ \A p \in DOMAIN tr :
       /\ Nodal(S, l, d, p) => tr[p] = Node
       /\ ~Nodal(S, l, d, p) => tr[p] \in S /\ matches(tr[p], p)

Done == pooled \ toAdd
Inserted == Done \ {leaf}

\* The walk of insert where the leaf has bits left, and beyond them, which takes
\* another transaction with the same id.
WalkOn(d) ==
  /\ cursor = Path(leaf, d) /\ d < IdBitLen
  /\ Growing(tree, Inserted, leaf, d)
  /\ d > 0 => \E t \in Inserted : matches(t, cursor)

WalkBeyond(u) ==
  /\ SameId(u, leaf)
  /\ IdBitLen <= Len(cursor) /\ cursor \in Seq(Sides)
  /\ Append(cursor, 0) \in DOMAIN tree /\ tree[Append(cursor, 0)] = u

TreeInv ==
  /\ pooled \in SUBSET Tx /\ toAdd \in SUBSET pooled
  /\ leaf \in Tx
  /\ tree_pc \in {"loop", "insert", "built", "overflow"}
  /\ tree_pc \in {"loop", "built"} =>
       IdsDistinct(Done) /\ byId = Done /\ Growing(tree, Done, leaf, 0)
  /\ tree_pc = "built" => toAdd = {}
  /\ tree_pc = "insert" =>
       /\ leaf \in Done /\ IdsDistinct(Inserted)
       /\ IdsDistinct(Done) => byId = Done
       /\ (\E d \in Nat : WalkOn(d)) \/ (\E u \in Inserted : WalkBeyond(u))
  /\ IdsDistinct(pooled) => tree_pc # "overflow"

-----------------------------------------------------------------------------
LEMMA PrefixLen ==
  ASSUME NEW p \in BitStrings
  PROVE  /\ Len(p) \in 1 .. IdBitLen /\ p \in [1 .. Len(p) -> Sides]
         /\ \A t \in Tx : matches(t, p) <=> p = Path(t, Len(p))
<1>1. PICK n \in 1 .. IdBitLen : p \in [1 .. n -> Sides]
  BY DEF BitStrings
<1>2. ASSUME NEW t \in Tx PROVE matches(t, p) <=> p = Path(t, n)
  BY <1>1, MatchIsPath
<1>3. n \in Nat
  BY TreeAssumption, SMT
<1>4. Len(p) = n
  BY <1>1, <1>3, SMT
<1>5. QED BY <1>1, <1>2, <1>4

LEMMA FrontOf ==
  ASSUME NEW p \in BitStrings, Len(p) > 1
  PROVE  /\ Front(p) \in BitStrings /\ Len(Front(p)) = Len(p) - 1
         /\ \A t \in Tx : matches(t, p) => matches(t, Front(p))
         /\ \A i \in 1 .. Len(p) - 1 : Front(p)[i] = p[i]
<1>1. Len(p) \in 1 .. IdBitLen /\ p \in [1 .. Len(p) -> Sides]
  BY PrefixLen
<1>2. IdBitLen \in Nat
  BY TreeAssumption
<1>3. Len(p) - 1 \in 1 .. IdBitLen
  BY <1>1, <1>2, SMT
<1>4. Front(p) \in [1 .. Len(p) - 1 -> Sides] /\ Len(Front(p)) = Len(p) - 1
      /\ \A i \in 1 .. Len(p) - 1 : Front(p)[i] = p[i]
  <2>1. p \in Seq(Sides)
    BY <1>1, <1>2, SMT
  <2>2. Front(p) = [i \in 1 .. Len(p) - 1 |-> p[i]]
    BY <1>2, <1>3, <2>1, SMT DEF Front
  <2>3. \A i \in 1 .. Len(p) - 1 : p[i] \in Sides
    BY <1>1, SMT
  <2>4. Front(p) \in [1 .. Len(p) - 1 -> Sides] /\ \A i \in 1 .. Len(p) - 1 : Front(p)[i] = p[i]
    BY <2>2, <2>3
  <2>5. Len(Front(p)) = Len(p) - 1
    BY <1>1, <1>2, <1>3, <2>2, SMT
  <2>6. QED BY <2>4, <2>5
<1>5. Front(p) \in BitStrings
  BY <1>3, <1>4 DEF BitStrings
<1>6. ASSUME NEW t \in Tx, matches(t, p) PROVE matches(t, Front(p))
  <2>1. DOMAIN p = 1 .. Len(p) /\ DOMAIN Front(p) = 1 .. Len(p) - 1
    BY <1>1, <1>4
  <2>2. \A i \in 1 .. Len(p) - 1 : i \in 1 .. Len(p)
    BY <1>1, SMT
  <2>3. \A i \in 1 .. Len(p) - 1 : IdBits[t][i] = Front(p)[i]
    BY <1>4, <1>6, <2>1, <2>2 DEF matches
  <2>4. QED BY <2>1, <2>3 DEF matches
<1>7. QED BY <1>4, <1>5, <1>6

\* Who matches the first bits of l matches fewer of them.
LEMMA FewerMatch ==
  ASSUME NEW t \in Tx, NEW l \in Tx, NEW n \in 1 .. IdBitLen, NEW m \in 1 .. n,
         matches(t, Path(l, n))
  PROVE  matches(t, Path(l, m))
BY TreeAssumption, SMT DEF matches, Path

\* Who has all the bits of l has its id.
LEMMA AllBits ==
  ASSUME NEW t \in Tx, NEW l \in Tx, matches(t, Path(l, IdBitLen))
  PROVE  SameId(t, l)
<1>1. \A i \in 1 .. IdBitLen : IdBits[t][i] = IdBits[l][i]
  BY TreeAssumption, SMT DEF matches, Path
<1>2. /\ IdBits[t] = [i \in 1 .. IdBitLen |-> IdBits[t][i]]
      /\ IdBits[l] = [i \in 1 .. IdBitLen |-> IdBits[l][i]]
  BY TreeAssumption
<1>3. IdBits[t] = IdBits[l]
  BY <1>1, <1>2, Zenon
<1>4. QED BY <1>3 DEF SameId

\* The slot that insert looks at is the path one bit longer.
LEMMA SlotIsPath ==
  ASSUME NEW l \in Tx, NEW d \in Nat, d < IdBitLen
  PROVE  /\ Append(Path(l, d), Side(l, Len(Path(l, d)))) = Path(l, d + 1)
         /\ Len(Path(l, d)) = d
<1>1. Len(Path(l, d)) = d
  BY SMT DEF Path
<1>2. Side(l, d) = IdBits[l][d + 1]
  BY DEF Side
<1>3. Append(Path(l, d), IdBits[l][d + 1]) = Path(l, d + 1)
  BY <1>1, SMT DEF Path
<1>4. QED BY <1>1, <1>2, <1>3

LEMMA GrowingIsTree ==
  ASSUME NEW S \in SUBSET Tx, NEW l, NEW tr
  PROVE  Growing(tr, S, l, 0) <=> tr = TreeOf(S)
<1>1. \A p \in BitStrings : Nodal(S, l, 0, p) <=> Shared(S, p)
  <2>1. \A p \in BitStrings : ~(Len(p) <= 0)
    BY PrefixLen, TreeAssumption, SMT
  <2>2. QED BY <2>1 DEF Nodal
<1>2. \A p \in BitStrings : Len(p) > 1 => Front(p) \in BitStrings
  BY FrontOf
<1>3. \A p : InTree(S, l, 0, p) <=> p \in DOMAIN TreeOf(S)
  <2> SUFFICES ASSUME NEW p PROVE InTree(S, l, 0, p) <=> p \in DOMAIN TreeOf(S)
    OBVIOUS
  <2>1. p \in DOMAIN TreeOf(S) <=>
          /\ p \in BitStrings /\ (\E t \in S : matches(t, p))
          /\ Len(p) > 1 => Shared(S, Front(p))
    BY TreeShape
  <2>2. QED BY <1>1, <1>2, <2>1 DEF InTree
<1>4. Growing(TreeOf(S), S, l, 0)
  <2>1. TreeOf(S) = [p \in DOMAIN TreeOf(S) |-> TreeOf(S)[p]]
    BY DEF TreeOf
  <2>2. ASSUME NEW p \in DOMAIN TreeOf(S)
        PROVE  /\ Nodal(S, l, 0, p) => TreeOf(S)[p] = Node
               /\ ~Nodal(S, l, 0, p) => TreeOf(S)[p] \in S /\ matches(TreeOf(S)[p], p)
    <3>1. p \in BitStrings
      BY TreeShape
    <3>2. Nodal(S, l, 0, p) <=> Shared(S, p)
      BY <1>1, <3>1
    <3>3. QED BY <3>2, TreeShape
  <2>3. QED BY <1>3, <2>1, <2>2 DEF Growing
<1>5. ASSUME Growing(tr, S, l, 0) PROVE tr = TreeOf(S)
  <2>1. DOMAIN tr = DOMAIN TreeOf(S)
    BY <1>3, <1>5 DEF Growing
  <2>2. ASSUME NEW p \in DOMAIN tr PROVE tr[p] = TreeOf(S)[p]
    <3>1. p \in BitStrings /\ p \in DOMAIN TreeOf(S)
      BY <2>1, TreeShape
    <3>2. CASE Shared(S, p)
      BY <1>1, <1>5, <3>1, <3>2, TreeShape DEF Growing
    <3>3. CASE ~Shared(S, p)
      <4>1. tr[p] \in S /\ matches(tr[p], p)
        BY <1>1, <1>5, <3>1, <3>3 DEF Growing
      <4>2. \A u \in S : matches(u, p) => u = TreeOf(S)[p]
        BY <3>1, <3>3, TreeShape
      <4>3. QED BY <4>1, <4>2
    <3>4. QED BY <3>2, <3>3
  <2>3. tr = [p \in DOMAIN tr |-> tr[p]]
    BY <1>5 DEF Growing
  <2>4. TreeOf(S) = [p \in DOMAIN TreeOf(S) |-> TreeOf(S)[p]]
    BY DEF TreeOf
  <2>5. QED BY <2>1, <2>2, <2>3, <2>4
<1>6. QED BY <1>4, <1>5

-----------------------------------------------------------------------------
\* The prefixes of l, and who matches them, where insert of l has come d bits far.
LEMMA BehindCursor ==
  ASSUME NEW S \in SUBSET Tx, NEW l \in Tx, NEW d \in Nat, d < IdBitLen,
         d > 0 => \E t \in S : matches(t, Path(l, d)),
         NEW p \in BitStrings, matches(l, p), Len(p) <= d
  PROVE  \E t \in S : matches(t, p)
<1>1. Len(p) \in 1 .. IdBitLen /\ p = Path(l, Len(p))
  BY PrefixLen
<1>2. d \in 1 .. IdBitLen /\ Len(p) \in 1 .. d
  BY <1>1, TreeAssumption, SMT
<1>3. PICK t \in S : matches(t, Path(l, d))
  BY <1>2, SMT
<1>4. matches(t, Path(l, Len(p)))
  BY <1>2, <1>3, FewerMatch
<1>5. QED BY <1>1, <1>4

LEMMA BeyondSlot ==
  ASSUME NEW l \in Tx, NEW d \in Nat, d < IdBitLen, NEW t \in Tx,
         NEW p \in BitStrings, matches(l, p), matches(t, p), ~(Len(p) <= d)
  PROVE  matches(t, Path(l, d + 1))
<1>1. Len(p) \in 1 .. IdBitLen /\ p = Path(l, Len(p))
  BY PrefixLen
<1>2. d + 1 \in 1 .. Len(p)
  BY <1>1, TreeAssumption, SMT
<1>3. QED BY <1>1, <1>2, FewerMatch

\* insert finds its slot empty: it has put its leaf, and the tree is that of the
\* transactions with it.
LEMMA PutLeaf ==
  ASSUME NEW S \in SUBSET Tx, NEW l \in Tx, l \notin S,
         NEW d \in Nat, d < IdBitLen,
         d > 0 => \E t \in S : matches(t, Path(l, d)),
         NEW tr, Growing(tr, S, l, d), Path(l, d + 1) \notin DOMAIN tr
  PROVE  Growing(Extend(tr, Path(l, d + 1), l), S \cup {l}, l, 0)
<1> DEFINE slot == Path(l, d + 1)
           D == S \cup {l}
           ntr == Extend(tr, slot, l)
<1>1. d + 1 \in 1 .. IdBitLen
  BY TreeAssumption, SMT
<1>2. slot \in BitStrings /\ Len(slot) = d + 1 /\ matches(l, slot)
      /\ (d + 1 > 1 => Front(slot) = Path(l, d))
  <2>1. d + 1 - 1 = d
    BY SMT
  <2>2. QED BY <1>1, <2>1, PathType
<1>3. d + 1 > 1 => /\ Path(l, d) \in BitStrings /\ Len(Path(l, d)) = d
                   /\ matches(l, Path(l, d)) /\ Nodal(S, l, d, Path(l, d))
  <2> SUFFICES ASSUME d + 1 > 1
               PROVE  /\ Path(l, d) \in BitStrings /\ Len(Path(l, d)) = d
                      /\ matches(l, Path(l, d)) /\ Nodal(S, l, d, Path(l, d))
    OBVIOUS
  <2>1. d \in 1 .. IdBitLen
    BY TreeAssumption, SMT
  <2>2. Path(l, d) \in BitStrings /\ Len(Path(l, d)) = d /\ matches(l, Path(l, d))
    BY <2>1, PathType
  <2>3. Len(Path(l, d)) <= d
    BY <2>2, SMT
  <2>4. QED BY <2>2, <2>3 DEF Nodal
<1>4. ASSUME NEW t \in S PROVE ~matches(t, slot)
  BY <1>2, <1>3, <1>4 DEF Growing, InTree
<1>5. ASSUME NEW p \in BitStrings PROVE Nodal(S, l, d, p) <=> Shared(D, p)
  <2>1. ASSUME Nodal(S, l, d, p) PROVE Shared(D, p)
    <3>1. CASE Shared(S, p)
      BY <3>1 DEF Shared
    <3>2. CASE Len(p) <= d /\ matches(l, p)
      <4>1. PICK t \in S : matches(t, p)
        BY <3>2, BehindCursor
      <4>2. QED BY <3>2, <4>1 DEF Shared
    <3>3. QED BY <2>1, <3>1, <3>2 DEF Nodal
  <2>2. ASSUME Shared(D, p) PROVE Nodal(S, l, d, p)
    <3>1. PICK t \in D, u \in D : matches(t, p) /\ matches(u, p) /\ t # u
      BY <2>2 DEF Shared
    <3>2. CASE t \in S /\ u \in S
      BY <3>1, <3>2 DEF Nodal, Shared
    <3>3. CASE ~(t \in S /\ u \in S)
      <4>1. PICK v \in S : matches(v, p) /\ matches(l, p)
        BY <3>1, <3>3
      <4>2. Len(p) <= d
        BY <1>4, <4>1, BeyondSlot
      <4>3. QED BY <4>1, <4>2 DEF Nodal
    <3>4. QED BY <3>2, <3>3
  <2>3. QED BY <2>1, <2>2
<1>6. ASSUME NEW p \in BitStrings PROVE Nodal(D, l, 0, p) <=> Nodal(S, l, d, p)
  <2>1. ~(Len(p) <= 0)
    BY PrefixLen, TreeAssumption, SMT
  <2>2. QED BY <1>5, <2>1 DEF Nodal
<1>7. ASSUME NEW p, InTree(S, l, d, p) PROVE InTree(D, l, 0, p)
  BY <1>6, <1>7, FrontOf DEF InTree
<1>8. InTree(D, l, 0, slot)
  BY <1>2, <1>3, <1>6 DEF InTree
<1>9. ASSUME NEW p, InTree(D, l, 0, p) PROVE InTree(S, l, d, p) \/ p = slot
  <2>1. p \in BitStrings /\ (Len(p) > 1 => Nodal(D, l, 0, Front(p)))
    BY <1>9 DEF InTree
  <2>2. Len(p) > 1 => Nodal(S, l, d, Front(p))
    BY <1>6, <2>1, FrontOf
  <2>3. CASE \E t \in S : matches(t, p)
    BY <2>1, <2>2, <2>3 DEF InTree
  <2>4. CASE ~\E t \in S : matches(t, p)
    <3>1. matches(l, p)
      BY <1>9, <2>4 DEF InTree
    <3>2. p = Path(l, Len(p)) /\ Len(p) \in 1 .. IdBitLen
      BY <2>1, <3>1, PrefixLen
    <3>3. ~(Len(p) <= d)
      BY <2>1, <2>4, <3>1, BehindCursor
    <3>4. Len(p) > 1 => Len(p) - 1 <= d
      <4> SUFFICES ASSUME Len(p) > 1 PROVE Len(p) - 1 <= d
        OBVIOUS
      <4>1. Front(p) \in BitStrings /\ Len(Front(p)) = Len(p) - 1 /\ matches(l, Front(p))
        BY <2>1, <3>1, FrontOf
      <4>2. CASE Len(Front(p)) <= d
        BY <4>1, <4>2
      <4>3. CASE ~(Len(Front(p)) <= d)
        <5>1. PICK t \in S : matches(t, Front(p))
          BY <2>2, <4>3 DEF Nodal, Shared
        <5>2. matches(t, slot)
          BY <4>1, <4>3, <5>1, BeyondSlot
        <5>3. QED BY <1>4, <5>2
      <4>4. QED BY <4>2, <4>3
    <3>5. Len(p) = d + 1
      BY <3>2, <3>3, <3>4, TreeAssumption, SMT
    <3>6. QED BY <3>2, <3>5
  <2>5. QED BY <2>3, <2>4
<1>10. DOMAIN ntr = DOMAIN tr \cup {slot} /\ ntr = [p \in DOMAIN ntr |-> ntr[p]]
  BY DEF Extend
<1>11. \A p : p \in DOMAIN ntr <=> InTree(D, l, 0, p)
  BY <1>7, <1>8, <1>9, <1>10 DEF Growing
<1>12. ASSUME NEW p \in DOMAIN ntr
       PROVE  /\ Nodal(D, l, 0, p) => ntr[p] = Node
              /\ ~Nodal(D, l, 0, p) => ntr[p] \in D /\ matches(ntr[p], p)
  <2>1. p \in BitStrings
    BY <1>11 DEF InTree
  <2>2. CASE p = slot
    <3>1. ~Shared(D, slot)
      BY <1>4 DEF Shared
    <3>2. ntr[p] = l
      BY <2>2 DEF Extend
    <3>3. QED BY <1>2, <1>5, <1>6, <2>1, <2>2, <3>1, <3>2
  <2>3. CASE p # slot
    <3>1. p \in DOMAIN tr /\ ntr[p] = tr[p]
      BY <1>10, <2>3 DEF Extend
    <3>2. QED BY <1>6, <2>1, <3>1 DEF Growing
  <2>4. QED BY <2>2, <2>3
<1> HIDE DEF ntr, D
<1>13. Growing(ntr, D, l, 0)
  BY <1>10, <1>11, <1>12 DEF Growing
<1>14. QED BY <1>13 DEF ntr, D

\* insert finds a leaf in its slot: the slot is a node now, one bit further down
\* is that leaf.
LEMMA PushDown ==
  ASSUME NEW S \in SUBSET Tx, NEW l \in Tx,
         NEW d \in Nat, d + 1 < IdBitLen, NEW tr, Growing(tr, S, l, d),
         Path(l, d + 1) \in DOMAIN tr, tr[Path(l, d + 1)] # Node
  PROVE  LET slot == Path(l, d + 1)
             u == tr[slot]
         IN /\ u \in S /\ matches(u, slot)
            /\ Growing(Extend(Extend(tr, slot, Node), Append(slot, Side(u, d + 1)), u),
                       S, l, d + 1)
<1> DEFINE slot == Path(l, d + 1)
           u == tr[slot]
           down == Append(slot, Side(u, d + 1))
           mid == Extend(tr, slot, Node)
           ntr == Extend(mid, down, u)
<1>1. d + 1 \in 1 .. IdBitLen
  BY TreeAssumption, SMT
<1>2. slot \in BitStrings /\ Len(slot) = d + 1 /\ matches(l, slot)
  BY <1>1, PathType
<1>3. ~Nodal(S, l, d, slot) /\ u \in S /\ matches(u, slot)
  BY DEF Growing
<1>4. \A t \in S : matches(t, slot) => t = u
  BY <1>3 DEF Nodal, Shared
<1>5. d + 1 < IdBitLen
  OBVIOUS
<1>6. slot = Path(u, d + 1)
  BY <1>2, <1>3, PrefixLen
<1>7. /\ down = Path(u, d + 2) /\ down \in BitStrings /\ Len(down) = d + 2
      /\ matches(u, down) /\ Front(down) = slot
  <2>1. d + 1 + 1 = d + 2 /\ d + 2 - 1 = d + 1 /\ d + 2 > 1 /\ d + 1 \in Nat
        /\ d + 2 \in 1 .. IdBitLen
    BY <1>5, TreeAssumption, SMT
  <2>2. u \in Tx
    BY <1>3
  <2>3. Len(Path(u, d + 1)) = d + 1
    BY <1>2, <1>6
  <2>4. down = Path(u, d + 2)
    BY <1>5, <1>6, <2>1, <2>2, <2>3, SlotIsPath
  <2>5. /\ Path(u, d + 2) \in BitStrings /\ Len(Path(u, d + 2)) = d + 2
        /\ matches(u, Path(u, d + 2))
    BY <2>1, <2>2, PathType
  <2>6. Front(Path(u, d + 2)) = Path(u, d + 2 - 1)
    BY <2>1, <2>2, PathType
  <2>7. d + 2 - 1 = d + 1
    BY <2>1
  <2>8. QED BY <1>6, <2>4, <2>5, <2>6, <2>7
<1>8. ASSUME NEW p \in BitStrings PROVE Nodal(S, l, d + 1, p) <=> Nodal(S, l, d, p) \/ p = slot
  <2>1. Len(p) \in 1 .. IdBitLen
    BY PrefixLen
  <2>2. Len(p) <= d + 1 <=> Len(p) <= d \/ Len(p) = d + 1
    BY <2>1, TreeAssumption, SMT
  <2>3. matches(l, p) /\ Len(p) = d + 1 <=> p = slot
    BY <1>2, PrefixLen
  <2>4. QED BY <1>2, <2>2, <2>3 DEF Nodal
<1>9. ASSUME NEW p, InTree(S, l, d, p) PROVE InTree(S, l, d + 1, p)
  BY <1>8, <1>9, FrontOf DEF InTree
<1>10. InTree(S, l, d + 1, down)
  BY <1>2, <1>3, <1>7, <1>8 DEF InTree
<1>11. ASSUME NEW p, InTree(S, l, d + 1, p) PROVE InTree(S, l, d, p) \/ p = down
  <2>1. CASE Len(p) > 1 /\ Front(p) = slot
    <3>1. PICK t \in S : matches(t, p)
      BY <1>11 DEF InTree
    <3>2. p \in BitStrings /\ matches(t, Front(p)) /\ Len(Front(p)) = Len(p) - 1
      BY <1>11, <2>1, <3>1, FrontOf DEF InTree
    <3>3. t = u
      BY <1>4, <2>1, <3>1, <3>2
    <3>4. Len(p) = d + 2
      BY <1>2, <2>1, <3>2, PrefixLen, TreeAssumption, SMT
    <3>5. p = Path(u, d + 2)
      BY <1>3, <3>1, <3>2, <3>3, <3>4, PrefixLen
    <3>6. QED BY <1>7, <3>5
  <2>2. CASE ~(Len(p) > 1 /\ Front(p) = slot)
    BY <1>8, <1>11, <2>2, FrontOf DEF InTree
  <2>3. QED BY <2>1, <2>2
<1>12. /\ DOMAIN ntr = DOMAIN tr \cup {down}
       /\ ntr = [p \in DOMAIN ntr |-> ntr[p]]
  BY DEF Extend
<1>13. \A p : p \in DOMAIN ntr <=> InTree(S, l, d + 1, p)
  BY <1>9, <1>10, <1>11, <1>12 DEF Growing
<1>14. slot # down
  BY <1>2, <1>7, SMT
<1>15. ASSUME NEW p \in DOMAIN ntr
       PROVE  /\ Nodal(S, l, d + 1, p) => ntr[p] = Node
              /\ ~Nodal(S, l, d + 1, p) => ntr[p] \in S /\ matches(ntr[p], p)
  <2>1. p \in BitStrings
    BY <1>13 DEF InTree
  <2>2. CASE p = slot
    <3>1. ntr[p] = Node
      BY <1>14, <2>2 DEF Extend
    <3>2. QED BY <1>8, <2>1, <2>2, <3>1
  <2>3. CASE p = down
    <3>1. ntr[p] = u
      BY <2>3 DEF Extend
    <3>2. ~Shared(S, down)
      <4>1. Len(down) > 1
        BY <1>7, SMT
      <4>2. ASSUME NEW t \in S, matches(t, down) PROVE t = u
        BY <1>4, <1>7, <4>1, <4>2, FrontOf
      <4>3. QED BY <4>2 DEF Shared
    <3>3. ~(Len(down) <= d + 1)
      BY <1>7, SMT
    <3>4. QED BY <1>3, <1>7, <2>3, <3>1, <3>2, <3>3 DEF Nodal
  <2>4. CASE p # slot /\ p # down
    <3>1. p \in DOMAIN tr /\ ntr[p] = tr[p]
      BY <1>12, <2>4 DEF Extend
    <3>2. QED BY <1>8, <2>1, <2>4, <3>1 DEF Growing
  <2>5. QED BY <2>2, <2>3, <2>4
<1> HIDE DEF ntr
<1>16. Growing(ntr, S, l, d + 1)
  BY <1>12, <1>13, <1>15 DEF Growing
<1>17. QED BY <1>3, <1>5, <1>16 DEF ntr

\* insert finds a node in its slot and goes on in it.
LEMMA GoDown ==
  ASSUME NEW S \in SUBSET Tx, IdsDistinct(S), NEW l \in Tx,
         NEW d \in Nat, d < IdBitLen, NEW tr, Growing(tr, S, l, d),
         Path(l, d + 1) \in DOMAIN tr, tr[Path(l, d + 1)] = Node
  PROVE  /\ d + 1 < IdBitLen /\ \E t \in S : matches(t, Path(l, d + 1))
         /\ Growing(tr, S, l, d + 1)
<1> DEFINE slot == Path(l, d + 1)
<1>1. d + 1 \in 1 .. IdBitLen
  BY TreeAssumption, SMT
<1>2. slot \in BitStrings /\ Len(slot) = d + 1 /\ matches(l, slot)
  BY <1>1, PathType
<1>3. Nodal(S, l, d, slot)
  BY TreeAssumption DEF Growing
<1>4. ~(Len(slot) <= d)
  BY <1>2, SMT
<1>5. PICK t \in S : matches(t, slot) /\ \E u \in S : matches(u, slot) /\ u # t
  BY <1>3, <1>4 DEF Nodal, Shared
<1>6. d + 1 < IdBitLen
  <2>1. d + 1 # IdBitLen
    <3>1. SUFFICES ASSUME d + 1 = IdBitLen PROVE FALSE
      OBVIOUS
    <3>2. SameId(t, l)
      BY <1>5, <3>1, AllBits
    <3>3. PICK u \in S : matches(u, slot) /\ u # t
      BY <1>5
    <3>4. SameId(u, l)
      BY <3>1, <3>3, AllBits
    <3>5. QED BY <3>2, <3>3, <3>4 DEF IdsDistinct, SameId
  <2>2. QED BY <1>1, <2>1, TreeAssumption, SMT
<1>7. ASSUME NEW p \in BitStrings PROVE Nodal(S, l, d + 1, p) <=> Nodal(S, l, d, p)
  <2>1. Len(p) \in 1 .. IdBitLen
    BY PrefixLen
  <2>2. Len(p) <= d + 1 <=> Len(p) <= d \/ Len(p) = d + 1
    BY <2>1, TreeAssumption, SMT
  <2>3. matches(l, p) /\ Len(p) = d + 1 <=> p = slot
    BY <1>2, PrefixLen
  <2>4. QED BY <1>3, <2>2, <2>3 DEF Nodal
<1>8. ASSUME NEW p PROVE InTree(S, l, d + 1, p) <=> InTree(S, l, d, p)
  BY <1>7, FrontOf DEF InTree
<1>9. \A p \in DOMAIN tr : p \in BitStrings
  BY DEF Growing, InTree
<1>10. Growing(tr, S, l, d + 1)
  BY <1>7, <1>8, <1>9 DEF Growing
<1>11. QED BY <1>5, <1>6, <1>10

-----------------------------------------------------------------------------
LEMMA TreeInvInit == TreeInit => TreeInv
<1> SUFFICES ASSUME TreeInit PROVE TreeInv
  OBVIOUS
<1>1. Done = {}
  BY DEF TreeInit, Done
<1>2. DOMAIN tree = {} /\ tree = [p \in DOMAIN tree |-> tree[p]]
  BY SMT DEF TreeInit
<1>3. Growing(tree, Done, leaf, 0)
  BY <1>1, <1>2 DEF Growing, InTree
<1>4. IdsDistinct(Done)
  BY <1>1 DEF IdsDistinct
<1>5. QED BY <1>1, <1>3, <1>4 DEF TreeInit, TreeInv

\* add takes the next transaction: its insert starts at the root of a tree of
\* those before it.
LEMMA AddKeeps ==
  ASSUME TreeInv, NEW t \in toAdd, Add(t)
  PROVE  TreeInv'
<1>1. t \in pooled /\ t \notin Done /\ Done' = Done \cup {t} /\ Inserted' = Done
  BY DEF TreeInv, Add, Done, Inserted
<1>2. /\ pooled' \in SUBSET Tx /\ toAdd' \in SUBSET pooled' /\ leaf' \in Tx
      /\ tree_pc' = "insert" /\ leaf' = t /\ pooled' = pooled /\ t \in Tx
      /\ tree' = tree /\ cursor' = <<>>
  BY DEF TreeInv, Add
<1>3. IdsDistinct(Done) /\ byId = Done /\ Growing(tree, Done, leaf, 0) /\ Done \in SUBSET Tx
  BY DEF TreeInv, Add, Done
<1>4. ASSUME IdsDistinct(Done') PROVE byId' = Done'
  <2>1. \A u \in Done : SameId(t, u) => t = u
    BY <1>1, <1>4 DEF IdsDistinct
  <2>2. ~\E u \in byId : SameId(t, u)
    BY <1>1, <1>3, <2>1
  <2>3. byId' = byId \cup {t}
    BY <2>2 DEF Add
  <2>4. QED BY <1>1, <1>3, <2>3
<1>5. Growing(tree, Done, t, 0)
  BY <1>3, GrowingIsTree
<1>6. Path(t, 0) = <<>>
  BY SMT DEF Path
<1>7. 0 \in Nat /\ 0 < IdBitLen /\ ~(0 > 0)
  BY TreeAssumption, SMT
<1>8. WalkOn(0)'
  <2>1. Growing(tree', Inserted', leaf', 0)
    BY <1>1, <1>2, <1>5
  <2>2. cursor' = Path(leaf', 0)
    BY <1>2, <1>6
  <2>3. QED BY <1>7, <2>1, <2>2 DEF WalkOn
<1>9. leaf' \in Done' /\ IdsDistinct(Inserted') /\ \E d \in Nat : WalkOn(d)'
  BY <1>1, <1>2, <1>3, <1>7, <1>8
<1>10. QED BY <1>2, <1>4, <1>9 DEF TreeInv

\* Where another transaction of the tree has the id of the leaf, the slots that
\* its insert looks at are taken.
LEMMA SlotTaken ==
  ASSUME NEW S \in SUBSET Tx, NEW l \in Tx, NEW u \in S, SameId(u, l),
         NEW d \in Nat, d < IdBitLen, NEW tr, Growing(tr, S, l, d)
  PROVE  Path(l, d + 1) \in DOMAIN tr
<1> DEFINE slot == Path(l, d + 1)
<1>1. d + 1 \in 1 .. IdBitLen /\ (d + 1 > 1 => d \in 1 .. IdBitLen) /\ d + 1 - 1 = d
  BY TreeAssumption, SMT
<1>2. /\ slot \in BitStrings /\ Len(slot) = d + 1
      /\ (d + 1 > 1 => Front(slot) = Path(l, d + 1 - 1))
  BY <1>1, PathType
<1>3. matches(u, slot)
  <2>1. Path(u, d + 1) = slot
    BY DEF Path, SameId
  <2>2. matches(u, Path(u, d + 1))
    BY <1>1, PathType
  <2>3. QED BY <2>1, <2>2
<1>4. d + 1 > 1 => Nodal(S, l, d, Path(l, d))
  <2> SUFFICES ASSUME d + 1 > 1 PROVE Nodal(S, l, d, Path(l, d))
    OBVIOUS
  <2>1. Len(Path(l, d)) = d /\ matches(l, Path(l, d))
    BY <1>1, PathType
  <2>2. QED BY <2>1, SMT DEF Nodal
<1>5. InTree(S, l, d, slot)
  BY <1>1, <1>2, <1>3, <1>4 DEF InTree
<1>6. QED BY <1>5 DEF Growing

LEMMA InsertShallow ==
  ASSUME TreeInv, Insert, NEW d \in Nat, WalkOn(d)
  PROVE  TreeInv'
<1>1. /\ pooled' = pooled /\ toAdd' = toAdd /\ byId' = byId /\ leaf' = leaf
      /\ Done' = Done /\ Inserted' = Inserted /\ tree_pc = "insert"
      /\ tree_pc' \in {"loop", "insert", "overflow"}
  BY DEF Insert, Done, Inserted
<1>2. /\ pooled' \in SUBSET Tx /\ toAdd' \in SUBSET pooled' /\ leaf' \in Tx
      /\ Inserted \in SUBSET Tx /\ leaf \in Tx /\ leaf \notin Inserted
      /\ leaf \in Done /\ IdsDistinct(Inserted) /\ Inserted \cup {leaf} = Done
      /\ (IdsDistinct(Done) => byId = Done)
  BY <1>1 DEF TreeInv, Inserted, Done
<1>3. /\ cursor = Path(leaf, d) /\ d < IdBitLen /\ Growing(tree, Inserted, leaf, d)
      /\ d > 0 => \E t \in Inserted : matches(t, Path(leaf, d))
  BY DEF WalkOn
<1> DEFINE slot == Path(leaf, d + 1)
<1>4. Append(cursor, Side(leaf, Len(cursor))) = slot /\ Len(cursor) = d
  BY <1>2, <1>3, SlotIsPath
<1>5. ASSUME NEW t \in Inserted, SameId(t, leaf) PROVE ~IdsDistinct(Done) /\ ~IdsDistinct(pooled)
  <2>1. t \in Done /\ leaf \in Done /\ t # leaf /\ Done \subseteq pooled
    BY <1>2 DEF Inserted, Done
  <2>2. QED BY <1>5, <2>1 DEF IdsDistinct
<1>6. /\ d + 1 \in Nat /\ d + 1 > 0
      /\ d + 1 < IdBitLen => d + 1 # MaxDepth
      /\ d + 1 < IdBitLen \/ d + 1 = IdBitLen
  BY <1>3, TreeAssumption, DepthAssumption, SMT
<1>7. ASSUME d + 1 < IdBitLen, Growing(tree', Inserted, leaf, d + 1), cursor' = slot,
             tree_pc' = IF d + 1 = MaxDepth THEN "overflow" ELSE "insert",
             \E t \in Inserted : matches(t, slot)
      PROVE  TreeInv'
  <2>1. tree_pc' = "insert"
    BY <1>6, <1>7
  <2>2. Growing(tree', Inserted', leaf', d + 1) /\ cursor' = Path(leaf', d + 1)
        /\ \E t \in Inserted' : matches(t, cursor')
    BY <1>1, <1>7
  <2>3. WalkOn(d + 1)'
    BY <1>7, <2>2 DEF WalkOn
  <2>4. \E e \in Nat : WalkOn(e)'
    BY <1>6, <2>3
  <2>5. QED BY <1>1, <1>2, <2>1, <2>4 DEF TreeInv
<1>8. CASE slot \notin DOMAIN tree
  <2>1. tree' = Extend(tree, slot, leaf) /\ tree_pc' = "loop"
    BY <1>4, <1>8 DEF Insert
  <2>2. Growing(tree', Done, leaf, 0)
    BY <1>2, <1>3, <1>8, <2>1, PutLeaf
  <2>3. \A t \in Inserted : ~SameId(t, leaf)
    BY <1>2, <1>3, <1>8, SlotTaken
  <2>4. IdsDistinct(Done)
    BY <1>2, <2>3 DEF IdsDistinct, SameId
  <2>5. QED BY <1>1, <1>2, <2>1, <2>2, <2>4 DEF TreeInv
<1>9. CASE slot \in DOMAIN tree /\ tree[slot] # Node
  <2>1. /\ tree' = Extend(Extend(tree, slot, Node),
                         Append(slot, Side(tree[slot], d + 1)), tree[slot])
        /\ cursor' = slot /\ tree_pc' = IF d + 1 = MaxDepth THEN "overflow" ELSE "insert"
    BY <1>4, <1>9 DEF Insert
  <2>2. CASE d + 1 < IdBitLen
    <3>1. /\ tree[slot] \in Inserted /\ matches(tree[slot], slot)
          /\ Growing(Extend(Extend(tree, slot, Node),
                            Append(slot, Side(tree[slot], d + 1)), tree[slot]),
                     Inserted, leaf, d + 1)
      BY <1>2, <1>3, <1>9, <2>2, PushDown
    <3>2. QED BY <1>7, <2>1, <2>2, <3>1
  <2>3. CASE d + 1 = IdBitLen
    <3>1. PICK u \in Inserted : u = tree[slot] /\ matches(u, slot)
      BY <1>3, <1>9 DEF Growing
    <3>2. SameId(u, leaf)
      BY <1>2, <2>3, <3>1, AllBits
    <3>3. Side(u, d + 1) = 0
      BY <2>3, TreeAssumption, SMT DEF Side
    <3> DEFINE down == Append(slot, 0)
    <3>4. down \in DOMAIN tree' /\ tree'[down] = u
      BY <2>1, <3>1, <3>3 DEF Extend
    <3>5. slot \in Seq(Sides) /\ Len(slot) = IdBitLen
      <4>1. IdBitLen \in 1 .. IdBitLen
        BY TreeAssumption, SMT
      <4>2. slot \in [1 .. IdBitLen -> Sides] /\ Len(slot) = IdBitLen
        BY <1>2, <2>3, <4>1, PathType
      <4>3. QED BY <4>2, TreeAssumption, SMT
    <3>6. WalkBeyond(u)'
      <4>1. SameId(u, leaf')
        BY <1>1, <3>2
      <4>2. IdBitLen <= Len(cursor') /\ cursor' \in Seq(Sides)
        BY <2>1, <3>5, TreeAssumption, SMT
      <4>3. Append(cursor', 0) \in DOMAIN tree' /\ tree'[Append(cursor', 0)] = u
        BY <2>1, <3>4
      <4>4. QED BY <4>1, <4>2, <4>3 DEF WalkBeyond
    <3>7. \E v \in Inserted' : WalkBeyond(v)'
      BY <1>1, <3>1, <3>6
    <3>8. ~IdsDistinct(pooled)
      BY <1>5, <3>1, <3>2
    <3>9. tree_pc' \in {"insert", "overflow"}
      BY <2>1
    <3>10. QED BY <1>1, <1>2, <3>7, <3>8, <3>9 DEF TreeInv
  <2>4. QED BY <1>6, <2>2, <2>3
<1>10. CASE slot \in DOMAIN tree /\ tree[slot] = Node
  <2>1. /\ tree' = tree /\ cursor' = slot
        /\ tree_pc' = IF d + 1 = MaxDepth THEN "overflow" ELSE "insert"
    BY <1>4, <1>10 DEF Insert
  <2>2. /\ d + 1 < IdBitLen /\ \E t \in Inserted : matches(t, slot)
        /\ Growing(tree, Inserted, leaf, d + 1)
    BY <1>2, <1>3, <1>10, GoDown
  <2>3. QED BY <1>7, <2>1, <2>2
<1>11. QED BY <1>8, <1>9, <1>10

\* Beyond the bits of an id a clash goes down for ever: insert moves the other
\* leaf one slot on, and meets it there again.
LEMMA InsertBeyond ==
  ASSUME TreeInv, Insert, NEW u \in Inserted, WalkBeyond(u)
  PROVE  TreeInv'
<1>1. /\ pooled' = pooled /\ toAdd' = toAdd /\ byId' = byId /\ leaf' = leaf
      /\ Done' = Done /\ Inserted' = Inserted /\ tree_pc = "insert"
  BY DEF Insert, Done, Inserted
<1>2. /\ pooled' \in SUBSET Tx /\ toAdd' \in SUBSET pooled' /\ leaf' \in Tx
      /\ leaf \in Done /\ IdsDistinct(Inserted) /\ u \in Tx /\ leaf \in Tx
      /\ (IdsDistinct(Done) => byId = Done)
  BY <1>1 DEF TreeInv, Inserted, Done
<1> DEFINE slot == Append(cursor, 0)
           depth == Len(cursor)
<1>3. /\ SameId(u, leaf) /\ IdBitLen <= depth /\ cursor \in Seq(Sides)
      /\ slot \in DOMAIN tree /\ tree[slot] = u
  BY DEF WalkBeyond
<1>4. depth \in Nat /\ slot \in Seq(Sides) /\ Len(slot) = depth + 1
      /\ ~(depth < IdBitLen) /\ ~(depth + 1 < IdBitLen) /\ IdBitLen <= depth + 1
  BY <1>3, TreeAssumption, SMT DEF Sides
<1>5. Side(leaf, depth) = 0 /\ Side(u, depth + 1) = 0
  BY <1>4 DEF Side
<1>6. u # Node
  BY <1>2, TreeAssumption
<1>7. /\ tree' = Extend(Extend(tree, slot, Node), Append(slot, 0), u)
      /\ cursor' = slot
      /\ tree_pc' = IF depth + 1 = MaxDepth THEN "overflow" ELSE "insert"
  BY <1>3, <1>5, <1>6 DEF Insert
<1>8. Append(cursor', 0) \in DOMAIN tree' /\ tree'[Append(cursor', 0)] = u
  BY <1>7 DEF Extend
<1>9. WalkBeyond(u)'
  BY <1>1, <1>3, <1>4, <1>7, <1>8 DEF WalkBeyond
<1>10. \E v \in Inserted' : WalkBeyond(v)'
  BY <1>1, <1>9
<1>11. ~IdsDistinct(pooled)
  <2>1. u \in pooled /\ leaf \in pooled /\ u # leaf
    BY <1>2 DEF Inserted, Done
  <2>2. QED BY <1>3, <2>1 DEF IdsDistinct
<1>12. QED BY <1>1, <1>2, <1>7, <1>10, <1>11 DEF TreeInv

LEMMA InsertKeeps ==
  ASSUME TreeInv, Insert
  PROVE  TreeInv'
<1>1. (\E d \in Nat : WalkOn(d)) \/ (\E u \in Inserted : WalkBeyond(u))
  BY DEF TreeInv, Insert
<1>2. QED BY <1>1, InsertShallow, InsertBeyond

LEMMA TreeInvNext == TreeInv /\ [TreeNext]_tvars => TreeInv'
<1> SUFFICES ASSUME TreeInv, [TreeNext]_tvars PROVE TreeInv'
  OBVIOUS
<1>1. CASE \E t \in toAdd : Add(t)
  BY <1>1, AddKeeps
<1>2. CASE Insert
  BY <1>2, InsertKeeps
<1>3. CASE Built
  BY <1>3 DEF TreeInv, Built, Done, Inserted, WalkOn, WalkBeyond
<1>4. CASE UNCHANGED tvars
  BY <1>4 DEF TreeInv, tvars, Done, Inserted, WalkOn, WalkBeyond
<1>5. QED BY <1>1, <1>2, <1>3, <1>4 DEF TreeNext, Idle

LEMMA TreeInvAlways == TreeSpec => []TreeInv
BY TreeInvInit, TreeInvNext, PTL DEF TreeSpec

\* Between two calls of add the tree of ibltpool is the tree of the transactions
\* added, in whatever order the map gave them (ibltpool's constructor, insert).
THEOREM TreeAlwaysCanonical == TreeSpec => []TreeIsCanonical
<1>1. TreeInv => TreeIsCanonical
  <2> SUFFICES ASSUME TreeInv, tree_pc = "loop", IdsDistinct(pooled)
               PROVE  tree = TreeOf(pooled \ toAdd) /\ byId = pooled \ toAdd
    BY DEF TreeIsCanonical
  <2>1. byId = Done /\ Growing(tree, Done, leaf, 0) /\ Done \in SUBSET Tx
    BY DEF TreeInv, Done
  <2>2. tree = TreeOf(Done)
    BY <2>1, GrowingIsTree
  <2>3. QED BY <2>1, <2>2 DEF Done
<1>2. QED BY <1>1, TreeInvAlways, PTL

\* Without a bit to follow everything in the tree is found.
LEMMA AllFound ==
  ASSUME NEW txs \in SUBSET Tx, IdsDistinct(txs), NEW bits \in [1 .. 0 -> Sides]
  PROVE  get_txs(TreeOf(txs), bits) = {t \in txs : matches(t, bits)}
<1> DEFINE tr == TreeOf(txs)
<1>1. DOMAIN bits = {} /\ Len(bits) = 0 /\ bits = <<>>
  BY SMT
<1>2. get_txs(tr, bits) = gather(tr, bits)
  <2>1. 1 .. Len(bits) = {}
    BY <1>1, SMT
  <2>2. QED BY <2>1 DEF get_txs
<1>3. ASSUME NEW t \in gather(tr, bits) PROVE t \in txs
  <2>1. PICK q \in DOMAIN tr : tr[q] # Node /\ t = tr[q]
    BY <1>3 DEF gather
  <2>2. QED BY <2>1, TreeShape
<1>4. ASSUME NEW t \in txs PROVE t \in gather(tr, bits)
  <2>1. PICK n \in 1 .. IdBitLen : LeafAt(txs, t, n)
    BY HasLeaf
  <2>2. n \in 1 .. n
    BY TreeAssumption, SMT
  <2>3. Path(t, n) \in DOMAIN tr /\ tr[Path(t, n)] = t /\ t # Node
    BY <2>1, <2>2, TreeAssumption DEF LeafAt
  <2>4. IsPrefix(bits, Path(t, n))
    <3>1. Len(Path(t, n)) = n
      BY PathType
    <3>2. SubSeq(Path(t, n), 1, 0) = <<>>
      BY <3>1, SMT
    <3>3. 0 <= n
      BY TreeAssumption, SMT
    <3>4. QED BY <1>1, <3>1, <3>2, <3>3, SMT DEF IsPrefix
  <2>5. QED BY <2>3, <2>4 DEF gather
<1>5. \A t \in txs : matches(t, bits)
  BY <1>1 DEF matches
<1>6. QED BY <1>2, <1>3, <1>4, <1>5

\* A pool that is built finds by a prefix the transactions that start with it
\* (get_txs); the one it makes for a transaction (get_unique_bitid) finds only it,
\* and a shorter one more.  A pool with a clash is never built.
THEOREM PrefixesAlwaysFind == TreeSpec => []PrefixesFind
<1>1. TreeInv => PrefixesFind
  <2> SUFFICES ASSUME TreeInv, tree_pc = "built" PROVE PrefixesFind
    BY DEF PrefixesFind, UniqueBitIdIsUnique, GetTxsMatches
  <2>1. pooled \in SUBSET Tx /\ IdsDistinct(pooled) /\ tree = TreeOf(pooled)
    <3>1. Done = pooled /\ pooled \in SUBSET Tx
      BY DEF TreeInv, Done
    <3>2. IdsDistinct(Done) /\ Growing(tree, Done, leaf, 0)
      BY DEF TreeInv
    <3>3. QED BY <3>1, <3>2, GrowingIsTree
  <2>2. \A bits \in BitStrings : get_txs(tree, bits) = {t \in pooled : matches(t, bits)}
    BY <2>1, GetTxsFinds
  <2>3. GetTxsMatches
    <3>1. SUFFICES ASSUME NEW n \in 0 .. IdBitLen, NEW bits \in [1 .. n -> Sides]
                   PROVE  get_txs(tree, bits) = {t \in pooled : matches(t, bits)}
      BY DEF GetTxsMatches
    <3>2. CASE n = 0
      BY <2>1, <3>2, AllFound
    <3>3. CASE n # 0
      <4>1. n \in 1 .. IdBitLen
        BY <3>3, TreeAssumption, SMT
      <4>2. QED BY <2>2, <4>1 DEF BitStrings
    <3>4. QED BY <3>2, <3>3
  <2>4. ASSUME NEW t \in pooled
        PROVE  LET bits == get_unique_bitid(tree, t)
               IN /\ get_txs(tree, bits) = {t}
                  /\ \A n \in 1 .. Len(bits) - 1 : get_txs(tree, SubSeq(bits, 1, n)) # {t}
    <3> DEFINE bits == get_unique_bitid(tree, t)
    <3>1. bits \in BitStrings /\ \A u \in pooled : matches(u, bits) <=> u = t
      BY <2>1, UniqueBitId
    <3>2. get_txs(tree, bits) = {t}
      BY <2>2, <3>1
    <3>3. PICK k \in 1 .. IdBitLen : LeafAt(pooled, t, k) /\ bits = Path(t, k)
      BY <2>1, BitIdIsPath
    <3> HIDE DEF bits
    <3>4. ASSUME NEW n \in 1 .. Len(bits) - 1 PROVE get_txs(tree, SubSeq(bits, 1, n)) # {t}
      <4>1. t \in Tx
        BY <2>1
      <4>2. Len(bits) = k
        BY <3>3, <4>1, PathType
      <4>3. n \in 1 .. k - 1 /\ n \in 1 .. k /\ n \in 1 .. IdBitLen
        BY <4>2, TreeAssumption, SMT
      <4>4. SubSeq(bits, 1, n) = Path(t, n) /\ Path(t, n) \in BitStrings
        BY <3>3, <4>1, <4>3, PathType
      <4>5. Path(t, n) \in DOMAIN tree /\ tree[Path(t, n)] = Node
        BY <2>1, <3>3, <4>3 DEF LeafAt
      <4>6. Shared(pooled, Path(t, n))
        BY <2>1, <4>5, TreeShape
      <4>7. PICK u \in pooled : matches(u, Path(t, n)) /\ u # t
        BY <4>6 DEF Shared
      <4>8. u \in get_txs(tree, Path(t, n))
        BY <2>2, <4>4, <4>7
      <4>9. QED BY <4>4, <4>7, <4>8
    <3>5. QED BY <3>2, <3>4 DEF bits
  <2>5. QED BY <2>3, <2>4 DEF PrefixesFind, UniqueBitIdIsUnique
<1>2. QED BY <1>1, TreeInvAlways, PTL

-----------------------------------------------------------------------------
\* How deep the walk of insert and the tree can be, with a clash too.
DepthInv ==
  /\ pooled \in SUBSET Tx /\ toAdd \in SUBSET pooled /\ leaf \in Tx
  /\ byId \in SUBSET pooled
  /\ tree_pc \in {"loop", "insert", "built", "overflow"}
  /\ cursor \in Seq(Sides) /\ Len(cursor) <= MaxDepth
  /\ tree_pc = "insert" => Len(cursor) < MaxDepth /\ leaf \in pooled
  /\ \A p \in DOMAIN tree :
       /\ p \in Seq(Sides) /\ 0 < Len(p) /\ Len(p) <= MaxDepth + 1
       /\ tree[p] \in Tx \cup {Node}

LEMMA SideType == ASSUME NEW t \in Tx, NEW d \in Nat PROVE Side(t, d) \in Sides
<1>1. d < IdBitLen => d + 1 \in 1 .. IdBitLen
  BY TreeAssumption, SMT
<1>2. IdBits[t] \in [1 .. IdBitLen -> Sides]
  BY TreeAssumption
<1>3. d < IdBitLen => IdBits[t][d + 1] \in Sides
  BY <1>1, <1>2
<1>4. 0 \in Sides
  BY DEF Sides
<1>5. QED BY <1>3, <1>4 DEF Side

LEMMA OneLonger ==
  ASSUME NEW p \in Seq(Sides), NEW s \in Sides
  PROVE  Append(p, s) \in Seq(Sides) /\ Len(Append(p, s)) = Len(p) + 1 /\ Len(p) \in Nat
OBVIOUS

LEMMA DepthInsert ==
  ASSUME DepthInv, Insert
  PROVE  DepthInv'
<1> DEFINE depth == Len(cursor)
           slot == Append(cursor, Side(leaf, depth))
<1>1. /\ pooled' = pooled /\ toAdd' = toAdd /\ byId' = byId /\ leaf' = leaf
      /\ cursor \in Seq(Sides) /\ depth < MaxDepth /\ leaf \in Tx /\ depth \in Nat
      /\ leaf \in pooled
  BY DEF DepthInv, Insert
<1>2. slot \in Seq(Sides) /\ Len(slot) = depth + 1
  BY <1>1, SideType, OneLonger
<1> HIDE DEF slot
<1>3. 0 < Len(slot) /\ Len(slot) <= MaxDepth /\ Len(slot) <= MaxDepth + 1 /\ depth + 1 \in Nat
      /\ (depth + 1 # MaxDepth => depth + 1 < MaxDepth)
      /\ 0 < depth + 2 /\ depth + 2 <= MaxDepth + 1
  BY <1>1, <1>2, DepthAssumption, SMT
<1>4. CASE slot \notin DOMAIN tree
  <2>1. tree' = Extend(tree, slot, leaf) /\ tree_pc' = "loop" /\ cursor' = cursor
    BY <1>4 DEF Insert, slot
  <2>2. \A p \in DOMAIN tree' : /\ p \in Seq(Sides) /\ 0 < Len(p) /\ Len(p) <= MaxDepth + 1
                                /\ tree'[p] \in Tx \cup {Node}
    BY <1>1, <1>2, <1>3, <2>1 DEF Extend, DepthInv
  <2>3. QED BY <1>1, <2>1, <2>2 DEF DepthInv
<1>5. ASSUME slot \in DOMAIN tree, cursor' = slot,
             tree_pc' = IF depth + 1 = MaxDepth THEN "overflow" ELSE "insert",
             \A p \in DOMAIN tree' : /\ p \in Seq(Sides) /\ 0 < Len(p) /\ Len(p) <= MaxDepth + 1
                                    /\ tree'[p] \in Tx \cup {Node}
      PROVE  DepthInv'
  <2>1. cursor' \in Seq(Sides) /\ Len(cursor') <= MaxDepth
    BY <1>2, <1>3, <1>5
  <2>2. tree_pc' = "insert" => Len(cursor') < MaxDepth
    BY <1>2, <1>3, <1>5
  <2>3. tree_pc' \in {"loop", "insert", "built", "overflow"}
    BY <1>5
  <2>4. QED BY <1>1, <1>5, <2>1, <2>2, <2>3 DEF DepthInv
<1>6. CASE slot \in DOMAIN tree /\ tree[slot] # Node
  <2> DEFINE u == tree[slot]
             down == Append(slot, Side(u, depth + 1))
  <2>1. /\ tree' = Extend(Extend(tree, slot, Node), down, u) /\ cursor' = slot
        /\ tree_pc' = IF depth + 1 = MaxDepth THEN "overflow" ELSE "insert"
    BY <1>6 DEF Insert, slot
  <2>2. u \in Tx
    BY <1>6 DEF DepthInv
  <2>3. down \in Seq(Sides) /\ Len(down) = Len(slot) + 1
    BY <1>2, <1>3, <2>2, SideType, OneLonger
  <2>4. Len(down) = depth + 2
    BY <1>1, <1>2, <2>3, SMT
  <2> HIDE DEF down, u
  <2>5. \A p \in DOMAIN tree' : /\ p \in Seq(Sides) /\ 0 < Len(p) /\ Len(p) <= MaxDepth + 1
                                /\ tree'[p] \in Tx \cup {Node}
    <3>1. SUFFICES ASSUME NEW p \in DOMAIN tree'
                   PROVE  /\ p \in Seq(Sides) /\ 0 < Len(p) /\ Len(p) <= MaxDepth + 1
                          /\ tree'[p] \in Tx \cup {Node}
      OBVIOUS
    <3>2. CASE p = down
      BY <1>3, <2>1, <2>2, <2>3, <2>4, <3>2 DEF Extend
    <3>3. CASE p # down /\ p = slot
      BY <1>2, <1>3, <2>1, <3>3 DEF Extend
    <3>4. CASE p # down /\ p # slot
      <4>1. p \in DOMAIN tree /\ tree'[p] = tree[p]
        BY <2>1, <3>4 DEF Extend
      <4>2. QED BY <4>1 DEF DepthInv
    <3>5. QED BY <3>2, <3>3, <3>4
  <2>6. QED BY <1>5, <1>6, <2>1, <2>5
<1>7. CASE slot \in DOMAIN tree /\ tree[slot] = Node
  <2>1. /\ tree' = tree /\ cursor' = slot
        /\ tree_pc' = IF depth + 1 = MaxDepth THEN "overflow" ELSE "insert"
    BY <1>7 DEF Insert, slot
  <2>2. \A p \in DOMAIN tree : /\ p \in Seq(Sides) /\ 0 < Len(p) /\ Len(p) <= MaxDepth + 1
                                /\ tree[p] \in Tx \cup {Node}
    BY DEF DepthInv
  <2>3. QED BY <1>5, <1>7, <2>1, <2>2
<1>8. QED BY <1>4, <1>6, <1>7

LEMMA DepthAlways == TreeSpec => []DepthInv
<1>1. TreeInit => DepthInv
  <2> SUFFICES ASSUME TreeInit PROVE DepthInv
    OBVIOUS
  <2>1. cursor \in Seq(Sides) /\ Len(cursor) <= MaxDepth /\ DOMAIN tree = {}
    BY DepthAssumption, SMT DEF TreeInit
  <2>2. QED BY <2>1 DEF TreeInit, DepthInv
<1>2. DepthInv /\ [TreeNext]_tvars => DepthInv'
  <2> SUFFICES ASSUME DepthInv, [TreeNext]_tvars PROVE DepthInv'
    OBVIOUS
  <2>1. ASSUME NEW t \in toAdd, Add(t) PROVE DepthInv'
    <3>1. <<>> \in Seq(Sides) /\ Len(<<>>) <= MaxDepth /\ Len(<<>>) < MaxDepth
      BY TreeAssumption, DepthAssumption, SMT
    <3>2. /\ cursor' = <<>> /\ tree_pc' = "insert" /\ leaf' = t /\ toAdd' = toAdd \ {t}
          /\ pooled' = pooled /\ tree' = tree /\ byId' \in SUBSET pooled /\ t \in pooled
      BY <2>1 DEF Add, DepthInv
    <3>3. QED BY <3>1, <3>2 DEF DepthInv
  <2>2. CASE Built \/ Idle \/ UNCHANGED tvars
    BY <2>2 DEF Built, Idle, tvars, DepthInv
  <2>3. QED BY <2>1, <2>2, DepthInsert DEF TreeNext
<1>3. QED BY <1>1, <1>2, PTL DEF TreeSpec

LEMMA InPaths ==
  ASSUME NEW p \in Seq(Sides), NEW n \in Nat, Len(p) <= n
  PROVE  p \in Paths(n)
<1>1. Len(p) \in 0 .. n /\ p \in [1 .. Len(p) -> Sides]
  BY SMT
<1>2. QED BY <1>1 DEF Paths

\* The values of the state of the constructor of ibltpool: the tree is no deeper
\* than an id has bits, or than the stack allows where two ids are the same.
THEOREM TreeTypes == TreeSpec => []TreeTypeOK
<1>1. TreeInv /\ DepthInv => TreeTypeOK
  <2> SUFFICES ASSUME TreeInv, DepthInv PROVE TreeTypeOK
    OBVIOUS
  <2>1. IdBitLen \in Nat /\ MaxDepth \in Nat /\ MaxDepth + 1 \in Nat
    BY TreeAssumption, DepthAssumption, SMT
  <2>2. cursor \in Paths(MaxDepth)
    BY <2>1, InPaths DEF DepthInv
  <2>3. ASSUME NEW p \in DOMAIN tree PROVE p \in Paths(MaxDepth + 1) /\ p # <<>>
    <3>1. p \in Seq(Sides) /\ 0 < Len(p) /\ Len(p) <= MaxDepth + 1
      BY DEF DepthInv
    <3>2. p # <<>>
      BY <3>1, SMT
    <3>3. QED BY <2>1, <3>1, <3>2, InPaths
  <2>4. ASSUME IdsDistinct(pooled), NEW p \in DOMAIN tree PROVE p \in Paths(IdBitLen)
    <3>1. p \in BitStrings
      <4>1. CASE tree_pc \in {"loop", "built"}
        BY <4>1 DEF TreeInv, Growing, InTree
      <4>2. CASE tree_pc = "insert"
        <5>1. ASSUME NEW u \in Inserted, WalkBeyond(u) PROVE FALSE
          BY <2>4, <4>2, <5>1 DEF TreeInv, WalkBeyond, Inserted, Done, IdsDistinct
        <5>2. QED BY <4>2, <5>1 DEF TreeInv, WalkOn, Growing, InTree
      <4>3. QED BY <2>4, <4>1, <4>2 DEF TreeInv
    <3>2. PICK n \in 1 .. IdBitLen : p \in [1 .. n -> Sides]
      BY <3>1 DEF BitStrings
    <3>3. n \in 0 .. IdBitLen
      BY <2>1, SMT
    <3>4. QED BY <3>2, <3>3 DEF Paths
  <2>5. DOMAIN tree \subseteq
          Paths(IF IdsDistinct(pooled) THEN IdBitLen ELSE MaxDepth + 1) \ {<<>>}
    BY <2>3, <2>4
  <2>6. QED BY <2>2, <2>5 DEF TreeTypeOK, DepthInv
<1>2. QED BY <1>1, TreeInvAlways, DepthAlways, PTL

-----------------------------------------------------------------------------
(***************************************************************************)
(* The candidates that a receiver selects are, of what it shares with the  *)
(* generator, the block and what a prefix asked for: for any transactions, *)
(* fees and pools whose txid48s differ.                                    *)
(*                                                                         *)
(* The invariant says at each stage what the loops have done so far. The   *)
(* argument is about a prefix: it is unique among the generator's          *)
(* transactions (UniqueBitId), so a transaction that both have is found by *)
(* its own prefix (GetTxsFinds) and by no other.                           *)
(***************************************************************************)

PrefixesOf(S) == {Prefix(t) : t \in S}
Unwanted == {t \in pool : ~Low(t) /\ t \notin mined}
LowMined == {t \in mined : Low(t)}

\* What the bits of B find in the receiver's pool.
Found(B) == {t \in receiver : \E bits \in B : matches(t, bits)}

PoolsOK ==
  /\ pool \in SUBSET Tx /\ IdsDistinct(pool)
  /\ receiver \in SUBSET Tx /\ IdsDistinct(receiver)
  /\ mined \in SUBSET pool

SelectionInv ==
  /\ PoolsOK
  /\ stage \in {"add exceptions", "remove exceptions", "remove", "add"}
  /\ stage = "add exceptions" =>
       /\ pending \subseteq mined
       /\ added = PrefixesOf(LowMined \ pending) /\ removed = {}
  /\ stage # "add exceptions" => added = PrefixesOf(LowMined)
  /\ stage = "remove exceptions" =>
       /\ pending \subseteq pool
       /\ removed = PrefixesOf(Unwanted \ pending)
  /\ stage \in {"remove", "add"} => removed = PrefixesOf(Unwanted)
  /\ stage = "remove" =>
       /\ pending \subseteq removed
       /\ candidates = receiver \ Found(removed \ pending)
  /\ stage = "add" =>
       /\ pending \subseteq added
       /\ candidates = (receiver \ Found(removed))
                         \cup {t \in Found(added \ pending) : Low(t)}

-----------------------------------------------------------------------------
LEMMA InitSelection == SelectionInit => SelectionInv
<1> SUFFICES ASSUME SelectionInit PROVE SelectionInv
  OBVIOUS
<1>1. PoolsOK
  BY DEF SelectionInit, PoolsOK
<1>2. PrefixesOf(LowMined \ pending) = {}
  BY DEF SelectionInit, PrefixesOf, LowMined
<1>3. QED BY <1>1, <1>2 DEF SelectionInit, SelectionInv

\* The pools never change, nor what is defined by them.
LEMMA PoolsStay ==
  ASSUME PoolsOK, UNCHANGED <<mined, pool, receiver>>
  PROVE  /\ PoolsOK'
         /\ Unwanted' = Unwanted /\ LowMined' = LowMined
         /\ \A t : Prefix(t)' = Prefix(t)
         /\ \A S : PrefixesOf(S)' = PrefixesOf(S)
         /\ \A B : Found(B)' = Found(B)
<1>1. \A t : Prefix(t)' = Prefix(t)
  BY DEF Prefix
<1>2. QED BY <1>1 DEF PoolsOK, Unwanted, LowMined, PrefixesOf, Found, Low

\* A prefix of the generator's is one that can be looked for, and what is found.
LEMMA PrefixFinds ==
  ASSUME PoolsOK, NEW S \in SUBSET pool
  PROVE  /\ PrefixesOf(S) \subseteq BitStrings
         /\ \A t \in pool \cap receiver : t \in Found(PrefixesOf(S)) <=> t \in S
<1>1. \A t \in S : /\ Prefix(t) \in BitStrings
                   /\ \A u \in pool : matches(u, Prefix(t)) <=> u = t
  BY UniqueBitId DEF PoolsOK, Prefix
<1>2. QED BY <1>1 DEF PrefixesOf, Found

-----------------------------------------------------------------------------
LEMMA ListAddedInv ==
  ASSUME SelectionInv, NEW t \in Tx, ListAdded(t)
  PROVE  SelectionInv'
<1>1. /\ PoolsOK /\ stage = "add exceptions" /\ stage' = stage
      /\ t \in pending /\ t \in mined /\ pending' = pending \ {t} /\ pending \subseteq mined
      /\ UNCHANGED <<mined, pool, receiver, removed>> /\ removed = {}
      /\ added = PrefixesOf(LowMined \ pending)
      /\ added' = added \cup (IF Low(t) THEN {Prefix(t)} ELSE {})
  BY DEF SelectionInv, ListAdded
<1>2. added' = PrefixesOf(LowMined \ pending')
  <2>1. CASE Low(t)
    <3>1. LowMined \ pending' = (LowMined \ pending) \cup {t}
      BY <1>1, <2>1 DEF LowMined
    <3>2. QED BY <1>1, <2>1, <3>1 DEF PrefixesOf
  <2>2. CASE ~Low(t)
    <3>1. LowMined \ pending' = LowMined \ pending
      BY <1>1, <2>2 DEF LowMined
    <3>2. QED BY <1>1, <2>2, <3>1
  <2>3. QED BY <2>1, <2>2
<1>3. QED BY <1>1, <1>2, PoolsStay DEF SelectionInv

LEMMA EndAddedInv == SelectionInv /\ EndAdded => SelectionInv'
<1> SUFFICES ASSUME SelectionInv, EndAdded PROVE SelectionInv'
  OBVIOUS
<1>1. /\ PoolsOK /\ pending = {} /\ stage' = "remove exceptions" /\ pending' = pool
      /\ UNCHANGED <<mined, pool, receiver, added, removed>>
      /\ removed = {} /\ added = PrefixesOf(LowMined \ pending)
  BY DEF SelectionInv, EndAdded
<1>2. added = PrefixesOf(LowMined) /\ removed = PrefixesOf(Unwanted \ pool)
  BY <1>1 DEF PrefixesOf, Unwanted
<1>3. QED BY <1>1, <1>2, PoolsStay DEF SelectionInv

LEMMA ListRemovedInv ==
  ASSUME SelectionInv, NEW t \in Tx, ListRemoved(t)
  PROVE  SelectionInv'
<1>1. /\ PoolsOK /\ stage = "remove exceptions" /\ stage' = stage
      /\ t \in pending /\ t \in pool /\ pending' = pending \ {t} /\ pending \subseteq pool
      /\ UNCHANGED <<mined, pool, receiver, added>> /\ added = PrefixesOf(LowMined)
      /\ removed = PrefixesOf(Unwanted \ pending)
      /\ removed' = removed \cup (IF ~Low(t) /\ t \notin mined THEN {Prefix(t)} ELSE {})
  BY DEF SelectionInv, ListRemoved
<1>2. removed' = PrefixesOf(Unwanted \ pending')
  <2>1. CASE t \in Unwanted
    <3>1. Unwanted \ pending' = (Unwanted \ pending) \cup {t}
      BY <1>1, <2>1
    <3>2. ~Low(t) /\ t \notin mined
      BY <2>1 DEF Unwanted
    <3>3. QED BY <1>1, <3>1, <3>2 DEF PrefixesOf
  <2>2. CASE t \notin Unwanted
    <3>1. Unwanted \ pending' = Unwanted \ pending
      BY <1>1, <2>2
    <3>2. ~(~Low(t) /\ t \notin mined)
      BY <1>1, <2>2 DEF Unwanted
    <3>3. QED BY <1>1, <3>1, <3>2
  <2>3. QED BY <2>1, <2>2
<1>3. QED BY <1>1, <1>2, PoolsStay DEF SelectionInv

LEMMA TakeAllInv == SelectionInv /\ TakeAll => SelectionInv'
<1> SUFFICES ASSUME SelectionInv, TakeAll PROVE SelectionInv'
  OBVIOUS
<1>1. /\ PoolsOK /\ pending = {} /\ stage' = "remove" /\ pending' = removed
      /\ candidates' = receiver
      /\ UNCHANGED <<mined, pool, receiver, added, removed>>
      /\ added = PrefixesOf(LowMined) /\ removed = PrefixesOf(Unwanted \ pending)
  BY DEF SelectionInv, TakeAll
<1>2. removed = PrefixesOf(Unwanted)
  BY <1>1
<1>3. candidates' = receiver \ Found(removed \ removed)
  BY <1>1 DEF Found
<1>4. QED BY <1>1, <1>2, <1>3, PoolsStay DEF SelectionInv

\* A prefix that is looked up adds what it finds to what was found.
LEMMA LookUp ==
  ASSUME PoolsOK, NEW bits \in BitStrings, NEW B, bits \in B, NEW P, bits \in P
  PROVE  Found(B \ (P \ {bits})) = Found(B \ P) \cup get_txs(TreeOf(receiver), bits)
<1>1. get_txs(TreeOf(receiver), bits) = {t \in receiver : matches(t, bits)}
  BY GetTxsFinds DEF PoolsOK
<1>2. B \ (P \ {bits}) = (B \ P) \cup {bits}
  OBVIOUS
<1>3. Found((B \ P) \cup {bits}) = Found(B \ P) \cup {t \in receiver : matches(t, bits)}
  BY DEF Found
<1>4. QED BY <1>1, <1>2, <1>3

LEMMA DropRemovedInv ==
  ASSUME SelectionInv, NEW bits \in pending, DropRemoved(bits)
  PROVE  SelectionInv'
<1>1. /\ PoolsOK /\ stage = "remove" /\ stage' = stage /\ pending' = pending \ {bits}
      /\ UNCHANGED <<mined, pool, receiver, added, removed>>
      /\ pending \subseteq removed /\ removed = PrefixesOf(Unwanted)
      /\ added = PrefixesOf(LowMined)
      /\ candidates = receiver \ Found(removed \ pending)
      /\ candidates' = candidates \ get_txs(TreeOf(receiver), bits)
  BY DEF SelectionInv, DropRemoved
<1>2. Unwanted \in SUBSET pool
  BY DEF Unwanted
<1>3. bits \in BitStrings /\ bits \in removed /\ bits \in pending
  BY <1>1, <1>2, PrefixFinds
<1>4. Found(removed \ pending')
        = Found(removed \ pending) \cup get_txs(TreeOf(receiver), bits)
  <2>1. PoolsOK /\ pending' = pending \ {bits}
    BY <1>1
  <2>2. Found(removed \ (pending \ {bits}))
          = Found(removed \ pending) \cup get_txs(TreeOf(receiver), bits)
    BY <1>3, <2>1, LookUp
  <2>3. QED BY <2>1, <2>2
<1>5. candidates' = receiver \ Found(removed \ pending')
  BY <1>1, <1>4
<1>6. QED BY <1>1, <1>5, PoolsStay DEF SelectionInv

LEMMA EndRemoveInv == SelectionInv /\ EndRemove => SelectionInv'
<1> SUFFICES ASSUME SelectionInv, EndRemove PROVE SelectionInv'
  OBVIOUS
<1>1. /\ PoolsOK /\ pending = {} /\ stage' = "add" /\ pending' = added
      /\ UNCHANGED <<mined, pool, receiver, added, removed, candidates>>
      /\ added = PrefixesOf(LowMined) /\ removed = PrefixesOf(Unwanted)
      /\ candidates = receiver \ Found(removed \ pending)
  BY DEF SelectionInv, EndRemove
<1>2. Found(added \ added) = {}
  BY DEF Found
<1>3. candidates = (receiver \ Found(removed)) \cup {t \in Found(added \ added) : Low(t)}
  BY <1>1, <1>2
<1>4. \A t : Low(t)' = Low(t)
  BY DEF Low
<1>5. QED BY <1>1, <1>3, <1>4, PoolsStay DEF SelectionInv

LEMMA PutAddedInv ==
  ASSUME SelectionInv, NEW bits \in pending, PutAdded(bits)
  PROVE  SelectionInv'
<1>1. /\ PoolsOK /\ stage = "add" /\ stage' = stage /\ pending' = pending \ {bits}
      /\ UNCHANGED <<mined, pool, receiver, added, removed>>
      /\ pending \subseteq added /\ removed = PrefixesOf(Unwanted)
      /\ added = PrefixesOf(LowMined)
      /\ candidates = (receiver \ Found(removed))
                        \cup {t \in Found(added \ pending) : Low(t)}
      /\ candidates' = candidates \cup {t \in get_txs(TreeOf(receiver), bits) : Low(t)}
  BY DEF SelectionInv, PutAdded
<1>2. LowMined \in SUBSET pool
  BY <1>1 DEF LowMined, PoolsOK
<1>3. bits \in BitStrings /\ bits \in added /\ bits \in pending
  BY <1>1, <1>2, PrefixFinds
<1>4. Found(added \ pending')
        = Found(added \ pending) \cup get_txs(TreeOf(receiver), bits)
  <2>1. PoolsOK /\ pending' = pending \ {bits}
    BY <1>1
  <2>2. Found(added \ (pending \ {bits}))
          = Found(added \ pending) \cup get_txs(TreeOf(receiver), bits)
    BY <1>3, <2>1, LookUp
  <2>3. QED BY <2>1, <2>2
<1>5. candidates' = (receiver \ Found(removed)) \cup {t \in Found(added \ pending') : Low(t)}
  BY <1>1, <1>4
<1>6. \A t : Low(t)' = Low(t)
  BY DEF Low
<1>7. QED BY <1>1, <1>5, <1>6, PoolsStay DEF SelectionInv

LEMMA StepSelection == SelectionInv /\ [SelectionNext]_svars => SelectionInv'
<1> SUFFICES ASSUME SelectionInv, [SelectionNext]_svars PROVE SelectionInv'
  OBVIOUS
<1>1. CASE UNCHANGED svars
  <2>1. UNCHANGED <<mined, pool, receiver, added, removed, candidates, pending, stage>>
    BY <1>1 DEF svars
  <2>2. QED
    BY <2>1 DEF SelectionInv, PoolsOK, PrefixesOf, LowMined, Unwanted, Found, Low, Prefix
<1>2. CASE Selected
  BY <1>1, <1>2 DEF Selected
<1>3. QED
  BY <1>1, <1>2, ListAddedInv, EndAddedInv, ListRemovedInv, TakeAllInv, DropRemovedInv,
    EndRemoveInv, PutAddedInv DEF SelectionNext

THEOREM AlwaysSelectionInv == SelectionSpec => []SelectionInv
BY InitSelection, StepSelection, PTL DEF SelectionSpec

\* Of what both have, the receiver selects the block and all that is below the minimum
\* fee, and no other (generate_block, decode_block).
THEOREM SelectionAlwaysIsBlock == SelectionSpec => []SelectionIsBlock
<1>1. SelectionInv => SelectionIsBlock
  <2> SUFFICES ASSUME SelectionInv, IsSelected
               PROVE  candidates \cap pool = {t \in pool \cap receiver : t \in mined \/ Low(t)}
    BY DEF SelectionIsBlock
  <2>1. /\ PoolsOK /\ removed = PrefixesOf(Unwanted) /\ added = PrefixesOf(LowMined)
        /\ candidates = (receiver \ Found(removed)) \cup {t \in Found(added) : Low(t)}
    BY DEF SelectionInv, IsSelected
  <2>2. Unwanted \in SUBSET pool /\ LowMined \in SUBSET pool /\ mined \subseteq pool
    BY <2>1 DEF Unwanted, LowMined, PoolsOK
  <2>3. \A t \in pool \cap receiver :
          /\ t \in Found(removed) <=> t \in Unwanted
          /\ t \in Found(added) <=> t \in LowMined
    BY <2>1, <2>2, PrefixFinds
  <2>4. \A t : t \in Found(added) => t \in receiver
    BY DEF Found
  <2>5. ASSUME NEW t \in pool \cap receiver
        PROVE  t \in candidates <=> t \in mined \/ Low(t)
    BY <2>1, <2>2, <2>3 DEF Unwanted, LowMined
  <2>6. QED BY <2>1, <2>4, <2>5
<1>2. QED BY <1>1, AlwaysSelectionInv, PTL

\* Nothing is a candidate before the receiver begins.
NotYet == stage = "add exceptions" \/ stage = "remove exceptions" => candidates = {}

LEMMA AlwaysNotYet == SelectionSpec => []NotYet
<1>1. SelectionInit => NotYet
  BY DEF SelectionInit, NotYet
<1>2. NotYet /\ [SelectionNext]_svars => NotYet'
  <2> SUFFICES ASSUME NotYet, [SelectionNext]_svars PROVE NotYet'
    OBVIOUS
  <2>1. ASSUME NEW t \in Tx, ListAdded(t) \/ ListRemoved(t) PROVE NotYet'
    <3>1. candidates' = candidates /\ stage' = stage
      BY <2>1 DEF ListAdded, ListRemoved
    <3>2. QED BY <3>1 DEF NotYet
  <2>2. CASE EndAdded
    BY <2>2 DEF EndAdded, NotYet
  <2>3. CASE TakeAll
    <3>1. stage' = "remove"
      BY <2>3 DEF TakeAll
    <3>2. QED BY <3>1 DEF NotYet
  <2>4. ASSUME NEW bits \in pending, DropRemoved(bits) \/ PutAdded(bits) PROVE NotYet'
    <3>1. stage' = "remove" \/ stage' = "add"
      BY <2>4 DEF DropRemoved, PutAdded
    <3>2. QED BY <3>1 DEF NotYet
  <2>5. CASE EndRemove
    <3>1. stage' = "add"
      BY <2>5 DEF EndRemove
    <3>2. QED BY <3>1 DEF NotYet
  <2>6. CASE Selected \/ UNCHANGED svars
    BY <2>6 DEF Selected, svars, NotYet
  <2>7. QED BY <2>1, <2>2, <2>3, <2>4, <2>5, <2>6 DEF SelectionNext
<1>3. QED BY <1>1, <1>2, PTL DEF SelectionSpec

\* The values of the state of the selection: what is listed are prefixes, what is
\* selected is what the receiver has (generate_block, decode_block).
THEOREM SelectionTypes == SelectionSpec => []SelectionTypeOK
<1>1. SelectionInv /\ NotYet => SelectionTypeOK
  <2> SUFFICES ASSUME SelectionInv, NotYet PROVE SelectionTypeOK
    OBVIOUS
  <2>1. PoolsOK /\ stage \in {"add exceptions", "remove exceptions", "remove", "add"}
    BY DEF SelectionInv
  <2>2. mined \in SUBSET pool /\ pool \in SUBSET Tx /\ receiver \in SUBSET Tx
    BY <2>1 DEF PoolsOK
  <2>3. LowMined \in SUBSET pool /\ Unwanted \in SUBSET pool
    BY <2>2 DEF LowMined, Unwanted
  <2>4. ASSUME NEW S, NEW T \in SUBSET pool PROVE PrefixesOf(T \ S) \subseteq PrefixBits
    <3>1. T \ S \in SUBSET pool
      OBVIOUS
    <3>2. BitStrings = PrefixBits
      BY DEF BitStrings, PrefixBits
    <3>3. QED BY <2>1, <3>1, <3>2, PrefixFinds
  <2>5. PrefixesOf(LowMined) \subseteq PrefixBits /\ PrefixesOf(Unwanted) \subseteq PrefixBits
    <3>1. BitStrings = PrefixBits
      BY DEF BitStrings, PrefixBits
    <3>2. QED BY <2>1, <2>3, <3>1, PrefixFinds
  <2>6. CASE stage = "add exceptions"
    <3>1. /\ pending \subseteq mined /\ added = PrefixesOf(LowMined \ pending)
          /\ removed = {} /\ candidates = {}
      BY <2>6 DEF SelectionInv, NotYet
    <3>2. added \subseteq PrefixBits
      BY <2>3, <2>4, <3>1
    <3>3. QED BY <2>1, <2>2, <2>6, <3>1, <3>2 DEF SelectionTypeOK
  <2>7. CASE stage = "remove exceptions"
    <3>1. /\ pending \subseteq pool /\ added = PrefixesOf(LowMined)
          /\ removed = PrefixesOf(Unwanted \ pending) /\ candidates = {}
      BY <2>7 DEF SelectionInv, NotYet
    <3>2. removed \subseteq PrefixBits
      BY <2>3, <2>4, <3>1
    <3>3. QED BY <2>1, <2>2, <2>5, <2>7, <3>1, <3>2 DEF SelectionTypeOK
  <2>8. CASE stage = "remove" \/ stage = "add"
    <3>1. /\ added = PrefixesOf(LowMined) /\ removed = PrefixesOf(Unwanted)
          /\ pending \subseteq removed \/ pending \subseteq added
      BY <2>8 DEF SelectionInv
    <3>2. candidates \subseteq receiver
      BY <2>8 DEF SelectionInv, Found
    <3>3. pending \subseteq PrefixBits
      BY <2>5, <3>1
    <3>4. QED BY <2>1, <2>2, <2>5, <2>8, <3>1, <3>2, <3>3 DEF SelectionTypeOK
  <2>9. QED BY <2>1, <2>6, <2>7, <2>8
<1>2. QED BY <1>1, AlwaysSelectionInv, AlwaysNotYet, PTL

-----------------------------------------------------------------------------
(***************************************************************************)
(* The selection heuristic: the hint that is sent is the best of all fees, *)
(* the estimates and the lists agree with each other, and what the peers   *)
(* work out from the message is what the sender meant, for any             *)
(* transactions, fees and mempools whose txid48s differ.                   *)
(*                                                                         *)
(* EstimateInv says what the loop over the fees has found so far           *)
(* (BestSoFar), ListsInv what each of the loops over the mempools has      *)
(* listed; both rest on the counts of transactions below a fee             *)
(* (SplitCounts) and on prefixes being nobody else's (BitIdIsPath).        *)
(***************************************************************************)

LEMMA PowNat == ASSUME NEW n \in Nat PROVE 2 ^ n \in Nat /\ 2 ^ n > 0
<1>1. IsFiniteSet(1 .. n) /\ Cardinality(1 .. n) = n
  BY FS_Interval, SMT
<1>2. IsFiniteSet(SUBSET (1 .. n)) /\ Cardinality(SUBSET (1 .. n)) = 2 ^ n
  BY <1>1, FS_SUBSET
<1>3. Cardinality(SUBSET (1 .. n)) \in Nat
  BY <1>2, FS_CardinalityType
<1>4. Cardinality(SUBSET (1 .. n)) # 0
  BY <1>2, FS_EmptySet
<1>5. QED BY <1>2, <1>3, <1>4, SMT

LEMMA SatType == ASSUME NEW t \in Tx PROVE satoshi_per_byte(t) \in Nat
<1>1. Fee[t] \in Nat /\ Length[t] \in Nat \ {0}
  BY FeeAssumption
<1>2. \A l \in Nat \ {0} : 13 \div l \in Nat
  BY SMT
<1>3. 13 \div Length[t] \in Nat
  BY <1>1, <1>2
<1>4. 2 ^ (13 \div Length[t]) \in Nat
  BY <1>3, PowNat
<1>5. \A a, b \in Nat : a * b \in Nat
  BY SMT
<1>6. QED BY <1>1, <1>4, <1>5 DEF satoshi_per_byte

-----------------------------------------------------------------------------
\* An enumeration of S by rising fee.
Rising(vec, S) ==
  /\ vec \in [1 .. Cardinality(S) -> S]
  /\ IsInjective(vec)
  /\ \A i, j \in DOMAIN vec :
       i <= j => satoshi_per_byte(vec[i]) <= satoshi_per_byte(vec[j])

LEMMA RisingFirst ==
  ASSUME NEW S \in SUBSET Tx, IsFiniteSet(S), NEW x \in S,
         \A t \in S : satoshi_per_byte(x) <= satoshi_per_byte(t),
         NEW rising, Rising(rising, S \ {x})
  PROVE  \E vec : Rising(vec, S)
<1> DEFINE n == Cardinality(S)
           vec == [i \in 1 .. n |-> IF i = 1 THEN x ELSE rising[i - 1]]
<1>1. /\ n \in Nat /\ n - 1 \in Nat /\ Cardinality(S \ {x}) = n - 1
  <2>1. IsFiniteSet(S \ {x}) /\ Cardinality(S \ {x}) = n - 1
    BY FS_RemoveElement
  <2>2. n \in Nat /\ Cardinality(S \ {x}) \in Nat
    BY <2>1, FS_CardinalityType
  <2>3. QED BY <2>1, <2>2
<1>2. /\ rising \in [1 .. n - 1 -> S \ {x}]
      /\ \A a, b \in DOMAIN rising : rising[a] = rising[b] => a = b
      /\ \A i, j \in DOMAIN rising :
           i <= j => satoshi_per_byte(rising[i]) <= satoshi_per_byte(rising[j])
  BY <1>1 DEF Rising, IsInjective
<1> HIDE DEF n
<1>3. ASSUME NEW i \in 1 .. n, i # 1 PROVE i - 1 \in 1 .. n - 1 /\ vec[i] = rising[i - 1]
  BY <1>1, <1>3, SMT
<1>4. ASSUME NEW i \in 1 .. n, i # 1 PROVE vec[i] \in S \ {x}
  BY <1>2, <1>3, <1>4
<1>5. ASSUME NEW i \in 1 .. n, i = 1 PROVE vec[i] = x
  BY <1>5
<1>6. vec \in [1 .. n -> S]
  <2>1. \A i \in 1 .. n : vec[i] \in S
    BY <1>4, <1>5
  <2>2. QED BY <2>1
<1>7. ASSUME NEW i \in 1 .. n, NEW j \in 1 .. n, vec[i] = vec[j] PROVE i = j
  <2>1. CASE i = 1 \/ j = 1
    BY <1>4, <1>5, <1>7, <2>1
  <2>2. CASE i # 1 /\ j # 1
    <3>1. /\ i - 1 \in DOMAIN rising /\ j - 1 \in DOMAIN rising
          /\ rising[i - 1] = rising[j - 1]
      BY <1>2, <1>3, <1>7, <2>2
    <3>2. i - 1 = j - 1
      BY <1>2, <3>1
    <3>3. QED BY <1>1, <3>2, SMT
  <2>3. QED BY <2>1, <2>2
<1>8. ASSUME NEW i \in 1 .. n, NEW j \in 1 .. n, i <= j
      PROVE  satoshi_per_byte(vec[i]) <= satoshi_per_byte(vec[j])
  <2>1. CASE i = 1
    BY <1>5, <1>6, <2>1
  <2>2. CASE i # 1
    <3>1. j # 1 /\ i - 1 <= j - 1
      BY <1>1, <1>8, <2>2, SMT
    <3>2. /\ i - 1 \in DOMAIN rising /\ j - 1 \in DOMAIN rising
          /\ vec[i] = rising[i - 1] /\ vec[j] = rising[j - 1]
      BY <1>2, <1>3, <2>2, <3>1
    <3>3. QED BY <1>2, <3>1, <3>2
  <2>3. QED BY <2>1, <2>2
<1> HIDE DEF vec
<1>9. DOMAIN vec = 1 .. n
  BY <1>6
<1>10. Rising(vec, S)
  BY <1>6, <1>7, <1>8, <1>9 DEF Rising, IsInjective, n
<1>11. QED BY <1>10

\* There always is one: the least set without would have one after all.
LEMMA RisingExists ==
  ASSUME NEW S \in SUBSET Tx
  PROVE  \E vec : Rising(vec, S)
<1> DEFINE None(U) == \A vec : ~Rising(vec, U)
           T == {n \in Nat : \E U \in SUBSET Tx : Cardinality(U) = n /\ None(U)}
<1>1. ASSUME NEW U \in SUBSET Tx PROVE IsFiniteSet(U) /\ Cardinality(U) \in Nat
  BY FeeAssumption, FS_Subset, FS_CardinalityType
<1>2. ASSUME T # {} PROVE FALSE
  <2>1. T \subseteq Nat
    OBVIOUS
  <2>2. PICK n \in T : \A m \in T : n <= m
    BY <1>2, <2>1, Least
  <2>3. PICK U \in SUBSET Tx : Cardinality(U) = n /\ None(U)
    OBVIOUS
  <2>4. U # {}
    <3>1. SUFFICES ASSUME U = {} PROVE FALSE
      OBVIOUS
    <3>2. Cardinality(U) = 0
      BY <3>1, FS_EmptySet
    <3> DEFINE empty == [i \in {} |-> i]
    <3>3. 1 .. Cardinality(U) = {}
      BY <3>2, SMT
    <3>4. DOMAIN empty = {} /\ empty \in [1 .. Cardinality(U) -> U]
      BY <3>1, <3>3
    <3> HIDE DEF empty
    <3>5. Rising(empty, U)
      BY <3>4 DEF Rising, IsInjective
    <3>6. QED BY <2>3, <3>5
  <2>5. PICK x \in U : \A t \in U : satoshi_per_byte(x) <= satoshi_per_byte(t)
    <3> DEFINE Fees == {satoshi_per_byte(t) : t \in U}
    <3>1. Fees \subseteq Nat /\ Fees # {}
      BY <2>4, SatType
    <3>2. \E f \in Fees : \A g \in Fees : f <= g
      BY <3>1, Least
    <3>3. QED BY <3>2
  <2>6. U \ {x} \in SUBSET Tx /\ Cardinality(U \ {x}) = n - 1 /\ n - 1 \in Nat
    <3>1. IsFiniteSet(U) /\ IsFiniteSet(U \ {x})
      BY <1>1
    <3>2. Cardinality(U \ {x}) = Cardinality(U) - 1 /\ Cardinality(U \ {x}) \in Nat
      BY <3>1, FS_RemoveElement, FS_CardinalityType
    <3>3. QED BY <2>3, <3>2
  <2>7. ~None(U \ {x})
    <3>1. SUFFICES ASSUME None(U \ {x}) PROVE FALSE
      OBVIOUS
    <3>2. n - 1 \in T
      BY <2>6, <3>1
    <3>3. n <= n - 1 /\ n \in Nat
      BY <2>2, <3>2
    <3>4. QED BY <3>3, SMT
  <2>8. QED BY <1>1, <2>3, <2>5, <2>7, RisingFirst
<1>3. ~None(S)
  BY <1>1, <1>2
<1>4. QED BY <1>3

\* std::sort: what a sorted vector holds.
LEMMA SortedIs ==
  ASSUME NEW S \in SUBSET Tx
  PROVE  /\ Len(Sorted(S)) = Cardinality(S) /\ Cardinality(S) \in Nat
         /\ DOMAIN Sorted(S) = 1 .. Cardinality(S)
         /\ \A i \in 1 .. Cardinality(S) : Sorted(S)[i] \in S
         /\ \A t \in S : \E i \in 1 .. Cardinality(S) : Sorted(S)[i] = t
         /\ \A i, j \in 1 .. Cardinality(S) : Sorted(S)[i] = Sorted(S)[j] => i = j
         /\ \A i, j \in 1 .. Cardinality(S) :
              i <= j => satoshi_per_byte(Sorted(S)[i]) <= satoshi_per_byte(Sorted(S)[j])
<1> DEFINE vec == Sorted(S)
           n == Cardinality(S)
<1>1. IsFiniteSet(S) /\ n \in Nat
  BY FeeAssumption, FS_Subset, FS_CardinalityType
<1>2. Rising(vec, S)
  BY RisingExists DEF Rising, Sorted
<1>3. vec \in [1 .. n -> S] /\ DOMAIN vec = 1 .. n
  BY <1>2 DEF Rising
<1>4. Len(vec) = n
  BY <1>1, <1>3, SMT
<1>5. \A i, j \in 1 .. n : vec[i] = vec[j] => i = j
  BY <1>2, <1>3 DEF Rising, IsInjective
<1>6. \A t \in S : \E i \in 1 .. n : vec[i] = t
  <2>1. vec \in Injection(1 .. n, S)
    BY <1>3, <1>5 DEF Injection, IsInjective
  <2>2. IsFiniteSet(1 .. n) /\ Cardinality(1 .. n) = n
    BY <1>1, FS_Interval, SMT
  <2>3. vec \in Surjection(1 .. n, S)
    BY <1>1, <2>1, <2>2, FS_Injection
  <2>4. QED BY <2>3 DEF Surjection
<1>7. \A i, j \in 1 .. n : i <= j => satoshi_per_byte(vec[i]) <= satoshi_per_byte(vec[j])
  BY <1>2, <1>3 DEF Rising
<1>8. QED BY <1>1, <1>3, <1>4, <1>5, <1>6, <1>7

-----------------------------------------------------------------------------
\* The first k of S by fee are those below at.
Splits(S, k, at) ==
  /\ k \in 0 .. Cardinality(S)
  /\ \A j \in 1 .. Cardinality(S) : j <= k <=> satoshi_per_byte(Sorted(S)[j]) < at

Below(S, at) == {t \in S : satoshi_per_byte(t) < at}

LEMMA SplitCounts ==
  ASSUME NEW S \in SUBSET Tx, NEW k, NEW at, Splits(S, k, at)
  PROVE  /\ IsFiniteSet(Below(S, at)) /\ Cardinality(Below(S, at)) = k
         /\ IsFiniteSet(S \ Below(S, at))
         /\ Cardinality(S \ Below(S, at)) = Cardinality(S) - k
<1> DEFINE vec == Sorted(S)
           n == Cardinality(S)
           f == [i \in 1 .. k |-> vec[i]]
<1>1. /\ n \in Nat /\ k \in Nat /\ k <= n
      /\ \A i \in 1 .. n : vec[i] \in S
      /\ \A t \in S : \E i \in 1 .. n : vec[i] = t
      /\ \A i, j \in 1 .. n : vec[i] = vec[j] => i = j
      /\ \A j \in 1 .. n : j <= k <=> satoshi_per_byte(vec[j]) < at
  <2>1. n \in Nat
    BY SortedIs
  <2>2. k \in Nat /\ k <= n
    BY <2>1, SMT DEF Splits
  <2>3. QED BY <2>1, <2>2, SortedIs DEF Splits
<1> HIDE DEF n, vec
<1>2. ASSUME NEW i \in 1 .. k PROVE i \in 1 .. n /\ i <= k
  BY <1>1, SMT
<1>3. f \in [1 .. k -> Below(S, at)]
  BY <1>1, <1>2 DEF Below
<1>4. \A i, j \in 1 .. k : f[i] = f[j] => i = j
  BY <1>1, <1>2
<1>5. \A t \in Below(S, at) : \E i \in 1 .. k : f[i] = t
  <2>1. SUFFICES ASSUME NEW t \in Below(S, at) PROVE \E i \in 1 .. k : f[i] = t
    OBVIOUS
  <2>2. PICK i \in 1 .. n : vec[i] = t
    BY <1>1 DEF Below
  <2>3. i <= k
    BY <1>1, <2>2 DEF Below
  <2>4. i \in 1 .. k
    BY <1>1, <2>3, SMT
  <2>5. QED BY <2>2, <2>4
<1>6. ExistsBijection(1 .. k, Below(S, at))
  <2> HIDE DEF f
  <2>1. f \in Bijection(1 .. k, Below(S, at))
    BY <1>3, <1>4, <1>5 DEF Bijection, Injection, Surjection, IsInjective
  <2>2. QED BY <2>1 DEF ExistsBijection
<1>7. Cardinality(Below(S, at)) = k
  BY <1>1, <1>6, FS_CountingElements
<1>8. IsFiniteSet(S) /\ IsFiniteSet(Below(S, at)) /\ S \cap Below(S, at) = Below(S, at)
  <2>1. IsFiniteSet(S) /\ Below(S, at) \subseteq S
    BY FeeAssumption, FS_Subset DEF Below
  <2>2. QED BY <2>1, FS_Subset
<1>9. /\ IsFiniteSet(S \ Below(S, at))
      /\ Cardinality(S \ Below(S, at)) = n - k
  BY <1>7, <1>8, FS_Difference DEF n
<1>10. QED BY <1>7, <1>8, <1>9 DEF n

\* The two loops of next_fee: what they pass is what pays no more than the fee.
LEMMA PastFeeIs ==
  ASSUME NEW S \in SUBSET Tx, NEW i, NEW at \in Nat, Splits(S, i, at)
  PROVE  /\ PastFee(Sorted(S), i, at) \in 0 .. Cardinality(S)
         /\ \A j \in 1 .. Cardinality(S) :
              j <= PastFee(Sorted(S), i, at) <=> satoshi_per_byte(Sorted(S)[j]) <= at
<1> DEFINE vec == Sorted(S)
           n == Cardinality(S)
           Sat(j) == satoshi_per_byte(vec[j])
           Passed(b) == /\ \A m \in i + 1 .. b : Sat(m) = at
                        /\ b < n => Sat(b + 1) # at
           past == CHOOSE b \in i .. n : Passed(b)
           U == {b \in i .. n : b < n => Sat(b + 1) # at}
<1>1. n \in Nat /\ Len(vec) = n
  BY SortedIs
<1>2. i \in Nat /\ i <= n /\ \A j \in 1 .. n : j <= i <=> Sat(j) < at
  <2>1. i \in Nat /\ i <= n
    BY <1>1, SMT DEF Splits
  <2>2. QED BY <2>1 DEF Splits
<1>3. \A j \in 1 .. n : Sat(j) \in Nat
  BY SortedIs, SatType
<1>4. \A j, k \in 1 .. n : j <= k => Sat(j) <= Sat(k)
  BY SortedIs
<1>5. PastFee(vec, i, at) = past
  BY <1>1 DEF PastFee
<1> HIDE DEF vec, n, Sat
<1>6. \E b \in i .. n : Passed(b)
  <2>1. U \subseteq Nat /\ n \in U
    BY <1>1, <1>2, SMT
  <2>2. PICK b \in U : \A m \in U : b <= m
    <3>1. U # {}
      BY <2>1
    <3> HIDE DEF U
    <3>2. QED BY <2>1, <3>1, Least
  <2>3. ASSUME NEW m \in i + 1 .. b PROVE Sat(m) = at
    <3>1. m - 1 \in i .. n /\ m - 1 < b /\ m - 1 < n /\ (m - 1) + 1 = m
      BY <1>1, <1>2, SMT
    <3>2. m - 1 \notin U
      <4>1. b \in Nat
        BY <2>1
      <4> HIDE DEF U
      <4>2. ~(b <= m - 1)
        BY <3>1, <4>1, <1>2, SMT
      <4>3. QED BY <2>2, <4>2
    <3>3. QED BY <3>1, <3>2
  <2>4. QED BY <2>3
<1>7. past \in i .. n /\ Passed(past)
  <2> HIDE DEF Passed
  <2>1. QED BY <1>6
<1>8. past \in Nat /\ i <= past /\ past <= n
  <2> HIDE DEF past
  <2>1. QED BY <1>1, <1>2, <1>7, SMT
<1> HIDE DEF past
<1>9. ASSUME NEW j \in 1 .. n, j <= past PROVE Sat(j) <= at
  <2>1. CASE j <= i
    BY <1>2, <1>3, <2>1, SMT
  <2>2. CASE ~(j <= i)
    <3>1. j \in i + 1 .. past
      BY <1>2, <1>8, <1>9, <2>2, SMT
    <3>2. QED BY <1>7, <3>1, <1>3, SMT
  <2>3. QED BY <2>1, <2>2
<1>10. ASSUME NEW j \in 1 .. n, ~(j <= past) PROVE ~(Sat(j) <= at)
  <2>1. past < n /\ past + 1 \in 1 .. n /\ past + 1 <= j /\ ~(past + 1 <= i)
    BY <1>1, <1>2, <1>8, <1>10, SMT
  <2>2. Sat(past + 1) # at /\ ~(Sat(past + 1) < at)
    BY <1>2, <1>7, <2>1
  <2>3. Sat(past + 1) <= Sat(j) /\ Sat(past + 1) \in Nat /\ Sat(j) \in Nat
    BY <1>3, <1>4, <2>1
  <2>4. QED BY <2>2, <2>3, SMT
<1>11. past \in 0 .. n
  BY <1>1, <1>8, SMT
<1>12. QED BY <1>5, <1>9, <1>10, <1>11 DEF vec, n, Sat

\* The next fee that occurs splits what was passed from the rest.
LEMMA NextSplits ==
  ASSUME NEW S \in SUBSET Tx, NEW b \in 0 .. Cardinality(S), NEW at \in Nat,
         \A j \in 1 .. Cardinality(S) : j <= b <=> satoshi_per_byte(Sorted(S)[j]) <= at,
         NEW next \in Nat, at < next,
         b + 1 \in DOMAIN Sorted(S) => next <= satoshi_per_byte(Sorted(S)[b + 1])
  PROVE  /\ Splits(S, b, next)
         /\ \A t \in S : satoshi_per_byte(t) <= at \/ next <= satoshi_per_byte(t)
<1> DEFINE vec == Sorted(S)
           n == Cardinality(S)
           Sat(j) == satoshi_per_byte(vec[j])
<1>1. /\ n \in Nat /\ DOMAIN vec = 1 .. n
      /\ \A j \in 1 .. n : Sat(j) \in Nat
      /\ \A j, k \in 1 .. n : j <= k => Sat(j) <= Sat(k)
      /\ \A t \in S : \E j \in 1 .. n : vec[j] = t
  BY SortedIs, SatType
<1>2. b \in Nat /\ b <= n
  BY <1>1, SMT
<1> HIDE DEF n, vec
<1>3. \A j \in 1 .. n : j <= b <=> Sat(j) <= at
  BY DEF n, vec
<1> HIDE DEF Sat
<1>4. ASSUME NEW j \in 1 .. n, ~(j <= b) PROVE next <= Sat(j)
  <2>1. b + 1 \in 1 .. n /\ b + 1 <= j
    BY <1>1, <1>2, <1>4, SMT
  <2>2. next <= Sat(b + 1)
    BY <1>1, <2>1 DEF Sat, vec
  <2>3. Sat(b + 1) <= Sat(j) /\ Sat(b + 1) \in Nat /\ Sat(j) \in Nat
    BY <1>1, <2>1
  <2>4. QED BY <2>2, <2>3, SMT
<1>5. ASSUME NEW j \in 1 .. n PROVE j <= b <=> Sat(j) < next
  <2>1. Sat(j) \in Nat
    BY <1>1
  <2>2. CASE j <= b
    <3>1. Sat(j) <= at
      BY <1>3, <2>2
    <3>2. QED BY <2>1, <2>2, <3>1, SMT
  <2>3. CASE ~(j <= b)
    BY <1>4, <2>1, <2>3, SMT
  <2>4. QED BY <2>2, <2>3
<1>6. ASSUME NEW t \in S PROVE satoshi_per_byte(t) <= at \/ next <= satoshi_per_byte(t)
  <2>1. PICK j \in 1 .. n : vec[j] = t
    BY <1>1
  <2>2. satoshi_per_byte(t) = Sat(j)
    BY <2>1 DEF Sat
  <2>3. QED BY <1>3, <1>4, <2>2
<1>7. QED BY <1>5, <1>6 DEF Splits, n, vec, Sat

\* What the next fee is: the least that occurs above the one at hand.
LEMMA NextFee ==
  ASSUME NEW B \in SUBSET Tx, NEW M \in SUBSET Tx, NEW i, NEW k, NEW at \in Nat,
         Splits(B, i, at), Splits(M, k, at),
         NEW b, b = PastFee(Sorted(B), i, at), NEW m, m = PastFee(Sorted(M), k, at),
         NEW heads, heads # {},
         heads = {Sorted(B)[j] : j \in {b + 1} \cap DOMAIN Sorted(B)}
                   \cup {Sorted(M)[j] : j \in {m + 1} \cap DOMAIN Sorted(M)},
         NEW next, next = Min({satoshi_per_byte(t) : t \in heads})
  PROVE  /\ next \in {satoshi_per_byte(t) : t \in Tx} /\ next \in Nat /\ at < next
         /\ Splits(B, b, next) /\ Splits(M, m, next)
         /\ \A t \in B \cup M : satoshi_per_byte(t) <= at \/ next <= satoshi_per_byte(t)
<1> DEFINE Fees == {satoshi_per_byte(t) : t \in heads}
<1>1. /\ b \in 0 .. Cardinality(B) /\ DOMAIN Sorted(B) = 1 .. Cardinality(B)
      /\ Cardinality(B) \in Nat
      /\ \A j \in 1 .. Cardinality(B) : Sorted(B)[j] \in Tx
      /\ \A j \in 1 .. Cardinality(B) : j <= b <=> satoshi_per_byte(Sorted(B)[j]) <= at
  BY PastFeeIs, SortedIs
<1>2. /\ m \in 0 .. Cardinality(M) /\ DOMAIN Sorted(M) = 1 .. Cardinality(M)
      /\ Cardinality(M) \in Nat
      /\ \A j \in 1 .. Cardinality(M) : Sorted(M)[j] \in Tx
      /\ \A j \in 1 .. Cardinality(M) : j <= m <=> satoshi_per_byte(Sorted(M)[j]) <= at
  BY PastFeeIs, SortedIs
<1>3. ASSUME NEW h \in heads
      PROVE  h \in Tx /\ satoshi_per_byte(h) \in Nat /\ ~(satoshi_per_byte(h) <= at)
  <2>1. CASE h \in {Sorted(B)[j] : j \in {b + 1} \cap DOMAIN Sorted(B)}
    <3>1. b + 1 \in 1 .. Cardinality(B) /\ h = Sorted(B)[b + 1]
      BY <1>1, <2>1
    <3>2. ~(b + 1 <= b)
      BY <1>1, SMT
    <3>3. QED BY <1>1, <3>1, <3>2, SatType
  <2>2. CASE h \in {Sorted(M)[j] : j \in {m + 1} \cap DOMAIN Sorted(M)}
    <3>1. m + 1 \in 1 .. Cardinality(M) /\ h = Sorted(M)[m + 1]
      BY <1>2, <2>2
    <3>2. ~(m + 1 <= m)
      BY <1>2, SMT
    <3>3. QED BY <1>2, <3>1, <3>2, SatType
  <2>3. QED BY <2>1, <2>2
<1>4. next \in Fees /\ \A f \in Fees : next <= f
  <2>1. Fees \subseteq Nat /\ Fees # {}
    BY <1>3
  <2> HIDE DEF Fees
  <2>2. \E f \in Fees : \A g \in Fees : f <= g
    BY <2>1, Least
  <2>3. next = Min(Fees)
    BY DEF Fees
  <2>4. QED BY <2>2, <2>3 DEF Min
<1>5. next \in {satoshi_per_byte(t) : t \in Tx} /\ next \in Nat /\ at < next
  <2>1. PICK h \in heads : next = satoshi_per_byte(h)
    BY <1>4
  <2>2. h \in Tx /\ next \in Nat /\ ~(next <= at)
    BY <1>3, <2>1
  <2>3. at < next
    BY <2>2, SMT
  <2>4. QED BY <2>1, <2>2, <2>3
<1>6. b + 1 \in DOMAIN Sorted(B) => next <= satoshi_per_byte(Sorted(B)[b + 1])
  <2>1. b + 1 \in DOMAIN Sorted(B) => Sorted(B)[b + 1] \in heads
    OBVIOUS
  <2>2. QED BY <1>4, <2>1
<1>7. m + 1 \in DOMAIN Sorted(M) => next <= satoshi_per_byte(Sorted(M)[m + 1])
  <2>1. m + 1 \in DOMAIN Sorted(M) => Sorted(M)[m + 1] \in heads
    OBVIOUS
  <2>2. QED BY <1>4, <2>1
<1> HIDE DEF Fees
<1>8. Splits(B, b, next) /\ \A t \in B : satoshi_per_byte(t) <= at \/ next <= satoshi_per_byte(t)
  BY <1>1, <1>5, <1>6, NextSplits
<1>9. Splits(M, m, next) /\ \A t \in M : satoshi_per_byte(t) <= at \/ next <= satoshi_per_byte(t)
  BY <1>2, <1>5, <1>7, NextSplits
<1>10. QED BY <1>5, <1>8, <1>9

\* The exceptions of a block and a sender's mempool, and how many they are.
ExceptionsOf(B, M, at) == Below(B, at) \cup ((M \ B) \ Below(M \ B, at))

LEMMA ExceptionsAre ==
  ASSUME block \in SUBSET Tx, sender \in SUBSET Tx, NEW at \in Nat
  PROVE  Exceptions(at) = ExceptionsOf(block, sender, at)
<1>1. \A t \in Tx : satoshi_per_byte(t) >= at <=> ~(satoshi_per_byte(t) < at)
  <2>1. \A f \in Nat : f >= at <=> ~(f < at)
    BY SMT
  <2>2. QED BY <2>1, SatType
<1>2. {t \in sender \ block : satoshi_per_byte(t) >= at}
        = (sender \ block) \ Below(sender \ block, at)
  BY <1>1 DEF Below
<1>3. QED BY <1>2 DEF Exceptions, ExceptionsOf, Below

LEMMA ExceptionsCount ==
  ASSUME NEW B \in SUBSET Tx, NEW M \in SUBSET Tx, NEW b, NEW m, NEW at,
         Splits(B, b, at), Splits(M \ B, m, at)
  PROVE  /\ Cardinality(ExceptionsOf(B, M, at)) = b + Cardinality(M \ B) - m
         /\ IsFiniteSet(ExceptionsOf(B, M, at))
<1> DEFINE low == Below(B, at)
           high == (M \ B) \ Below(M \ B, at)
<1>1. IsFiniteSet(low) /\ Cardinality(low) = b
  BY SplitCounts
<1>2. IsFiniteSet(high) /\ Cardinality(high) = Cardinality(M \ B) - m
  <2>1. M \ B \in SUBSET Tx
    OBVIOUS
  <2>2. QED BY <2>1, SplitCounts
<1>3. low \cap high = {}
  BY DEF Below
<1>4. Cardinality(low \cap high) = 0
  BY <1>3, FS_EmptySet
<1> HIDE DEF low, high
<1>5. /\ IsFiniteSet(low \cup high)
      /\ Cardinality(low \cup high) = Cardinality(low) + Cardinality(high) - Cardinality(low \cap high)
  BY <1>1, <1>2, FS_Union
<1>6. b \in Nat /\ m \in Nat /\ Cardinality(M \ B) \in Nat
  <2>1. M \ B \in SUBSET Tx
    OBVIOUS
  <2>2. Cardinality(B) \in Nat /\ Cardinality(M \ B) \in Nat
    BY <2>1, SortedIs
  <2>3. QED BY <2>2, SMT DEF Splits
<1>7. Cardinality(low \cup high) = b + Cardinality(M \ B) - m
  BY <1>1, <1>2, <1>4, <1>5, <1>6, SMT
<1>8. QED BY <1>5, <1>7 DEF low, high, ExceptionsOf

\* The round loses nothing: the running count is of the best fee up to this one.
LEMMA BestSoFar ==
  ASSUME NEW B \in SUBSET Tx, NEW M \in SUBSET Tx,
         NEW at \in Nat, NEW next \in Nat, at < next,
         NEW num \in Nat, NEW cost \in Nat, NEW num2, num2 \in Nat, num2 <= num, num2 <= cost,
         cost = Cardinality(ExceptionsOf(B, M, next)),
         \A t \in B \cup M : satoshi_per_byte(t) <= at \/ next <= satoshi_per_byte(t),
         \A t \in B \cup M : satoshi_per_byte(t) <= at =>
            num <= Cardinality(ExceptionsOf(B, M, satoshi_per_byte(t)))
  PROVE  \A t \in B \cup M : satoshi_per_byte(t) <= next =>
            num2 <= Cardinality(ExceptionsOf(B, M, satoshi_per_byte(t)))
<1> SUFFICES ASSUME NEW t \in B \cup M, satoshi_per_byte(t) <= next
             PROVE  num2 <= Cardinality(ExceptionsOf(B, M, satoshi_per_byte(t)))
  OBVIOUS
<1>1. CASE next <= satoshi_per_byte(t)
  <2>1. satoshi_per_byte(t) = next
    BY <1>1, SatType, SMT
  <2>2. QED BY <2>1
<1>2. CASE satoshi_per_byte(t) <= at
  <2>1. num <= Cardinality(ExceptionsOf(B, M, satoshi_per_byte(t)))
    BY <1>2
  <2>2. Cardinality(ExceptionsOf(B, M, satoshi_per_byte(t))) \in Nat
    <3>1. ExceptionsOf(B, M, satoshi_per_byte(t)) \in SUBSET Tx
      BY DEF ExceptionsOf, Below
    <3>2. QED BY <3>1, SortedIs
  <2>3. QED BY <2>1, <2>2, SMT
<1>3. QED BY <1>1, <1>2

-----------------------------------------------------------------------------
\* num is the count of the best of zero and the fees of B and M up to at.
Fewest(B, M, num, best, at) ==
  /\ num = Cardinality(ExceptionsOf(B, M, best))
  /\ \A t \in B \cup M :
       satoshi_per_byte(t) <= at => num <= Cardinality(ExceptionsOf(B, M, satoshi_per_byte(t)))

Fees == {0} \cup {satoshi_per_byte(t) : t \in Tx}
Estimates == {"encode", "peers", "add", "remove"}

EstimateInv ==
  /\ block \in SUBSET Tx /\ sender \in SUBSET Tx
  /\ pc \in {"start", "first", "estimate"} \cup Estimates
  /\ pc \in {"start", "first"} =>
       sender = {} /\ bi = 0 /\ mi = 0 /\ fee = 0 /\ best_fee = 0 /\ num_txs_excepted = 0
  /\ fee \in Fees /\ best_fee \in 0 .. fee
  /\ num_txs_excepted \in 0 .. Cardinality(sender \ block)
  /\ Splits(block, bi, fee) /\ Splits(sender \ block, mi, fee)
  /\ Fewest(block, sender, num_txs_excepted, best_fee, fee)
  /\ pc \in Estimates => \A t \in block \cup sender : satoshi_per_byte(t) <= fee

LEMMA FeesAreNumbers == Fees \subseteq Nat
BY SatType DEF Fees

\* With a fee of 0 nothing is passed, and all that is not in the block excepted.
LEMMA AtZero ==
  ASSUME NEW B \in SUBSET Tx, NEW M \in SUBSET Tx
  PROVE  /\ Splits(B, 0, 0) /\ Splits(M \ B, 0, 0)
         /\ Fewest(B, M, Cardinality(M \ B), 0, 0)
         /\ Cardinality(M \ B) \in 0 .. Cardinality(M \ B)
<1>1. \A t \in Tx : ~(satoshi_per_byte(t) < 0)
  BY SatType, SMT
<1>2. ASSUME NEW S \in SUBSET Tx PROVE Splits(S, 0, 0)
  <2>1. Cardinality(S) \in Nat /\ \A j \in 1 .. Cardinality(S) : Sorted(S)[j] \in S
    BY SortedIs
  <2>2. 0 \in 0 .. Cardinality(S)
    BY <2>1, SMT
  <2>3. ASSUME NEW j \in 1 .. Cardinality(S)
        PROVE  ~(j <= 0) /\ ~(satoshi_per_byte(Sorted(S)[j]) < 0)
    BY <1>1, <2>1, SMT
  <2>4. QED BY <2>2, <2>3 DEF Splits
<1>3. M \ B \in SUBSET Tx
  OBVIOUS
<1>4. ExceptionsOf(B, M, 0) = M \ B
  BY <1>1 DEF ExceptionsOf, Below
<1>5. Cardinality(M \ B) \in Nat
  BY <1>3, SortedIs
<1>6. ASSUME NEW t \in B \cup M, satoshi_per_byte(t) <= 0
      PROVE  Cardinality(M \ B) <= Cardinality(ExceptionsOf(B, M, satoshi_per_byte(t)))
  <2>1. satoshi_per_byte(t) = 0
    BY <1>6, SatType, SMT
  <2>2. QED BY <1>4, <1>5, <2>1, SMT
<1>7. Cardinality(M \ B) \in 0 .. Cardinality(M \ B)
  BY <1>5, SMT
<1>8. QED BY <1>2, <1>3, <1>4, <1>6, <1>7 DEF Fewest

\* Before the first peer is read.
LEMMA BeforeEstimate ==
  ASSUME NEW B \in SUBSET Tx
  PROVE  /\ Splits(B, 0, 0) /\ Splits({} \ B, 0, 0) /\ Fewest(B, {}, 0, 0, 0)
         /\ 0 \in 0 .. Cardinality({} \ B) /\ 0 \in Fees /\ 0 \in 0 .. 0
<1>1. {} \in SUBSET Tx /\ {} \ B = {} /\ Cardinality({}) = 0
  BY FS_EmptySet
<1>2. 0 \in 0 .. 0
  BY SMT
<1>3. QED BY <1>1, <1>2, AtZero DEF Fees

LEMMA InitEstimate == HeuristicInit => EstimateInv
<1> SUFFICES ASSUME HeuristicInit PROVE EstimateInv
  OBVIOUS
<1>1. block = {} /\ sender = {} /\ {} \in SUBSET Tx
  BY DEF HeuristicInit
<1>2. /\ Splits({}, 0, 0) /\ Splits({} \ {}, 0, 0) /\ Fewest({}, {}, 0, 0, 0)
      /\ 0 \in 0 .. Cardinality({} \ {}) /\ 0 \in Fees /\ 0 \in 0 .. 0
  BY <1>1, BeforeEstimate
<1>3. QED BY <1>1, <1>2 DEF HeuristicInit, EstimateInv, Estimates

LEMMA ReadBlockEstimate ==
  ASSUME EstimateInv, NEW b \in SUBSET Tx, ReadBlock(b)
  PROVE  EstimateInv'
<1>1. /\ block' = b /\ sender' = {} /\ pc' = "first"
      /\ bi' = 0 /\ mi' = 0 /\ fee' = 0 /\ best_fee' = 0 /\ num_txs_excepted' = 0
  BY DEF ReadBlock
<1>2. /\ Splits(b, 0, 0) /\ Splits({} \ b, 0, 0) /\ Fewest(b, {}, 0, 0, 0)
      /\ 0 \in 0 .. Cardinality({} \ b) /\ 0 \in Fees /\ 0 \in 0 .. 0
  BY BeforeEstimate
<1>3. QED BY <1>1, <1>2 DEF EstimateInv, Estimates

LEMMA ReadSenderEstimate ==
  ASSUME EstimateInv, NEW m \in SUBSET Tx, ReadSender(m)
  PROVE  EstimateInv'
<1>1. /\ block' = block /\ sender' = m /\ pc' = "estimate"
      /\ bi' = 0 /\ mi' = 0 /\ fee' = 0 /\ best_fee' = 0
      /\ num_txs_excepted' = Cardinality(m \ block) /\ block \in SUBSET Tx
  BY DEF ReadSender, EstimateInv
<1>2. /\ Splits(block, 0, 0) /\ Splits(m \ block, 0, 0)
      /\ Fewest(block, m, Cardinality(m \ block), 0, 0)
      /\ Cardinality(m \ block) \in 0 .. Cardinality(m \ block)
  BY <1>1, AtZero
<1>3. 0 \in Fees /\ 0 \in 0 .. 0
  BY SMT DEF Fees
<1>4. QED BY <1>1, <1>2, <1>3 DEF EstimateInv, Estimates

LEMMA EstimateEstimate ==
  ASSUME EstimateInv, Estimate
  PROVE  EstimateInv'
<1> DEFINE B == block
           M == sender \ block
           b == PastFee(bvec, bi, fee)
           m == PastFee(mvec, mi, fee)
           heads == {bvec[i] : i \in {b + 1} \cap DOMAIN bvec}
                      \cup {mvec[i] : i \in {m + 1} \cap DOMAIN mvec}
           cost == b + Len(mvec) - m
<1>1. /\ pc = "estimate" /\ heads # {} /\ bi' = b /\ mi' = m
      /\ fee' = Min({satoshi_per_byte(t) : t \in heads})
      /\ \/ cost < num_txs_excepted /\ num_txs_excepted' = cost /\ best_fee' = fee'
         \/ /\ cost >= num_txs_excepted
            /\ num_txs_excepted' = num_txs_excepted /\ best_fee' = best_fee
      /\ UNCHANGED <<block, sender, pc>>
  BY DEF Estimate
<1>2. /\ B \in SUBSET Tx /\ M \in SUBSET Tx /\ sender \in SUBSET Tx
      /\ fee \in Fees /\ best_fee \in 0 .. fee
      /\ num_txs_excepted \in 0 .. Cardinality(M)
      /\ Splits(B, bi, fee) /\ Splits(M, mi, fee)
      /\ Fewest(block, sender, num_txs_excepted, best_fee, fee)
  BY DEF EstimateInv
<1>3. bvec = Sorted(B) /\ mvec = Sorted(M)
  BY DEF bvec, mvec
<1>4. fee \in Nat
  BY <1>2, FeesAreNumbers
<1>5. /\ fee' \in {satoshi_per_byte(t) : t \in Tx} /\ fee' \in Nat /\ fee < fee'
      /\ Splits(B, b, fee') /\ Splits(M, m, fee')
      /\ \A t \in B \cup M : satoshi_per_byte(t) <= fee \/ fee' <= satoshi_per_byte(t)
  <2>1. /\ b = PastFee(Sorted(B), bi, fee) /\ m = PastFee(Sorted(M), mi, fee)
        /\ heads = {Sorted(B)[i] : i \in {b + 1} \cap DOMAIN Sorted(B)}
                      \cup {Sorted(M)[i] : i \in {m + 1} \cap DOMAIN Sorted(M)}
    BY <1>3
  <2> HIDE DEF b, m, heads
  <2>2. QED BY <1>1, <1>2, <1>4, <2>1, NextFee
<1> HIDE DEF b, m, heads
<1>6. /\ cost = Cardinality(ExceptionsOf(block, sender, fee')) /\ cost \in Nat
  <2>1. Len(mvec) = Cardinality(M) /\ Cardinality(M) \in Nat
    BY <1>2, <1>3, SortedIs
  <2>2. cost = Cardinality(ExceptionsOf(block, sender, fee'))
    BY <1>2, <1>5, <2>1, ExceptionsCount
  <2>3. ExceptionsOf(block, sender, fee') \in SUBSET Tx
    BY <1>2 DEF ExceptionsOf, Below
  <2>4. Cardinality(ExceptionsOf(block, sender, fee')) \in Nat
    BY <2>3, SortedIs
  <2>5. QED BY <2>2, <2>4
<1> HIDE DEF cost
<1>7. Cardinality(M) \in Nat /\ num_txs_excepted \in Nat /\ best_fee \in Nat /\ best_fee <= fee
  <2>1. Cardinality(M) \in Nat
    BY <1>2, SortedIs
  <2>2. QED BY <1>2, <1>4, <2>1, SMT
<1>8. /\ num_txs_excepted' \in Nat /\ num_txs_excepted' <= num_txs_excepted
      /\ num_txs_excepted' <= cost
      /\ num_txs_excepted' \in 0 .. Cardinality(M)
  BY <1>1, <1>2, <1>6, <1>7, SMT
<1>9. best_fee' \in 0 .. fee'
  BY <1>1, <1>5, <1>7, <1>4, SMT
<1>10. num_txs_excepted' = Cardinality(ExceptionsOf(block, sender, best_fee'))
  <2>1. CASE num_txs_excepted' = cost /\ best_fee' = fee'
    BY <1>6, <2>1
  <2>2. CASE num_txs_excepted' = num_txs_excepted /\ best_fee' = best_fee
    BY <1>2, <2>2 DEF Fewest
  <2>3. QED BY <1>1, <2>1, <2>2
<1>11. \A t \in block \cup sender : satoshi_per_byte(t) <= fee' =>
         num_txs_excepted' <= Cardinality(ExceptionsOf(block, sender, satoshi_per_byte(t)))
  <2>1. \A t \in block \cup sender : satoshi_per_byte(t) <= fee \/ fee' <= satoshi_per_byte(t)
    BY <1>5
  <2>2. \A t \in block \cup sender : satoshi_per_byte(t) <= fee =>
          num_txs_excepted <= Cardinality(ExceptionsOf(block, sender, satoshi_per_byte(t)))
    BY <1>2 DEF Fewest
  <2>3. QED BY <1>2, <1>4, <1>5, <1>6, <1>7, <1>8, <2>1, <2>2, BestSoFar
<1>12. Fewest(block, sender, num_txs_excepted', best_fee', fee')
  BY <1>10, <1>11 DEF Fewest
<1>13. fee' \in Fees
  BY <1>5 DEF Fees
<1>14. QED BY <1>1, <1>2, <1>5, <1>8, <1>9, <1>12, <1>13 DEF EstimateInv, Estimates

LEMMA EstimatedEstimate ==
  ASSUME EstimateInv, Estimated
  PROVE  EstimateInv'
<1>1. /\ PastFee(Sorted(block), bi, fee) = Len(Sorted(block))
      /\ PastFee(Sorted(sender \ block), mi, fee) = Len(Sorted(sender \ block))
      /\ pc' = "encode" /\ UNCHANGED <<block, sender, bi, mi, fee, best_fee, num_txs_excepted>>
  BY DEF Estimated, estimating, bvec, mvec
<1>2. /\ block \in SUBSET Tx /\ sender \ block \in SUBSET Tx /\ fee \in Nat
      /\ Splits(block, bi, fee) /\ Splits(sender \ block, mi, fee)
  BY FeesAreNumbers DEF EstimateInv
<1>3. ASSUME NEW S \in SUBSET Tx, NEW i, Splits(S, i, fee),
             PastFee(Sorted(S), i, fee) = Len(Sorted(S)), NEW t \in S
      PROVE  satoshi_per_byte(t) <= fee
  <2>1. PICK j \in 1 .. Cardinality(S) : Sorted(S)[j] = t
    BY SortedIs
  <2>2. j <= Cardinality(S) /\ Len(Sorted(S)) = Cardinality(S)
    <3>1. Cardinality(S) \in Nat /\ Len(Sorted(S)) = Cardinality(S)
      BY SortedIs
    <3>2. QED BY <3>1, SMT
  <2>3. j <= PastFee(Sorted(S), i, fee)
    BY <1>3, <2>2
  <2>4. QED BY <1>2, <1>3, <2>1, <2>3, PastFeeIs
<1>4. \A t \in block \cup sender : satoshi_per_byte(t) <= fee
  <2>1. \A t \in block : satoshi_per_byte(t) <= fee
    BY <1>1, <1>2, <1>3
  <2>2. \A t \in sender \ block : satoshi_per_byte(t) <= fee
    BY <1>1, <1>2, <1>3
  <2>3. QED BY <2>1, <2>2
<1>5. QED BY <1>1, <1>4 DEF EstimateInv, Estimates

\* From there on the estimate stands.
LEMMA EstimateStands ==
  ASSUME EstimateInv, UNCHANGED <<block, sender, estimating>>,
         (pc \in Estimates /\ pc' \in Estimates) \/ pc' = pc
  PROVE  EstimateInv'
BY DEF EstimateInv, Estimates, estimating

LEMMA StepEstimate == EstimateInv /\ [HeuristicNext]_hvars => EstimateInv'
<1> SUFFICES ASSUME EstimateInv, [HeuristicNext]_hvars PROVE EstimateInv'
  OBVIOUS
<1>1. ASSUME NEW m \in SUBSET Tx, ReadPeer(m) PROVE EstimateInv'
  BY <1>1, EstimateStands DEF ReadPeer, Estimates
<1>2. ASSUME NEW t \in Tx, Encode(t) PROVE EstimateInv'
  BY <1>2, EstimateStands DEF Encode
<1>3. CASE Encoded \/ Added \/ Removed
  BY <1>3, EstimateStands DEF Encoded, Added, Removed, Estimates
<1>4. ASSUME NEW bits \in rest, AddAdded(bits) \/ RemoveRemoved(bits) PROVE EstimateInv'
  BY <1>4, EstimateStands DEF AddAdded, RemoveRemoved
<1>5. CASE UNCHANGED hvars
  BY <1>5, EstimateStands DEF hvars
<1>6. QED
  BY <1>1, <1>2, <1>3, <1>4, <1>5, ReadBlockEstimate, ReadSenderEstimate, EstimateEstimate,
    EstimatedEstimate DEF HeuristicNext

THEOREM AlwaysEstimateInv == HeuristicSpec => []EstimateInv
BY InitEstimate, StepEstimate, PTL DEF HeuristicSpec

\* The fee hint has as few exceptions as any fee that occurs, though estimate_fees
\* keeps a running count over two sorted vectors and looks at each fee once.
THEOREM HintIsBest == HeuristicSpec => []HintIsBestOfFees
<1>1. EstimateInv => HintIsBestOfFees
  <2> SUFFICES ASSUME EstimateInv, pc \in {"encode", "peers"}
               PROVE  /\ num_txs_excepted = Cardinality(Exceptions(fee_hint))
                      /\ \A t \in block \cup sender :
                           num_txs_excepted <= Cardinality(Exceptions(satoshi_per_byte(t)))
    BY DEF HintIsBestOfFees
  <2>1. /\ block \in SUBSET Tx /\ sender \in SUBSET Tx /\ best_fee \in Nat
        /\ Fewest(block, sender, num_txs_excepted, best_fee, fee)
        /\ \A t \in block \cup sender : satoshi_per_byte(t) <= fee
    <3>1. fee \in Nat /\ best_fee \in 0 .. fee
      BY FeesAreNumbers DEF EstimateInv
    <3>2. best_fee \in Nat
      BY <3>1, SMT
    <3>3. QED BY <3>2 DEF EstimateInv, Estimates
  <2>2. num_txs_excepted = Cardinality(Exceptions(fee_hint))
    BY <2>1, ExceptionsAre DEF Fewest, fee_hint
  <2>3. ASSUME NEW t \in block \cup sender
        PROVE  num_txs_excepted <= Cardinality(Exceptions(satoshi_per_byte(t)))
    <3>1. t \in Tx /\ satoshi_per_byte(t) \in Nat
      BY <2>1, SatType
    <3>2. QED BY <2>1, <3>1, ExceptionsAre DEF Fewest
  <2>4. QED BY <2>2, <2>3
<1>2. QED BY <1>1, AlwaysEstimateInv, PTL

-----------------------------------------------------------------------------
\* The prefixes of the transactions of S, and what of a peer's they find.
SenderPrefix(t) == get_unique_bitid(TreeOf(sender), t)
SenderPrefixes(S) == {SenderPrefix(t) : t \in S}
PeerHas(B) == {t \in mempool : \E bits \in B : matches(t, bits)}

LowIn == {t \in sender \cap block : satoshi_per_byte(t) < fee_hint}
HighOut == {t \in sender \ block : ~(satoshi_per_byte(t) < fee_hint)}
AtHint == {t \in mempool : satoshi_per_byte(t) >= fee_hint}

MempoolsOK ==
  /\ block \in SUBSET Tx /\ sender \in SUBSET Tx /\ mempool \in SUBSET Tx
  /\ IdsDistinct(sender) /\ IdsDistinct(mempool)

ListsInv ==
  /\ MempoolsOK /\ newmempool \in SUBSET mempool
  /\ pc \in {"start", "first", "estimate"} \cup Estimates
  /\ pc \in {"start", "first", "estimate"} =>
       added_list = {} /\ removed_list = {} /\ rest = {} /\ newmempool = {}
  /\ pc = "encode" =>
       /\ rest \in SUBSET sender
       /\ added_list = SenderPrefixes(LowIn \ rest)
       /\ removed_list = SenderPrefixes(HighOut \ rest)
  /\ pc \in {"peers", "add", "remove"} =>
       added_list = SenderPrefixes(LowIn) /\ removed_list = SenderPrefixes(HighOut)
  /\ pc = "peers" => rest = {}
  /\ pc = "add" =>
       /\ rest \in SUBSET added_list
       /\ newmempool = AtHint \cup PeerHas(added_list \ rest)
  /\ pc = "remove" =>
       /\ rest \in SUBSET removed_list
       /\ newmempool = (AtHint \cup PeerHas(added_list)) \ PeerHas(removed_list \ rest)

LEMMA InitLists == HeuristicInit => ListsInv
BY DEF HeuristicInit, ListsInv, MempoolsOK, IdsDistinct, Estimates

\* What stays while the mempools and the hint do.
LEMMA MempoolsStay ==
  ASSUME MempoolsOK, UNCHANGED <<block, sender, mempool, best_fee>>
  PROVE  /\ MempoolsOK'
         /\ LowIn' = LowIn /\ HighOut' = HighOut /\ AtHint' = AtHint
         /\ \A t : SenderPrefix(t)' = SenderPrefix(t)
         /\ \A S : SenderPrefixes(S)' = SenderPrefixes(S)
         /\ \A B : PeerHas(B)' = PeerHas(B)
<1>1. \A t : SenderPrefix(t)' = SenderPrefix(t)
  BY DEF SenderPrefix
<1>2. fee_hint' = fee_hint
  BY DEF fee_hint
<1>3. QED
  BY <1>1, <1>2 DEF MempoolsOK, LowIn, HighOut, AtHint, SenderPrefixes, PeerHas

\* A prefix of the sender's is one of its bit strings, tells its transactions
\* apart, and finds no other transaction of the sender in a peer's mempool.
LEMMA SenderPrefixFinds ==
  ASSUME MempoolsOK, NEW S \in SUBSET sender
  PROVE  /\ SenderPrefixes(S) \subseteq BitStrings
         /\ \A t, u \in S : SenderPrefix(t) = SenderPrefix(u) => t = u
         /\ \A t \in sender \cap mempool : t \in PeerHas(SenderPrefixes(S)) <=> t \in S
<1>1. \A t \in S : /\ SenderPrefix(t) \in BitStrings
                   /\ \A u \in sender : matches(u, SenderPrefix(t)) <=> u = t
  BY UniqueBitId DEF MempoolsOK, SenderPrefix
<1>2. QED BY <1>1 DEF SenderPrefixes, PeerHas

LEMMA ReadBlockLists ==
  ASSUME ListsInv, NEW b \in SUBSET Tx, ReadBlock(b)
  PROVE  ListsInv'
BY DEF ListsInv, MempoolsOK, ReadBlock, IdsDistinct, Estimates

LEMMA ReadSenderLists ==
  ASSUME ListsInv, NEW m \in SUBSET Tx, ReadSender(m)
  PROVE  ListsInv'
<1>1. /\ pc = "first" /\ IdsDistinct(m) /\ sender' = m /\ mempool' = m /\ pc' = "estimate"
      /\ UNCHANGED <<block, added_list, removed_list, rest, newmempool>>
      /\ added_list = {} /\ removed_list = {} /\ rest = {} /\ newmempool = {}
      /\ block \in SUBSET Tx
  BY DEF ReadSender, ListsInv, MempoolsOK, lists
<1>2. QED BY <1>1 DEF ListsInv, MempoolsOK, Estimates

LEMMA EstimatedLists == ListsInv /\ Estimated => ListsInv'
<1> SUFFICES ASSUME ListsInv, Estimated PROVE ListsInv'
  OBVIOUS
<1>1. /\ pc = "estimate" /\ pc' = "encode" /\ rest' = sender
      /\ UNCHANGED <<block, sender, mempool, best_fee, added_list, removed_list, newmempool>>
      /\ added_list = {} /\ removed_list = {} /\ newmempool = {} /\ MempoolsOK
  BY DEF Estimated, ListsInv, lists, estimating
<1>2. SenderPrefixes(LowIn \ sender) = {} /\ SenderPrefixes(HighOut \ sender) = {}
  BY DEF SenderPrefixes, LowIn, HighOut
<1>3. QED BY <1>1, <1>2, MempoolsStay DEF ListsInv, Estimates

\* One more transaction of a set is listed, or one that is not in it.
LEMMA ListOne ==
  ASSUME NEW S, NEW R, NEW t \in R
  PROVE  SenderPrefixes(S \ (R \ {t})) =
           IF t \in S THEN SenderPrefixes(S \ R) \cup {SenderPrefix(t)}
           ELSE SenderPrefixes(S \ R)
<1>1. CASE t \in S
  <2>1. S \ (R \ {t}) = (S \ R) \cup {t}
    BY <1>1
  <2>2. QED BY <1>1, <2>1 DEF SenderPrefixes
<1>2. CASE t \notin S
  <2>1. S \ (R \ {t}) = S \ R
    BY <1>2
  <2>2. QED BY <1>2, <2>1
<1>3. QED BY <1>1, <1>2

LEMMA EncodeLists ==
  ASSUME ListsInv, NEW t \in Tx, Encode(t)
  PROVE  ListsInv'
<1> DEFINE low == satoshi_per_byte(t) < fee_hint
<1>1. /\ pc = "encode" /\ pc' = pc /\ t \in rest /\ rest' = rest \ {t}
      /\ added_list' = Listed(added_list, t, low /\ t \in block)
      /\ removed_list' = Listed(removed_list, t, ~low /\ t \notin block)
      /\ UNCHANGED <<block, sender, mempool, best_fee, newmempool>>
  BY DEF Encode, estimating
<1>2. /\ MempoolsOK /\ rest \in SUBSET sender /\ newmempool \in SUBSET mempool
      /\ added_list = SenderPrefixes(LowIn \ rest)
      /\ removed_list = SenderPrefixes(HighOut \ rest)
  BY <1>1 DEF ListsInv
<1>3. /\ (low /\ t \in block) <=> t \in LowIn
      /\ (~low /\ t \notin block) <=> t \in HighOut
  BY <1>1, <1>2 DEF LowIn, HighOut
<1>4. added_list' = SenderPrefixes(LowIn \ (rest \ {t}))
  <2>1. added_list' = IF t \in LowIn THEN added_list \cup {SenderPrefix(t)} ELSE added_list
    BY <1>1, <1>3 DEF Listed, SenderPrefix
  <2>2. SenderPrefixes(LowIn \ (rest \ {t})) =
          IF t \in LowIn THEN SenderPrefixes(LowIn \ rest) \cup {SenderPrefix(t)}
          ELSE SenderPrefixes(LowIn \ rest)
    BY <1>1, ListOne
  <2>3. QED BY <1>2, <2>1, <2>2
<1>5. removed_list' = SenderPrefixes(HighOut \ (rest \ {t}))
  <2>1. removed_list' =
          IF t \in HighOut THEN removed_list \cup {SenderPrefix(t)} ELSE removed_list
    BY <1>1, <1>3 DEF Listed, SenderPrefix
  <2>2. SenderPrefixes(HighOut \ (rest \ {t})) =
          IF t \in HighOut THEN SenderPrefixes(HighOut \ rest) \cup {SenderPrefix(t)}
          ELSE SenderPrefixes(HighOut \ rest)
    BY <1>1, ListOne
  <2>3. QED BY <1>2, <2>1, <2>2
<1>6. QED BY <1>1, <1>2, <1>4, <1>5, MempoolsStay DEF ListsInv, Estimates

LEMMA EncodedLists == ListsInv /\ Encoded => ListsInv'
<1> SUFFICES ASSUME ListsInv, Encoded PROVE ListsInv'
  OBVIOUS
<1>1. /\ pc = "encode" /\ rest = {} /\ pc' = "peers" /\ MempoolsOK
      /\ added_list = SenderPrefixes(LowIn \ rest)
      /\ removed_list = SenderPrefixes(HighOut \ rest)
      /\ newmempool \in SUBSET mempool
      /\ UNCHANGED <<block, sender, mempool, best_fee, added_list, removed_list, rest, newmempool>>
  BY DEF Encoded, ListsInv, lists, estimating
<1>2. LowIn \ {} = LowIn /\ HighOut \ {} = HighOut
  OBVIOUS
<1>3. QED BY <1>1, <1>2, MempoolsStay DEF ListsInv, Estimates

LEMMA ReadPeerLists ==
  ASSUME ListsInv, NEW m \in SUBSET Tx, ReadPeer(m)
  PROVE  ListsInv'
<1>1. /\ pc = "peers" /\ IdsDistinct(m) /\ mempool' = m /\ pc' = "add"
      /\ newmempool' = {t \in m : satoshi_per_byte(t) >= fee_hint}
      /\ rest' = added_list
      /\ UNCHANGED <<block, sender, best_fee, added_list, removed_list>>
      /\ MempoolsOK
      /\ added_list = SenderPrefixes(LowIn) /\ removed_list = SenderPrefixes(HighOut)
  BY DEF ReadPeer, ListsInv, lists, estimating
<1>2. fee_hint' = fee_hint
  BY <1>1 DEF fee_hint
<1>3. /\ LowIn' = LowIn /\ HighOut' = HighOut
      /\ \A S : SenderPrefixes(S)' = SenderPrefixes(S)
  BY <1>1, <1>2 DEF LowIn, HighOut, SenderPrefixes, SenderPrefix
<1>4. MempoolsOK'
  BY <1>1 DEF MempoolsOK
<1>5. AtHint' = newmempool'
  BY <1>1, <1>2 DEF AtHint
<1>6. newmempool' \in SUBSET mempool'
  BY <1>1
<1>7. (AtHint \cup PeerHas(added_list \ rest))' = newmempool'
  BY <1>1, <1>5 DEF PeerHas
<1>8. QED BY <1>1, <1>3, <1>4, <1>6, <1>7 DEF ListsInv, Estimates

\* A prefix that is looked up adds what it finds to what was found.
LEMMA PeerLookUp ==
  ASSUME MempoolsOK, NEW bits \in BitStrings, NEW B, bits \in B, NEW P, bits \in P
  PROVE  /\ PeerHas(B \ (P \ {bits})) = PeerHas(B \ P) \cup get_txs(TreeOf(mempool), bits)
         /\ get_txs(TreeOf(mempool), bits) \subseteq mempool
<1>1. get_txs(TreeOf(mempool), bits) = {t \in mempool : matches(t, bits)}
  BY GetTxsFinds DEF MempoolsOK
<1>2. B \ (P \ {bits}) = (B \ P) \cup {bits}
  OBVIOUS
<1>3. PeerHas((B \ P) \cup {bits}) = PeerHas(B \ P) \cup {t \in mempool : matches(t, bits)}
  BY DEF PeerHas
<1>4. QED BY <1>1, <1>2, <1>3

LEMMA AddAddedLists ==
  ASSUME ListsInv, NEW bits \in rest, AddAdded(bits)
  PROVE  ListsInv'
<1>1. /\ pc = "add" /\ pc' = pc /\ rest' = rest \ {bits}
      /\ newmempool' = newmempool \cup get_txs(TreeOf(mempool), bits)
      /\ UNCHANGED <<block, sender, mempool, best_fee, added_list, removed_list>>
      /\ MempoolsOK /\ rest \in SUBSET added_list /\ newmempool \in SUBSET mempool
      /\ added_list = SenderPrefixes(LowIn) /\ removed_list = SenderPrefixes(HighOut)
      /\ newmempool = AtHint \cup PeerHas(added_list \ rest)
  BY DEF AddAdded, ListsInv, lists, estimating
<1>2. LowIn \in SUBSET sender
  BY DEF LowIn
<1>3. bits \in BitStrings /\ bits \in added_list
  BY <1>1, <1>2, SenderPrefixFinds
<1>4. /\ PeerHas(added_list \ (rest \ {bits}))
           = PeerHas(added_list \ rest) \cup get_txs(TreeOf(mempool), bits)
      /\ get_txs(TreeOf(mempool), bits) \subseteq mempool
  BY <1>1, <1>3, PeerLookUp
<1>5. newmempool' = AtHint \cup PeerHas(added_list \ (rest \ {bits}))
  BY <1>1, <1>4
<1>6. newmempool' \in SUBSET mempool
  BY <1>1, <1>4
<1>7. QED BY <1>1, <1>5, <1>6, MempoolsStay DEF ListsInv, Estimates

LEMMA AddedLists == ListsInv /\ Added => ListsInv'
<1> SUFFICES ASSUME ListsInv, Added PROVE ListsInv'
  OBVIOUS
<1>1. /\ pc = "add" /\ rest = {} /\ pc' = "remove" /\ rest' = removed_list
      /\ UNCHANGED <<block, sender, mempool, best_fee, added_list, removed_list, newmempool>>
      /\ MempoolsOK /\ newmempool \in SUBSET mempool
      /\ added_list = SenderPrefixes(LowIn) /\ removed_list = SenderPrefixes(HighOut)
      /\ newmempool = AtHint \cup PeerHas(added_list \ rest)
  BY DEF Added, ListsInv, lists, estimating
<1>2. added_list \ {} = added_list /\ PeerHas(removed_list \ removed_list) = {}
  BY DEF PeerHas
<1>3. newmempool = (AtHint \cup PeerHas(added_list)) \ PeerHas(removed_list \ removed_list)
  BY <1>1, <1>2
<1>4. QED BY <1>1, <1>3, MempoolsStay DEF ListsInv, Estimates

LEMMA RemoveRemovedLists ==
  ASSUME ListsInv, NEW bits \in rest, RemoveRemoved(bits)
  PROVE  ListsInv'
<1>1. /\ pc = "remove" /\ pc' = pc /\ rest' = rest \ {bits}
      /\ newmempool' = newmempool \ get_txs(TreeOf(mempool), bits)
      /\ UNCHANGED <<block, sender, mempool, best_fee, added_list, removed_list>>
      /\ MempoolsOK /\ rest \in SUBSET removed_list /\ newmempool \in SUBSET mempool
      /\ added_list = SenderPrefixes(LowIn) /\ removed_list = SenderPrefixes(HighOut)
      /\ newmempool = (AtHint \cup PeerHas(added_list)) \ PeerHas(removed_list \ rest)
  BY DEF RemoveRemoved, ListsInv, lists, estimating
<1>2. HighOut \in SUBSET sender
  BY DEF HighOut
<1>3. bits \in BitStrings /\ bits \in removed_list
  BY <1>1, <1>2, SenderPrefixFinds
<1>4. PeerHas(removed_list \ (rest \ {bits}))
        = PeerHas(removed_list \ rest) \cup get_txs(TreeOf(mempool), bits)
  BY <1>1, <1>3, PeerLookUp
<1>5. newmempool' = (AtHint \cup PeerHas(added_list)) \ PeerHas(removed_list \ (rest \ {bits}))
  BY <1>1, <1>4
<1>6. newmempool' \in SUBSET mempool
  BY <1>1
<1>7. QED BY <1>1, <1>5, <1>6, MempoolsStay DEF ListsInv, Estimates

LEMMA RemovedLists == ListsInv /\ Removed => ListsInv'
<1> SUFFICES ASSUME ListsInv, Removed PROVE ListsInv'
  OBVIOUS
<1>1. /\ pc = "remove" /\ rest = {} /\ pc' = "peers"
      /\ UNCHANGED <<block, sender, mempool, best_fee, added_list, removed_list, rest, newmempool>>
      /\ MempoolsOK /\ newmempool \in SUBSET mempool
      /\ added_list = SenderPrefixes(LowIn) /\ removed_list = SenderPrefixes(HighOut)
  BY DEF Removed, ListsInv, lists, estimating
<1>2. QED BY <1>1, MempoolsStay DEF ListsInv, Estimates

LEMMA StepLists == ListsInv /\ [HeuristicNext]_hvars => ListsInv'
<1> SUFFICES ASSUME ListsInv, [HeuristicNext]_hvars PROVE ListsInv'
  OBVIOUS
<1>1. CASE Estimate
  <2>1. /\ pc = "estimate" /\ UNCHANGED <<block, sender, lists, mempool, rest, newmempool, pc>>
    BY <1>1 DEF Estimate
  <2>2. QED BY <2>1 DEF ListsInv, MempoolsOK, lists
<1>2. CASE UNCHANGED hvars
  <2>1. UNCHANGED <<block, sender, best_fee, lists, mempool, rest, newmempool, pc>>
    BY <1>2 DEF hvars, estimating
  <2>2. ListsInv /\ MempoolsOK
    BY DEF ListsInv
  <2>3. QED BY <2>1, <2>2, MempoolsStay DEF ListsInv, lists
<1>3. QED
  BY <1>1, <1>2, ReadBlockLists, ReadSenderLists, EstimatedLists, EncodeLists, EncodedLists,
    ReadPeerLists, AddAddedLists, AddedLists, RemoveRemovedLists, RemovedLists
  DEF HeuristicNext

THEOREM AlwaysListsInv == HeuristicSpec => []ListsInv
BY InitLists, StepLists, PTL DEF HeuristicSpec

\* Of what a peer shares with the sender it ends up with exactly the block's: a
\* prefix may select a transaction it was not made for, but none of the sender's.
THEOREM SharedAlwaysAgree == HeuristicSpec => []SharedAgree
<1>1. EstimateInv /\ ListsInv => SharedAgree
  <2> SUFFICES ASSUME EstimateInv, ListsInv, pc = "remove", rest = {}
               PROVE  newmempool \cap sender = block \cap sender \cap mempool
    BY DEF SharedAgree
  <2>1. /\ MempoolsOK /\ added_list = SenderPrefixes(LowIn) /\ removed_list = SenderPrefixes(HighOut)
        /\ newmempool = (AtHint \cup PeerHas(added_list)) \ PeerHas(removed_list \ rest)
        /\ newmempool \in SUBSET mempool
    BY DEF ListsInv
  <2>2. LowIn \in SUBSET sender /\ HighOut \in SUBSET sender /\ removed_list \ rest = removed_list
    BY DEF LowIn, HighOut
  <2>3. \A t \in sender \cap mempool :
          /\ t \in PeerHas(added_list) <=> t \in LowIn
          /\ t \in PeerHas(removed_list) <=> t \in HighOut
    BY <2>1, <2>2, SenderPrefixFinds
  <2>4. \A t \in sender : satoshi_per_byte(t) >= fee_hint <=> ~(satoshi_per_byte(t) < fee_hint)
    <3>1. fee \in Nat /\ best_fee \in 0 .. fee
      BY FeesAreNumbers DEF EstimateInv
    <3>2. fee_hint \in Nat
      BY <3>1, SMT DEF fee_hint
    <3>3. \A f \in Nat : f >= fee_hint <=> ~(f < fee_hint)
      BY <3>2, SMT
    <3>4. QED BY <2>1, <3>3, SatType DEF MempoolsOK
  <2>5. ASSUME NEW t \in sender \cap mempool PROVE t \in newmempool <=> t \in block
    <3>1. t \in newmempool <=>
            (satoshi_per_byte(t) >= fee_hint \/ t \in LowIn) /\ t \notin HighOut
      BY <2>1, <2>2, <2>3 DEF AtHint
    <3>2. satoshi_per_byte(t) >= fee_hint <=> ~(satoshi_per_byte(t) < fee_hint)
      BY <2>4
    <3>3. /\ t \in LowIn <=> t \in block /\ satoshi_per_byte(t) < fee_hint
          /\ t \in HighOut <=> t \notin block /\ ~(satoshi_per_byte(t) < fee_hint)
      BY DEF LowIn, HighOut
    <3>4. QED BY <3>1, <3>2, <3>3
  <2>6. QED BY <2>1, <2>5
<1>2. QED BY <1>1, AlwaysEstimateInv, AlwaysListsInv, PTL

\* As many prefixes are listed as the estimate counts exceptions, but for what the
\* sender does not hold of its own block.
THEOREM AlwaysListedAsEstimated == HeuristicSpec => []ListedAsEstimated
<1>1. EstimateInv /\ ListsInv => ListedAsEstimated
  <2> SUFFICES ASSUME EstimateInv, ListsInv, pc = "peers"
               PROVE  Cardinality(added_list) + Cardinality(removed_list)
                        = num_txs_excepted - Cardinality(Exceptions(fee_hint) \ sender)
    BY DEF ListedAsEstimated
  <2>1. /\ MempoolsOK /\ added_list = SenderPrefixes(LowIn) /\ removed_list = SenderPrefixes(HighOut)
    BY DEF ListsInv
  <2>2. /\ block \in SUBSET Tx /\ sender \in SUBSET Tx /\ fee_hint \in Nat
        /\ num_txs_excepted = Cardinality(ExceptionsOf(block, sender, fee_hint))
    <3>1. fee \in Nat /\ best_fee \in 0 .. fee
      BY FeesAreNumbers DEF EstimateInv
    <3>2. fee_hint \in Nat
      BY <3>1, SMT DEF fee_hint
    <3>3. QED BY <3>2 DEF EstimateInv, Fewest, fee_hint
  <2> DEFINE E == Exceptions(fee_hint)
  <2>3. E = ExceptionsOf(block, sender, fee_hint) /\ num_txs_excepted = Cardinality(E)
    BY <2>2, ExceptionsAre
  <2>4. E \cap sender = LowIn \cup HighOut /\ LowIn \cap HighOut = {} /\ E \in SUBSET Tx
    BY <2>2, <2>3 DEF ExceptionsOf, Below, LowIn, HighOut
  <2>5. ASSUME NEW S \in SUBSET sender
        PROVE  /\ IsFiniteSet(S) /\ Cardinality(S) \in Nat
               /\ Cardinality(SenderPrefixes(S)) = Cardinality(S)
    <3>1. IsFiniteSet(S) /\ Cardinality(S) \in Nat
      BY <2>2, FeeAssumption, FS_Subset, FS_CardinalityType
    <3> DEFINE f == [t \in S |-> SenderPrefix(t)]
    <3>2. f \in [S -> SenderPrefixes(S)]
      BY DEF SenderPrefixes
    <3>3. \A t, u \in S : f[t] = f[u] => t = u
      BY <2>1, SenderPrefixFinds
    <3>4. \A p \in SenderPrefixes(S) : \E t \in S : f[t] = p
      BY DEF SenderPrefixes
    <3> HIDE DEF f
    <3>5. f \in Bijection(S, SenderPrefixes(S))
      BY <3>2, <3>3, <3>4 DEF Bijection, Injection, Surjection, IsInjective
    <3>6. ExistsBijection(S, SenderPrefixes(S))
      BY <3>5 DEF ExistsBijection
    <3>7. QED BY <3>1, <3>6, FS_Bijection
  <2>6. /\ Cardinality(added_list) = Cardinality(LowIn)
        /\ Cardinality(removed_list) = Cardinality(HighOut)
        /\ IsFiniteSet(LowIn) /\ IsFiniteSet(HighOut)
        /\ Cardinality(LowIn) \in Nat /\ Cardinality(HighOut) \in Nat
    <3>1. LowIn \in SUBSET sender /\ HighOut \in SUBSET sender
      BY DEF LowIn, HighOut
    <3>2. QED BY <2>1, <2>5, <3>1
  <2>7. Cardinality(LowIn \cup HighOut) = Cardinality(LowIn) + Cardinality(HighOut)
    <3>1. Cardinality(LowIn \cap HighOut) = 0
      BY <2>4, FS_EmptySet
    <3>2. Cardinality(LowIn \cup HighOut)
            = Cardinality(LowIn) + Cardinality(HighOut) - Cardinality(LowIn \cap HighOut)
      BY <2>6, FS_Union
    <3>3. QED BY <2>6, <3>1, <3>2, SMT
  <2>8. Cardinality(E \ sender) = Cardinality(E) - Cardinality(E \cap sender)
    <3>1. IsFiniteSet(E)
      BY <2>4, FeeAssumption, FS_Subset
    <3>2. QED BY <3>1, FS_Difference
  <2>9. Cardinality(E) \in Nat
    BY <2>4, SortedIs
  <2> HIDE DEF E
  <2>10. Cardinality(LowIn) + Cardinality(HighOut) = Cardinality(E) - Cardinality(E \ sender)
    <3>1. Cardinality(E \ sender) = Cardinality(E) - Cardinality(LowIn \cup HighOut)
      BY <2>4, <2>8
    <3>2. QED BY <2>6, <2>7, <2>9, <3>1, SMT
  <2>11. QED BY <2>3, <2>6, <2>10 DEF E
<1>2. QED BY <1>1, AlwaysEstimateInv, AlwaysListsInv, PTL

\* The values of the state of iblt-selection-heuristic.
THEOREM HeuristicTypes == HeuristicSpec => []HeuristicTypeOK
<1>1. EstimateInv /\ ListsInv => HeuristicTypeOK
  <2> SUFFICES ASSUME EstimateInv, ListsInv PROVE HeuristicTypeOK
    OBVIOUS
  <2>1. /\ block \in SUBSET Tx /\ sender \in SUBSET Tx
        /\ bi \in 0 .. Cardinality(block) /\ mi \in 0 .. Cardinality(sender \ block)
        /\ fee \in {0} \cup {satoshi_per_byte(t) : t \in Tx} /\ best_fee \in 0 .. fee
        /\ num_txs_excepted \in 0 .. Cardinality(sender \ block)
        /\ pc \in {"start", "first", "estimate", "encode", "peers", "add", "remove"}
    BY DEF EstimateInv, Splits, Fees, Estimates
  <2>2. mempool \in SUBSET Tx /\ newmempool \in SUBSET mempool
    BY DEF ListsInv, MempoolsOK
  <2>3. \A S : S \in SUBSET sender => SenderPrefixes(S) \in SUBSET BitIds
    <3>1. BitIds = BitStrings
      BY DEF BitIds, BitStrings
    <3>2. MempoolsOK
      BY DEF ListsInv
    <3>3. QED BY <3>1, <3>2, SenderPrefixFinds
  <2>4. /\ LowIn \in SUBSET sender /\ LowIn \ rest \in SUBSET sender
        /\ HighOut \in SUBSET sender /\ HighOut \ rest \in SUBSET sender
    BY DEF LowIn, HighOut
  <2>5. added_list \in SUBSET BitIds /\ removed_list \in SUBSET BitIds
    BY <2>3, <2>4 DEF ListsInv, Estimates
  <2>6. rest \in SUBSET (IF pc = "encode" THEN Tx ELSE BitIds)
    BY <2>1, <2>5 DEF ListsInv, Estimates
  <2>7. QED BY <2>1, <2>2, <2>5, <2>6 DEF HeuristicTypeOK
<1>2. QED BY <1>1, AlwaysEstimateInv, AlwaysListsInv, PTL

-----------------------------------------------------------------------------
(***************************************************************************)
(* The values of options: what a callback stores is what the text says,    *)
(* and what is shown of a value sets it again.                             *)
(***************************************************************************)

\* What set_llong_with_suffix multiplies by, and the limits of the types.
LEMMA Limits ==
         /\ LLONG_MAX \in Nat /\ LLONG_MIN \in Int /\ LLONG_MIN = -LLONG_MAX - 1
         /\ INT_MAX \in Nat /\ 2 ^ IntBits \in Nat \ {0}
         /\ 2 ^ IntBits = 2 * INT_MAX + 2 /\ 2 * INT_MAX + 1 <= LLONG_MAX
<1> DEFINE i == 2 ^ (IntBits - 1)
           w == 2 ^ IntBits
           l == 2 ^ (LongBits - 1)
<1>1. i \in Nat \ {0} /\ w \in Nat \ {0} /\ l \in Nat \ {0} /\ w = 2 * i /\ w <= l
  BY ValuePowersAssumption
<1>2. LLONG_MAX = l - 1 /\ INT_MAX = i - 1 /\ LLONG_MIN = -LLONG_MAX - 1
  BY DEF LLONG_MAX, LLONG_MIN, INT_MAX
<1> HIDE DEF i, w, l
<1>3. LLONG_MAX \in Nat /\ INT_MAX \in Nat /\ LLONG_MIN \in Int
  BY <1>1, <1>2
<1>4. w = 2 * INT_MAX + 2 /\ 2 * INT_MAX + 1 <= LLONG_MAX
  BY <1>1, <1>2
<1> QED BY <1>1, <1>2, <1>3, <1>4 DEF w

\* A product that does not pass a limit has a factor that does not pass the quotient.
LEMMA BelowQuotient ==
  ASSUME NEW m \in Nat \ {0}, NEW c \in Nat, NEW a \in Int
  PROVE  a * m <= c <=> a <= c \div m
<1> DEFINE q == c \div m
<1>1. q \in Int /\ \E r \in 0 .. m - 1 : c = m * q + r
  <2>1. c \in Int
    OBVIOUS
  <2> QED BY <2>1, DivMod
<1> HIDE DEF q
<1>2. ASSUME a <= q PROVE a * m <= c
  <2>1. a * m <= q * m /\ q * m = m * q
    BY <1>1, <1>2
  <2> QED BY <1>1, <2>1
<1>3. ASSUME q < a PROVE ~(a * m <= c)
  <2>1. (q + 1) * m <= a * m /\ (q + 1) * m = m * q + m
    BY <1>1, <1>3
  <2> QED BY <1>1, <2>1
<1> QED BY <1>1, <1>2, <1>3 DEF q

\* set_llong_with_suffix: a product that is accepted is within the limits, and one
\* within them is accepted if the number is.
LEMMA WithSuffix ==
  ASSUME NEW m \in Nat \ {0}, NEW x \in Int
  PROVE  (x <= Quotient(LLONG_MAX, m) /\ x >= Quotient(LLONG_MIN, m))
           <=> x * m \in LLONG_MIN .. LLONG_MAX
<1> DEFINE h == LLONG_MAX
           l == LLONG_MAX + 1
<1>1. h \in Nat /\ l \in Nat /\ LLONG_MIN = -l /\ l > 0
  BY Limits
<1>2. Quotient(LLONG_MAX, m) = h \div m /\ Quotient(LLONG_MIN, m) = -(l \div m)
  BY <1>1 DEF Quotient
<1>3. x * m <= h <=> x <= h \div m
  BY <1>1, BelowQuotient
<1>4. (-x) * m <= l <=> -x <= l \div m
  <2>1. -x \in Int
    OBVIOUS
  <2> QED BY <1>1, <2>1, BelowQuotient
<1>5. l \div m \in Int
  BY <1>1
<1>6. (-x) * m = -(x * m) /\ x * m \in Int
  OBVIOUS
<1> DEFINE y == x * m
           d == l \div m
           g == LLONG_MIN
<1> HIDE DEF h, l, y, d, g
<1>7. -y <= l <=> x >= -d
  BY <1>4, <1>5, <1>6 DEF y, d
<1>8. y \in g .. h <=> y <= h /\ -y <= l
  BY <1>1, <1>6 DEF y, g
<1> QED BY <1>1, <1>2, <1>3, <1>7, <1>8 DEF y, d, g, h

\* C's conversions to the narrow types leave what fits, and nothing else.
LEMMA Narrow ==
  ASSUME NEW x \in Int
  PROVE  /\ As("int", x) = x <=> x \in -INT_MAX - 1 .. INT_MAX
         /\ As("uint", x) = x <=> x \in 0 .. 2 * INT_MAX + 1
<1> DEFINE w == 2 ^ IntBits
           i == INT_MAX
<1>1. w \in Nat \ {0} /\ i \in Nat /\ w = 2 * i + 2
  BY Limits
<1>2. As("int", x) = ((x + i + 1) % w) - i - 1 /\ As("uint", x) = x % w
  BY DEF As
<1> HIDE DEF w, i
<1>3. (x + i + 1) % w \in 0 .. w - 1 /\ x % w \in 0 .. w - 1
  BY <1>1
<1>4. x \in 0 .. w - 1 => x % w = x
  BY <1>1, SmallMod
<1>5. x + i + 1 \in 0 .. w - 1 => (x + i + 1) % w = x + i + 1
  BY <1>1, SmallMod
<1> DEFINE a == (x + i + 1) % w
           b == x % w
<1> HIDE DEF a, b
<1>6. a - i - 1 = x <=> x \in -i - 1 .. i
  BY <1>1, <1>3, <1>5 DEF a
<1>7. b = x <=> x \in 0 .. 2 * i + 1
  BY <1>1, <1>3, <1>4 DEF b
<1> QED BY <1>2, <1>6, <1>7 DEF a, b, i

-----------------------------------------------------------------------------
\* An option and a text as they may be; what is shown is of a value that fits.
ValuesInv ==
  /\ dest \in [type : Types, base : Bases \cup {1}, value : Int]
  /\ text \in [num : Int, suffix : 0 .. 6]
  /\ did.call = "default" => Fits(dest.type, dest.value)
  /\ did.call = "show" => Fits(dest.type, dest.value) /\ text = Shown(dest.value, dest.base)
  /\ RefusedOrExact

\* What a type holds is a number.
LEMMA FitsInt ==
  ASSUME NEW type \in Types, NEW x, Fits(type, x)
  PROVE  /\ x \in Int
         /\ type # "ulonglong" => x \in LLONG_MIN .. LLONG_MAX
         /\ type \in {"ulonglong", "uint"} => x >= 0
<1>1. CASE type = "longlong"
  <2>1. x \in LLONG_MIN .. LLONG_MAX
    BY <1>1 DEF Fits
  <2> QED BY <1>1, <2>1, Limits
<1>2. CASE type = "ulonglong"
  <2>1. x \in 0 .. 2 * LLONG_MAX + 1
    BY <1>2 DEF Fits
  <2> QED BY <1>2, <2>1, Limits
<1>3. CASE type = "int"
  <2>1. x \in -INT_MAX - 1 .. INT_MAX
    BY <1>3 DEF Fits
  <2> QED BY <1>3, <2>1, Limits
<1>4. CASE type = "uint"
  <2>1. x \in 0 .. 2 * INT_MAX + 1
    BY <1>4 DEF Fits
  <2> QED BY <1>4, <2>1, Limits
<1> QED BY <1>1, <1>2, <1>3, <1>4 DEF Types

\* A text that is accepted says a number that its type holds.
LEMMA AcceptedFits ==
  ASSUME NEW type \in Types, NEW base \in Bases \cup {1}, NEW t \in [num : Int, suffix : 0 .. 6],
         Accepts(type, base, set_llong_with_suffix(t, base))
  PROVE  Fits(type, t.num * base ^ t.suffix)
<1> DEFINE m == base ^ t.suffix
           x == t.num * m
<1>1. m \in Nat \ {0} /\ t.num \in Int
  BY ValuePowersAssumption
<1>2. set_llong_with_suffix(t, base).ll = x
  BY DEF set_llong_with_suffix
<1>3. set_llong_with_suffix(t, base).ok
        => t.num <= Quotient(LLONG_MAX, m) /\ t.num >= Quotient(LLONG_MIN, m)
  BY DEF set_llong_with_suffix
<1>4. x \in LLONG_MIN .. LLONG_MAX
  BY <1>1, <1>3, WithSuffix DEF Accepts
<1>5. x \in Int
  BY <1>1
<1>6. As(type, x) = x /\ (type \in {"ulonglong", "uint"} => x >= 0)
  BY <1>2 DEF Accepts
<1> HIDE DEF x
<1>7. As("int", x) = x => x \in -INT_MAX - 1 .. INT_MAX
  BY <1>5, Narrow
<1>8. As("uint", x) = x => x \in 0 .. 2 * INT_MAX + 1
  BY <1>5, Narrow
<1>9. type = "ulonglong" => x \in 0 .. 2 * LLONG_MAX + 1
  BY <1>4, <1>5, <1>6, Limits
<1> HIDE DEF m
<1>10. Fits(type, x)
  BY <1>4, <1>6, <1>7, <1>8, <1>9 DEF Fits, Types
<1> QED BY <1>10 DEF x, m

\* A quotient without a rest gives the number back, and is not larger.
LEMMA ExactQuotient ==
  ASSUME NEW m \in Nat \ {0}, NEW x \in Int, x % m = 0
  PROVE  Quotient(x, m) * m = x /\ Quotient(x, m) \in IF x < 0 THEN x .. -1 ELSE 0 .. x
<1>1. PICK k \in Int : x = m * k /\ k = x \div m
  BY DivMod
<1>2. m * k = k * m /\ (-k) * m = -(k * m) /\ k * m \in Int
  BY <1>1
<1>3. k < 0 => k * m <= k
  BY <1>1
<1>4. k >= 0 => k * m >= k
  BY <1>1
<1>5. CASE x < 0
  <2>1. (-x) \div m = -k
    <3>1. -x \in Int /\ -k \in Int /\ 0 \in 0 .. m - 1 /\ -x = (-k) * m + 0
      BY <1>1, <1>2
    <3> QED BY <3>1, DivUnique
  <2>2. Quotient(x, m) = k
    BY <1>1, <1>5, <2>1 DEF Quotient
  <2>3. k < 0 /\ k >= x
    <3> DEFINE z == k * m
    <3>1. z = x /\ (k < 0 => z <= k) /\ (k >= 0 => z >= k)
      BY <1>1, <1>2, <1>3, <1>4
    <3> HIDE DEF z
    <3> QED BY <1>1, <1>5, <3>1
  <2> QED BY <1>1, <1>2, <1>5, <2>2, <2>3
<1>6. CASE ~(x < 0)
  <2>1. Quotient(x, m) = k
    BY <1>1, <1>6 DEF Quotient
  <2>2. k >= 0 /\ k <= x
    <3> DEFINE z == k * m
    <3>1. z = x /\ (k < 0 => z <= k) /\ (k >= 0 => z >= k)
      BY <1>1, <1>2, <1>3, <1>4
    <3> HIDE DEF z
    <3> QED BY <1>1, <1>6, <3>1
  <2> QED BY <1>1, <1>2, <1>6, <2>1, <2>2
<1> QED BY <1>5, <1>6

\* What is shown of a number says it: as often as it was divided, that was exact.
LEMMA ShownSays ==
  ASSUME NEW x \in Int, NEW base \in Bases \cup {1}
  PROVE  LET t == Shown(x, base)
         IN /\ t \in [num : Int, suffix : 0 .. 6]
            /\ t.num * base ^ t.suffix = x
            /\ base = 1 => t.suffix = 0
            /\ IF x < 0 THEN t.num \in x .. -1 ELSE t.num \in 0 .. x
<1> DEFINE times(k) == k = 0 \/ (base # 1 /\ x # 0 /\ x % (base ^ k) = 0)
           Is(k) == times(k) /\ \A j \in k + 1 .. 6 : ~times(j)
           i == CHOOSE k \in 0 .. 6 : Is(k)
<1>1. \E k \in 0 .. 6 : Is(k)
  <2>1. times(0)
    OBVIOUS
  <2> HIDE DEF times
  <2>2. Is(6) \/ Is(5) \/ Is(4) \/ Is(3) \/ Is(2) \/ Is(1) \/ Is(0)
    BY <2>1
  <2> QED BY <2>2
<1>2. i \in 0 .. 6 /\ times(i)
  BY <1>1
<1>3. Shown(x, base) = [num |-> Quotient(x, base ^ i), suffix |-> i]
  BY DEF Shown
<1> HIDE DEF i, Is
<1> DEFINE m == base ^ i
<1>4. m \in Nat \ {0} /\ (i = 0 => m = 1)
  BY <1>2, ValuePowersAssumption
<1>5. i # 0 => base # 1 /\ x # 0 /\ x % m = 0
  BY <1>2
<1> HIDE DEF m, times
<1>6. x % m = 0
  BY <1>4, <1>5
<1>7. Quotient(x, m) * m = x /\ Quotient(x, m) \in IF x < 0 THEN x .. -1 ELSE 0 .. x
  BY <1>4, <1>6, ExactQuotient
<1> QED BY <1>2, <1>3, <1>5, <1>7 DEF m

\* The invariant holds, and a value that was shown is set again.
LEMMA ValuesInvInit == ValuesInit => ValuesInv
<1> SUFFICES ASSUME ValuesInit PROVE ValuesInv
  OBVIOUS
<1> QED BY DEF ValuesInit, ValuesInv, RefusedOrExact

\* A text is set.
LEMMA SetKeeps ==
  ASSUME ValuesInv, NEW t \in [num : Int, suffix : 0 .. 6], Set(t)
  PROVE  ValuesInv'
<1> DEFINE r == set_llong_with_suffix(t, dest.base)
           ok == Accepts(dest.type, dest.base, r)
           m == dest.base ^ t.suffix
<1>1. dest.type \in Types /\ dest.base \in Bases \cup {1} /\ dest.value \in Int
  BY DEF ValuesInv
<1>2. text' = t /\ did' = [call |-> "set", ok |-> ok]
  BY DEF Set
<1>3. ok => dest' = [dest EXCEPT !.value = r.ll]
  BY DEF Set
<1>4. r.ll = t.num * m
  BY DEF set_llong_with_suffix
<1>5. m \in Nat \ {0} /\ t.num \in Int
  BY <1>1, ValuePowersAssumption
<1>6. ok => Fits(dest.type, t.num * m)
  BY <1>1, AcceptedFits
<1>7. ~ok => \E x : Fits(dest.type, x) /\ dest' = [dest EXCEPT !.value = x]
  BY DEF Set
<1> HIDE DEF r, ok, m
<1>8. PICK x : dest' = [dest EXCEPT !.value = x] /\ Fits(dest.type, x) /\ (ok => x = t.num * m)
  BY <1>3, <1>4, <1>6, <1>7
<1>9. x \in Int
  BY <1>1, <1>8, FitsInt
<1>10. /\ dest' \in [type : Types, base : Bases \cup {1}, value : Int]
       /\ dest'.type = dest.type /\ dest'.base = dest.base /\ dest'.value = x
  BY <1>8, <1>9 DEF ValuesInv
<1>11. RefusedOrExact'
  BY <1>2, <1>8, <1>10 DEF RefusedOrExact, m
<1>12. did'.call = "set"
  BY <1>2
<1> QED BY <1>2, <1>10, <1>11, <1>12 DEF ValuesInv

\* Each step.
LEMMA ValuesInvStep == ValuesInv /\ [ValuesNext]_vvars => ValuesInv'
<1> SUFFICES ASSUME ValuesInv, [ValuesNext]_vvars PROVE ValuesInv'
  OBVIOUS
<1>1. ASSUME NEW n \in SeenNumbers, NEW suffix \in 0 .. 6, Set([num |-> n, suffix |-> suffix])
      PROVE  ValuesInv'
  <2>1. [num |-> n, suffix |-> suffix] \in [num : Int, suffix : 0 .. 6]
    BY OptValuesAssumption
  <2> QED BY <1>1, <2>1, SetKeeps
<1>2. ASSUME NEW x \in SeenNumbers, Default(x) PROVE ValuesInv'
  <2>1. x \in Int
    BY OptValuesAssumption
  <2>2. /\ dest' \in [type : Types, base : Bases \cup {1}, value : Int]
        /\ Fits(dest'.type, dest'.value)
    BY <1>2, <2>1 DEF Default, ValuesInv
  <2> QED BY <1>2, <2>2 DEF Default, ValuesInv, RefusedOrExact
<1>3. CASE Show
  <2>1. dest.base \in Bases \cup {1} /\ dest.value \in Int
    BY DEF ValuesInv
  <2>2. text' \in [num : Int, suffix : 0 .. 6]
    BY <1>3, <2>1, ShownSays DEF Show
  <2> QED BY <1>3, <2>2 DEF Show, ValuesInv, RefusedOrExact
<1>4. CASE Set(text)
  BY <1>4, SetKeeps DEF ValuesInv
<1>5. CASE UNCHANGED vvars
  BY <1>5 DEF vvars, ValuesInv, RefusedOrExact
<1> QED BY <1>1, <1>2, <1>3, <1>4, <1>5 DEF ValuesNext

\* The invariant.
LEMMA AlwaysValuesInv == ValuesSpec => []ValuesInv
BY ValuesInvInit, ValuesInvStep, PTL DEF ValuesSpec

\* A text is refused or means exactly the number that is stored, whatever the
\* widths and the bases (set_llong_with_suffix and the opt_set functions).
THEOREM AlwaysRefusedOrExact == ValuesSpec => []RefusedOrExact
<1>1. ValuesInv => RefusedOrExact
  BY DEF ValuesInv
<1> QED BY <1>1, AlwaysValuesInv, PTL

\* What is shown of a value that its type holds is accepted again.
LEMMA ShownIsAccepted ==
  ASSUME ValuesInv, did.call = "show", Set(text),
         ~(dest.type = "ulonglong" /\ dest.value > LLONG_MAX),
         ~(dest.type = "uint" /\ dest.base = 1 /\ dest.value > INT_MAX)
  PROVE  did'.ok /\ dest'.value = dest.value
<1> DEFINE x == dest.value
           base == dest.base
           m == base ^ text.suffix
           r == set_llong_with_suffix(text, base)
<1>1. /\ dest.type \in Types /\ base \in Bases \cup {1} /\ x \in Int
      /\ text \in [num : Int, suffix : 0 .. 6]
      /\ Fits(dest.type, x) /\ text = Shown(x, base)
  BY DEF ValuesInv
<1>2. /\ text.num * m = x /\ (base = 1 => text.suffix = 0)
      /\ text.num \in IF x < 0 THEN x .. -1 ELSE 0 .. x
  BY <1>1, ShownSays
<1>3. m \in Nat \ {0} /\ text.num \in Int
  BY <1>1, ValuePowersAssumption
<1>4. r.ll = x
  BY <1>2 DEF set_llong_with_suffix
<1>5. r.ok <=> /\ text.num \in LLONG_MIN .. LLONG_MAX
               /\ text.num <= Quotient(LLONG_MAX, m) /\ text.num >= Quotient(LLONG_MIN, m)
  BY <1>2 DEF set_llong_with_suffix
<1>6. x \in LLONG_MIN .. LLONG_MAX
  <2>1. dest.type = "ulonglong" => x \in 0 .. LLONG_MAX
    <3>1. dest.type = "ulonglong" => x >= 0 /\ x \in Int
      BY <1>1, FitsInt
    <3> QED BY <1>1, <3>1, Limits
  <2>2. dest.type # "ulonglong" => x \in LLONG_MIN .. LLONG_MAX
    BY <1>1, FitsInt
  <2> QED BY <2>1, <2>2, Limits
<1>7. text.num \in LLONG_MIN .. LLONG_MAX
  <2> DEFINE z == text.num
  <2> HIDE DEF z, x
  <2>1. z \in Int /\ z \in IF x < 0 THEN x .. -1 ELSE 0 .. x
    BY <1>2, <1>3 DEF z
  <2>2. x \in Int
    BY <1>1 DEF x
  <2> QED BY <1>6, <2>1, <2>2, Limits DEF z
<1>8. r.ok
  BY <1>2, <1>3, <1>5, <1>6, <1>7, WithSuffix
<1>9. As(dest.type, x) = x
  BY <1>1, Narrow DEF Fits, As, Types
<1>10. dest.type \in {"ulonglong", "uint"} => x >= 0
  BY <1>1, FitsInt
<1>11. dest.type = "uint" /\ base = 1 => x <= INT_MAX
  BY <1>1, Limits
<1>12. Accepts(dest.type, base, r)
  BY <1>4, <1>8, <1>9, <1>10, <1>11 DEF Accepts
<1> HIDE DEF r
<1>13. did' = [call |-> "set", ok |-> TRUE] /\ dest' = [dest EXCEPT !.value = r.ll]
  BY <1>12 DEF Set, r
<1>14. dest'.value = r.ll
  BY <1>13 DEF ValuesInv
<1> QED BY <1>4, <1>13, <1>14

\* The help shows a default as a text that sets it again, if the type can be set
\* to it at all (show_llong_with_suffix, show_ullong_with_suffix).
THEOREM ShownCanAlwaysBeSet == ValuesSpec => ShownCanBeSet
<1> DEFINE A == (did.call = "show" /\ did'.call = "set") =>
                  \/ did'.ok /\ dest'.value = dest.value
                  \/ dest.type = "ulonglong" /\ dest.value > LLONG_MAX
                  \/ dest.type = "uint" /\ dest.base = 1 /\ dest.value > INT_MAX
<1>1. ValuesInv /\ [ValuesNext]_vvars => [A]_vvars
  <2> SUFFICES ASSUME ValuesInv, ValuesNext, did.call = "show", did'.call = "set" PROVE A
    BY DEF vvars
  <2>1. Set(text)
    BY DEF ValuesNext, Show
  <2> QED BY <2>1, ShownIsAccepted
<1>2. ValuesSpec => [][A]_vvars
  BY <1>1, AlwaysValuesInv, PTL DEF ValuesSpec
<1> QED BY <1>2 DEF ShownCanBeSet
=============================================================================
