-------------------------------- MODULE Hash --------------------------------
(***************************************************************************)
(* ccan/hash: the lookup3 hashes.  A hash is what mix and final make of the *)
(* words added to the registers a, b and c between mixes, so two hashes    *)
(* are the same when the same bytes were added at the same places.  How a  *)
(* key is read depends on the function, the machine's byte order and the   *)
(* alignment of the key; the places must not.                              *)
(*                                                                         *)
(* An addition is <<mix, register, element, shift>>: element 0 is the first *)
(* byte for hashlittle and hashbig, else the first of the array, and the   *)
(* two halves of a 64-bit element are told apart by their register.        *)
(***************************************************************************)
EXTENDS Integers, FiniteSets

CONSTANT MaxKey   \* bound: the number of elements of a key

ASSUME KeyAssumption == MaxKey \in Nat

VARIABLES
  hfn,      \* the function, and how it finds the key: [fn, big, addr]
  num,      \* the number of elements of the key
  length,   \* the elements that are left
  mixes,    \* the number of mixes so far
  added,    \* the additions so far
  hashed    \* whether the hash was returned

hvars == <<hfn, num, length, mixes, added, hashed>>

Hashes == {"hashlittle", "hashbig", "hash_u32",
           "hash64_stable_64", "hash64_stable_32", "hash64_stable_16"}

\* The elements that fit the registers, and the mixes they take.
Block(fn) ==
  CASE fn \in {"hashlittle", "hashbig"} -> 12
    [] fn = "hash64_stable_16" -> 6
    [] OTHER -> 3
MixesOf(fn) == IF fn = "hash64_stable_64" THEN 2 ELSE 1

\* Where the byte i of a load of so many bytes ends up.
Loaded(big, bytes, i) == 8 * (IF big THEN bytes - 1 - i ELSE i)

\* Mutant: words are read on every machine.
LoadBytes_Any(f) ==
  CASE f.fn = "hashlittle" /\ f.addr % 4 = 0 -> 4
    [] f.fn = "hashlittle" /\ f.addr % 4 = 2 -> 2
    [] f.fn = "hashbig" /\ f.addr % 4 = 0 -> 4
    [] OTHER -> 1

\* The widest load that f uses.
LoadBytes(f) ==
  CASE f.fn = "hashlittle" /\ ~f.big /\ f.addr % 4 = 0 -> 4
    [] f.fn = "hashlittle" /\ ~f.big /\ f.addr % 4 = 2 -> 2
    [] f.fn = "hashbig" /\ f.big /\ f.addr % 4 = 0 -> 4
    [] OTHER -> 1

\* The shift of byte i of a block of bytes, of which the last left % LoadBytes are
\* added one by one.
ByteShift(f, left, i) ==
  LET bytes == LoadBytes(f)
  IN IF bytes > 1 /\ i < bytes * (left \div bytes)
     THEN Loaded(f.big, bytes, i % bytes) + 8 * ((i % 4) - (i % bytes))
     ELSE Loaded(f.fn = "hashbig", 4, i % 4)

\* The additions for element i of a block, when so many are left.
Adds(f, left, i) ==
  LET e == num - length + i
  IN CASE f.fn \in {"hashlittle", "hashbig"} -> {<<mixes, i \div 4, e, ByteShift(f, left, i)>>}
       [] f.fn = "hash64_stable_16" -> {<<mixes, i \div 2, e, 16 * (i % 2)>>}
       [] f.fn = "hash64_stable_64" ->
            {<<mixes + (w \div 3), w % 3, e, 0>> : w \in {2 * i, 2 * i + 1}}
       [] OTHER -> {<<mixes, i, e, 0>>}

-----------------------------------------------------------------------------
HashInit ==
  /\ hfn = [fn |-> "none"]
  /\ num = 0 /\ length = 0 /\ mixes = 0 /\ added = {} /\ hashed = FALSE

HashStart ==
  /\ hfn.fn = "none"
  /\ hfn' \in [fn : Hashes, big : BOOLEAN, addr : 0 .. 3]
  /\ num' \in 0 .. MaxKey
  /\ length' = num'
  /\ UNCHANGED <<mixes, added, hashed>>

\* Once round the loop.
MixBlock ==
  /\ hfn.fn # "none" /\ length > Block(hfn.fn)
  /\ added' = added \cup UNION {Adds(hfn, Block(hfn.fn), i) : i \in 0 .. Block(hfn.fn) - 1}
  /\ mixes' = mixes + MixesOf(hfn.fn)
  /\ length' = length - Block(hfn.fn)
  /\ UNCHANGED <<hfn, num, hashed>>

\* Mutant: the first element of the last block has no case of its own.
Cases_Late(fn) == 2 .. Block(fn)

\* The lengths of the last block that the switch has a case for: those of
\* hash64_stable_64, _32 and _16 have none for a block that is whole, whose
\* elements then take no part.
Cases(fn) ==
  IF fn \in {"hashlittle", "hashbig", "hash_u32"} THEN 1 .. Block(fn) ELSE 1 .. Block(fn) - 1

\* The last block, and the final mix; nothing is mixed when none is left.
LastBlock ==
  /\ hfn.fn # "none" /\ ~hashed /\ length <= Block(hfn.fn)
  /\ added' = IF length \in Cases(hfn.fn)
              THEN added \cup UNION {Adds(hfn, length, i) : i \in 0 .. length - 1}
              ELSE added
  /\ hashed' = TRUE
  /\ UNCHANGED <<hfn, num, length, mixes>>

HashNext == HashStart \/ MixBlock \/ LastBlock

HashSpec == HashInit /\ [][HashNext]_hvars

-----------------------------------------------------------------------------
\* Where element e of a key belongs, on every machine.
Belongs(fn, e) ==
  CASE fn = "hashlittle" -> {<<e \div 12, (e % 12) \div 4, e, 8 * (e % 4)>>}
    [] fn = "hashbig" -> {<<e \div 12, (e % 12) \div 4, e, 24 - 8 * (e % 4)>>}
    [] fn = "hash64_stable_16" -> {<<e \div 6, (e % 6) \div 2, e, 16 * (e % 2)>>}
    [] fn = "hash64_stable_64" -> {<<w \div 3, w % 3, e, 0>> : w \in {2 * e, 2 * e + 1}}
    [] OTHER -> {<<e \div 3, e % 3, e, 0>>}

\* "This hash will have the same results on different machines": what is hashed
\* is at the same place whatever the machine and the alignment.  All of the key
\* is, but a last block that has no case.
SameOnAllMachines ==
  hashed =>
    LET all == IF length = Block(hfn.fn) /\ hfn.fn \notin {"hashlittle", "hashbig", "hash_u32"}
               THEN num - length ELSE num
    IN added = UNION {Belongs(hfn.fn, e) : e \in 0 .. all - 1}
=============================================================================
