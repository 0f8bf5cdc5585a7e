-------------------------------- MODULE Iblt --------------------------------
(***************************************************************************)
(* class iblt and class iblt_todo (iblt.h, iblt.cpp): the difference of    *)
(* two raw IBLTs, peeled one slice at a time, with two "todo" lists that   *)
(* are meant to name exactly the buckets that hold a single slice.         *)
(*                                                                         *)
(* The object is used by one thread, but every mutator loops over several  *)
(* buckets and any iteration may throw, so an iteration of a loop is a     *)
(* step: of the constructor, of frob_buckets, of remove_our_tx.  A slice   *)
(* may hash to one bucket two or three times; the iterations then meet the *)
(* same bucket again, half way through.                                    *)
(***************************************************************************)
EXTENDS Slices

CONSTANTS
  SOON,       \* iblt_todo::SOON, 8: offsets below it have a list each
  FragWidth   \* bits of a u16, 16

VARIABLES
  hf,       \* which function MurmurHash3 is: never changes
  riblt,    \* the difference
  ours,     \* the constructor's argument (theirs is copied into riblt)
  todo,     \* todo[t][i]: the buckets of type t in list i
  manually_removed, \* one flag for each of the two iblt_todo objects
  pc,       \* where the object's thread is
  fixed,    \* buckets below it have had their counter fixed up
  work,     \* the slices frob_buckets has still to be called with
  hashno,   \* iteration of frob_buckets
  dir,      \* its argument
  cancelled \* history, for the properties: the buckets remove_todo has taken
            \* off a list and that frob_buckets has not met since

ivars == <<hf, riblt, ours, todo, manually_removed, pc, fixed, work, hashno, dir,
           cancelled>>

OURS == "OURS"
THEIRS == "THEIRS"
NEITHER == "NEITHER"
TodoTypes == {OURS, THEIRS}

\* The indices of iblt_todo::todo, an array of SOON + 16 + 1 sets, and a value
\* above all of them for (size_t)-1.
Prios == 0 .. SOON + FragWidth
NoPrio == SOON + FragWidth + 1

ASSUME TodoAssumption ==
  /\ SOON \in Nat
  /\ FragWidth \in 0 .. 30
  /\ U16 = 2 ^ FragWidth

\* Powers of two grow: arithmetic the provers do not know.  It mentions no
\* constant, so TLC's evaluation settles it.
ASSUME PowersAssumption ==
  \A j, k \in 0 .. 30 : 2 ^ j \in Nat /\ (j <= k => 2 ^ j <= 2 ^ k)

\* ilog32 (ccan/ilog): the number of bits of v.
ilog32(v) == Cardinality({k \in 0 .. 30 : 2 ^ k <= v})

\* iblt_todo::get_todo, as the index of the list.
get_todo(fragoff) ==
  IF fragoff <= SOON THEN fragoff ELSE SOON + ilog32(fragoff - SOON)

-----------------------------------------------------------------------------
Prio(s) == get_todo(FragOff(s))

\* Mutant: any counter above 0 is taken for a singleton of theirs.
TypeOfCount_AnyPositive(c) ==
  IF c = -1 THEN OURS ELSE IF c >= 1 THEN THEIRS ELSE NEITHER

TypeOfCount(c) ==
  IF c = -1 THEN OURS ELSE IF c = 1 THEN THEIRS ELSE NEITHER

Singleton(r, n) == TypeOfCount(r.counts[n]) # NEITHER

\* The place in todo where a singleton bucket belongs.
InTodo(td, r, n) == n \in td[TypeOfCount(r.counts[n])][Prio(r.buckets[n])]

\* Mutant: the case of a counter of -1 is missing.
add_todo_if_singleton_TheirsOnly(td, r, n) ==
  IF r.counts[n] = 1
  THEN [td EXCEPT ![THEIRS][Prio(r.buckets[n])] = @ \cup {n}]
  ELSE td

add_todo_if_singleton(td, r, n) ==
  IF Singleton(r, n)
  THEN [td EXCEPT ![TypeOfCount(r.counts[n])][Prio(r.buckets[n])] = @ \cup {n}]
  ELSE td

\* Mutant: the bucket stays in the list it was in before it changed.
remove_todo_if_singleton_Never(td, r, n) == td

remove_todo_if_singleton(td, r, n) ==
  IF Singleton(r, n)
  THEN [td EXCEPT ![TypeOfCount(r.counts[n])][Prio(r.buckets[n])] = @ \ {n}]
  ELSE td

\* iblt_todo::add throws "Bucket already in todo".
AddThrows(td, r, n) == Singleton(r, n) /\ InTodo(td, r, n)

\* iblt_todo::del throws "Bucket not in todo".
DelThrows(td, mr, r, n) ==
  /\ Singleton(r, n)
  /\ ~InTodo(td, r, n)
  /\ ~mr[TypeOfCount(r.counts[n])]

\* iblt_todo::next_todo.
NextTodo(l) ==
  IF \A i \in Prios : l[i] = {}
  THEN NoPrio
  ELSE CHOOSE i \in Prios : l[i] # {} /\ \A j \in Prios : j < i => l[j] = {}

\* Mutant: a draw goes to theirs.
NextType_DrawIsTheirs(td) ==
  IF NextTodo(td[OURS]) < NextTodo(td[THEIRS]) THEN OURS
  ELSE IF NextTodo(td[THEIRS]) = NoPrio THEN NEITHER ELSE THEIRS

\* iblt::next: the type, the bucket and the slice it returns.
NextType(td) ==
  IF NextTodo(td[OURS]) <= NextTodo(td[THEIRS])
  THEN IF NextTodo(td[OURS]) = NoPrio THEN NEITHER ELSE OURS
  ELSE THEIRS

NextBucket(td) ==
  LET l == td[NextType(td)][NextTodo(td[NextType(td)])]
  IN CHOOSE n \in l : \A m \in l : n <= m

NextSlice == riblt.buckets[NextBucket(todo)]

\* iblt::empty.
Empty(r) == \A n \in Buckets(r.size) : r.counts[n] = 0 /\ r.buckets[n] = {}

-----------------------------------------------------------------------------
NoTodo == [t \in TodoTypes |-> [i \in Prios |-> {}]]

\* Two raw IBLTs, of any content: theirs arrived from a peer.  The constructor
\* of iblt_todo leaves manually_removed uninitialised.
IbltInit ==
  /\ hf \in HashFns
  /\ IsRawIblt(riblt)
  /\ IsRawIblt(ours)
  /\ todo = NoTodo
  /\ manually_removed \in [TodoTypes -> BOOLEAN]
  /\ pc = "ctor"
  /\ fixed = 0
  /\ work = <<>>
  /\ hashno = 0
  /\ dir = 1
  /\ cancelled = {}

\* iblt::iblt up to its last loop: XOR every bucket.
Construct ==
  /\ pc = "ctor"
  /\ IF ours.size # riblt.size
     THEN pc' = "mismatch" /\ UNCHANGED riblt
     ELSE /\ pc' = "fixup"
          /\ riblt' = [riblt EXCEPT !.buckets =
                         [n \in Buckets(riblt.size) |->
                            Xor(riblt.buckets[n], ours.buckets[n])]]
  /\ UNCHANGED <<hf, ours, todo, manually_removed, fixed, work, hashno, dir,
                 cancelled>>

\* Mutant: the difference of the counters is not truncated to an s16.
Fixup_NoWrap ==
  /\ pc = "fixup"
  /\ riblt' = [riblt EXCEPT !.counts[fixed] = @ - ours.counts[fixed]]
  /\ todo' = add_todo_if_singleton(todo, riblt', fixed)
  /\ fixed' = fixed + 1
  /\ pc' = IF AddThrows(todo, riblt', fixed) THEN "desync"
           ELSE IF fixed' = riblt.size THEN "idle" ELSE "fixup"
  /\ UNCHANGED <<hf, ours, manually_removed, work, hashno, dir, cancelled>>

\* An iteration of its last loop.
Fixup ==
  /\ pc = "fixup"
  /\ riblt' = [riblt EXCEPT !.counts[fixed] = Wrap(@ - ours.counts[fixed])]
  /\ todo' = add_todo_if_singleton(todo, riblt', fixed)
  /\ fixed' = fixed + 1
  /\ pc' = IF AddThrows(todo, riblt', fixed) THEN "desync"
           ELSE IF fixed' = riblt.size THEN "idle" ELSE "fixup"
  /\ UNCHANGED <<hf, ours, manually_removed, work, hashno, dir, cancelled>>

\* iblt::remove_their_slice and remove_our_tx, up to their loops.
StartFrob(v, d) ==
  /\ pc = "idle"
  /\ pc' = "frob"
  /\ work' = v
  /\ dir' = d
  /\ UNCHANGED <<hf, riblt, ours, todo, manually_removed, fixed, hashno, cancelled>>

RemoveTheirSlice(s) == StartFrob(<<s>>, -1)

\* Mutant: removed in the direction that inserts.
RemoveOurTx_WrongDir(t) == StartFrob(slice_tx(t), -1)

RemoveOurTx(t) == StartFrob(slice_tx(t), 1)

\* An iteration of the loop of iblt::frob_buckets.  After a throw the object is
\* gone: nothing follows "desync", and what its fields hold means nothing.
FrobBucket ==
  /\ pc = "frob"
  /\ LET n == select_buckets(hf, riblt.size, Head(work))[hashno]
         removed == remove_todo_if_singleton(todo, riblt, n)
     IN /\ riblt' = frob_bucket(riblt, n, Head(work), dir)
        /\ todo' = add_todo_if_singleton(removed, riblt', n)
        /\ cancelled' = cancelled \ {n}
        /\ hashno' = (hashno + 1) % NUM_HASHES
        /\ work' = IF hashno' = 0 THEN Tail(work) ELSE work
        /\ pc' = IF \/ DelThrows(todo, manually_removed, riblt, n)
                    \/ AddThrows(removed, riblt', n)
                 THEN "desync"
                 ELSE IF work' = <<>> THEN "idle" ELSE "frob"
  /\ UNCHANGED <<hf, ours, manually_removed, fixed, dir>>

\* Mutant: remove_todo does not set the flag.
RemoveTodo_NoFlag ==
  /\ pc = "idle"
  /\ NextType(todo) # NEITHER
  /\ todo' = [todo EXCEPT ![NextType(todo)][Prio(NextSlice)] = @ \ {NextBucket(todo)}]
  /\ cancelled' = cancelled \cup {NextBucket(todo)}
  /\ UNCHANGED <<hf, riblt, ours, manually_removed, pc, fixed, work, hashno, dir>>

\* iblt::remove_todo, called with what next has just returned.
RemoveTodo ==
  /\ pc = "idle"
  /\ NextType(todo) # NEITHER
  /\ LET t == NextType(todo)
     IN /\ todo' = [todo EXCEPT ![t][Prio(NextSlice)] = @ \ {NextBucket(todo)}]
        /\ cancelled' = cancelled \cup {NextBucket(todo)}
        /\ manually_removed' = [manually_removed EXCEPT ![t] = TRUE]
        /\ pc' = IF NextBucket(todo) \notin todo[t][Prio(NextSlice)]
                    /\ ~manually_removed[t]
                 THEN "desync" ELSE "idle"
  /\ UNCHANGED <<hf, riblt, ours, fixed, work, hashno, dir>>

IbltNext ==
  \/ Construct
  \/ Fixup
  \/ \E s \in Slice : RemoveTheirSlice(s)
  \/ \E t \in Tx : RemoveOurTx(t)
  \/ FrobBucket
  \/ RemoveTodo

IbltSpec == IbltInit /\ [][IbltNext]_ivars

-----------------------------------------------------------------------------
IbltTypeOK ==
  /\ hf \in HashFns
  /\ IsRawIblt(riblt)
  /\ IsRawIblt(ours)
  /\ todo \in [TodoTypes -> [Prios -> SUBSET Buckets(riblt.size)]]
  /\ manually_removed \in [TodoTypes -> BOOLEAN]
  /\ pc \in {"ctor", "mismatch", "fixup", "idle", "frob", "desync"}
  /\ fixed \in 0 .. riblt.size
  /\ work \in Seq(Slice)
  /\ hashno \in 0 .. NUM_HASHES - 1
  /\ dir \in {-1, 1}
  /\ cancelled \subseteq Buckets(riblt.size)

\* "Are we in sync with iblt?" (iblt.h, iblt_todo): between any two iterations
\* of any loop, list i of type t names a bucket exactly when the bucket's
\* counter has been fixed up, says t, its slice's offset belongs in list i, and
\* nobody cancelled it.
TodoExact ==
  \A n \in Buckets(riblt.size), t \in TodoTypes, i \in Prios :
    n \in todo[t][i] <=> /\ n < fixed
                         /\ TypeOfCount(riblt.counts[n]) = t
                         /\ Prio(riblt.buckets[n]) = i
                         /\ n \notin cancelled

\* A bucket missing from its list is excused by the flag of that very list, and
\* the flag was set by remove_todo: del never relies on the value the
\* uninitialised field happened to have (iblt_todo::del).
CancelledIsFlagged ==
  \A n \in cancelled :
    Singleton(riblt, n) /\ manually_removed[TypeOfCount(riblt.counts[n])]

\* Neither "Bucket already in todo" nor "Bucket not in todo" is ever thrown,
\* also when a slice meets one bucket several times, and whatever the
\* uninitialised flags held (iblt_todo::add, iblt_todo::del).
NoDesync == pc # "desync"

\* iblt::next finds a singleton whenever there is one, its assertion on the
\* counter holds, no singleton has a better priority, and one of ours wins a
\* draw.
NextIsBest ==
  LET live == {n \in Buckets(riblt.size) \ cancelled : Singleton(riblt, n)}
      next == NextBucket(todo)
      prio(n) == Prio(riblt.buckets[n])
  IN pc = "idle" =>
       IF live = {} THEN NextType(todo) = NEITHER
       ELSE /\ next \in live
            /\ TypeOfCount(riblt.counts[next]) = NextType(todo)
            /\ \A n \in live :
                 \/ prio(next) < prio(n)
                 \/ /\ prio(next) = prio(n)
                    /\ \/ NextType(todo) = OURS
                       \/ TypeOfCount(riblt.counts[n]) = THEIRS
=============================================================================
