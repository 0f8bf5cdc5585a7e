-------------------------------- MODULE Tal --------------------------------
(***************************************************************************)
(* ccan/tal: the tree allocator.  A block has a header that is a node on   *)
(* its parent's list of children and a chain of properties; the list's     *)
(* head is a property of the parent, allocated on its own.  All is kept by *)
(* address: a block that tal_resize moves leaves pointers to fix, and a    *)
(* freed address is used again at once.                                    *)
(*                                                                         *)
(* There is one thread; what interleaves is del_tree with the destructors  *)
(* it calls, which call tal in turn.  stack is its recursion.  The other   *)
(* notifiers are called before a function's first change (DEL_CHILD) or    *)
(* after its last (ADD_CHILD, STEAL, MOVE, RESIZE, RENAME): what they call *)
(* are steps before it or after it.  Left out are those in between:        *)
(* ADD_CHILD of an array, which has no length yet, and ADD_NOTIFIER and    *)
(* DEL_NOTIFIER.  The error function may return, so every allocation may   *)
(* fail.                                                                   *)
(*                                                                         *)
(* The caller's part, in TalNext: nothing is stolen into itself; a block   *)
(* that is being destroyed is not stolen or resized, keeps its notifiers,  *)
(* and is freed again only while that disturbs nothing (MayFree).          *)
(* TalAgainNext is without this last part.                                 *)
(***************************************************************************)
EXTENDS Integers, FiniteSetsExt, SequencesExt

CONSTANTS
  TalAddrs,    \* where blocks may be
  TalGroups,   \* where lists of children may be
  NullGroup,   \* the list of null_parent, one of them
  MaxDecor,    \* bound: the properties the program adds, at any time
  MaxNotifiers \* bound: what notifiers counts up to

ASSUME TalAssumption ==
  /\ TalAddrs \subseteq Nat \ {0} /\ IsFiniteSet(TalAddrs)
  /\ TalGroups \subseteq Int \ (Nat \cup {-1}) /\ IsFiniteSet(TalGroups)
  /\ NullGroup \in TalGroups
  /\ MaxDecor \in Nat
  /\ MaxNotifiers \in Nat

VARIABLES
  blocks,     \* the blocks: header, chain, and whether the address is in use
  groups,     \* the parent of every list of children, or FREE
  ptrs,       \* the pointers of the lists
  notifiers,  \* the number of notifiers that are not destructors
  stack       \* the calls of del_tree that run: [t, at]

tal_vars == <<blocks, groups, ptrs, notifiers, stack>>

NULL_PARENT == 0
FREE == -1
Unused == [live |-> FALSE, parent_child |-> NULL_PARENT, dying |-> FALSE,
           prop |-> <<>>]
Alive == {a \in TalAddrs : blocks[a].live}
Linked == {a \in Alive : ~blocks[a].dying}
FreeAddrs == TalAddrs \ Alive
FreeGroups == {g \in TalGroups : groups[g] = FREE}

L == INSTANCE List WITH
       ListHeads <- TalGroups, ListNodes <- TalAddrs,
       NoHead <- NULL_PARENT, call <- <<>>, loop <- [on |-> FALSE],
       links <- ptrs,
       on <- [a \in TalAddrs |-> IF a \in Linked THEN blocks[a].parent_child
                                 ELSE NULL_PARENT]

-----------------------------------------------------------------------------
\* A chain of properties, first to last: a list of children <<"children", g>>,
\* the length at the end of the block at a, <<"length", a>>, notifiers, <<"free">>
\* for a destructor, a copied name, and a literal one, which ends the chain.
Places(chain, type) == {k \in DOMAIN chain : chain[k][1] = type}
Has(a, type) == Places(blocks[a].prop, type) # {}
find_property(a, type) == blocks[a].prop[Min(Places(blocks[a].prop, type))]
Without(chain, type) == RemoveAt(chain, Min(Places(chain, type)))

HasGroup(p) == p = NULL_PARENT \/ Has(p, "children")
GroupOf(p) == IF p = NULL_PARENT THEN NullGroup ELSE find_property(p, "children")[2]

Parent(a) == groups[blocks[a].parent_child]
Under(p) ==
  LET up[k \in 0 .. Cardinality(TalAddrs)] ==
        IF k = 0 THEN {p}
        ELSE LET here == up[k - 1]
             IN here \cup {a \in Linked : groups[blocks[a].parent_child] \in here}
  IN up[Cardinality(TalAddrs)]

\* add_child: a goes to the front of p's list, which is made when there is
\* none; the list is then the first of p's properties.
add_child(p, a, b, l) ==
  IF HasGroup(p)
  THEN /\ blocks' = [b EXCEPT ![a].parent_child = GroupOf(p)]
       /\ ptrs' = L!AfterLinks(l, GroupOf(p), a)
       /\ UNCHANGED groups
  ELSE LET g == Max(FreeGroups)
       IN /\ FreeGroups # {}
          /\ blocks' = [b EXCEPT ![a].parent_child = g,
                                 ![p].prop = <<<<"children", g>>>> \o @]
          /\ ptrs' = L!AfterLinks(L!InitLinks(l, g), g, a)
          /\ groups' = [groups EXCEPT ![g] = p]

\* Whoever runs: the program, or the destructor on top of the stack.
Runs == stack # <<>> => Last(stack).at = "destructor"

\* The bound on the properties that programs add.
Adorns(a, k) == blocks[a].prop[k][1] \notin {"children", "literal"}
Decor == UNION {{<<a, k>> : k \in {j \in DOMAIN blocks[a].prop : Adorns(a, j)}} : a \in TalAddrs}
MayDecorate == Cardinality(Decor) < MaxDecor

-----------------------------------------------------------------------------
TalInit ==
  /\ blocks = [a \in TalAddrs |-> Unused]
  /\ groups = [g \in TalGroups |-> IF g = NullGroup THEN NULL_PARENT ELSE FREE]
  /\ ptrs = [next |-> [c \in TalAddrs \cup TalGroups |-> c],
              prev |-> [c \in TalAddrs \cup TalGroups |-> c]]
  /\ notifiers = 0
  /\ stack = <<>>

\* tal_alloc_ and tal_alloc_arr_: the label is a literal name; an array has its
\* length in front.  A failure at either allocation leaves nothing.
TalAlloc(p, array) ==
  /\ Runs /\ FreeAddrs # {} /\ (array => MayDecorate)
  /\ LET a == Min(FreeAddrs)
         chain == IF array THEN << <<"length", a>>, <<"literal">> >> ELSE << <<"literal">> >>
     IN add_child(p, a, [blocks EXCEPT ![a] = [Unused EXCEPT !.live = TRUE, !.prop = chain]],
                  ptrs)
  /\ UNCHANGED <<notifiers, stack>>

\* del_tree(a) begins, with a off its list: it is marked, and its notifiers are
\* called.
Enter(a) == [t |-> a, at |-> IF Has(a, "free") THEN "destructor" ELSE "children"]
Mark(a) == [blocks EXCEPT ![a].dying = TRUE]

\* Mutant: what is being destroyed already is destroyed again.
TalFree_Again(a) ==
  /\ Runs
  /\ ptrs' = L!DelLinks(ptrs, a)
  /\ blocks' = Mark(a)
  /\ stack' = Append(stack, Enter(a))
  /\ UNCHANGED <<groups, notifiers>>

\* tal_free: off the list, also if a was taken off before; then del_tree, which
\* returns at once when a is being destroyed already.
TalFree(a) ==
  /\ Runs
  /\ ptrs' = L!DelLinks(ptrs, a)
  /\ IF a \in Linked THEN blocks' = Mark(a) /\ stack' = Append(stack, Enter(a))
     ELSE UNCHANGED <<blocks, stack>>
  /\ UNCHANGED <<groups, notifiers>>

\* What tal_free reads and writes next to a is in memory; and a's neighbours, as a
\* has them, are still each other's.
Reaches(a) ==
  {ptrs.next[a], ptrs.prev[a], blocks[a].parent_child} \subseteq Alive \cup (TalGroups \ FreeGroups)
Undisturbed(a) ==
  /\ Reaches(a)
  /\ ptrs.prev[ptrs.next[a]] = ptrs.prev[a]
  /\ ptrs.next[ptrs.prev[a]] = ptrs.next[a]
MayFree(a) == a \in Linked \/ Undisturbed(a)

DestructorReturns ==
  /\ stack # <<>> /\ Last(stack).at = "destructor"
  /\ stack' = [stack EXCEPT ![Len(stack)].at = "children"]
  /\ UNCHANGED <<blocks, groups, ptrs, notifiers>>

Top == Last(stack).t
Destroying == stack # <<>> /\ Last(stack).at = "children"
Childless(a) == Has(a, "children") => L!list_empty(GroupOf(a))

\* The loop over the children takes the first there is, again and again.
FreeChild ==
  /\ Destroying /\ ~Childless(Top)
  /\ LET i == ptrs.next[GroupOf(Top)]
     IN /\ ptrs' = L!DelLinks(ptrs, i)
        /\ blocks' = Mark(i)
        /\ stack' = Append(stack, Enter(i))
  /\ UNCHANGED <<groups, notifiers>>

\* Then the properties are freed, the list of children too, and the block: what
\* its memory held is of no account any more.
FreeBlock ==
  /\ Destroying /\ Childless(Top)
  /\ blocks' = [blocks EXCEPT ![Top] = Unused]
  /\ groups' = IF Has(Top, "children") THEN [groups EXCEPT ![GroupOf(Top)] = FREE] ELSE groups
  /\ ptrs' = L!InitLinks(ptrs, Top)
  /\ stack' = Front(stack)
  /\ UNCHANGED notifiers

\* tal_steal_: off the old list, onto the new one; when that has to be made and
\* cannot be, back onto the old one, at its front.
TalSteal(p, a) ==
  /\ Runs /\ p \notin Under(a)
  /\ \/ add_child(p, a, blocks, L!DelLinks(ptrs, a))
     \/ ~HasGroup(p) /\ add_child(Parent(a), a, blocks, L!DelLinks(ptrs, a))
  /\ UNCHANGED <<notifiers, stack>>

-----------------------------------------------------------------------------
Chain(a, chain) ==
  blocks' = [blocks EXCEPT ![a].prop = chain] /\ UNCHANGED <<groups, ptrs, stack>>

\* add_notifier_property and add_name_property: in front.
Noted(chain, type) == << <<type>> >> \o chain
Named(chain) == << <<"name">> >> \o chain

\* tal_add_destructor_, and tal_add_notifier_ for anything else.
TalAddNotifier(a, type) ==
  /\ Runs /\ MayDecorate /\ ~Has(a, type)
  /\ type = "free" \/ notifiers < MaxNotifiers
  /\ Chain(a, Noted(blocks[a].prop, type))
  /\ notifiers' = IF type = "free" THEN notifiers ELSE notifiers + 1

\* tal_del_destructor_ and tal_del_notifier_.
TalDelNotifier(a, type) ==
  /\ Runs /\ Has(a, type)
  /\ Chain(a, Without(blocks[a].prop, type))
  /\ notifiers' = IF type = "free" THEN notifiers ELSE notifiers - 1

\* tal_set_name_: an old name goes first, even if the copy then fails.
TalSetName(a, kind) ==
  LET p == blocks[a].prop
      old == IF Has(a, "name") THEN Without(p, "name")
             ELSE IF Has(a, "literal") THEN Front(p) ELSE p
  IN /\ Runs
     /\ \/ kind = "literal" /\ Chain(a, Append(old, <<"literal">>))
        \/ kind = "name" /\ MayDecorate /\ Chain(a, Named(old))
        \/ kind = "name" /\ Chain(a, old)
     /\ UNCHANGED notifiers

\* The blocks when a moves to b: the length moves with it.
MovedTo(a, b) ==
  [blocks EXCEPT
     ![a] = Unused,
     ![b] = [blocks[a] EXCEPT !.prop =
               [k \in DOMAIN @ |-> IF @[k][1] = "length" THEN <<"length", b>> ELSE @[k]]]]

\* tal_resize_, when the block moves: its neighbours on the list and its own
\* list of children are told.
TalResize(a) ==
  /\ Runs /\ FreeAddrs # {}
  /\ LET b == Min(FreeAddrs)
     IN /\ blocks' = MovedTo(a, b)
        /\ ptrs' = L!InitLinks(L!SwapLinks(ptrs, a, b), a)
        /\ groups' = [g \in TalGroups |-> IF groups[g] = a THEN b ELSE groups[g]]
  /\ UNCHANGED <<notifiers, stack>>

TalNext ==
  \/ \E p \in Alive \cup {NULL_PARENT}, array \in BOOLEAN : TalAlloc(p, array)
  \/ \E a \in Alive :
       \/ MayFree(a) /\ TalFree(a)
       \/ \E type \in {"free", "child"} : TalAddNotifier(a, type)
       \/ \E kind \in {"literal", "name"} : TalSetName(a, kind)
  \/ \E a \in Linked :
       \/ \E p \in Alive \cup {NULL_PARENT} : TalSteal(p, a)
       \/ \E type \in {"free", "child"} : TalDelNotifier(a, type)
       \/ TalResize(a)
  \/ DestructorReturns
  \/ FreeChild
  \/ FreeBlock

\* A destructor frees what is being destroyed whenever it likes.
TalAgainNext == TalNext \/ \E a \in Alive : Reaches(a) /\ TalFree(a)

TalSpec == TalInit /\ [][TalNext]_tal_vars

-----------------------------------------------------------------------------
\* tal_check: the chain of a block.
ChainOK(a) ==
  LET p == blocks[a].prop
      names == Places(p, "name") \cup Places(p, "literal")
  IN /\ \A type \in {"children", "length"} : Cardinality(Places(p, type)) <= 1
     /\ Cardinality(names) <= 1
     /\ Places(p, "literal") \subseteq {Len(p)}
     /\ \A k \in Places(p, "length") : p[k][2] = a
     /\ \A k \in Places(p, "children") : groups[p[k][2]] = a

\* tal_check, of all there is: whatever destructors allocate, move, free and
\* name, within TalNext, every block is on its parent's list and nowhere else,
\* or is being destroyed by a call that runs; every list belongs to a block that
\* knows it.
TalIsTree ==
  /\ L!ListsAreRings
  /\ \A a \in Alive : ChainOK(a)
  /\ \A a \in Linked : Parent(a) \in Alive \cup {NULL_PARENT}
  /\ \A g \in TalGroups \ FreeGroups :
       groups[g] # NULL_PARENT => <<"children", g>> \in ToSet(blocks[groups[g]].prop)
  /\ Alive \ Linked = {stack[k].t : k \in DOMAIN stack}
  /\ Alive \ UNION {Under(p) : p \in (Alive \ Linked) \cup {NULL_PARENT}} = {}
  /\ notifiers >= Cardinality({a \in Alive : Has(a, "child")})

\* first_child and tal_first.
first_child(p) ==
  IF HasGroup(p) /\ ~L!list_empty(GroupOf(p)) THEN ptrs.next[GroupOf(p)] ELSE NULL_PARENT

\* Mutant: gives up at the last of its siblings.
tal_next_Siblings(root, prev) ==
  IF prev = NULL_PARENT \/ first_child(prev) # NULL_PARENT THEN first_child(prev)
  ELSE IF prev = root \/ ptrs.next[prev] = blocks[prev].parent_child THEN NULL_PARENT
  ELSE ptrs.next[prev]

\* tal_next: the children of prev, else the next of its siblings, else of its
\* parent's, and so on up to root.
tal_next(root, prev) ==
  LET up[k \in 0 .. Cardinality(TalAddrs)] ==
        IF k = 0 THEN prev
        ELSE LET a == up[k - 1] IN IF a = NULL_PARENT THEN a ELSE Parent(a)
      top == Min({k \in DOMAIN up : up[k] = root})
      turns == {k \in 0 .. top - 1 : ptrs.next[up[k]] # blocks[up[k]].parent_child}
  IN IF first_child(prev) # NULL_PARENT THEN first_child(prev)
     ELSE IF turns = {} THEN NULL_PARENT ELSE ptrs.next[up[Min(turns)]]

\* With nothing being destroyed, tal_first and tal_next give all that is under
\* any block, or all there is, each once.
TraversalSeesAll ==
  stack = <<>> =>
    \A p \in Alive \cup {NULL_PARENT} :
      LET below == Under(p) \ {p}
          n == Cardinality(below)
          at[k \in 1 .. n + 1] == IF k = 1 THEN first_child(p) ELSE tal_next(p, at[k - 1])
      IN {at[k] : k \in 1 .. n} = below /\ at[n + 1] = NULL_PARENT
=============================================================================
