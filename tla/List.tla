-------------------------------- MODULE List --------------------------------
(***************************************************************************)
(* ccan/list: circular lists of nodes with next and prev pointers.  A head *)
(* is a cell like the nodes.  Deleting a node leaves its own pointers as   *)
(* they were (CCAN_LIST_DEBUG is off), so a cell off the lists points      *)
(* anywhere.                                                               *)
(*                                                                         *)
(* The caller's part is in the guards: a node that is added is on no list, *)
(* one that is deleted is on a list or leads to itself, and the body of a  *)
(* loop deletes at most the entry it was given.                            *)
(***************************************************************************)
EXTENDS Naturals, FiniteSets, SequencesExt

CONSTANTS ListHeads, ListNodes,
  NoHead   \* the list of a node that is on none

\* There are finitely many cells, as there is finite memory.
ASSUME ListAssumption ==
  /\ ListHeads \cap ListNodes = {}
  /\ NoHead \notin ListHeads
  /\ IsFiniteSet(ListHeads) /\ IsFiniteSet(ListNodes)

VARIABLES
  links,   \* the pointers: [next, prev] of every cell
  on,      \* the list on which callers put each node
  call,    \* the last function called, with its arguments
  loop     \* the loop that runs, or NoLoop

lvars == <<links, on, call, loop>>

Cells == ListHeads \cup ListNodes
Links == [next : [Cells -> Cells], prev : [Cells -> Cells]]
Listed(o) == {n \in ListNodes : o[n] # NoHead}
Live(o) == ListHeads \cup Listed(o)
ListOf(o, c) == IF c \in ListHeads THEN c ELSE o[c]

\* A loop runs over h in a direction; seen are the entries it gave its body,
\* want those the list had when it began.
NoLoop == [on |-> FALSE]

-----------------------------------------------------------------------------
\* list_add_after and list_add_before.
AfterLinks(l, p, n) ==
  [next |-> [l.next EXCEPT ![n] = l.next[p], ![p] = n],
   prev |-> [l.prev EXCEPT ![n] = p, ![l.next[p]] = n]]

BeforeLinks(l, p, n) ==
  [next |-> [l.next EXCEPT ![n] = p, ![l.prev[p]] = n],
   prev |-> [l.prev EXCEPT ![n] = l.prev[p], ![p] = n]]

\* list_del.
DelLinks(l, n) ==
  [next |-> [l.next EXCEPT ![l.prev[n]] = l.next[n]],
   prev |-> [l.prev EXCEPT ![l.next[n]] = l.prev[n]]]

\* list_node_init and list_head_init.
InitLinks(l, n) ==
  [next |-> [l.next EXCEPT ![n] = n], prev |-> [l.prev EXCEPT ![n] = n]]

\* Mutant: only the pointer of the entry before is changed.
SwapLinks_Forward(l, o, n) ==
  [next |-> [l.next EXCEPT ![n] = l.next[o], ![l.prev[o]] = n],
   prev |-> [l.prev EXCEPT ![n] = l.prev[o]]]

\* list_swap: n gets o's pointers and the neighbours theirs to n.
SwapLinks(l, o, n) ==
  [next |-> [l.next EXCEPT ![n] = l.next[o], ![l.prev[o]] = n],
   prev |-> [l.prev EXCEPT ![n] = l.prev[o], ![l.next[o]] = n]]

\* Mutant: the head is left where it was sewn in.
AppendLinks_NoDel(l, to, from) ==
  LET ft == l.prev[from]
      tt == l.prev[to]
  IN InitLinks([next |-> [l.next EXCEPT ![ft] = to, ![tt] = from],
                prev |-> [l.prev EXCEPT ![to] = ft, ![from] = tt]], from)

\* list_append_list: sew in head and entire list, then remove the head.
AppendLinks(l, to, from) ==
  LET ft == l.prev[from]
      tt == l.prev[to]
      sewn == [next |-> [l.next EXCEPT ![ft] = to, ![tt] = from],
               prev |-> [l.prev EXCEPT ![to] = ft, ![from] = tt]]
  IN InitLinks(DelLinks(sewn, from), from)

\* list_prepend_list.
PrependLinks(l, to, from) ==
  LET ft == l.prev[from]
      th == l.next[to]
      sewn == [next |-> [l.next EXCEPT ![to] = from, ![ft] = th],
               prev |-> [l.prev EXCEPT ![from] = to, ![th] = ft]]
  IN InitLinks(DelLinks(sewn, from), from)

\* The entries that following dir ("next" or "prev") from h gives before h is
\* reached again.
Walk(l, dir, h) ==
  LET at[k \in 0 .. Cardinality(Cells)] == IF k = 0 THEN h ELSE l[dir][at[k - 1]]
      path == [k \in 1 .. Cardinality(Cells) |-> at[k]]
  IN SubSeq(path, 1, SelectInSeq(path, LAMBDA c : c = h) - 1)

list_empty(h) == links.next[h] = h

-----------------------------------------------------------------------------
ListInit ==
  /\ links = [next |-> [c \in Cells |-> c], prev |-> [c \in Cells |-> c]]
  /\ on = [n \in ListNodes |-> NoHead]
  /\ call = <<>>
  /\ loop = NoLoop

\* A call outside loops.
Call(l, s, c) ==
  /\ ~loop.on
  /\ links' = l
  /\ on' = s
  /\ call' = c
  /\ UNCHANGED loop

Put(n, h) == [on EXCEPT ![n] = h]
Off(n) == Put(n, NoHead)
Moved(o, t, f) == [n \in ListNodes |-> IF o[n] = f THEN t ELSE o[n]]

ListAdd(h, n) == Call(AfterLinks(links, h, n), Put(n, h), <<"list_add", h, n>>)
ListAddTail(h, n) == Call(BeforeLinks(links, h, n), Put(n, h), <<"list_add_tail", h, n>>)
ListAddAfter(p, n) ==
  Call(AfterLinks(links, p, n), Put(n, on[p]), <<"list_add_after", p, n>>)
ListAddBefore(p, n) ==
  Call(BeforeLinks(links, p, n), Put(n, on[p]), <<"list_add_before", p, n>>)
ListDel(n) == Call(DelLinks(links, n), Off(n), <<"list_del", n>>)
ListDelInit(n) == Call(InitLinks(DelLinks(links, n), n), Off(n), <<"list_del_init", n>>)
ListSwap(o, n) ==
  Call(SwapLinks(links, o, n), [on EXCEPT ![n] = on[o], ![o] = NoHead],
       <<"list_swap", o, n>>)
ListAppend(t, f) ==
  Call(AppendLinks(links, t, f), Moved(on, t, f), <<"list_append_list", t, f>>)
ListPrepend(t, f) ==
  Call(PrependLinks(links, t, f), Moved(on, t, f), <<"list_prepend_list", t, f>>)

\* Again, of a node that leads to itself since list_del_init: nothing changes.
ListDelAgain(n) ==
  links.next[n] = n /\ links.prev[n] = n /\ (ListDel(n) \/ ListDelInit(n))

\* Its assert catches a head with no entries, not one that has others.
ListDelFrom(h, n) ==
  ~list_empty(h) /\ Call(DelLinks(links, n), Off(n), <<"list_del", n>>)

ListPop(h) ==
  /\ ~list_empty(h)
  /\ LET n == links.next[h]
     IN Call(DelLinks(links, n), Off(n), <<"list_pop", h, n>>)

-----------------------------------------------------------------------------
\* list_for_each_safe and list_for_each_rev_safe: i = h's first entry and nxt
\* the one after it, read before the body runs.
ForEach(h, dir) ==
  /\ ~loop.on
  /\ loop' = [on |-> TRUE, h |-> h, dir |-> dir, i |-> links[dir][h],
              nxt |-> links[dir][links[dir][h]], seen |-> <<>>,
              want |-> Walk(links, dir, h)]
  /\ UNCHANGED <<links, on, call>>

Step(l) ==
  loop' = [loop EXCEPT !.i = loop.nxt, !.nxt = l[loop.dir][loop.nxt],
                       !.seen = Append(@, loop.i)]

\* Mutant: list_for_each, which reads i's pointer after the body: a node that
\* list_del_init took off leads to itself.
Body_Unsafe ==
  /\ loop.on /\ loop.i # loop.h
  /\ \E l \in {links, InitLinks(DelLinks(links, loop.i), loop.i)} :
       /\ links' = l
       /\ loop' = [loop EXCEPT !.i = l[loop.dir][loop.i], !.seen = Append(@, loop.i)]
  /\ on' = IF links' = links THEN on ELSE Off(loop.i)
  /\ call' = IF links' = links THEN call ELSE <<"list_del_init", loop.i>>

\* The body is given i, and keeps it or takes it off; then the loop goes on.
Body ==
  /\ loop.on /\ loop.i # loop.h
  /\ \/ UNCHANGED <<links, on, call>>
     \/ /\ links' = InitLinks(DelLinks(links, loop.i), loop.i)
        /\ on' = Off(loop.i)
        /\ call' = <<"list_del_init", loop.i>>
  /\ Step(links')

EndLoop ==
  /\ loop.on /\ loop.i = loop.h
  /\ loop' = NoLoop
  /\ UNCHANGED <<links, on, call>>

-----------------------------------------------------------------------------
ListNext ==
  \/ \E h \in ListHeads, n \in ListNodes \ Listed(on) : ListAdd(h, n) \/ ListAddTail(h, n)
  \/ \E p \in Listed(on), n \in ListNodes \ Listed(on) :
       ListAddAfter(p, n) \/ ListAddBefore(p, n) \/ ListSwap(p, n)
  \/ \E n \in Listed(on) : ListDel(n) \/ ListDelInit(n) \/ ListDelFrom(on[n], n)
  \/ \E n \in ListNodes \ Listed(on) : ListDelAgain(n)
  \/ \E h \in ListHeads : ListPop(h)
  \/ \E t, f \in ListHeads : t # f /\ (ListAppend(t, f) \/ ListPrepend(t, f))
  \/ \E h \in ListHeads, dir \in {"next", "prev"} : ForEach(h, dir)
  \/ Body
  \/ EndLoop

ListSpec == ListInit /\ [][ListNext]_lvars

-----------------------------------------------------------------------------
\* What list_check looks for, of every cell on a list and not only of those
\* that the pointers reach: each is its neighbours' neighbour, and they are on
\* its list.
Symmetric(l, o) ==
  \A c \in Live(o) :
    /\ l.next[c] \in Live(o) /\ ListOf(o, l.next[c]) = ListOf(o, c)
    /\ l.prev[c] \in Live(o) /\ ListOf(o, l.prev[c]) = ListOf(o, c)
    /\ l.prev[l.next[c]] = c /\ l.next[l.prev[c]] = c

\* No nodes form a ring of their own, out of reach of every head.
Headed(l, o) ==
  \A S \in SUBSET Listed(o) : (\A c \in S : l.next[c] \in S) => S = {}

Rings(l, o) ==
  /\ l \in Links
  /\ o \in [ListNodes -> ListHeads \cup {NoHead}]
  /\ Symmetric(l, o)
  /\ Headed(l, o)

\* After every call each list is one ring through its head, in both directions,
\* of exactly the nodes that callers have on it.
ListsAreRings == Rings(links, on)

\* A loop whose body deletes the entries it is given gives each entry the list
\* had exactly once and in order, whichever way it goes.
LoopSeesAll ==
  loop.on =>
    /\ IsPrefix(loop.seen, loop.want)
    /\ loop.i = loop.h => loop.seen = loop.want

\* ccan/list implements sequences.
Order == INSTANCE ListOrder
  WITH order <- [h \in ListHeads |-> Walk(links, "next", h)]
ListIsOrder == Order!OrderSpec
=============================================================================
