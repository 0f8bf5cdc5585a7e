----------------------------- MODULE ListOrder -----------------------------
(***************************************************************************)
(* What ccan/list promises: each head names a sequence of distinct nodes,  *)
(* and no node is on two lists.  call is the last function called, with    *)
(* its arguments; module List is shown to do, call by call, what this      *)
(* module says.                                                            *)
(***************************************************************************)
EXTENDS Naturals, SequencesExt

CONSTANTS ListHeads, ListNodes
VARIABLES order, call

Linked == UNION {ToSet(order[h]) : h \in ListHeads}
At(s, n) == CHOOSE k \in DOMAIN s : s[k] = n

\* A new node at the front or at the back.
Insert ==
  \E h \in ListHeads, n \in ListNodes :
    /\ \/ call' = <<"list_add", h, n>> /\ order' = [order EXCEPT ![h] = <<n>> \o @]
       \/ call' = <<"list_add_tail", h, n>> /\ order' = [order EXCEPT ![h] = Append(@, n)]
    /\ n \notin Linked

\* A new node next to one that is there, or in its place.
InsertNear ==
  \E h \in ListHeads, p, n \in ListNodes :
    /\ call' \in {<<f, p, n>> : f \in {"list_add_after", "list_add_before", "list_swap"}}
    /\ p \in ToSet(order[h]) /\ n \notin Linked
    /\ LET s == order[h]
           k == At(s, p)
       IN order' = [order EXCEPT ![h] =
            CASE call'[1] = "list_add_after" -> InsertAt(s, k + 1, n)
              [] call'[1] = "list_add_before" -> InsertAt(s, k, n)
              [] call'[1] = "list_swap" -> ReplaceAt(s, k, n)]

Delete ==
  \E h \in ListHeads, n \in ListNodes :
    /\ call' \in {<<"list_del", n>>, <<"list_del_init", n>>}
    /\ n \in ToSet(order[h])
    /\ order' = [order EXCEPT ![h] = RemoveAt(@, At(@, n))]

\* A node that is on no list may be deleted once more.
DeleteAgain ==
  \E n \in ListNodes :
    /\ call' \in {<<"list_del", n>>, <<"list_del_init", n>>}
    /\ n \notin Linked
    /\ UNCHANGED order

\* list_pop takes the first, and says which it was.
Pop ==
  \E h \in ListHeads, n \in ListNodes :
    /\ call' = <<"list_pop", h, n>>
    /\ order[h] # <<>> /\ n = Head(order[h])
    /\ order' = [order EXCEPT ![h] = Tail(@)]

\* A whole list moves to an end of another.
Move ==
  \E t, f \in ListHeads :
    /\ t # f
    /\ \/ /\ call' = <<"list_append_list", t, f>>
          /\ order' = [order EXCEPT ![t] = @ \o order[f], ![f] = <<>>]
       \/ /\ call' = <<"list_prepend_list", t, f>>
          /\ order' = [order EXCEPT ![t] = order[f] \o @, ![f] = <<>>]

OrderInit == order = [h \in ListHeads |-> <<>>] /\ call = <<>>
OrderNext == Insert \/ InsertNear \/ Delete \/ DeleteAgain \/ Pop \/ Move
OrderSpec == OrderInit /\ [][OrderNext]_<<order, call>>
=============================================================================
