----------------------------- MODULE ListProofs -----------------------------
(***************************************************************************)
(* Every call of ccan/list leaves every list one ring through its head;    *)
(* the pointers show the sequence that ListOrder says the call makes; and  *)
(* the loops that allow deletion see every entry.  The functions are shown *)
(* to keep Rings and Ordered one by one, and a state's pointers change by  *)
(* nothing else.                                                           *)
(***************************************************************************)
EXTENDS List, TLAPS, FiniteSetTheorems, WellFoundedInduction

\* list_add_after makes p's list longer by n.
LEMMA AfterRings ==
  ASSUME NEW l, NEW o, Rings(l, o), NEW p \in Live(o), NEW n \in ListNodes \ Listed(o)
  PROVE  Rings(AfterLinks(l, p, n), [o EXCEPT ![n] = ListOf(o, p)])
<1> DEFINE m == AfterLinks(l, p, n)
           q == [o EXCEPT ![n] = ListOf(o, p)]
<1>0. p \in Cells /\ n \in Cells /\ n \notin ListHeads /\ p # n /\ l.next[p] # n
      /\ l \in Links /\ o \in [ListNodes -> ListHeads \cup {NoHead}]
  BY ListAssumption DEF Rings, Symmetric, Live, Listed, Cells
<1>1. m \in Links
  BY <1>0, Zenon, SMT DEF AfterLinks, Links
<1>2. q \in [ListNodes -> ListHeads \cup {NoHead}] /\ q[n] = ListOf(o, p)
      /\ q[n] \in ListHeads /\ \A c \in ListNodes \ {n} : q[c] = o[c]
  BY <1>0, ListAssumption DEF ListOf, Live, Listed
<1>3. Live(q) = Live(o) \cup {n} /\ Listed(q) = Listed(o) \cup {n}
  BY <1>2, ListAssumption DEF Live, Listed
<1>4. \A c \in Live(o) : ListOf(q, c) = ListOf(o, c) /\ c # n
  BY <1>2, ListAssumption DEF Live, Listed, ListOf
<1>5. ListOf(q, n) = ListOf(o, p)
  BY <1>2, ListAssumption DEF ListOf
<1>6. /\ m.next[n] = l.next[p] /\ m.next[p] = n
      /\ \A c \in Cells \ {n, p} : m.next[c] = l.next[c]
      /\ m.prev[n] = p /\ m.prev[l.next[p]] = n
      /\ \A c \in Cells \ {n, l.next[p]} : m.prev[c] = l.prev[c]
  BY <1>0 DEF AfterLinks, Links
<1> HIDE DEF m, q
<1>7. Symmetric(m, q)
  <2> SUFFICES ASSUME NEW c \in Live(q)
               PROVE  /\ m.next[c] \in Live(q) /\ ListOf(q, m.next[c]) = ListOf(q, c)
                      /\ m.prev[c] \in Live(q) /\ ListOf(q, m.prev[c]) = ListOf(q, c)
                      /\ m.prev[m.next[c]] = c /\ m.next[m.prev[c]] = c
    BY DEF Symmetric
  <2>1. \A d \in Live(o) :
          /\ d \in Cells
          /\ l.next[d] \in Live(o) /\ ListOf(o, l.next[d]) = ListOf(o, d)
          /\ l.prev[d] \in Live(o) /\ ListOf(o, l.prev[d]) = ListOf(o, d)
          /\ l.prev[l.next[d]] = d /\ l.next[l.prev[d]] = d
    BY DEF Rings, Symmetric, Live, Listed, Cells
  <2>2. CASE c = n
    <3>1. m.next[c] = l.next[p] /\ m.prev[c] = p /\ l.next[p] # n
      BY <2>2, <1>0, <1>6
    <3> QED BY <3>1, <2>1, <2>2, <1>0, <1>3, <1>4, <1>5, <1>6
  <2>3. CASE c # n
    <3> USE <2>3
    <3>0. c \in Live(o) /\ c \in Cells
      BY <1>3, <2>1
    <3>1. m.next[c] \in Live(q) /\ ListOf(q, m.next[c]) = ListOf(q, c)
      BY <3>0, <2>1, <1>0, <1>3, <1>4, <1>5, <1>6
    <3>2. m.prev[c] \in Live(q) /\ ListOf(q, m.prev[c]) = ListOf(q, c)
      BY <3>0, <2>1, <1>0, <1>3, <1>4, <1>5, <1>6
    <3>3. m.prev[m.next[c]] = c
      <4>1. CASE c = p
        BY <4>1, <1>0, <1>6
      <4>2. CASE c # p
        <5>1. m.next[c] = l.next[c] /\ l.next[c] \in Cells /\ l.next[c] # n
          BY <4>2, <3>0, <2>1, <1>4, <1>6
        <5>2. l.next[c] # l.next[p]
          BY <4>2, <3>0, <2>1
        <5> QED BY <5>1, <5>2, <3>0, <2>1, <1>6
      <4> QED BY <4>1, <4>2
    <3>4. m.next[m.prev[c]] = c
      <4>1. CASE c = l.next[p]
        BY <4>1, <1>0, <1>6
      <4>2. CASE c # l.next[p]
        <5>1. m.prev[c] = l.prev[c] /\ l.prev[c] \in Cells /\ l.prev[c] # n
          BY <4>2, <3>0, <2>1, <1>4, <1>6
        <5>2. l.prev[c] # p
          BY <4>2, <3>0, <2>1
        <5> QED BY <5>1, <5>2, <3>0, <2>1, <1>6
      <4> QED BY <4>1, <4>2
    <3> QED BY <3>1, <3>2, <3>3, <3>4
  <2> QED BY <2>2, <2>3
<1>8. Headed(m, q)
  <2> SUFFICES ASSUME NEW S \in SUBSET Listed(q), \A c \in S : m.next[c] \in S
               PROVE  S = {}
    BY DEF Headed
  <2> DEFINE R == S \ {n}
  <2>1. R \in SUBSET Listed(o) /\ R \subseteq Cells
    BY <1>3 DEF Listed, Cells
  <2>2. \A c \in R : l.next[c] \in R
    <3> SUFFICES ASSUME NEW c \in R PROVE l.next[c] \in R
      OBVIOUS
    <3>1. CASE c = p
      BY <3>1, <1>0, <1>6, <2>1
    <3>2. CASE c # p
      <4>1. m.next[c] = l.next[c] /\ c \in Live(o)
        BY <3>2, <1>6, <2>1 DEF Live
      <4>2. l.next[c] # n
        BY <4>1, <1>4 DEF Rings, Symmetric
      <4> QED BY <4>1, <4>2
    <3> QED BY <3>1, <3>2
  <2>3. R = {}
    BY <2>1, <2>2 DEF Rings, Headed
  <2>4. n \notin S
    BY <2>3, <1>0, <1>6
  <2> QED BY <2>3, <2>4
<1> QED
  <2>1. m \in Links /\ q \in [ListNodes -> ListHeads \cup {NoHead}]
    BY <1>1, <1>2
  <2> QED BY <2>1, <1>7, <1>8 DEF Rings, m, q

\* list_del makes n's list shorter by n, and n's own pointers do not matter.
LEMMA DelRings ==
  ASSUME NEW l, NEW o, Rings(l, o), NEW n \in Listed(o)
  PROVE  Rings(DelLinks(l, n), [o EXCEPT ![n] = NoHead])
<1> DEFINE m == DelLinks(l, n)
           q == [o EXCEPT ![n] = NoHead]
<1>0. n \in ListNodes /\ n \in Cells /\ n \notin ListHeads /\ n \in Live(o)
      /\ l \in Links /\ o \in [ListNodes -> ListHeads \cup {NoHead}]
  BY ListAssumption DEF Rings, Live, Listed, Cells
<1>1. m \in Links
  BY <1>0, Zenon, SMT DEF DelLinks, Links
<1>2. q \in [ListNodes -> ListHeads \cup {NoHead}] /\ q[n] = NoHead
      /\ \A c \in ListNodes \ {n} : q[c] = o[c]
  BY <1>0
<1>3. Live(q) = Live(o) \ {n} /\ Listed(q) = Listed(o) \ {n}
  BY <1>0, <1>2, ListAssumption DEF Live, Listed
<1>4. \A c \in Live(q) : ListOf(q, c) = ListOf(o, c) /\ c # n
  BY <1>2, <1>3, ListAssumption DEF Live, Listed, ListOf
<1>5. \A d \in Live(o) :
        /\ d \in Cells
        /\ l.next[d] \in Live(o) /\ ListOf(o, l.next[d]) = ListOf(o, d)
        /\ l.prev[d] \in Live(o) /\ ListOf(o, l.prev[d]) = ListOf(o, d)
        /\ l.prev[l.next[d]] = d /\ l.next[l.prev[d]] = d
  BY DEF Rings, Symmetric, Live, Listed, Cells
<1>6. /\ m.next[l.prev[n]] = l.next[n]
      /\ \A c \in Cells \ {l.prev[n]} : m.next[c] = l.next[c]
      /\ m.prev[l.next[n]] = l.prev[n]
      /\ \A c \in Cells \ {l.next[n]} : m.prev[c] = l.prev[c]
  BY <1>0, <1>5 DEF DelLinks, Links
<1>7. l.next[n] # n /\ l.prev[n] # n
  <2>1. ~(\A c \in {n} : l.next[c] \in {n})
    BY DEF Rings, Headed
  <2> QED BY <2>1, <1>0, <1>5
<1> HIDE DEF m, q
<1>8. Symmetric(m, q)
  <2> SUFFICES ASSUME NEW c \in Live(q)
               PROVE  /\ m.next[c] \in Live(q) /\ ListOf(q, m.next[c]) = ListOf(q, c)
                      /\ m.prev[c] \in Live(q) /\ ListOf(q, m.prev[c]) = ListOf(q, c)
                      /\ m.prev[m.next[c]] = c /\ m.next[m.prev[c]] = c
    BY DEF Symmetric
  <2>0. c \in Live(o) /\ c \in Cells /\ c # n
    BY <1>3, <1>5
  <2>1. CASE c = l.prev[n]
    <3>1. m.next[c] = l.next[n] /\ m.prev[l.next[n]] = c
      BY <2>1, <1>6
    <3>2. /\ m.next[c] \in Live(q) /\ ListOf(q, m.next[c]) = ListOf(q, c)
          /\ m.prev[m.next[c]] = c
      BY <3>1, <2>0, <2>1, <1>0, <1>3, <1>4, <1>5, <1>7
    <3>3. CASE c = l.next[n]
      <4>1. m.prev[c] = c /\ m.next[c] = c
        BY <3>1, <3>3, <2>1, <1>6
      <4> QED BY <4>1, <3>2
    <3>4. CASE c # l.next[n]
      <4>1. m.prev[c] = l.prev[c] /\ l.prev[c] \in Live(o) /\ l.prev[c] \in Cells
            /\ l.next[l.prev[c]] = c /\ l.prev[c] # n
        BY <3>4, <2>0, <1>0, <1>5, <1>6
      <4>2. l.prev[c] # l.prev[n]
        BY <2>0, <1>0, <1>5
      <4>3. m.next[l.prev[c]] = c
        BY <4>1, <4>2, <1>6
      <4> QED BY <4>1, <4>3, <3>2, <2>0, <1>3, <1>4, <1>5
    <3> QED BY <3>3, <3>4
  <2>2. CASE c # l.prev[n]
    <3>1. m.next[c] = l.next[c] /\ l.next[c] \in Live(o) /\ l.next[c] \in Cells
          /\ l.prev[l.next[c]] = c /\ l.next[c] # n
      BY <2>2, <2>0, <1>0, <1>5, <1>6
    <3>2. l.next[c] # l.next[n]
      BY <2>0, <1>0, <1>5
    <3>3. m.prev[l.next[c]] = c
      BY <3>1, <3>2, <1>6
    <3>4. /\ m.next[c] \in Live(q) /\ ListOf(q, m.next[c]) = ListOf(q, c)
          /\ m.prev[m.next[c]] = c
      BY <3>1, <3>3, <2>0, <1>3, <1>4, <1>5
    <3>5. CASE c = l.next[n]
      <4>1. m.prev[c] = l.prev[n] /\ m.next[l.prev[n]] = c
        BY <3>5, <1>6
      <4> QED BY <4>1, <3>4, <3>5, <2>0, <1>0, <1>3, <1>4, <1>5, <1>7
    <3>6. CASE c # l.next[n]
      <4>1. m.prev[c] = l.prev[c] /\ l.prev[c] \in Live(o) /\ l.prev[c] \in Cells
            /\ l.next[l.prev[c]] = c /\ l.prev[c] # n
        BY <3>6, <2>0, <1>0, <1>5, <1>6
      <4>2. l.prev[c] # l.prev[n]
        BY <2>0, <1>0, <1>5
      <4>3. m.next[l.prev[c]] = c
        BY <4>1, <4>2, <1>6
      <4> QED BY <4>1, <4>3, <3>4, <2>0, <1>3, <1>4, <1>5
    <3> QED BY <3>5, <3>6
  <2> QED BY <2>1, <2>2
<1>9. Headed(m, q)
  <2> SUFFICES ASSUME NEW S \in SUBSET Listed(q), \A c \in S : m.next[c] \in S
               PROVE  S = {}
    BY DEF Headed
  <2>1. S \subseteq Listed(o) /\ n \notin S /\ \A c \in S : c \in Live(o) /\ c \in Cells
    BY <1>3, <1>5 DEF Live
  <2>2. CASE l.prev[n] \in S
    <3>1. S \cup {n} \in SUBSET Listed(o)
      BY <2>1
    <3>2. \A c \in S \cup {n} : l.next[c] \in S \cup {n}
      <4>1. l.next[l.prev[n]] = n /\ l.next[n] \in S
        BY <2>2, <1>0, <1>5, <1>6
      <4>2. ASSUME NEW c \in S, c # l.prev[n] PROVE l.next[c] \in S
        BY <4>2, <2>1, <1>6
      <4> QED BY <4>1, <4>2
    <3> QED BY <3>1, <3>2 DEF Rings, Headed
  <2>3. CASE l.prev[n] \notin S
    <3>1. \A c \in S : l.next[c] \in S
      BY <2>1, <2>3, <1>6
    <3> QED BY <3>1, <2>1 DEF Rings, Headed
  <2> QED BY <2>2, <2>3
<1> QED
  <2>1. l \in Links /\ q \in [ListNodes -> ListHeads \cup {NoHead}]
    BY <1>0, <1>2
  <2> QED BY <2>1, <1>1, <1>8, <1>9 DEF Rings, m, q

\* The pointers of cells that are on no list do not matter.
LEMMA SameRings ==
  ASSUME NEW l, NEW m \in Links, NEW o, Rings(l, o),
         \A c \in Live(o) : m.next[c] = l.next[c] /\ m.prev[c] = l.prev[c]
  PROVE  Rings(m, o)
<1>1. Symmetric(m, o)
  BY DEF Rings, Symmetric
<1>2. Headed(m, o)
  BY DEF Rings, Headed, Live
<1> QED BY <1>1, <1>2 DEF Rings

\* To add before a cell is to add after the one before it.
LEMMA BeforeRings ==
  ASSUME NEW l, NEW o, Rings(l, o), NEW p \in Live(o), NEW n \in ListNodes \ Listed(o)
  PROVE  Rings(BeforeLinks(l, p, n), [o EXCEPT ![n] = ListOf(o, p)])
<1>1. /\ l.prev[p] \in Live(o) /\ ListOf(o, l.prev[p]) = ListOf(o, p)
      /\ l.next[l.prev[p]] = p
  BY DEF Rings, Symmetric
<1>2. BeforeLinks(l, p, n) = AfterLinks(l, l.prev[p], n)
  BY <1>1 DEF BeforeLinks, AfterLinks
<1> QED BY <1>1, <1>2, AfterRings

\* list_del_init is list_del, and then the node is a ring of its own.
LEMMA DelInitRings ==
  ASSUME NEW l, NEW o, Rings(l, o), NEW n \in Listed(o)
  PROVE  Rings(InitLinks(DelLinks(l, n), n), [o EXCEPT ![n] = NoHead])
<1> DEFINE m == DelLinks(l, n)
           k == InitLinks(m, n)
           q == [o EXCEPT ![n] = NoHead]
<1>1. Rings(m, q)
  BY DelRings
<1>2. m \in Links /\ n \in Cells /\ n \notin Live(q) /\ Live(q) \subseteq Cells
  BY <1>1, ListAssumption DEF Rings, Live, Listed, Cells
<1> HIDE DEF m, q
<1>3. k \in Links
  BY <1>2, Zenon, SMT DEF InitLinks, Links
<1>4. \A c \in Live(q) : k.next[c] = m.next[c] /\ k.prev[c] = m.prev[c]
  BY <1>2 DEF InitLinks, Links
<1>5. Rings(k, q)
  BY <1>1, <1>3, <1>4, SameRings
<1> QED BY <1>5 DEF m, q

\* list_swap is to add n after x and then to delete x.
LEMMA SwapRings ==
  ASSUME NEW l, NEW o, Rings(l, o), NEW x \in Listed(o), NEW n \in ListNodes \ Listed(o)
  PROVE  Rings(SwapLinks(l, x, n), [o EXCEPT ![n] = o[x], ![x] = NoHead])
<1> DEFINE m == AfterLinks(l, x, n)
           p == [o EXCEPT ![n] = ListOf(o, x)]
           q == [o EXCEPT ![n] = o[x], ![x] = NoHead]
           k == SwapLinks(l, x, n)
<1>0. /\ x \in Live(o) /\ x # n /\ ListOf(o, x) = o[x] /\ x \in Cells /\ n \in Cells
      /\ n \notin Live(o) /\ l \in Links
  BY ListAssumption DEF Live, Listed, ListOf, Cells, Rings
<1>1. Rings(m, p)
  BY <1>0, AfterRings
<1>2. x \in Listed(p)
  BY <1>0, <1>1 DEF Listed, Rings
<1>3. Rings(DelLinks(m, x), [p EXCEPT ![x] = NoHead])
  BY <1>1, <1>2, DelRings
<1>4. q = [p EXCEPT ![x] = NoHead]
  BY <1>0
<1>5. /\ l.next[x] \in Live(o) /\ l.prev[x] \in Live(o)
      /\ l.next[l.prev[x]] = x /\ l.prev[l.next[x]] = x /\ l.next[x] # x /\ l.prev[x] # x
      /\ l.next[x] \in Cells /\ l.prev[x] \in Cells
  <2>1. ~(\A c \in {x} : l.next[c] \in {x})
    BY DEF Rings, Headed
  <2> QED BY <2>1, <1>0 DEF Rings, Symmetric, Live, Listed, Cells
<1>6. k \in Links
  BY <1>0, <1>5, Zenon, SMT DEF SwapLinks, Links
<1>7. x \notin Live(q) /\ Live(q) \subseteq Cells
  BY <1>3, <1>4, ListAssumption DEF Live, Listed, Cells, Rings
<1>8. \A c \in Cells \ {x} :
        k.next[c] = DelLinks(m, x).next[c] /\ k.prev[c] = DelLinks(m, x).prev[c]
  BY <1>0, <1>5 DEF SwapLinks, DelLinks, AfterLinks, Links
<1> HIDE DEF m, p, q, k
<1>9. Rings(k, q)
  <2>1. Rings(DelLinks(m, x), q)
    BY <1>3, <1>4
  <2>2. \A c \in Live(q) :
          k.next[c] = DelLinks(m, x).next[c] /\ k.prev[c] = DelLinks(m, x).prev[c]
    BY <1>7, <1>8
  <2> QED BY <2>1, <2>2, <1>6, SameRings
<1> QED BY <1>9 DEF k, q

\* list_append_list and list_prepend_list are one function: the list of f is
\* put after x, the last or the head of the other list.
JoinLinks(l, x, f) ==
  LET ft == l.prev[f]
      y == l.next[x]
      sewn == [next |-> [l.next EXCEPT ![ft] = y, ![x] = f],
               prev |-> [l.prev EXCEPT ![y] = ft, ![f] = x]]
  IN InitLinks(DelLinks(sewn, f), f)

\* The pointers between two lists when one is put into the other between x and
\* y: its head f is alone, its last entry ft is followed by y, and its first f1
\* comes after x.
Joined(l, k, f, ft, f1, x, y) ==
  /\ k.next[f] = f /\ k.prev[f] = f
  /\ k.next[ft] = y /\ k.prev[y] = ft
  /\ k.next[x] = f1 /\ k.prev[f1] = x
  /\ \A c \in Cells \ {f, ft, x} : k.next[c] = l.next[c]
  /\ \A c \in Cells \ {f, y, f1} : k.prev[c] = l.prev[c]

\* JoinLinks does what Joined says, when there are entries to join.
LEMMA JoinJoins ==
  ASSUME NEW l, NEW o, Rings(l, o), NEW f \in ListHeads, l.next[f] # f,
         NEW x \in Live(o), ListOf(o, x) # f
  PROVE  /\ JoinLinks(l, x, f) \in Links
         /\ Joined(l, JoinLinks(l, x, f), f, l.prev[f], l.next[f], x, l.next[x])
<1> DEFINE ft == l.prev[f]
           f1 == l.next[f]
           y == l.next[x]
           sewn == [next |-> [l.next EXCEPT ![ft] = y, ![x] = f],
                    prev |-> [l.prev EXCEPT ![y] = ft, ![f] = x]]
           del == DelLinks(sewn, f)
           k == JoinLinks(l, x, f)
<1>1. f \in Live(o) /\ l \in Links /\ ListOf(o, f) = f
  BY DEF Live, ListOf, Rings
<1>2. /\ {f, ft, f1, x, y} \subseteq Cells
      /\ ListOf(o, ft) = f /\ ListOf(o, f1) = f /\ ListOf(o, y) # f
      /\ ft # f /\ f1 # f
  BY <1>1 DEF Rings, Symmetric, Live, Listed, Cells
<1>3. /\ sewn \in Links
      /\ sewn.next[f] = f1 /\ sewn.prev[f] = x
      /\ sewn.next[ft] = y /\ sewn.prev[y] = ft
      /\ \A c \in Cells \ {ft, x} : sewn.next[c] = l.next[c]
      /\ \A c \in Cells \ {y, f} : sewn.prev[c] = l.prev[c]
  <2>1. sewn \in Links
    BY <1>1, <1>2, Zenon, SMT DEF Links
  <2>2. ft # x /\ x # f /\ y # f
    BY <1>1, <1>2
  <2> QED BY <1>1, <1>2, <2>1, <2>2 DEF Links
<1>4. /\ del \in Links
      /\ del.next[x] = f1 /\ del.prev[f1] = x
      /\ \A c \in Cells \ {x} : del.next[c] = sewn.next[c]
      /\ \A c \in Cells \ {f1} : del.prev[c] = sewn.prev[c]
  <2> HIDE DEF sewn, ft, f1, y
  <2>1. del \in Links
    BY <1>2, <1>3, Zenon, SMT DEF DelLinks, Links
  <2> QED BY <1>2, <1>3, <2>1 DEF DelLinks, Links
<1>5. k = InitLinks(del, f)
  BY DEF JoinLinks
<1>6. /\ k \in Links
      /\ k.next[f] = f /\ k.prev[f] = f
      /\ \A c \in Cells \ {f} : k.next[c] = del.next[c] /\ k.prev[c] = del.prev[c]
  <2> HIDE DEF del, k
  <2>1. k \in Links
    BY <1>2, <1>4, <1>5, Zenon, SMT DEF InitLinks, Links
  <2> QED BY <1>2, <1>4, <1>5, <2>1 DEF InitLinks, Links
<1>7. ft # x /\ x # f /\ f1 # y /\ f1 # f /\ y # f
  BY <1>1, <1>2
<1> HIDE DEF sewn, del, k, ft, f1, y
<1>8. Joined(l, k, f, ft, f1, x, y)
  BY <1>2, <1>3, <1>4, <1>6, <1>7 DEF Joined
<1> QED BY <1>6, <1>8 DEF k, ft, f1, y

\* Two rings joined are one ring through the head that is kept.
LEMMA JoinedRings ==
  ASSUME NEW l, NEW o, Rings(l, o), NEW t \in ListHeads, NEW f \in ListHeads, t # f,
         l.next[f] # f, NEW x \in Live(o), ListOf(o, x) = t, x = t \/ l.next[x] = t,
         NEW k \in Links, Joined(l, k, f, l.prev[f], l.next[f], x, l.next[x])
  PROVE  Rings(k, Moved(o, t, f))
<1> DEFINE ft == l.prev[f]
           f1 == l.next[f]
           y == l.next[x]
           q == Moved(o, t, f)
<1>1. q \in [ListNodes -> ListHeads \cup {NoHead}]
  BY DEF Moved, Rings
<1>2. Live(q) = Live(o) /\ Listed(q) = Listed(o)
  BY ListAssumption DEF Moved, Live, Listed, Rings
<1>3. /\ ListOf(q, f) = f
      /\ \A c \in Live(o) \ {f} :
           ListOf(q, c) = IF ListOf(o, c) = f THEN t ELSE ListOf(o, c)
  BY ListAssumption DEF Moved, Live, Listed, ListOf, Rings
<1>4. \A d \in Live(o) :
        /\ d \in Cells
        /\ l.next[d] \in Live(o) /\ ListOf(o, l.next[d]) = ListOf(o, d)
        /\ l.prev[d] \in Live(o) /\ ListOf(o, l.prev[d]) = ListOf(o, d)
        /\ l.prev[l.next[d]] = d /\ l.next[l.prev[d]] = d
  BY DEF Rings, Symmetric, Live, Listed, Cells
<1>5. /\ {f, ft, f1, x, y} \subseteq Live(o)
      /\ ListOf(o, y) = t /\ ListOf(o, f) = f
      /\ ListOf(o, ft) = f /\ ListOf(o, f1) = f
      /\ ft # f /\ f1 # f /\ l.next[ft] = f /\ l.prev[f1] = f /\ l.next[x] = y
      /\ l.prev[y] = x
  <2>1. f \in Live(o) /\ ListOf(o, f) = f
    BY DEF Live, ListOf
  <2> QED BY <2>1, <1>4
<1>6. f1 \in Listed(o) /\ ft \in Listed(o)
  BY <1>5 DEF Live, ListOf
<1> HIDE DEF ft, f1, y, q
<1>7. Joined(l, k, f, ft, f1, x, y)
  BY DEF ft, f1, y
<1>8. \A c \in Live(o) \ {f, ft, x} :
        l.next[c] \notin {f, y, f1} /\ k.next[c] = l.next[c]
  <2> SUFFICES ASSUME NEW c \in Live(o) \ {f, ft, x}
               PROVE l.next[c] \notin {f, y, f1} /\ k.next[c] = l.next[c]
    OBVIOUS
  <2>1. l.prev[f] = ft
    BY DEF ft
  <2> QED BY <2>1, <1>4, <1>5, <1>7 DEF Joined
<1>9. \A c \in Live(o) \ {f, y, f1} :
        l.prev[c] \notin {f, ft, x} /\ k.prev[c] = l.prev[c]
  <2> SUFFICES ASSUME NEW c \in Live(o) \ {f, y, f1}
               PROVE l.prev[c] \notin {f, ft, x} /\ k.prev[c] = l.prev[c]
    OBVIOUS
  <2>1. l.next[f] = f1
    BY DEF f1
  <2> QED BY <2>1, <1>4, <1>5, <1>7 DEF Joined
<1>10. Symmetric(k, q)
  <2>1. ASSUME NEW c \in Live(q)
        PROVE  /\ k.next[c] \in Live(q) /\ ListOf(q, k.next[c]) = ListOf(q, c)
               /\ k.prev[k.next[c]] = c
    <3>1. CASE c \in {f, ft, x}
      BY <3>1, <1>2, <1>3, <1>5, <1>7 DEF Joined
    <3>2. CASE c \notin {f, ft, x}
      <4>1. c \in Live(o) \ {f, ft, x}
        BY <3>2, <1>2
      <4>2. l.next[c] \in Live(o) \ {f, y, f1} /\ k.next[c] = l.next[c]
            /\ ListOf(o, l.next[c]) = ListOf(o, c) /\ l.prev[l.next[c]] = c
        BY <4>1, <1>4, <1>8
      <4>3. k.prev[l.next[c]] = c
        BY <4>2, <1>9
      <4> QED BY <4>1, <4>2, <4>3, <1>2, <1>3
    <3> QED BY <3>1, <3>2
  <2>2. ASSUME NEW c \in Live(q)
        PROVE  /\ k.prev[c] \in Live(q) /\ ListOf(q, k.prev[c]) = ListOf(q, c)
               /\ k.next[k.prev[c]] = c
    <3>1. CASE c \in {f, y, f1}
      BY <3>1, <1>2, <1>3, <1>5, <1>7 DEF Joined
    <3>2. CASE c \notin {f, y, f1}
      <4>1. c \in Live(o) \ {f, y, f1}
        BY <3>2, <1>2
      <4>2. l.prev[c] \in Live(o) \ {f, ft, x} /\ k.prev[c] = l.prev[c]
            /\ ListOf(o, l.prev[c]) = ListOf(o, c) /\ l.next[l.prev[c]] = c
        BY <4>1, <1>4, <1>9
      <4>3. k.next[l.prev[c]] = c
        BY <4>2, <1>8
      <4> QED BY <4>1, <4>2, <4>3, <1>2, <1>3
    <3> QED BY <3>1, <3>2
  <2> QED BY <2>1, <2>2 DEF Symmetric
<1>11. Headed(k, q)
  <2> SUFFICES ASSUME NEW S \in SUBSET Listed(q), \A c \in S : k.next[c] \in S
               PROVE  S = {}
    BY DEF Headed
  <2> DEFINE F == {c \in S : o[c] = f}
             G == S \ F
  <2>1. S \subseteq Listed(o) /\ t \notin S /\ f \notin S /\ S \subseteq Live(o)
        /\ \A c \in S : ListOf(o, c) = o[c]
    BY <1>2, ListAssumption DEF Listed, Live, ListOf
  <2>2. ft \notin S => F = {}
    <3> SUFFICES ASSUME ft \notin S, NEW c \in F PROVE l.next[c] \in F
      BY <2>1 DEF Rings, Headed
    <3>1. c \in Live(o) \ {f, ft, x} /\ ListOf(o, c) = f
      BY <2>1
    <3>2. l.next[c] \in S /\ ListOf(o, l.next[c]) = f
      BY <3>1, <1>4, <1>8
    <3> QED BY <3>2, <2>1
  <2>3. x \notin S => G = {}
    <3> SUFFICES ASSUME x \notin S, NEW c \in G PROVE l.next[c] \in G
      BY <2>1 DEF Rings, Headed
    <3>1. c \in Live(o) \ {f, ft, x} /\ ListOf(o, c) # f
      BY <2>1, <1>5
    <3>2. l.next[c] \in S /\ ListOf(o, l.next[c]) # f
      BY <3>1, <1>4, <1>8
    <3> QED BY <3>2, <2>1
  <2>4. (x \in S => f1 \in F) /\ (ft \in S => y \in G)
    BY <2>1, <1>5, <1>7 DEF Joined
  <2>5. x = t \/ y = t
    BY DEF y
  <2>6. x \notin S /\ ft \notin S
    BY <2>1, <2>2, <2>3, <2>4, <2>5
  <2> QED BY <2>2, <2>3, <2>6
<1> QED BY <1>1, <1>10, <1>11 DEF Rings, q

\* To join a list of no entries changes nothing.
LEMMA JoinNothing ==
  ASSUME NEW l, NEW o, Rings(l, o), NEW f \in ListHeads, l.next[f] = f,
         NEW x \in Live(o), ListOf(o, x) # f
  PROVE  /\ JoinLinks(l, x, f) \in Links
         /\ \A c \in Cells : JoinLinks(l, x, f).next[c] = l.next[c]
                            /\ JoinLinks(l, x, f).prev[c] = l.prev[c]
<1>1. /\ f \in Live(o) /\ f \in Cells /\ x \in Cells /\ ListOf(o, f) = f /\ x # f
      /\ l.prev[f] = f /\ l.next[x] \in Cells /\ l.next[x] # f
      /\ l.prev[l.next[x]] = x /\ l \in Links
  BY DEF Rings, Symmetric, Live, Listed, ListOf, Cells
<1> DEFINE y == l.next[x]
           sewn == [next |-> [l.next EXCEPT ![f] = y, ![x] = f],
                    prev |-> [l.prev EXCEPT ![y] = f, ![f] = x]]
           del == DelLinks(sewn, f)
           k == InitLinks(del, f)
<1>2. JoinLinks(l, x, f) = k
  BY <1>1 DEF JoinLinks
<1>3. /\ sewn \in Links /\ sewn.next[f] = y /\ sewn.prev[f] = x
      /\ \A c \in Cells \ {f, x} : sewn.next[c] = l.next[c]
      /\ \A c \in Cells \ {f, y} : sewn.prev[c] = l.prev[c]
  <2>1. sewn \in Links
    BY <1>1, Zenon, SMT DEF Links
  <2> QED BY <2>1, <1>1 DEF Links
<1>4. /\ del \in Links /\ del.next[x] = y /\ del.prev[y] = x
      /\ \A c \in Cells \ {f, x} : del.next[c] = l.next[c]
      /\ \A c \in Cells \ {f, y} : del.prev[c] = l.prev[c]
  <2> HIDE DEF sewn
  <2>1. del \in Links
    BY <1>1, <1>3, Zenon, SMT DEF DelLinks, Links
  <2> QED BY <2>1, <1>1, <1>3 DEF DelLinks, Links
<1>5. k \in Links /\ \A c \in Cells : k.next[c] = l.next[c] /\ k.prev[c] = l.prev[c]
  <2> HIDE DEF del
  <2>1. k \in Links
    BY <1>1, <1>4, Zenon, SMT DEF InitLinks, Links
  <2> QED BY <2>1, <1>1, <1>4 DEF InitLinks, Links
<1> HIDE DEF k
<1> QED BY <1>2, <1>5

\* Either way of joining, also when there is nothing to join.
LEMMA JoinRings ==
  ASSUME NEW l, NEW o, Rings(l, o), NEW t \in ListHeads, NEW f \in ListHeads, t # f,
         NEW x \in Live(o), ListOf(o, x) = t, x = t \/ l.next[x] = t
  PROVE  Rings(JoinLinks(l, x, f), Moved(o, t, f))
<1>1. CASE l.next[f] # f
  BY <1>1, JoinJoins, JoinedRings
<1>2. CASE l.next[f] = f
  <2>1. /\ f \in Live(o) /\ f \in Cells /\ x \in Cells /\ ListOf(o, f) = f /\ x # f
        /\ l.prev[f] = f
    BY <1>2 DEF Rings, Symmetric, Live, Listed, ListOf, Cells
  <2>2. Moved(o, t, f) = o
    <3> DEFINE F == {n \in Listed(o) : o[n] = f}
    <3>1. ASSUME NEW n \in F PROVE l.next[n] \in F
      <4>1. n \in Live(o) /\ ListOf(o, n) = f /\ n # f
        BY ListAssumption DEF Live, Listed, ListOf
      <4>2. l.next[n] \in Live(o) /\ ListOf(o, l.next[n]) = f /\ l.prev[l.next[n]] = n
        BY <4>1 DEF Rings, Symmetric
      <4> QED BY <4>1, <4>2, <2>1 DEF Live, ListOf
    <3>2. F = {}
      BY <3>1 DEF Rings, Headed
    <3>3. \A n \in ListNodes : o[n] # f
      BY <3>2, ListAssumption DEF Listed
    <3> QED BY <3>3 DEF Moved, Rings
  <2>3. Live(o) \subseteq Cells
    BY DEF Live, Listed, Cells
  <2> DEFINE k == JoinLinks(l, x, f)
  <2>4. k \in Links /\ \A c \in Cells : k.next[c] = l.next[c] /\ k.prev[c] = l.prev[c]
    BY <1>2, <2>1, JoinNothing
  <2> HIDE DEF k
  <2>5. Rings(k, o)
    BY <2>3, <2>4, SameRings
  <2> QED BY <2>2, <2>5 DEF k
<1> QED BY <1>1, <1>2

\* Both functions are JoinLinks, after the last entry and after the head.
LEMMA AppendJoins ==
  ASSUME NEW l, NEW o, Rings(l, o), NEW t \in ListHeads, NEW f \in ListHeads, t # f
  PROVE  /\ AppendLinks(l, t, f) = JoinLinks(l, l.prev[t], f)
         /\ PrependLinks(l, t, f) = JoinLinks(l, t, f)
         /\ t \in Live(o) /\ ListOf(o, t) = t
         /\ l.prev[t] \in Live(o) /\ ListOf(o, l.prev[t]) = t /\ l.next[l.prev[t]] = t
<1>1. /\ t \in Live(o) /\ ListOf(o, t) = t
      /\ l.prev[t] \in Live(o) /\ ListOf(o, l.prev[t]) = t /\ l.next[l.prev[t]] = t
  BY DEF Rings, Symmetric, Live, ListOf
<1>2. AppendLinks(l, t, f) = JoinLinks(l, l.prev[t], f)
  BY <1>1 DEF AppendLinks, JoinLinks
<1>3. PrependLinks(l, t, f) = JoinLinks(l, t, f)
  <2>1. l.prev[f] # t /\ l.next[t] # f /\ l \in Links
        /\ {t, f, l.prev[f], l.next[t]} \subseteq Cells
    BY <1>1 DEF Rings, Symmetric, Live, Listed, ListOf, Cells
  <2>2. /\ [l.next EXCEPT ![t] = f, ![l.prev[f]] = l.next[t]]
             = [l.next EXCEPT ![l.prev[f]] = l.next[t], ![t] = f]
        /\ [l.prev EXCEPT ![f] = t, ![l.next[t]] = l.prev[f]]
             = [l.prev EXCEPT ![l.next[t]] = l.prev[f], ![f] = t]
    BY <2>1 DEF Links
  <2> QED BY <2>2 DEF PrependLinks, JoinLinks
<1> QED BY <1>1, <1>2, <1>3

\* So both leave rings.
LEMMA AppendRings ==
  ASSUME NEW l, NEW o, Rings(l, o), NEW t \in ListHeads, NEW f \in ListHeads, t # f
  PROVE  /\ Rings(AppendLinks(l, t, f), Moved(o, t, f))
         /\ Rings(PrependLinks(l, t, f), Moved(o, t, f))
BY AppendJoins, JoinRings

-----------------------------------------------------------------------------
\* Where a loop stands: at cells of its list, the second one after the first.
LoopInside ==
  loop.on =>
    /\ loop.h \in ListHeads
    /\ loop.dir \in {"next", "prev"}
    /\ {loop.i, loop.nxt} \subseteq Live(on)
    /\ ListOf(on, loop.i) = loop.h /\ ListOf(on, loop.nxt) = loop.h
    /\ loop.nxt = links[loop.dir][loop.i]

ListInv == ListsAreRings /\ LoopInside

\* Following the pointers from a cell stays on its list.
LEMMA Follow ==
  ASSUME NEW l, NEW o, Rings(l, o), NEW c \in Live(o), NEW dir \in {"next", "prev"}
  PROVE  /\ l[dir][c] \in Live(o) /\ ListOf(o, l[dir][c]) = ListOf(o, c)
         /\ c \in Listed(o) => l[dir][c] # c
<1>1. /\ l.next[c] \in Live(o) /\ ListOf(o, l.next[c]) = ListOf(o, c)
      /\ l.prev[c] \in Live(o) /\ ListOf(o, l.prev[c]) = ListOf(o, c)
      /\ l.next[l.prev[c]] = c
  BY DEF Rings, Symmetric
<1>2. ASSUME c \in Listed(o) PROVE l.next[c] # c /\ l.prev[c] # c
  <2>1. {c} \in SUBSET Listed(o) /\ {c} # {}
    BY <1>2
  <2>2. ~(\A d \in {c} : l.next[d] \in {c})
    BY <2>1 DEF Rings, Headed
  <2> QED BY <2>2, <1>1
<1>3. CASE dir = "next"
  BY <1>1, <1>2, <1>3
<1>4. CASE dir = "prev"
  BY <1>1, <1>2, <1>4
<1> QED BY <1>3, <1>4

\* The invariant holds at first, and every step keeps it.
LEMMA ListInitInv == ListInit => ListInv
<1> SUFFICES ASSUME ListInit PROVE ListInv
  OBVIOUS
<1>1. /\ links \in Links /\ on \in [ListNodes -> ListHeads \cup {NoHead}]
      /\ Listed(on) = {} /\ Live(on) = ListHeads
      /\ \A c \in ListHeads : links.next[c] = c /\ links.prev[c] = c
  BY DEF ListInit, Links, Listed, Live, Cells
<1>2. Symmetric(links, on) /\ Headed(links, on)
  BY <1>1 DEF Symmetric, Headed
<1> QED BY <1>1, <1>2 DEF ListInit, ListInv, ListsAreRings, Rings, LoopInside, NoLoop

\* A call outside loops has only the pointers to get right.
LEMMA CallInv ==
  ASSUME NEW l, NEW s, NEW c, Call(l, s, c), Rings(l, s)
  PROVE  ListInv'
BY DEF Call, ListInv, ListsAreRings, LoopInside

\* list_del again, of a node that leads to itself, writes what is there.
LEMMA DelAgainIs ==
  ASSUME Rings(links, on), NEW n \in ListNodes \ Listed(on), ListDelAgain(n)
  PROVE  /\ links' = links /\ on' = on /\ Call(links, on, call')
         /\ call' \in {<<"list_del", n>>, <<"list_del_init", n>>}
<1>1. /\ links \in Links /\ on \in [ListNodes -> ListHeads \cup {NoHead}] /\ on[n] = NoHead
      /\ links.next[n] = n /\ links.prev[n] = n /\ n \in Cells
  BY DEF ListDelAgain, Rings, Listed, Cells
<1>2. /\ [links.next EXCEPT ![n] = n] = links.next /\ [links.prev EXCEPT ![n] = n] = links.prev
      /\ [next |-> links.next, prev |-> links.prev] = links
  BY <1>1 DEF Links
<1>3. DelLinks(links, n) = links /\ InitLinks(links, n) = links
  BY <1>1, <1>2 DEF DelLinks, InitLinks
<1>4. Off(n) = on
  BY <1>1 DEF Off, Put
<1> QED BY <1>3, <1>4 DEF ListDelAgain, ListDel, ListDelInit, Call

LEMMA ListStepInv == ListInv /\ [ListNext]_lvars => ListInv'
<1> SUFFICES ASSUME ListInv, [ListNext]_lvars PROVE ListInv'
  OBVIOUS
<1>0. Rings(links, on) /\ LoopInside
  BY DEF ListInv, ListsAreRings
<1>1. ASSUME NEW h \in ListHeads, NEW n \in ListNodes \ Listed(on),
             ListAdd(h, n) \/ ListAddTail(h, n)
      PROVE  ListInv'
  <2>1. h \in Live(on) /\ ListOf(on, h) = h
    BY DEF Live, ListOf
  <2> QED BY <1>0, <1>1, <2>1, AfterRings, BeforeRings, CallInv
          DEF ListAdd, ListAddTail, Put
<1>2. ASSUME NEW p \in Listed(on), NEW n \in ListNodes \ Listed(on),
             ListAddAfter(p, n) \/ ListAddBefore(p, n) \/ ListSwap(p, n)
      PROVE  ListInv'
  <2>1. p \in Live(on) /\ ListOf(on, p) = on[p]
    BY ListAssumption DEF Live, Listed, ListOf
  <2>2. CASE ListAddAfter(p, n)
    BY <1>0, <2>1, <2>2, AfterRings, CallInv DEF ListAddAfter, Put
  <2>3. CASE ListAddBefore(p, n)
    BY <1>0, <2>1, <2>3, BeforeRings, CallInv DEF ListAddBefore, Put
  <2>4. CASE ListSwap(p, n)
    BY <1>0, <2>4, SwapRings, CallInv DEF ListSwap
  <2> QED BY <1>2, <2>2, <2>3, <2>4
<1>3. ASSUME NEW n \in Listed(on), ListDel(n) \/ ListDelInit(n) \/ ListDelFrom(on[n], n)
      PROVE  ListInv'
  BY <1>0, <1>3, DelRings, DelInitRings, CallInv
     DEF ListDel, ListDelInit, ListDelFrom, Off, Put
<1>4. ASSUME NEW h \in ListHeads, ListPop(h) PROVE ListInv'
  <2>1. links.next[h] \in Listed(on)
    BY <1>0, <1>4 DEF ListPop, list_empty, Rings, Symmetric, Live, ListOf
  <2> QED BY <1>0, <1>4, <2>1, DelRings, CallInv DEF ListPop, Off, Put
<1>5. ASSUME NEW t \in ListHeads, NEW f \in ListHeads, t # f,
             ListAppend(t, f) \/ ListPrepend(t, f)
      PROVE  ListInv'
  BY <1>0, <1>5, AppendRings, CallInv DEF ListAppend, ListPrepend
<1>6. ASSUME NEW h \in ListHeads, NEW dir \in {"next", "prev"}, ForEach(h, dir)
      PROVE  ListInv'
  <2>1. h \in Live(on) /\ ListOf(on, h) = h
    BY DEF Live, ListOf
  <2> DEFINE i == links[dir][h]
  <2>2. i \in Live(on) /\ ListOf(on, i) = h
    BY <1>0, <2>1, Follow
  <2>3. links[dir][i] \in Live(on) /\ ListOf(on, links[dir][i]) = h
    BY <1>0, <2>2, Follow
  <2> QED BY <1>0, <1>6, <2>2, <2>3 DEF ForEach, ListInv, ListsAreRings, LoopInside
<1>7. ASSUME Body PROVE ListInv'
  <2>1. /\ loop.on /\ loop.i # loop.h /\ loop.h \in ListHeads
        /\ loop.dir \in {"next", "prev"}
        /\ loop.i \in Live(on) /\ loop.nxt \in Live(on)
        /\ ListOf(on, loop.i) = loop.h /\ ListOf(on, loop.nxt) = loop.h
        /\ loop.nxt = links[loop.dir][loop.i]
    BY <1>0, <1>7 DEF Body, LoopInside
  <2>2. loop.i \in Listed(on) /\ loop.nxt # loop.i
    BY <1>0, <2>1, Follow DEF Live, ListOf
  <2>3. Rings(links', on') /\ loop.nxt \in Live(on') /\ ListOf(on', loop.nxt) = loop.h
    <3>1. CASE UNCHANGED <<links, on, call>>
      BY <3>1, <1>0, <2>1
    <3>2. CASE links' = InitLinks(DelLinks(links, loop.i), loop.i) /\ on' = Off(loop.i)
      BY <3>2, <1>0, <2>1, <2>2, DelInitRings, ListAssumption
         DEF Off, Put, Live, Listed, ListOf, Rings
    <3> QED BY <1>7, <3>1, <3>2 DEF Body
  <2>4. links'[loop.dir][loop.nxt] \in Live(on')
        /\ ListOf(on', links'[loop.dir][loop.nxt]) = loop.h
    BY <2>1, <2>3, Follow
  <2>5. loop' = [loop EXCEPT !.i = loop.nxt, !.nxt = links'[loop.dir][loop.nxt],
                             !.seen = Append(@, loop.i)]
    BY <1>7 DEF Body, Step
  <2> QED BY <2>1, <2>3, <2>4, <2>5 DEF ListInv, ListsAreRings, LoopInside
<1>8. ASSUME EndLoop PROVE ListInv'
  BY <1>0, <1>8 DEF EndLoop, ListInv, ListsAreRings, LoopInside, NoLoop
<1>10. ASSUME NEW n \in ListNodes \ Listed(on), ListDelAgain(n) PROVE ListInv'
  BY <1>0, <1>10, DelAgainIs, CallInv
<1>9. CASE UNCHANGED lvars
  BY <1>0, <1>9 DEF lvars, ListInv, ListsAreRings, LoopInside
<1> QED BY <1>1, <1>2, <1>3, <1>4, <1>5, <1>6, <1>7, <1>8, <1>9, <1>10 DEF ListNext

\* Whatever calls are made, every list stays one ring through its head, the
\* same in both directions, of the nodes that are on it (ccan/list/list.h).
THEOREM ListsAlwaysRings == ListSpec => []ListsAreRings
<1>1. ListSpec => []ListInv
  BY ListInitInv, ListStepInv, PTL DEF ListSpec
<1>2. ListInv => ListsAreRings
  BY DEF ListInv
<1> QED BY <1>1, <1>2, PTL

-----------------------------------------------------------------------------
\* The order of a list: the nodes that following the pointers gives.

\* A set of numbers has a least one.
LEMMA LeastIndex ==
  ASSUME NEW T \in SUBSET Nat, T # {}
  PROVE  \E x \in T : \A y \in T : x <= y
<1>1. IsWellFoundedOn(OpToRel(<, Nat), Nat)
  BY NatLessThanWellFounded
<1>2. PICK x \in T : \A y \in T : ~(<<y, x>> \in OpToRel(<, Nat))
  BY <1>1, WFMin
<1>3. \A y \in T : ~(y < x)
  BY <1>2 DEF OpToRel
<1> QED BY <1>3, SMT

\* The cells of the ring of h with the nodes s: 0 and Len(s) + 1 are h.
Cell(s, h, k) == IF k \in 1 .. Len(s) THEN s[k] ELSE h

\* Following f from h gives s, and then h again.
Threads(f, h, s) ==
  /\ s \in Seq(ListNodes)
  /\ \A i, j \in 1 .. Len(s) : s[i] = s[j] => i = j
  /\ \A k \in 0 .. Len(s) : f[Cell(s, h, k)] = Cell(s, h, k + 1)

\* f[1], f[2] and so on are what g gives, one from the other, from h on.
Follows(f, g, h, N) == f[0] = h /\ \A k \in 1 .. N : f[k] = g[f[k - 1]]

\* A recursion over a first part of the naturals has a value.
LEMMA Recursion ==
  ASSUME NEW S, NEW g \in [S -> S], NEW h \in S, NEW N \in Nat
  PROVE  \E f \in [0 .. N -> S] : Follows(f, g, h, N)
<1> USE DEF Follows
<1> DEFINE Has(n) == \E f \in [0 .. n -> S] : Follows(f, g, h, n)
           T == {n \in Nat : ~Has(n)}
<1>1. Has(0)
  <2>1. [k \in 0 .. 0 |-> h] \in [0 .. 0 -> S] /\ [k \in 0 .. 0 |-> h][0] = h
    OBVIOUS
  <2>2. 1 .. 0 = {}
    OBVIOUS
  <2> QED BY <2>1, <2>2
<1>2. ASSUME NEW n \in Nat, Has(n) PROVE Has(n + 1)
  <2>1. PICK f \in [0 .. n -> S] : f[0] = h /\ \A k \in 1 .. n : f[k] = g[f[k - 1]]
    BY <1>2
  <2> DEFINE e == [k \in 0 .. n + 1 |-> IF k = n + 1 THEN g[f[n]] ELSE f[k]]
  <2>2. e \in [0 .. n + 1 -> S] /\ e[0] = h
    BY <2>1
  <2>3. \A k \in 1 .. n + 1 : e[k] = g[e[k - 1]]
    BY <2>1
  <2> HIDE DEF e
  <2> QED BY <2>2, <2>3
<1>3. T = {}
  <2> SUFFICES ASSUME T # {} PROVE FALSE
    OBVIOUS
  <2>1. T \in SUBSET Nat
    OBVIOUS
  <2>2. PICK m \in T : \A y \in T : m <= y
    <3> HIDE DEF T
    <3> QED BY <2>1, LeastIndex
  <2>3. m \in Nat /\ m # 0 /\ ~Has(m)
    BY <1>1
  <2> HIDE DEF Has
  <2>4. m - 1 \in Nat /\ Has(m - 1)
    BY <2>2, <2>3
  <2>5. (m - 1) + 1 = m
    BY <2>3
  <2> QED BY <1>2, <2>3, <2>4, <2>5
<1> QED BY <1>3

\* Walk is what there is to follow.
LEMMA WalkIs ==
  ASSUME NEW l \in Links, NEW dir \in {"next", "prev"}, NEW h \in ListHeads, NEW s,
         Threads(l[dir], h, s)
  PROVE  Walk(l, dir, h) = s
<1> DEFINE N == Cardinality(Cells)
           n == Len(s)
           G(f) == [k \in 0 .. N |-> IF k = 0 THEN h ELSE l[dir][f[k - 1]]]
           at == CHOOSE f : f = G(f)
           path == [k \in 1 .. N |-> at[k]]
           first == SelectInSeq(path, LAMBDA c : c = h)
<1>1. Walk(l, dir, h) = SubSeq(path, 1, first - 1)
  BY Zenon DEF Walk
<1>2. /\ s \in Seq(ListNodes) /\ n \in Nat /\ DOMAIN s = 1 .. n
      /\ \A i, j \in 1 .. n : s[i] = s[j] => i = j
      /\ \A k \in 1 .. n : s[k] \in ListNodes /\ s[k] # h /\ s[k] \in Cells
      /\ h \in Cells
      /\ \A k \in 0 .. n : l[dir][Cell(s, h, k)] = Cell(s, h, k + 1)
  BY ListAssumption DEF Threads, Cells
<1>3. N \in Nat /\ n < N
  <2>1. IsFiniteSet(Cells)
    BY ListAssumption, FS_Union DEF Cells
  <2> DEFINE T == Cells \ {h}
  <2>2. IsFiniteSet(T) /\ Cardinality(T) = N - 1
    BY <1>2, <2>1, FS_RemoveElement
  <2>3. s \in Injection(1 .. n, T)
    <3>1. s \in [1 .. n -> T]
      BY <1>2
    <3> QED BY <1>2, <3>1 DEF Injection, IsInjective
  <2>4. Cardinality(1 .. n) <= Cardinality(T)
    BY <2>2, <2>3, FS_Injection
  <2>5. Cardinality(1 .. n) = n
    <3> HIDE DEF n
    <3>1. 1 \in Int /\ n \in Int /\ n - 1 + 1 = n /\ (1 > n => n = 0)
      BY <1>2
    <3>2. Cardinality(1 .. n) = IF 1 > n THEN 0 ELSE n - 1 + 1
      BY <3>1, FS_Interval
    <3> QED BY <3>1, <3>2
  <2>6. N \in Nat
    BY <2>1, FS_CardinalityType
  <2> QED BY <1>2, <2>2, <2>4, <2>5, <2>6
<1>4. at = G(at)
  <2>1. l[dir] \in [Cells -> Cells]
    BY DEF Links
  <2>2. PICK f \in [0 .. N -> Cells] : f[0] = h /\ \A k \in 1 .. N : f[k] = l[dir][f[k - 1]]
    <3> DEFINE g == l[dir]
    <3>1. g \in [Cells -> Cells] /\ N \in Nat /\ h \in Cells
      BY <1>2, <1>3, <2>1
    <3> HIDE DEF N, g
    <3>2. \E f \in [0 .. N -> Cells] : Follows(f, g, h, N)
      BY <3>1, Recursion
    <3> QED BY <3>2 DEF g, Follows
  <2>3. f = G(f)
    <3> HIDE DEF N
    <3> QED BY <1>3, <2>2
  <2> QED BY <2>3
<1>10. at \in [0 .. N -> Cells]
  <2>1. l[dir] \in [Cells -> Cells]
    BY DEF Links
  <2>2. at[0] = h /\ \A k \in 1 .. N : at[k] = l[dir][at[k - 1]]
    <3> HIDE DEF at, N, n
    <3> QED BY <1>3, <1>4
  <2> DEFINE T == {k \in 0 .. N : at[k] \notin Cells}
  <2>3. T = {}
    <3> SUFFICES ASSUME T # {} PROVE FALSE
      OBVIOUS
    <3>1. T \in SUBSET Nat
      BY <1>3
    <3>2. PICK m \in T : \A y \in T : m <= y
      <4> HIDE DEF T
      <4> QED BY <3>1, LeastIndex
    <3> HIDE DEF at, N, n
    <3>3. m # 0
      BY <1>2, <2>2, <3>2
    <3>4. m \in 1 .. N /\ m - 1 \in 0 .. N /\ m - 1 < m
      BY <1>3, <3>2, <3>3
    <3>5. at[m - 1] \in Cells
      BY <3>2, <3>4
    <3>6. at[m] \in Cells
      BY <2>1, <2>2, <3>4, <3>5
    <3> QED BY <3>2, <3>6
  <2>4. \A k \in 0 .. N : at[k] \in Cells
    BY <2>3
  <2> HIDE DEF at, N
  <2>5. at = [k \in 0 .. N |-> IF k = 0 THEN h ELSE l[dir][at[k - 1]]]
    BY <1>4
  <2> QED BY <2>4, <2>5
<1> HIDE DEF at, N, n
<1>5. at[0] = h /\ \A k \in 1 .. N : at[k] = l[dir][at[k - 1]]
  BY <1>3, <1>4
<1>6. \A k \in 0 .. n + 1 : at[k] = Cell(s, h, k)
  <2> DEFINE T == {k \in 0 .. n + 1 : at[k] # Cell(s, h, k)}
  <2>1. T \in SUBSET Nat
    BY <1>2
  <2> SUFFICES ASSUME T # {} PROVE FALSE
    OBVIOUS
  <2>2. PICK m \in T : \A y \in T : m <= y
    <3> HIDE DEF T
    <3> QED BY <2>1, LeastIndex
  <2>3. m # 0
    BY <1>5, <2>2 DEF Cell
  <2>4. m \in 1 .. N /\ m - 1 \in 0 .. n
    BY <1>2, <1>3, <2>2, <2>3
  <2>5. at[m - 1] = Cell(s, h, m - 1)
    BY <1>2, <2>2, <2>4
  <2>6. at[m] = l[dir][Cell(s, h, m - 1)]
    BY <1>5, <2>4, <2>5
  <2>7. (m - 1) + 1 = m
    BY <2>4
  <2>8. at[m] = Cell(s, h, m)
    BY <1>2, <2>4, <2>6, <2>7
  <2> QED BY <2>2, <2>8
<1>7. /\ Len(path) = N /\ path[n + 1] = h
      /\ \A k \in 1 .. n : path[k] = s[k] /\ path[k] # h
  <2>1. Cell(s, h, n + 1) = h /\ \A k \in 1 .. n : Cell(s, h, k) = s[k]
    BY <1>2 DEF Cell, n
  <2>2. \A k \in 1 .. N : path[k] = at[k]
    OBVIOUS
  <2>3. n + 1 \in 1 .. N /\ n + 1 \in 0 .. n + 1
        /\ \A k \in 1 .. n : k \in 1 .. N /\ k \in 0 .. n + 1
    BY <1>2, <1>3
  <2>4. Len(path) = N
    BY <1>3
  <2> HIDE DEF path
  <2> QED BY <1>2, <1>6, <2>1, <2>2, <2>3, <2>4
<1>8. first = n + 1
  <2> DEFINE I == {i \in 1 .. Len(path) : path[i] = h}
  <2>1. first = IF I # {} THEN Min(I) ELSE 0
    BY DEF SelectInSeq
  <2> HIDE DEF first, path
  <2>2. n + 1 \in I /\ \A i \in I : n + 1 <= i /\ i \in Nat
    BY <1>2, <1>3, <1>7
  <2> HIDE DEF I
  <2>3. Min(I) = n + 1
    BY <1>2, <2>2 DEF Min
  <2> QED BY <2>1, <2>2, <2>3
<1>9. SubSeq(path, 1, n) = s
  <2>1. path \in Seq(Cells)
    <3>1. \A k \in 1 .. N : at[k] \in Cells
      <4>1. l[dir] \in [Cells -> Cells]
        BY DEF Links
      <4>2. at \in [0 .. N -> Cells]
        BY <1>10
      <4> QED BY <4>2, <1>3
    <3> QED BY <3>1, <1>3
  <2>2. n \in 0 .. Len(path)
    BY <1>2, <1>3, <1>7
  <2> HIDE DEF path
  <2>3. \A k \in 1 .. n : path[k] = s[k]
    BY <1>7
  <2>4. SubSeq(path, 1, n) \in Seq(Cells) /\ Len(SubSeq(path, 1, n)) = n
        /\ \A k \in 1 .. n : SubSeq(path, 1, n)[k] = path[k]
    BY <1>2, <2>1, <2>2
  <2>5. \A k \in 1 .. n : SubSeq(path, 1, n)[k] = s[k]
    BY <2>3, <2>4
  <2>6. s \in Seq(Cells) /\ Len(s) = n
    BY <1>2 DEF n
  <2> DEFINE q == SubSeq(path, 1, n)
  <2>7. q \in Seq(Cells) /\ Len(q) = Len(s) /\ \A k \in 1 .. Len(s) : q[k] = s[k]
    BY <2>4, <2>5, <2>6
  <2> HIDE DEF q
  <2>8. q = s
    BY <2>6, <2>7
  <2> QED BY <2>8 DEF q
<1>11. n \in Nat
  BY <1>2
<1> HIDE DEF first, path, G
<1>12. first - 1 = n
  BY <1>8, <1>11
<1> QED BY <1>1, <1>9, <1>12

\* What the operators on sequences return, entry by entry.
LEMMA ConcatIs ==
  ASSUME NEW S, NEW a \in Seq(S), NEW b \in Seq(S), NEW m, NEW d, Len(a) = m, Len(b) = d
  PROVE  /\ a \o b \in Seq(S) /\ Len(a \o b) = m + d
         /\ \A j \in 1 .. m : (a \o b)[j] = a[j]
         /\ \A j \in 1 .. d : (a \o b)[m + j] = b[j]
OBVIOUS

LEMMA InsertAtIs ==
  ASSUME NEW S, NEW s \in Seq(S), NEW k \in 1 .. Len(s) + 1, NEW n \in S
  PROVE  /\ InsertAt(s, k, n) \in Seq(S) /\ Len(InsertAt(s, k, n)) = Len(s) + 1
         /\ \A j \in 1 .. Len(s) + 1 :
              InsertAt(s, k, n)[j] = IF j < k THEN s[j] ELSE IF j = k THEN n ELSE s[j - 1]
<1> DEFINE a == SubSeq(s, 1, k - 1)
           b == SubSeq(s, k, Len(s))
<1>1. Len(s) \in Nat /\ k \in Nat
  OBVIOUS
<1>2. a \in Seq(S) /\ Len(a) = k - 1 /\ \A j \in 1 .. k - 1 : a[j] = s[j]
  OBVIOUS
<1>3. b \in Seq(S) /\ Len(b) = Len(s) - k + 1
      /\ \A j \in 1 .. Len(s) - k + 1 : b[j] = s[j + k - 1]
  OBVIOUS
<1> DEFINE c == a \o <<n>>
<1> HIDE DEF a, b
<1>4. c \in Seq(S) /\ Len(c) = k /\ c[k] = n /\ \A j \in 1 .. k - 1 : c[j] = s[j]
  BY <1>2
<1> HIDE DEF c
<1>5. /\ c \o b \in Seq(S) /\ Len(c \o b) = Len(s) + 1
      /\ \A j \in 1 .. k : (c \o b)[j] = c[j]
      /\ \A j \in 1 .. Len(s) - k + 1 : (c \o b)[k + j] = b[j]
  <2> DEFINE d == Len(s) - k + 1
  <2>1. b \in Seq(S) /\ Len(b) = d /\ k + d = Len(s) + 1 /\ c \in Seq(S) /\ Len(c) = k
    BY <1>1, <1>3, <1>4
  <2> HIDE DEF d
  <2>2. /\ c \o b \in Seq(S) /\ Len(c \o b) = k + d
        /\ \A j \in 1 .. k : (c \o b)[j] = c[j]
        /\ \A j \in 1 .. d : (c \o b)[k + j] = b[j]
    BY <2>1, ConcatIs
  <2> QED BY <2>1, <2>2 DEF d
<1>6. \A j \in 1 .. Len(s) + 1 :
        (c \o b)[j] = IF j < k THEN s[j] ELSE IF j = k THEN n ELSE s[j - 1]
  <2> TAKE j \in 1 .. Len(s) + 1
  <2>1. CASE j <= k
    BY <2>1, <1>1, <1>4, <1>5
  <2>2. CASE j > k
    <3> DEFINE i == j - k
    <3>1. i \in 1 .. Len(s) - k + 1 /\ i + k - 1 = j - 1 /\ k + i = j
      BY <2>2, <1>1
    <3> HIDE DEF i
    <3>2. b[i] = s[i + k - 1] /\ (c \o b)[k + i] = b[i]
      BY <3>1, <1>3, <1>5
    <3>3. (c \o b)[j] = s[j - 1]
      BY <3>1, <3>2
    <3>4. ~(j < k) /\ j # k
      BY <2>2, <1>1
    <3> QED BY <3>3, <3>4
  <2>3. j <= k \/ j > k
    BY <1>1
  <2> QED BY <2>1, <2>2, <2>3
<1>7. InsertAt(s, k, n) = c \o b
  BY DEF InsertAt, a, b, c
<1> QED BY <1>5, <1>6, <1>7

LEMMA RemoveAtIs ==
  ASSUME NEW S, NEW s \in Seq(S), NEW k \in 1 .. Len(s)
  PROVE  /\ RemoveAt(s, k) \in Seq(S) /\ Len(RemoveAt(s, k)) = Len(s) - 1
         /\ \A j \in 1 .. Len(s) - 1 :
              RemoveAt(s, k)[j] = IF j < k THEN s[j] ELSE s[j + 1]
<1> DEFINE a == SubSeq(s, 1, k - 1)
           b == SubSeq(s, k + 1, Len(s))
<1>1. Len(s) \in Nat /\ k \in Nat /\ k >= 1 /\ k <= Len(s)
  OBVIOUS
<1>2. a \in Seq(S) /\ Len(a) = k - 1 /\ \A j \in 1 .. k - 1 : a[j] = s[j]
  OBVIOUS
<1>3. b \in Seq(S) /\ Len(b) = Len(s) - k
      /\ \A j \in 1 .. Len(s) - k : b[j] = s[j + k]
  OBVIOUS
<1> DEFINE m == k - 1
<1>4. m \in Nat /\ m + 1 = k /\ m + (Len(s) - k) = Len(s) - 1 /\ Len(a) = m
  BY <1>1, <1>2
<1> HIDE DEF a, b, m
<1>5. /\ a \o b \in Seq(S) /\ Len(a \o b) = Len(s) - 1
      /\ \A j \in 1 .. m : (a \o b)[j] = a[j]
      /\ \A j \in 1 .. Len(s) - k : (a \o b)[m + j] = b[j]
  <2> DEFINE d == Len(s) - k
  <2>1. b \in Seq(S) /\ Len(b) = d /\ m + d = Len(s) - 1 /\ a \in Seq(S) /\ Len(a) = m
    BY <1>2, <1>3, <1>4
  <2> HIDE DEF d
  <2>2. /\ a \o b \in Seq(S) /\ Len(a \o b) = m + d
        /\ \A j \in 1 .. m : (a \o b)[j] = a[j]
        /\ \A j \in 1 .. d : (a \o b)[m + j] = b[j]
    BY <2>1, ConcatIs
  <2> QED BY <2>1, <2>2 DEF d
<1>6. \A j \in 1 .. Len(s) - 1 : (a \o b)[j] = IF j < k THEN s[j] ELSE s[j + 1]
  <2> TAKE j \in 1 .. Len(s) - 1
  <2>1. CASE j < k
    <3>1. j \in 1 .. m /\ j \in 1 .. k - 1
      BY <2>1, <1>1, <1>4
    <3> QED BY <2>1, <3>1, <1>2, <1>5
  <2>2. CASE j >= k
    <3> DEFINE i == j - m
    <3>1. i \in 1 .. Len(s) - k /\ i + k = j + 1 /\ m + i = j
      BY <2>2, <1>1, <1>4
    <3> HIDE DEF i
    <3>2. b[i] = s[i + k] /\ (a \o b)[m + i] = b[i]
      BY <3>1, <1>3, <1>5
    <3>3. (a \o b)[j] = s[j + 1]
      BY <3>1, <3>2
    <3>4. ~(j < k)
      BY <2>2, <1>1
    <3> QED BY <3>3, <3>4
  <2>3. j < k \/ j >= k
    BY <1>1
  <2> QED BY <2>1, <2>2, <2>3
<1>7. RemoveAt(s, k) = a \o b
  BY DEF RemoveAt, a, b
<1> QED BY <1>5, <1>6, <1>7

\* The cells of a ring are distinct, and the one after the last is the head.
LEMMA ThreadCells ==
  ASSUME NEW f, NEW h \in ListHeads, NEW s, Threads(f, h, s)
  PROVE  /\ s \in Seq(ListNodes) /\ Len(s) \in Nat
         /\ \A i \in 1 .. Len(s) : s[i] \in ListNodes /\ s[i] # h /\ Cell(s, h, i) = s[i]
         /\ Cell(s, h, 0) = h /\ Cell(s, h, Len(s) + 1) = h
         /\ \A i, j \in 0 .. Len(s) : Cell(s, h, i) = Cell(s, h, j) => i = j
         /\ \A i \in 0 .. Len(s) + 1 : Cell(s, h, i) \in Cells
BY ListAssumption DEF Threads, Cell, Cells

\* A ring whose pointers stay is the same ring.
LEMMA SameThreads ==
  ASSUME NEW f, NEW g, NEW h \in ListHeads, NEW s, Threads(f, h, s),
         \A k \in 0 .. Len(s) : g[Cell(s, h, k)] = f[Cell(s, h, k)]
  PROVE  Threads(g, h, s)
BY DEF Threads

\* A node sewn in after the k-th cell of a ring.
LEMMA InsertThreads ==
  ASSUME NEW f \in [Cells -> Cells], NEW h \in ListHeads, NEW s, Threads(f, h, s),
         NEW k \in 0 .. Len(s), NEW n \in ListNodes, \A j \in 1 .. Len(s) : s[j] # n
  PROVE  Threads([f EXCEPT ![n] = f[Cell(s, h, k)], ![Cell(s, h, k)] = n], h,
                 InsertAt(s, k + 1, n))
<1> DEFINE p == Cell(s, h, k)
           g == [f EXCEPT ![n] = f[p], ![p] = n]
           t == InsertAt(s, k + 1, n)
<1>1. /\ s \in Seq(ListNodes) /\ Len(s) \in Nat
      /\ \A i \in 1 .. Len(s) : s[i] \in ListNodes /\ s[i] # h /\ Cell(s, h, i) = s[i]
      /\ Cell(s, h, 0) = h /\ Cell(s, h, Len(s) + 1) = h
      /\ \A i, j \in 0 .. Len(s) : Cell(s, h, i) = Cell(s, h, j) => i = j
      /\ \A i \in 0 .. Len(s) + 1 : Cell(s, h, i) \in Cells
  BY ThreadCells
<1>2. \A j \in 0 .. Len(s) : f[Cell(s, h, j)] = Cell(s, h, j + 1)
  BY DEF Threads
<1>3. k \in Nat /\ k + 1 \in 1 .. Len(s) + 1 /\ n # h /\ n \in Cells /\ p \in Cells
  BY <1>1, ListAssumption DEF Cells
<1>4. /\ t \in Seq(ListNodes) /\ Len(t) = Len(s) + 1
      /\ \A j \in 1 .. Len(s) + 1 :
           t[j] = IF j < k + 1 THEN s[j] ELSE IF j = k + 1 THEN n ELSE s[j - 1]
  BY <1>1, <1>3, InsertAtIs
<1> HIDE DEF t
<1>5. \A i, j \in 1 .. Len(t) : t[i] = t[j] => i = j
  <2> SUFFICES ASSUME NEW i \in 1 .. Len(t), NEW j \in 1 .. Len(t), t[i] = t[j] PROVE i = j
    OBVIOUS
  <2> DEFINE a(x) == IF x < k + 1 THEN x ELSE x - 1
  <2>1. \A x \in 1 .. Len(t) : x # k + 1 => a(x) \in 1 .. Len(s) /\ t[x] = s[a(x)]
    BY <1>1, <1>3, <1>4
  <2>2. \A x, y \in 1 .. Len(t) : x # k + 1 /\ y # k + 1 /\ a(x) = a(y) => x = y
    BY <1>1, <1>3, <1>4
  <2>3. \A x, y \in 1 .. Len(s) : s[x] = s[y] => x = y
    BY DEF Threads
  <2>4. t[k + 1] = n
    BY <1>3, <1>4
  <2> HIDE DEF a
  <2>5. \A x \in 1 .. Len(t) : x # k + 1 => t[x] # n
    BY <2>1
  <2> QED BY <2>1, <2>2, <2>3, <2>4, <2>5
<1>6. \A j \in 0 .. Len(t) + 1 :
        Cell(t, h, j) = IF j < k + 1 THEN Cell(s, h, j) ELSE IF j = k + 1 THEN n
                        ELSE Cell(s, h, j - 1)
  BY <1>1, <1>3, <1>4 DEF Cell
<1>7. /\ g[p] = n /\ (n # p => g[n] = f[p])
      /\ \A c \in Cells : c # n /\ c # p => g[c] = f[c]
  BY <1>3
<1>8. n # p /\ \A j \in 0 .. Len(s) : Cell(s, h, j) # n
  BY <1>1, <1>3 DEF Cell
<1> HIDE DEF g
<1>9. \A j \in 0 .. Len(t) : g[Cell(t, h, j)] = Cell(t, h, j + 1)
  <2> TAKE j \in 0 .. Len(t)
  <2>1. CASE j < k
    <3>1. j \in 0 .. Len(s) /\ j + 1 \in 0 .. Len(t) + 1 /\ j \in 0 .. Len(t) + 1
          /\ j < k + 1 /\ j + 1 < k + 1 /\ j # k
      BY <2>1, <1>1, <1>3, <1>4
    <3>2. Cell(t, h, j) = Cell(s, h, j) /\ Cell(t, h, j + 1) = Cell(s, h, j + 1)
      BY <3>1, <1>6
    <3>3. Cell(s, h, j) # p /\ Cell(s, h, j) # n /\ Cell(s, h, j) \in Cells
      BY <3>1, <1>1, <1>8
    <3> QED BY <3>1, <3>2, <3>3, <1>2, <1>7
  <2>2. CASE j = k
    BY <2>2, <1>1, <1>3, <1>4, <1>6, <1>7
  <2>3. CASE j = k + 1
    <3>1. j \in 0 .. Len(t) + 1 /\ j + 1 \in 0 .. Len(t) + 1 /\ (j + 1) - 1 = k + 1
      BY <2>3, <1>1, <1>3, <1>4
    <3>2. Cell(t, h, j) = n /\ Cell(t, h, j + 1) = Cell(s, h, k + 1)
      BY <2>3, <3>1, <1>3, <1>6
    <3> QED BY <3>2, <1>2, <1>7, <1>8
  <2>4. CASE j > k + 1
    <3>1. j - 1 \in 0 .. Len(s) /\ (j - 1) + 1 = j /\ (j + 1) - 1 = j /\ j \in 0 .. Len(t) + 1
          /\ j + 1 \in 0 .. Len(t) + 1 /\ j - 1 # k
      BY <2>4, <1>1, <1>3, <1>4
    <3>2. Cell(t, h, j) = Cell(s, h, j - 1) /\ Cell(t, h, j + 1) = Cell(s, h, j)
      BY <2>4, <3>1, <1>3, <1>6
    <3>3. Cell(s, h, j - 1) # p /\ Cell(s, h, j - 1) # n /\ Cell(s, h, j - 1) \in Cells
      BY <3>1, <1>1, <1>8
    <3> QED BY <3>1, <3>2, <3>3, <1>2, <1>7
  <2> QED BY <2>1, <2>2, <2>3, <2>4, <1>3
<1>10. Threads(g, h, t)
  BY <1>4, <1>5, <1>9 DEF Threads
<1> QED BY <1>10 DEF g, t

\* The k-th node taken out of a ring.
LEMMA RemoveThreads ==
  ASSUME NEW f, NEW g, NEW h \in ListHeads, NEW s, Threads(f, h, s), NEW k \in 1 .. Len(s),
         g[Cell(s, h, k - 1)] = f[s[k]],
         \A j \in 0 .. Len(s) : j # k - 1 /\ j # k => g[Cell(s, h, j)] = f[Cell(s, h, j)]
  PROVE  Threads(g, h, RemoveAt(s, k))
<1> DEFINE t == RemoveAt(s, k)
<1>1. /\ s \in Seq(ListNodes) /\ Len(s) \in Nat
      /\ \A i \in 1 .. Len(s) : s[i] \in ListNodes /\ s[i] # h /\ Cell(s, h, i) = s[i]
      /\ Cell(s, h, 0) = h /\ Cell(s, h, Len(s) + 1) = h
  BY ThreadCells
<1>2. \A j \in 0 .. Len(s) : f[Cell(s, h, j)] = Cell(s, h, j + 1)
  BY DEF Threads
<1>3. k \in Nat /\ k >= 1 /\ k <= Len(s)
  BY <1>1
<1>4. /\ t \in Seq(ListNodes) /\ Len(t) = Len(s) - 1
      /\ \A j \in 1 .. Len(s) - 1 : t[j] = IF j < k THEN s[j] ELSE s[j + 1]
  BY <1>1, RemoveAtIs
<1> HIDE DEF t
<1>5. \A i, j \in 1 .. Len(t) : t[i] = t[j] => i = j
  <2> SUFFICES ASSUME NEW i \in 1 .. Len(t), NEW j \in 1 .. Len(t), t[i] = t[j] PROVE i = j
    OBVIOUS
  <2> DEFINE a(x) == IF x < k THEN x ELSE x + 1
  <2>1. \A x \in 1 .. Len(t) : a(x) \in 1 .. Len(s) /\ t[x] = s[a(x)]
    BY <1>1, <1>3, <1>4
  <2>2. \A x, y \in 1 .. Len(t) : a(x) = a(y) => x = y
    BY <1>1, <1>3, <1>4
  <2>3. \A x, y \in 1 .. Len(s) : s[x] = s[y] => x = y
    BY DEF Threads
  <2> HIDE DEF a
  <2> QED BY <2>1, <2>2, <2>3
<1>6. \A j \in 0 .. Len(t) + 1 :
        Cell(t, h, j) = IF j < k THEN Cell(s, h, j) ELSE Cell(s, h, j + 1)
  BY <1>1, <1>3, <1>4 DEF Cell
<1>9. \A j \in 0 .. Len(t) : g[Cell(t, h, j)] = Cell(t, h, j + 1)
  <2> TAKE j \in 0 .. Len(t)
  <2>0. j \in 0 .. Len(t) + 1 /\ j + 1 \in 0 .. Len(t) + 1 /\ j \in Nat
        /\ j \in 0 .. Len(s) /\ j + 1 \in 0 .. Len(s)
    BY <1>1, <1>4
  <2>1. CASE j < k - 1
    <3>1. j < k /\ j + 1 < k /\ j # k - 1 /\ j # k
      BY <2>0, <2>1, <1>3
    <3> QED BY <2>0, <3>1, <1>2, <1>6
  <2>2. CASE j = k - 1
    <3>1. j < k /\ ~(j + 1 < k) /\ j + 1 = k
      BY <2>0, <2>2, <1>3
    <3>2. Cell(t, h, j) = Cell(s, h, k - 1) /\ Cell(t, h, j + 1) = Cell(s, h, k + 1)
      BY <2>0, <2>2, <3>1, <1>6
    <3>3. f[s[k]] = Cell(s, h, k + 1)
      BY <1>1, <1>2, <1>3
    <3> QED BY <3>2, <3>3
  <2>3. CASE j > k - 1
    <3>1. ~(j < k) /\ ~(j + 1 < k) /\ j + 1 # k - 1 /\ j + 1 # k
      BY <2>0, <2>3, <1>3
    <3>2. Cell(t, h, j) = Cell(s, h, j + 1) /\ Cell(t, h, j + 1) = Cell(s, h, (j + 1) + 1)
      BY <2>0, <3>1, <1>6
    <3>3. g[Cell(s, h, j + 1)] = f[Cell(s, h, j + 1)]
      BY <2>0, <3>1
    <3> QED BY <2>0, <3>2, <3>3, <1>2
  <2>4. j < k - 1 \/ j = k - 1 \/ j > k - 1
    BY <2>0, <1>3
  <2> QED BY <2>1, <2>2, <2>3, <2>4
<1>10. Threads(g, h, t)
  BY <1>4, <1>5, <1>9 DEF Threads
<1> QED BY <1>10 DEF t

\* Another node in the place of the k-th.
LEMMA ReplaceThreads ==
  ASSUME NEW f, NEW g, NEW h \in ListHeads, NEW s, Threads(f, h, s), NEW k \in 1 .. Len(s),
         NEW n \in ListNodes, \A j \in 1 .. Len(s) : s[j] # n,
         g[Cell(s, h, k - 1)] = n /\ g[n] = f[s[k]],
         \A j \in 0 .. Len(s) : j # k - 1 /\ j # k => g[Cell(s, h, j)] = f[Cell(s, h, j)]
  PROVE  Threads(g, h, ReplaceAt(s, k, n))
<1> DEFINE t == ReplaceAt(s, k, n)
<1>1. /\ s \in Seq(ListNodes) /\ Len(s) \in Nat
      /\ \A i \in 1 .. Len(s) : s[i] \in ListNodes /\ s[i] # h /\ Cell(s, h, i) = s[i]
  BY ThreadCells
<1>2. \A j \in 0 .. Len(s) : f[Cell(s, h, j)] = Cell(s, h, j + 1)
  BY DEF Threads
<1>3. k \in Nat /\ k >= 1 /\ k <= Len(s)
  BY <1>1
<1>4. /\ t \in Seq(ListNodes) /\ Len(t) = Len(s)
      /\ \A j \in 1 .. Len(s) : t[j] = IF j = k THEN n ELSE s[j]
  BY <1>1 DEF ReplaceAt
<1> HIDE DEF t
<1>5. \A i, j \in 1 .. Len(t) : t[i] = t[j] => i = j
  BY <1>4 DEF Threads
<1>6. \A j \in 0 .. Len(s) + 1 : Cell(t, h, j) = IF j = k THEN n ELSE Cell(s, h, j)
  BY <1>1, <1>3, <1>4 DEF Cell
<1>9. \A j \in 0 .. Len(s) : g[Cell(t, h, j)] = Cell(t, h, j + 1)
  <2> TAKE j \in 0 .. Len(s)
  <2>0. j \in 0 .. Len(s) + 1 /\ j + 1 \in 0 .. Len(s) + 1 /\ j \in Nat
    BY <1>1
  <2>1. CASE j = k - 1
    <3>1. j # k /\ j + 1 = k
      BY <2>1, <1>3
    <3> QED BY <2>0, <2>1, <3>1, <1>6
  <2>2. CASE j = k
    <3>1. j + 1 # k
      BY <2>2, <1>3
    <3>2. f[s[k]] = Cell(s, h, k + 1)
      BY <1>1, <1>2, <1>3
    <3> QED BY <2>0, <2>2, <3>1, <3>2, <1>6
  <2>3. CASE j # k - 1 /\ j # k
    <3>1. j + 1 # k
      BY <2>0, <2>3, <1>3
    <3> QED BY <2>0, <2>3, <3>1, <1>2, <1>6
  <2> QED BY <2>1, <2>2, <2>3
<1>10. Threads(g, h, t)
  BY <1>4, <1>5, <1>9 DEF Threads
<1> QED BY <1>10 DEF t

\* Two sequences of nodes one after the other.
LEMMA ConcatThreads ==
  ASSUME NEW g, NEW h \in ListHeads, NEW a \in Seq(ListNodes), NEW b \in Seq(ListNodes),
         \A i, j \in 1 .. Len(a) : a[i] = a[j] => i = j,
         \A i, j \in 1 .. Len(b) : b[i] = b[j] => i = j,
         \A i \in 1 .. Len(a), j \in 1 .. Len(b) : a[i] # b[j],
         \A j \in 0 .. Len(a) - 1 : g[Cell(a, h, j)] = Cell(a, h, j + 1),
         g[Cell(a, h, Len(a))] = Cell(b, h, 1),
         \A j \in 1 .. Len(b) : g[Cell(b, h, j)] = Cell(b, h, j + 1)
  PROVE  Threads(g, h, a \o b)
<1> DEFINE t == a \o b
           m == Len(a)
           d == Len(b)
<1>1. /\ m \in Nat /\ d \in Nat /\ t \in Seq(ListNodes) /\ Len(t) = m + d
      /\ \A j \in 1 .. m : t[j] = a[j]
      /\ \A j \in 1 .. d : t[m + j] = b[j]
  BY ConcatIs
<1>2. \A j \in m + 1 .. m + d : j - m \in 1 .. d /\ m + (j - m) = j
  BY <1>1
<1>3. \A j \in m + 1 .. m + d : t[j] = b[j - m]
  <2> HIDE DEF t, m, d
  <2> TAKE j \in m + 1 .. m + d
  <2> DEFINE i == j - m
  <2>1. i \in 1 .. d /\ m + i = j
    BY <1>2
  <2> HIDE DEF i
  <2>2. t[j] = b[i]
    BY <2>1, <1>1
  <2> QED BY <2>2 DEF i
<1>4. /\ Cell(t, h, 0) = h /\ Cell(t, h, m + d + 1) = h
      /\ \A j \in 1 .. m : Cell(t, h, j) = a[j]
      /\ \A j \in m + 1 .. m + d : Cell(t, h, j) = b[j - m]
  <2> HIDE DEF t
  <2> QED BY <1>1, <1>3 DEF Cell
<1>5. /\ Cell(a, h, 0) = h /\ \A j \in 1 .. m : Cell(a, h, j) = a[j]
      /\ Cell(b, h, d + 1) = h /\ \A j \in 1 .. d : Cell(b, h, j) = b[j]
  BY <1>1 DEF Cell
<1>6. /\ \A i, j \in 1 .. m : a[i] = a[j] => i = j
      /\ \A i, j \in 1 .. d : b[i] = b[j] => i = j
      /\ \A i \in 1 .. m, j \in 1 .. d : a[i] # b[j]
      /\ \A j \in 0 .. m - 1 : g[Cell(a, h, j)] = Cell(a, h, j + 1)
      /\ g[Cell(a, h, m)] = Cell(b, h, 1)
      /\ \A j \in 1 .. d : g[Cell(b, h, j)] = Cell(b, h, j + 1)
  OBVIOUS
<1> HIDE DEF t, m, d
<1>7. \A i, j \in 1 .. m + d : t[i] = t[j] => i = j
  <2> SUFFICES ASSUME NEW i \in 1 .. m + d, NEW j \in 1 .. m + d, t[i] = t[j] PROVE i = j
    OBVIOUS
  <2>1. \A x \in 1 .. m + d : x \in Nat /\ (x \in 1 .. m \/ x \in m + 1 .. m + d)
    BY <1>1
  <2>2. CASE i \in 1 .. m /\ j \in 1 .. m
    BY <2>2, <1>1, <1>6
  <2>3. CASE i \in m + 1 .. m + d /\ j \in m + 1 .. m + d
    <3>1. b[i - m] = b[j - m] /\ i - m \in 1 .. d /\ j - m \in 1 .. d
      BY <2>3, <1>2, <1>3
    <3>2. i - m = j - m
      BY <3>1, <1>6
    <3> QED BY <3>2, <2>1, <1>1
  <2>4. CASE i \in 1 .. m /\ j \in m + 1 .. m + d
    BY <2>4, <1>1, <1>2, <1>3, <1>6
  <2>5. CASE i \in m + 1 .. m + d /\ j \in 1 .. m
    BY <2>5, <1>1, <1>2, <1>3, <1>6
  <2> QED BY <2>1, <2>2, <2>3, <2>4, <2>5
<1>8. \A j \in 0 .. m : Cell(t, h, j) = Cell(a, h, j)
  BY <1>1, <1>4, <1>5
<1>9. \A j \in m + 1 .. m + d + 1 : Cell(t, h, j) = Cell(b, h, j - m)
  <2> TAKE j \in m + 1 .. m + d + 1
  <2>1. CASE j \in m + 1 .. m + d
    BY <2>1, <1>2, <1>4, <1>5
  <2>2. CASE j = m + d + 1
    <3>1. j - m = d + 1
      BY <2>2, <1>1
    <3> QED BY <2>2, <3>1, <1>4, <1>5
  <2>3. j \in m + 1 .. m + d \/ j = m + d + 1
    BY <1>1
  <2> QED BY <2>1, <2>2, <2>3
<1>10. \A j \in 0 .. m + d : g[Cell(t, h, j)] = Cell(t, h, j + 1)
  <2> TAKE j \in 0 .. m + d
  <2>0. j \in Nat
    BY <1>1
  <2>1. CASE j < m
    <3>1. j \in 0 .. m /\ j + 1 \in 0 .. m /\ j \in 0 .. m - 1
      BY <2>0, <2>1, <1>1
    <3> QED BY <3>1, <1>6, <1>8
  <2>2. CASE j = m
    <3>1. j \in 0 .. m /\ j + 1 \in m + 1 .. m + d + 1 /\ (j + 1) - m = 1
      BY <2>2, <1>1
    <3> QED BY <2>2, <3>1, <1>6, <1>8, <1>9
  <2>3. CASE j > m
    <3> DEFINE i == j - m
    <3>1. j \in m + 1 .. m + d + 1 /\ j + 1 \in m + 1 .. m + d + 1
          /\ i \in 1 .. d /\ (j + 1) - m = i + 1
      BY <2>0, <2>3, <1>1
    <3>2. Cell(t, h, j) = Cell(b, h, i) /\ Cell(t, h, j + 1) = Cell(b, h, (j + 1) - m)
      BY <3>1, <1>9
    <3> HIDE DEF i
    <3> QED BY <3>1, <3>2, <1>6
  <2> QED BY <2>0, <2>1, <2>2, <2>3, <1>1
<1>11. Threads(g, h, t)
  BY <1>1, <1>7, <1>10 DEF Threads
<1> QED BY <1>11 DEF t

\* n is an entry of s.
In(s, n) == \E k \in 1 .. Len(s) : s[k] = n

\* w has the nodes of every list, in the order of the pointers.
Ordered(l, o, w) ==
  /\ w \in [ListHeads -> Seq(ListNodes)]
  /\ \A h \in ListHeads : Threads(l.next, h, w[h])
  /\ \A h \in ListHeads, n \in ListNodes : o[n] = h <=> In(w[h], n)

\* The ring of h is of the nodes s: its cells are those on h's list.
RingOf(l, o, h, s) ==
  /\ \A k \in 0 .. Len(s) + 1 : Cell(s, h, k) \in Live(o) /\ ListOf(o, Cell(s, h, k)) = h
  /\ \A c \in Live(o) : ListOf(o, c) = h => \E k \in 0 .. Len(s) : c = Cell(s, h, k)
  /\ \A c \in Listed(o) : o[c] = h => \E k \in 1 .. Len(s) : c = s[k]
  /\ \A k \in 0 .. Len(s) : l.next[Cell(s, h, k)] = Cell(s, h, k + 1)
                             /\ l.prev[Cell(s, h, k + 1)] = Cell(s, h, k)

\* The cells on a list are the cells of its ring.
LEMMA OrderedCells ==
  ASSUME NEW l, NEW o, NEW w, Rings(l, o), Ordered(l, o, w), NEW h \in ListHeads
  PROVE  RingOf(l, o, h, w[h])
<1> DEFINE s == w[h]
<1>1. Threads(l.next, h, s) /\ \A n \in ListNodes : o[n] = h <=> In(s, n)
  BY DEF Ordered
<1>2. /\ s \in Seq(ListNodes) /\ Len(s) \in Nat
      /\ \A i \in 1 .. Len(s) : s[i] \in ListNodes /\ s[i] # h /\ Cell(s, h, i) = s[i]
      /\ Cell(s, h, 0) = h /\ Cell(s, h, Len(s) + 1) = h
  BY <1>1, ThreadCells
<1> HIDE DEF s
<1>3. \A i \in 1 .. Len(s) : s[i] \in Live(o) /\ ListOf(o, s[i]) = h
  BY <1>1, <1>2, ListAssumption DEF In, Live, Listed, ListOf
<1>4. h \in Live(o) /\ ListOf(o, h) = h
  BY DEF Live, ListOf
<1>5. \A k \in 0 .. Len(s) + 1 : Cell(s, h, k) \in Live(o) /\ ListOf(o, Cell(s, h, k)) = h
  BY <1>2, <1>3, <1>4 DEF Cell
<1>6. \A c \in Listed(o) : o[c] = h => \E k \in 1 .. Len(s) : c = s[k]
  BY <1>1 DEF In, Listed
<1>7. ASSUME NEW c \in Live(o), ListOf(o, c) = h
      PROVE  \E k \in 0 .. Len(s) : c = Cell(s, h, k)
  <2>1. CASE c \in ListHeads
    <3>1. c = Cell(s, h, 0) /\ 0 \in 0 .. Len(s)
      BY <2>1, <1>2, <1>7 DEF ListOf
    <3> QED BY <3>1
  <2>2. CASE c \notin ListHeads
    <3>1. c \in Listed(o) /\ o[c] = h
      BY <2>2, <1>7 DEF Live, ListOf
    <3>2. PICK k \in 1 .. Len(s) : c = s[k]
      BY <3>1, <1>6
    <3>3. k \in 0 .. Len(s) /\ c = Cell(s, h, k)
      BY <3>2, <1>2
    <3> QED BY <3>3
  <2> QED BY <2>1, <2>2
<1>8. ASSUME NEW k \in 0 .. Len(s)
      PROVE  l.next[Cell(s, h, k)] = Cell(s, h, k + 1)
             /\ l.prev[Cell(s, h, k + 1)] = Cell(s, h, k)
  <2>1. l.next[Cell(s, h, k)] = Cell(s, h, k + 1) /\ Cell(s, h, k) \in Live(o)
    BY <1>1, <1>2, <1>5 DEF Threads
  <2> QED BY <2>1 DEF Rings, Symmetric
<1> QED BY <1>5, <1>6, <1>7, <1>8 DEF RingOf, s

\* From l and o to m and q the list of h becomes t, and the others stay.
Changes(l, o, w, h, m, q, t) ==
  /\ Rings(l, o) /\ Ordered(l, o, w) /\ h \in ListHeads
  /\ Threads(m.next, h, t)
  /\ \A c \in Live(o) : ListOf(o, c) # h => m.next[c] = l.next[c]
  /\ \A n \in ListNodes : q[n] = h <=> In(t, n)
  /\ \A n \in ListNodes : \A b \in ListHeads \ {h} : q[n] = b <=> o[n] = b

LEMMA ChangeOne ==
  ASSUME NEW l, NEW o, NEW w, NEW h, NEW m, NEW q, NEW t, Changes(l, o, w, h, m, q, t)
  PROVE  Ordered(m, q, [w EXCEPT ![h] = t])
<1> USE DEF Changes
<1> DEFINE v == [w EXCEPT ![h] = t]
<1>1. v \in [ListHeads -> Seq(ListNodes)] /\ v[h] = t /\ \A b \in ListHeads \ {h} : v[b] = w[b]
  BY DEF Ordered, Threads
<1> HIDE DEF v
<1>2. ASSUME NEW b \in ListHeads \ {h} PROVE Threads(m.next, b, w[b])
  <2>1. Threads(l.next, b, w[b])
    BY DEF Ordered
  <2>2. Len(w[b]) \in Nat
    BY <2>1, ThreadCells
  <2>3. \A k \in 0 .. Len(w[b]) :
          Cell(w[b], b, k) \in Live(o) /\ ListOf(o, Cell(w[b], b, k)) = b
    <3>1. RingOf(l, o, b, w[b])
      BY OrderedCells
    <3>2. \A k \in 0 .. Len(w[b]) : k \in 0 .. Len(w[b]) + 1
      BY <2>2
    <3>3. \A k \in 0 .. Len(w[b]) + 1 :
            Cell(w[b], b, k) \in Live(o) /\ ListOf(o, Cell(w[b], b, k)) = b
      BY <3>1 DEF RingOf
    <3> QED BY <3>2, <3>3
  <2>4. \A k \in 0 .. Len(w[b]) : m.next[Cell(w[b], b, k)] = l.next[Cell(w[b], b, k)]
    BY <2>3
  <2> DEFINE f == l.next
             g == m.next
  <2>5. Threads(f, b, w[b]) /\ \A k \in 0 .. Len(w[b]) : g[Cell(w[b], b, k)] = f[Cell(w[b], b, k)]
    BY <2>1, <2>4
  <2> HIDE DEF f, g
  <2>6. Threads(g, b, w[b])
    BY <2>5, SameThreads
  <2> QED BY <2>6 DEF g
<1>3. \A b \in ListHeads : Threads(m.next, b, v[b])
  BY <1>1, <1>2
<1>4. ASSUME NEW b \in ListHeads, NEW n \in ListNodes PROVE q[n] = b <=> In(v[b], n)
  <2>1. CASE b = h
    BY <2>1, <1>1
  <2>2. CASE b # h
    <3>1. (q[n] = b <=> o[n] = b) /\ v[b] = w[b]
      BY <2>2, <1>1
    <3>2. o[n] = b <=> In(w[b], n)
      BY DEF Ordered
    <3> QED BY <3>1, <3>2
  <2> QED BY <2>1, <2>2
<1>5. Ordered(m, q, v)
  BY <1>1, <1>3, <1>4 DEF Ordered
<1> QED BY <1>5 DEF v

\* What the operations leave in a sequence.
LEMMA InInsertAt ==
  ASSUME NEW s \in Seq(ListNodes), NEW k \in 0 .. Len(s), NEW n \in ListNodes
  PROVE  \A x : In(InsertAt(s, k + 1, n), x) <=> x = n \/ In(s, x)
<1> DEFINE t == InsertAt(s, k + 1, n)
<1>1. /\ Len(s) \in Nat /\ k \in Nat /\ k + 1 \in 1 .. Len(s) + 1 /\ Len(t) = Len(s) + 1
      /\ \A j \in 1 .. Len(s) + 1 :
           t[j] = IF j < k + 1 THEN s[j] ELSE IF j = k + 1 THEN n ELSE s[j - 1]
  BY InsertAtIs
<1> HIDE DEF t
<1>2. \A j \in 1 .. Len(t) : t[j] = n \/ In(s, t[j])
  BY <1>1 DEF In
<1>3. In(t, n)
  <2>1. k + 1 \in 1 .. Len(t) /\ t[k + 1] = n
    BY <1>1
  <2> QED BY <2>1 DEF In
<1>4. ASSUME NEW j \in 1 .. Len(s) PROVE In(t, s[j])
  <2>1. CASE j < k + 1
    BY <2>1, <1>1 DEF In
  <2>2. CASE j >= k + 1
    <3>1. j + 1 \in 1 .. Len(t) /\ t[j + 1] = s[j]
      BY <2>2, <1>1
    <3> QED BY <3>1 DEF In
  <2> QED BY <2>1, <2>2, <1>1
<1>5. \A x : In(t, x) <=> x = n \/ In(s, x)
  BY <1>2, <1>3, <1>4 DEF In
<1> QED BY <1>5 DEF t

LEMMA InRemoveAt ==
  ASSUME NEW s \in Seq(ListNodes), NEW k \in 1 .. Len(s),
         \A i, j \in 1 .. Len(s) : s[i] = s[j] => i = j
  PROVE  \A x : In(RemoveAt(s, k), x) <=> x # s[k] /\ In(s, x)
<1> DEFINE t == RemoveAt(s, k)
<1>1. /\ Len(s) \in Nat /\ k \in Nat /\ k >= 1 /\ k <= Len(s) /\ Len(t) = Len(s) - 1
      /\ \A j \in 1 .. Len(s) - 1 : t[j] = IF j < k THEN s[j] ELSE s[j + 1]
  BY RemoveAtIs
<1> HIDE DEF t
<1>2. ASSUME NEW j \in 1 .. Len(t) PROVE t[j] # s[k] /\ In(s, t[j])
  <2>1. PICK i \in 1 .. Len(s) : i # k /\ t[j] = s[i]
    <3>1. CASE j < k
      <4>1. j \in 1 .. Len(s) /\ j # k /\ t[j] = s[j]
        BY <3>1, <1>1
      <4> QED BY <4>1
    <3>2. CASE j >= k
      <4>1. j + 1 \in 1 .. Len(s) /\ j + 1 # k /\ t[j] = s[j + 1]
        BY <3>2, <1>1
      <4> QED BY <4>1
    <3> QED BY <3>1, <3>2, <1>1
  <2> QED BY <2>1 DEF In
<1>3. ASSUME NEW j \in 1 .. Len(s), j # k PROVE In(t, s[j])
  <2>1. CASE j < k
    BY <2>1, <1>1 DEF In
  <2>2. CASE j > k
    <3>1. j - 1 \in 1 .. Len(t) /\ t[j - 1] = s[j]
      BY <2>2, <1>1
    <3> QED BY <3>1 DEF In
  <2> QED BY <2>1, <2>2, <1>1, <1>3
<1>4. \A x : In(t, x) <=> x # s[k] /\ In(s, x)
  BY <1>2, <1>3 DEF In
<1> QED BY <1>4 DEF t

LEMMA InReplaceAt ==
  ASSUME NEW s \in Seq(ListNodes), NEW k \in 1 .. Len(s), NEW n \in ListNodes,
         \A i, j \in 1 .. Len(s) : s[i] = s[j] => i = j
  PROVE  \A x : In(ReplaceAt(s, k, n), x) <=> x = n \/ (x # s[k] /\ In(s, x))
<1> DEFINE t == ReplaceAt(s, k, n)
<1>1. Len(t) = Len(s) /\ \A j \in 1 .. Len(s) : t[j] = IF j = k THEN n ELSE s[j]
  BY DEF ReplaceAt
<1> HIDE DEF t
<1>2. \A x : In(t, x) <=> x = n \/ (x # s[k] /\ In(s, x))
  BY <1>1 DEF In
<1> QED BY <1>2 DEF t

LEMMA InConcat ==
  ASSUME NEW a \in Seq(ListNodes), NEW b \in Seq(ListNodes)
  PROVE  \A x : In(a \o b, x) <=> In(a, x) \/ In(b, x)
<1> DEFINE t == a \o b
           m == Len(a)
           d == Len(b)
<1>1. /\ m \in Nat /\ d \in Nat /\ Len(t) = m + d
      /\ \A j \in 1 .. m : t[j] = a[j]
      /\ \A j \in 1 .. d : t[m + j] = b[j]
  BY ConcatIs
<1> HIDE DEF t
<1>2. ASSUME NEW j \in 1 .. Len(t) PROVE In(a, t[j]) \/ In(b, t[j])
  <2>1. CASE j \in 1 .. m
    BY <2>1, <1>1 DEF In
  <2>2. CASE j > m
    <3> DEFINE i == j - m
    <3>1. i \in 1 .. d /\ m + i = j
      BY <2>2, <1>1
    <3> HIDE DEF i
    <3>2. t[j] = b[i]
      BY <3>1, <1>1
    <3> QED BY <3>1, <3>2 DEF In
  <2> QED BY <2>1, <2>2, <1>1
<1>3. \A j \in 1 .. m : In(t, a[j])
  BY <1>1 DEF In
<1>4. ASSUME NEW j \in 1 .. d PROVE In(t, b[j])
  <2>1. m + j \in 1 .. Len(t) /\ t[m + j] = b[j]
    BY <1>1
  <2> QED BY <2>1 DEF In
<1> HIDE DEF m, d
<1>5. ASSUME NEW x PROVE In(t, x) <=> In(a, x) \/ In(b, x)
  <2>1. In(t, x) => In(a, x) \/ In(b, x)
    BY <1>2 DEF In
  <2>2. In(a, x) => In(t, x)
    BY <1>3 DEF In, m
  <2>3. In(b, x) => In(t, x)
    BY <1>4 DEF In, d
  <2> QED BY <2>1, <2>2, <2>3
<1> QED BY <1>5 DEF t

\* list_add_after puts n behind the k-th cell of a list; list_add_before puts
\* it in front of the next.
LEMMA AfterOrdered ==
  ASSUME NEW l, NEW o, NEW w, Rings(l, o), Ordered(l, o, w), NEW h \in ListHeads,
         NEW k \in 0 .. Len(w[h]), NEW n \in ListNodes \ Listed(o)
  PROVE  Ordered(AfterLinks(l, Cell(w[h], h, k), n), [o EXCEPT ![n] = h],
                 [w EXCEPT ![h] = InsertAt(w[h], k + 1, n)])
<1> DEFINE s == w[h]
           p == Cell(s, h, k)
           m == AfterLinks(l, p, n)
           q == [o EXCEPT ![n] = h]
           t == InsertAt(s, k + 1, n)
<1>1. /\ Threads(l.next, h, s) /\ s \in Seq(ListNodes) /\ l.next \in [Cells -> Cells]
      /\ o \in [ListNodes -> ListHeads \cup {NoHead}] /\ o[n] = NoHead /\ n \notin ListHeads
      /\ \A x \in ListNodes : o[x] = h <=> In(s, x)
      /\ Len(s) \in Nat
  BY ListAssumption DEF Ordered, Rings, Links, Listed
<1>2. \A j \in 1 .. Len(s) : s[j] # n
  BY <1>1, ListAssumption DEF In
<1>3. p \in Live(o) /\ ListOf(o, p) = h /\ p \in Cells /\ n \in Cells /\ n \notin Live(o)
  <2>1. k \in 0 .. Len(s) + 1
    BY <1>1
  <2>2. RingOf(l, o, h, s)
    BY OrderedCells
  <2>3. p \in Live(o) /\ ListOf(o, p) = h
    BY <2>1, <2>2 DEF RingOf
  <2> QED BY <2>3, <1>1 DEF Live, Listed, Cells
<1>4. m.next = [l.next EXCEPT ![n] = l.next[p], ![p] = n]
  BY DEF AfterLinks
<1>5. Threads(m.next, h, t)
  <2> DEFINE f == l.next
  <2>1. f \in [Cells -> Cells] /\ Threads(f, h, s)
    BY <1>1
  <2> HIDE DEF f, s, m
  <2>2. Threads([f EXCEPT ![n] = f[Cell(s, h, k)], ![Cell(s, h, k)] = n], h, t)
    <3>1. k \in 0 .. Len(s) /\ n \in ListNodes
      BY DEF s
    <3> QED BY <2>1, <3>1, <1>2, InsertThreads
  <2> QED BY <2>2, <1>4 DEF f
<1>6. \A c \in Live(o) : ListOf(o, c) # h => m.next[c] = l.next[c]
  <2> HIDE DEF p, m
  <2>1. \A c \in Live(o) : c \in Cells
    BY DEF Live, Listed, Cells
  <2> QED BY <2>1, <1>1, <1>3, <1>4
<1>7. \A x \in ListNodes : q[x] = h <=> In(t, x)
  <2>1. \A x : In(t, x) <=> x = n \/ In(s, x)
    BY <1>1, InInsertAt
  <2> HIDE DEF t
  <2> QED BY <2>1, <1>1
<1>8. \A x \in ListNodes : \A b \in ListHeads \ {h} : q[x] = b <=> o[x] = b
  BY <1>1, ListAssumption
<1> HIDE DEF m, q, t, s, p
<1>9. Ordered(m, q, [w EXCEPT ![h] = t])
  <2>1. Changes(l, o, w, h, m, q, t)
    BY <1>5, <1>6, <1>7, <1>8 DEF Changes
  <2> QED BY <2>1, ChangeOne
<1> QED BY <1>9 DEF m, q, t, s, p

LEMMA BeforeOrdered ==
  ASSUME NEW l, NEW o, NEW w, Rings(l, o), Ordered(l, o, w), NEW h \in ListHeads,
         NEW k \in 0 .. Len(w[h]), NEW n \in ListNodes \ Listed(o)
  PROVE  Ordered(BeforeLinks(l, Cell(w[h], h, k + 1), n), [o EXCEPT ![n] = h],
                 [w EXCEPT ![h] = InsertAt(w[h], k + 1, n)])
<1> DEFINE p == Cell(w[h], h, k + 1)
<1>1. l.prev[p] = Cell(w[h], h, k) /\ l.next[l.prev[p]] = p
  <2>1. RingOf(l, o, h, w[h])
    BY OrderedCells
  <2> QED BY <2>1 DEF RingOf
<1>2. BeforeLinks(l, p, n) = AfterLinks(l, Cell(w[h], h, k), n)
  BY <1>1 DEF BeforeLinks, AfterLinks
<1>3. Ordered(AfterLinks(l, Cell(w[h], h, k), n), [o EXCEPT ![n] = h],
              [w EXCEPT ![h] = InsertAt(w[h], k + 1, n)])
  BY AfterOrdered
<1> QED BY <1>2, <1>3

\* n is taken out when the cell before it points at the one after it.
LEMMA DelOrdered ==
  ASSUME NEW l, NEW o, NEW w, Rings(l, o), Ordered(l, o, w), NEW h \in ListHeads,
         NEW k \in 1 .. Len(w[h]), NEW m,
         m.next[l.prev[w[h][k]]] = l.next[w[h][k]],
         \A c \in Live(o) \ {w[h][k], l.prev[w[h][k]]} : m.next[c] = l.next[c]
  PROVE  Ordered(m, [o EXCEPT ![w[h][k]] = NoHead], [w EXCEPT ![h] = RemoveAt(w[h], k)])
<1> DEFINE s == w[h]
           n == s[k]
           q == [o EXCEPT ![n] = NoHead]
           t == RemoveAt(s, k)
<1>1. /\ Threads(l.next, h, s) /\ s \in Seq(ListNodes) /\ n \in ListNodes
      /\ o \in [ListNodes -> ListHeads \cup {NoHead}] /\ NoHead \notin ListHeads
      /\ \A x \in ListNodes : o[x] = h <=> In(s, x)
      /\ Len(s) \in Nat /\ k \in Nat /\ k >= 1 /\ k <= Len(s)
      /\ \A i, j \in 1 .. Len(s) : s[i] = s[j] => i = j
  BY ListAssumption DEF Ordered, Rings, Links, Threads
<1>2. n = Cell(s, h, k) /\ l.prev[n] = Cell(s, h, k - 1) /\ o[n] = h
  <2>1. k - 1 \in 0 .. Len(s) /\ (k - 1) + 1 = k
    BY <1>1
  <2>2. \A j \in 0 .. Len(s) : l.prev[Cell(s, h, j + 1)] = Cell(s, h, j)
    <3>1. RingOf(l, o, h, s)
      BY OrderedCells
    <3> QED BY <3>1 DEF RingOf
  <2>3. n = Cell(s, h, k)
    BY DEF Cell
  <2>4. In(s, n)
    BY DEF In
  <2> HIDE DEF n, s
  <2>5. l.prev[Cell(s, h, (k - 1) + 1)] = Cell(s, h, k - 1)
    BY <2>1, <2>2
  <2> QED BY <2>1, <2>3, <2>4, <2>5, <1>1
<1>3. \A j \in 0 .. Len(s) : Cell(s, h, j) \in Live(o) /\ ListOf(o, Cell(s, h, j)) = h
  <2>1. RingOf(l, o, h, s)
    BY OrderedCells
  <2> HIDE DEF s
  <2> QED BY <2>1, <1>1 DEF RingOf
<1>4. m.next[l.prev[n]] = l.next[n]
      /\ \A c \in Live(o) \ {n, l.prev[n]} : m.next[c] = l.next[c]
  OBVIOUS
<1> HIDE DEF s, n
<1>5. Threads(m.next, h, t)
  <2> DEFINE f == l.next
             g == m.next
  <2>1. \A i, j \in 0 .. Len(s) : Cell(s, h, i) = Cell(s, h, j) => i = j
    BY <1>1, ThreadCells
  <2>2. k - 1 \in 0 .. Len(s) /\ k \in 0 .. Len(s)
    BY <1>1
  <2>3. \A j \in 0 .. Len(s) : j # k - 1 /\ j # k => g[Cell(s, h, j)] = f[Cell(s, h, j)]
    BY <2>1, <2>2, <1>2, <1>3, <1>4
  <2>4. g[Cell(s, h, k - 1)] = f[s[k]] /\ Threads(f, h, s) /\ k \in 1 .. Len(s)
    BY <1>1, <1>2, <1>4 DEF n
  <2> HIDE DEF f, g, t
  <2>5. Threads(g, h, t)
    BY <2>3, <2>4, RemoveThreads DEF t
  <2> QED BY <2>5 DEF g
<1>6. \A c \in Live(o) : ListOf(o, c) # h => m.next[c] = l.next[c]
  <2>1. k - 1 \in 0 .. Len(s) /\ k \in 0 .. Len(s)
    BY <1>1
  <2>2. ListOf(o, n) = h /\ ListOf(o, l.prev[n]) = h
    BY <2>1, <1>2, <1>3
  <2> QED BY <2>2, <1>4
<1>7. \A x \in ListNodes : q[x] = h <=> In(t, x)
  <2>1. \A x : In(t, x) <=> x # n /\ In(s, x)
    BY <1>1, InRemoveAt DEF n
  <2> HIDE DEF t
  <2> QED BY <2>1, <1>1
<1>8. \A x \in ListNodes : \A b \in ListHeads \ {h} : q[x] = b <=> o[x] = b
  BY <1>1, <1>2
<1> HIDE DEF q, t
<1>9. Ordered(m, q, [w EXCEPT ![h] = t])
  <2>1. Changes(l, o, w, h, m, q, t)
    BY <1>5, <1>6, <1>7, <1>8 DEF Changes
  <2> QED BY <2>1, ChangeOne
<1> QED BY <1>9 DEF q, t, s, n

\* list_swap puts n where the k-th node was.
LEMMA SwapOrdered ==
  ASSUME NEW l, NEW o, NEW w, Rings(l, o), Ordered(l, o, w), NEW h \in ListHeads,
         NEW k \in 1 .. Len(w[h]), NEW n \in ListNodes \ Listed(o)
  PROVE  Ordered(SwapLinks(l, w[h][k], n), [o EXCEPT ![n] = o[w[h][k]], ![w[h][k]] = NoHead],
                 [w EXCEPT ![h] = ReplaceAt(w[h], k, n)])
<1> DEFINE s == w[h]
           x == s[k]
           m == SwapLinks(l, x, n)
           q == [o EXCEPT ![n] = o[x], ![x] = NoHead]
           t == ReplaceAt(s, k, n)
<1>1. /\ Threads(l.next, h, s) /\ s \in Seq(ListNodes) /\ x \in ListNodes
      /\ o \in [ListNodes -> ListHeads \cup {NoHead}] /\ NoHead \notin ListHeads
      /\ \A y \in ListNodes : o[y] = h <=> In(s, y)
      /\ Len(s) \in Nat /\ k \in Nat /\ k >= 1 /\ k <= Len(s)
      /\ \A i, j \in 1 .. Len(s) : s[i] = s[j] => i = j
      /\ o[n] = NoHead /\ n \notin ListHeads /\ l.next \in [Cells -> Cells]
  BY ListAssumption DEF Ordered, Rings, Links, Threads, Listed
<1>2. x = Cell(s, h, k) /\ l.prev[x] = Cell(s, h, k - 1) /\ o[x] = h
  <2>1. k - 1 \in 0 .. Len(s) /\ (k - 1) + 1 = k
    BY <1>1
  <2>2. \A j \in 0 .. Len(s) : l.prev[Cell(s, h, j + 1)] = Cell(s, h, j)
    <3>1. RingOf(l, o, h, s)
      BY OrderedCells
    <3> QED BY <3>1 DEF RingOf
  <2>3. x = Cell(s, h, k)
    BY DEF Cell
  <2>4. In(s, x)
    BY DEF In
  <2> HIDE DEF x, s
  <2>5. l.prev[Cell(s, h, (k - 1) + 1)] = Cell(s, h, k - 1)
    BY <2>1, <2>2
  <2> QED BY <2>1, <2>3, <2>4, <2>5, <1>1
<1>3. \A j \in 0 .. Len(s) : Cell(s, h, j) \in Live(o) /\ ListOf(o, Cell(s, h, j)) = h
  <2>1. RingOf(l, o, h, s)
    BY OrderedCells
  <2> HIDE DEF s
  <2> QED BY <2>1, <1>1 DEF RingOf
<1>4. \A j \in 1 .. Len(s) : s[j] # n
  BY <1>1, ListAssumption DEF In
<1> HIDE DEF s, x
<1>5. /\ \A c \in Live(o) : c \in Cells /\ c # n
      /\ n \in Cells /\ l.prev[x] \in Live(o) /\ x # n
  <2>1. k - 1 \in 0 .. Len(s)
    BY <1>1
  <2>2. l.prev[x] \in Live(o)
    BY <2>1, <1>2, <1>3
  <2> QED BY <2>2, <1>1, <1>2, ListAssumption DEF Live, Listed, Cells
<1>6. m.next[l.prev[x]] = n /\ m.next[n] = l.next[x]
      /\ \A c \in Live(o) \ {l.prev[x]} : m.next[c] = l.next[c]
  <2>1. m.next = [l.next EXCEPT ![n] = l.next[x], ![l.prev[x]] = n]
    BY DEF SwapLinks
  <2> HIDE DEF m
  <2> QED BY <2>1, <1>1, <1>5
<1>7. Threads(m.next, h, t)
  <2> DEFINE f == l.next
             g == m.next
  <2>1. \A i, j \in 0 .. Len(s) : Cell(s, h, i) = Cell(s, h, j) => i = j
    BY <1>1, ThreadCells
  <2>2. k - 1 \in 0 .. Len(s) /\ k \in 0 .. Len(s)
    BY <1>1
  <2> HIDE DEF m
  <2>3. \A j \in 0 .. Len(s) : j # k - 1 /\ j # k => g[Cell(s, h, j)] = f[Cell(s, h, j)]
    BY <2>1, <2>2, <1>2, <1>3, <1>6
  <2>4. g[Cell(s, h, k - 1)] = n /\ g[n] = f[s[k]] /\ Threads(f, h, s) /\ k \in 1 .. Len(s)
    BY <1>1, <1>2, <1>6 DEF x
  <2> HIDE DEF f, g, t
  <2>5. n \in ListNodes
    OBVIOUS
  <2>6. Threads(g, h, t)
    BY <2>3, <2>4, <2>5, <1>4, ReplaceThreads DEF t
  <2> QED BY <2>6 DEF g
<1>8. \A c \in Live(o) : ListOf(o, c) # h => m.next[c] = l.next[c]
  <2>1. k - 1 \in 0 .. Len(s)
    BY <1>1
  <2>2. ListOf(o, l.prev[x]) = h
    BY <2>1, <1>2, <1>3
  <2> QED BY <2>2, <1>6
<1>9. \A y \in ListNodes : q[y] = h <=> In(t, y)
  <2>1. \A y : In(t, y) <=> y = n \/ (y # x /\ In(s, y))
    <3>1. k \in 1 .. Len(s) /\ n \in ListNodes
      BY <1>1
    <3> QED BY <1>1, <3>1, InReplaceAt DEF x
  <2>2. q[n] = h /\ q[x] = NoHead /\ \A y \in ListNodes \ {n, x} : q[y] = o[y]
    BY <1>1, <1>2, <1>5
  <2>3. \A y \in ListNodes : o[y] = h <=> In(s, y)
    BY <1>1
  <2>4. NoHead # h
    BY <1>1
  <2> HIDE DEF t, q
  <2> QED BY <2>1, <2>2, <2>3, <2>4, <1>5
<1>10. \A y \in ListNodes : \A b \in ListHeads \ {h} : q[y] = b <=> o[y] = b
  BY <1>1, <1>2, <1>5
<1> HIDE DEF m, q, t
<1>11. Ordered(m, q, [w EXCEPT ![h] = t])
  <2>1. Changes(l, o, w, h, m, q, t)
    BY <1>7, <1>8, <1>9, <1>10 DEF Changes
  <2> QED BY <2>1, ChangeOne
<1> QED BY <1>11 DEF m, q, t, s, x

\* One list takes over what another had.
LEMMA JoinOrdered ==
  ASSUME NEW l, NEW o, NEW w, Rings(l, o), Ordered(l, o, w),
         NEW t \in ListHeads, NEW f \in ListHeads, t # f, NEW k, NEW v,
         Threads(k.next, t, v), k.next[f] = f,
         \A c \in Live(o) : ListOf(o, c) \notin {t, f} => k.next[c] = l.next[c],
         \A n \in ListNodes : In(v, n) <=> In(w[t], n) \/ In(w[f], n)
  PROVE  Ordered(k, Moved(o, t, f), [w EXCEPT ![t] = v, ![f] = <<>>])
<1> DEFINE u == [w EXCEPT ![t] = v, ![f] = <<>>]
           q == Moved(o, t, f)
<1>1. /\ u \in [ListHeads -> Seq(ListNodes)] /\ u[t] = v /\ u[f] = <<>>
      /\ \A b \in ListHeads \ {t, f} : u[b] = w[b]
  <2>1. v \in Seq(ListNodes) /\ <<>> \in Seq(ListNodes) /\ w \in [ListHeads -> Seq(ListNodes)]
    BY DEF Ordered, Threads
  <2> QED BY <2>1
<1> HIDE DEF u
<1>2. ASSUME NEW b \in ListHeads \ {t, f} PROVE Threads(k.next, b, w[b])
  <2>1. Threads(l.next, b, w[b])
    BY DEF Ordered
  <2>2. Len(w[b]) \in Nat
    BY <2>1, ThreadCells
  <2>3. \A j \in 0 .. Len(w[b]) :
          Cell(w[b], b, j) \in Live(o) /\ ListOf(o, Cell(w[b], b, j)) = b
    <3>1. RingOf(l, o, b, w[b])
      BY OrderedCells
    <3>2. \A j \in 0 .. Len(w[b]) : j \in 0 .. Len(w[b]) + 1
      BY <2>2
    <3>3. \A j \in 0 .. Len(w[b]) + 1 :
            Cell(w[b], b, j) \in Live(o) /\ ListOf(o, Cell(w[b], b, j)) = b
      BY <3>1 DEF RingOf
    <3> QED BY <3>2, <3>3
  <2> DEFINE d == l.next
             g == k.next
  <2>5. Threads(d, b, w[b]) /\ \A j \in 0 .. Len(w[b]) : g[Cell(w[b], b, j)] = d[Cell(w[b], b, j)]
    BY <2>1, <2>3
  <2> HIDE DEF d, g
  <2>6. Threads(g, b, w[b])
    BY <2>5, SameThreads
  <2> QED BY <2>6 DEF g
<1>3. Threads(k.next, f, <<>>)
  BY DEF Threads, Cell
<1>4. \A b \in ListHeads : Threads(k.next, b, u[b])
  BY <1>1, <1>2, <1>3
<1>5. ASSUME NEW b \in ListHeads, NEW n \in ListNodes PROVE q[n] = b <=> In(u[b], n)
  <2>1. q[n] = IF o[n] = f THEN t ELSE o[n]
    BY DEF Moved
  <2>2. \A c \in ListHeads : o[n] = c <=> In(w[c], n)
    BY DEF Ordered
  <2>3. CASE b = t
    BY <2>1, <2>2, <2>3, <1>1
  <2>4. CASE b = f
    BY <2>1, <2>4, <1>1 DEF In
  <2>5. CASE b \notin {t, f}
    BY <2>1, <2>2, <2>5, <1>1
  <2> QED BY <2>3, <2>4, <2>5
<1> HIDE DEF q
<1>6. Ordered(k, q, u)
  BY <1>1, <1>4, <1>5 DEF Ordered
<1> QED BY <1>6 DEF q, u

\* list_append_list and list_prepend_list put one sequence after the other.
LEMMA AppendOrdered ==
  ASSUME NEW l, NEW o, NEW w, Rings(l, o), Ordered(l, o, w),
         NEW t \in ListHeads, NEW f \in ListHeads, t # f
  PROVE  /\ Ordered(AppendLinks(l, t, f), Moved(o, t, f),
                    [w EXCEPT ![t] = w[t] \o w[f], ![f] = <<>>])
         /\ Ordered(PrependLinks(l, t, f), Moved(o, t, f),
                    [w EXCEPT ![t] = w[f] \o w[t], ![f] = <<>>])
<1> DEFINE a == w[t]
           b == w[f]
           ft == l.prev[f]
           f1 == l.next[f]
<1>1. /\ Threads(l.next, t, a) /\ Threads(l.next, f, b)
      /\ a \in Seq(ListNodes) /\ b \in Seq(ListNodes)
      /\ \A i, j \in 1 .. Len(a) : a[i] = a[j] => i = j
      /\ \A i, j \in 1 .. Len(b) : b[i] = b[j] => i = j
      /\ \A n \in ListNodes : (o[n] = t <=> In(a, n)) /\ (o[n] = f <=> In(b, n))
  BY DEF Ordered, Threads
<1>2. /\ \A k \in 0 .. Len(a) + 1 : Cell(a, t, k) \in Live(o) /\ ListOf(o, Cell(a, t, k)) = t
      /\ \A k \in 0 .. Len(a) : l.next[Cell(a, t, k)] = Cell(a, t, k + 1)
                                /\ l.prev[Cell(a, t, k + 1)] = Cell(a, t, k)
  <2>1. RingOf(l, o, t, a)
    BY OrderedCells
  <2> QED BY <2>1 DEF RingOf
<1>3. /\ \A k \in 0 .. Len(b) + 1 : Cell(b, f, k) \in Live(o) /\ ListOf(o, Cell(b, f, k)) = f
      /\ \A k \in 0 .. Len(b) : l.next[Cell(b, f, k)] = Cell(b, f, k + 1)
                                /\ l.prev[Cell(b, f, k + 1)] = Cell(b, f, k)
  <2>1. RingOf(l, o, f, b)
    BY OrderedCells
  <2> QED BY <2>1 DEF RingOf
<1> HIDE DEF a, b
<1>4. /\ Len(a) \in Nat /\ Cell(a, t, 0) = t /\ Cell(a, t, Len(a) + 1) = t
      /\ \A i \in 1 .. Len(a) : Cell(a, t, i) = a[i] /\ a[i] # t
      /\ \A i, j \in 0 .. Len(a) : Cell(a, t, i) = Cell(a, t, j) => i = j
  BY <1>1, ThreadCells
<1>5. /\ Len(b) \in Nat /\ Cell(b, f, 0) = f /\ Cell(b, f, Len(b) + 1) = f
      /\ \A i \in 1 .. Len(b) : Cell(b, f, i) = b[i] /\ b[i] # f
      /\ \A i, j \in 0 .. Len(b) : Cell(b, f, i) = Cell(b, f, j) => i = j
      /\ Cell(b, t, 0) = t /\ Cell(b, t, Len(b) + 1) = t
      /\ \A i \in 1 .. Len(b) : Cell(b, t, i) = b[i]
  <2>1. /\ Len(b) \in Nat /\ Cell(b, f, 0) = f /\ Cell(b, f, Len(b) + 1) = f
        /\ \A i \in 1 .. Len(b) : Cell(b, f, i) = b[i] /\ b[i] # f
        /\ \A i, j \in 0 .. Len(b) : Cell(b, f, i) = Cell(b, f, j) => i = j
    BY <1>1, ThreadCells
  <2> QED BY <2>1 DEF Cell
<1>6. \A i \in 1 .. Len(a), j \in 1 .. Len(b) : a[i] # b[j]
  <2>1. \A i \in 1 .. Len(a) : ListOf(o, a[i]) = t
    BY <1>2, <1>4
  <2>2. \A j \in 1 .. Len(b) : ListOf(o, b[j]) = f
    BY <1>3, <1>5
  <2> QED BY <2>1, <2>2
<1>7. /\ ft = Cell(b, f, Len(b)) /\ f1 = Cell(b, f, 1)
      /\ ft \in Live(o) /\ ListOf(o, ft) = f /\ f \in Live(o) /\ ListOf(o, f) = f
      /\ t \in Live(o) /\ ListOf(o, t) = t
  <2>1. 0 \in 0 .. Len(b) /\ Len(b) \in 0 .. Len(b) /\ Len(b) \in 0 .. Len(b) + 1
        /\ 0 + 1 = 1
    BY <1>5
  <2>2. l.prev[Cell(b, f, Len(b) + 1)] = Cell(b, f, Len(b))
    BY <2>1, <1>3
  <2>3. l.next[Cell(b, f, 0)] = Cell(b, f, 0 + 1)
    BY <2>1, <1>3
  <2>4. Cell(b, f, Len(b)) \in Live(o) /\ ListOf(o, Cell(b, f, Len(b))) = f
    BY <2>1, <1>3
  <2>5. f \in Live(o) /\ ListOf(o, f) = f /\ t \in Live(o) /\ ListOf(o, t) = t
    BY DEF Live, ListOf
  <2> QED BY <2>1, <2>2, <2>3, <2>4, <2>5, <1>5
<1>8. \A c \in Live(o) : c \in Cells
  BY DEF Live, Listed, Cells
<1> HIDE DEF ft, f1
<1>9. CASE Len(b) = 0
  <2>1. l.next[f] = f
    BY <1>5, <1>7, <1>9 DEF f1
  <2>2. b = <<>>
    BY <1>1, <1>9
  <2>3. ASSUME NEW x \in Live(o), ListOf(o, x) = t
        PROVE  \A c \in Cells : JoinLinks(l, x, f).next[c] = l.next[c]
    BY <2>1, <2>3, JoinNothing
  <2>4. ASSUME NEW k, \A c \in Cells : k.next[c] = l.next[c]
        PROVE  /\ Ordered(k, Moved(o, t, f), [w EXCEPT ![t] = a \o b, ![f] = <<>>])
               /\ Ordered(k, Moved(o, t, f), [w EXCEPT ![t] = b \o a, ![f] = <<>>])
    <3>1. Threads(k.next, t, a)
      <4> DEFINE d == l.next
                 g == k.next
      <4>1. \A j \in 0 .. Len(a) : j \in 0 .. Len(a) + 1
        BY <1>4
      <4>2. Threads(d, t, a) /\ \A j \in 0 .. Len(a) : g[Cell(a, t, j)] = d[Cell(a, t, j)]
        BY <4>1, <2>4, <1>1, <1>2, <1>8
      <4> HIDE DEF d, g
      <4>3. Threads(g, t, a)
        BY <4>2, SameThreads
      <4> QED BY <4>3 DEF g
    <3>2. a \o b = a /\ b \o a = a
      BY <2>2, <1>1
    <3>3. k.next[f] = f /\ \A c \in Live(o) : k.next[c] = l.next[c]
      BY <2>1, <2>4, <1>7, <1>8
    <3>4. \A n \in ListNodes : In(a, n) <=> In(w[t], n) \/ In(w[f], n)
      BY <1>9 DEF In, a, b
    <3>5. Ordered(k, Moved(o, t, f), [w EXCEPT ![t] = a, ![f] = <<>>])
      BY <3>1, <3>3, <3>4, JoinOrdered
    <3> QED BY <3>2, <3>5
  <2>5. \A c \in Cells : AppendLinks(l, t, f).next[c] = l.next[c]
                         /\ PrependLinks(l, t, f).next[c] = l.next[c]
    BY <2>3, AppendJoins
  <2> QED BY <2>4, <2>5 DEF a, b
<1>10. CASE Len(b) # 0
  <2>1. /\ Len(b) \in 1 .. Len(b) /\ 1 \in 1 .. Len(b)
        /\ ft = b[Len(b)] /\ f1 = b[1] /\ ft # f /\ f1 # f
    BY <1>5, <1>7, <1>10
  <2>2. ASSUME NEW x \in Live(o), ListOf(o, x) = t, NEW k, k = JoinLinks(l, x, f)
        PROVE  /\ k.next[f] = f /\ k.next[ft] = l.next[x] /\ k.next[x] = f1
               /\ \A c \in Cells \ {f, ft, x} : k.next[c] = l.next[c]
    <3>1. l.next[f] # f
      BY <2>1 DEF f1
    <3>2. Joined(l, k, f, ft, f1, x, l.next[x])
      BY <3>1, <2>2, JoinJoins DEF ft, f1
    <3> QED BY <3>2 DEF Joined
  <2>3. \A j \in 1 .. Len(b) - 1 :
          b[j] \in Live(o) /\ ListOf(o, b[j]) = f /\ b[j] # ft /\ b[j] # f
          /\ l.next[b[j]] = b[j + 1]
    <3> TAKE j \in 1 .. Len(b) - 1
    <3>1. j \in 1 .. Len(b) /\ j + 1 \in 1 .. Len(b) /\ j \in 0 .. Len(b)
          /\ j \in 0 .. Len(b) + 1 /\ j # Len(b)
      BY <1>5
    <3> QED BY <3>1, <2>1, <1>1, <1>3, <1>5
  <2>4. ASSUME NEW k, k = AppendLinks(l, t, f)
        PROVE  Ordered(k, Moved(o, t, f), [w EXCEPT ![t] = a \o b, ![f] = <<>>])
    <3> DEFINE x == l.prev[t]
               g == k.next
    <3>1. /\ k = JoinLinks(l, x, f) /\ x \in Live(o) /\ ListOf(o, x) = t /\ l.next[x] = t
      BY <2>4, AppendJoins
    <3>2. x = Cell(a, t, Len(a))
      <4>1. Len(a) \in 0 .. Len(a)
        BY <1>4
      <4>2. l.prev[Cell(a, t, Len(a) + 1)] = Cell(a, t, Len(a))
        BY <4>1, <1>2
      <4> QED BY <4>2, <1>4
    <3> HIDE DEF x
    <3>3. /\ k.next[f] = f /\ k.next[ft] = t /\ k.next[x] = f1
          /\ \A c \in Cells \ {f, ft, x} : k.next[c] = l.next[c]
      BY <3>1, <2>2
    <3>4. \A j \in 0 .. Len(a) - 1 : g[Cell(a, t, j)] = Cell(a, t, j + 1)
      <4> TAKE j \in 0 .. Len(a) - 1
      <4>1. j \in 0 .. Len(a) /\ j \in 0 .. Len(a) + 1 /\ j # Len(a) /\ Len(a) \in 0 .. Len(a)
        BY <1>4
      <4>2. Cell(a, t, j) # x
        BY <4>1, <3>2, <1>4
      <4>3. Cell(a, t, j) \in Live(o) /\ ListOf(o, Cell(a, t, j)) = t
            /\ l.next[Cell(a, t, j)] = Cell(a, t, j + 1)
        BY <4>1, <1>2
      <4> QED BY <4>2, <4>3, <3>3, <1>7, <1>8
    <3>5. g[Cell(a, t, Len(a))] = Cell(b, t, 1)
      BY <3>2, <3>3, <2>1, <1>5
    <3>6. \A j \in 1 .. Len(b) : g[Cell(b, t, j)] = Cell(b, t, j + 1)
      <4> TAKE j \in 1 .. Len(b)
      <4>1. CASE j = Len(b)
        BY <4>1, <3>3, <2>1, <1>5
      <4>2. CASE j # Len(b)
        <5>1. j \in 1 .. Len(b) - 1 /\ j + 1 \in 1 .. Len(b)
          BY <4>2, <1>5
        <5>2. b[j] \in Cells \ {f, ft, x} /\ l.next[b[j]] = b[j + 1]
          BY <5>1, <2>3, <3>1, <1>8
        <5> QED BY <5>1, <5>2, <3>3, <1>5
      <4> QED BY <4>1, <4>2
    <3> HIDE DEF g
    <3>7. Threads(g, t, a \o b)
      BY <3>4, <3>5, <3>6, <1>1, <1>6, ConcatThreads
    <3>8. \A n \in ListNodes : In(a \o b, n) <=> In(w[t], n) \/ In(w[f], n)
      BY <1>1, InConcat DEF a, b
    <3>9. \A c \in Live(o) : ListOf(o, c) \notin {t, f} => k.next[c] = l.next[c]
      BY <3>1, <3>3, <1>7, <1>8
    <3> QED BY <3>3, <3>7, <3>8, <3>9, JoinOrdered DEF g
  <2>5. ASSUME NEW k, k = PrependLinks(l, t, f)
        PROVE  Ordered(k, Moved(o, t, f), [w EXCEPT ![t] = b \o a, ![f] = <<>>])
    <3> DEFINE g == k.next
    <3>1. k = JoinLinks(l, t, f)
      BY <2>5, AppendJoins
    <3>2. l.next[t] = Cell(a, t, 1)
      <4>1. 0 \in 0 .. Len(a) /\ 0 + 1 = 1
        BY <1>4
      <4>2. l.next[Cell(a, t, 0)] = Cell(a, t, 0 + 1)
        BY <4>1, <1>2
      <4> QED BY <4>1, <4>2, <1>4
    <3>3. /\ k.next[f] = f /\ k.next[ft] = Cell(a, t, 1) /\ k.next[t] = f1
          /\ \A c \in Cells \ {f, ft, t} : k.next[c] = l.next[c]
      BY <3>1, <3>2, <2>2, <1>7
    <3>4. \A j \in 0 .. Len(b) - 1 : g[Cell(b, t, j)] = Cell(b, t, j + 1)
      <4> TAKE j \in 0 .. Len(b) - 1
      <4>1. CASE j = 0
        BY <4>1, <3>3, <2>1, <1>5
      <4>2. CASE j # 0
        <5>1. j \in 1 .. Len(b) - 1 /\ j \in 1 .. Len(b) /\ j + 1 \in 1 .. Len(b)
          BY <4>2, <1>5
        <5>2. b[j] \in Cells \ {f, ft, t} /\ l.next[b[j]] = b[j + 1]
          BY <5>1, <2>3, <1>7, <1>8
        <5> QED BY <5>1, <5>2, <3>3, <1>5
      <4> QED BY <4>1, <4>2
    <3>5. g[Cell(b, t, Len(b))] = Cell(a, t, 1)
      BY <3>3, <2>1, <1>5
    <3>6. \A j \in 1 .. Len(a) : g[Cell(a, t, j)] = Cell(a, t, j + 1)
      <4> TAKE j \in 1 .. Len(a)
      <4>1. j \in 0 .. Len(a) /\ j \in 0 .. Len(a) + 1
        BY <1>4
      <4>2. Cell(a, t, j) \in Live(o) /\ ListOf(o, Cell(a, t, j)) = t
            /\ l.next[Cell(a, t, j)] = Cell(a, t, j + 1) /\ Cell(a, t, j) # t
        BY <4>1, <1>2, <1>4
      <4> QED BY <4>2, <3>3, <1>7, <1>8
    <3>0. \A i \in 1 .. Len(b), j \in 1 .. Len(a) : b[i] # a[j]
      BY <1>6
    <3> HIDE DEF g
    <3>7. Threads(g, t, b \o a)
      BY <3>0, <3>4, <3>5, <3>6, <1>1, ConcatThreads
    <3>8. \A n \in ListNodes : In(b \o a, n) <=> In(w[t], n) \/ In(w[f], n)
      BY <1>1, InConcat DEF a, b
    <3>9. \A c \in Live(o) : ListOf(o, c) \notin {t, f} => k.next[c] = l.next[c]
      BY <3>3, <1>7, <1>8
    <3> QED BY <3>3, <3>7, <3>8, <3>9, JoinOrdered DEF g
  <2> QED BY <2>4, <2>5 DEF a, b
<1> QED BY <1>5, <1>9, <1>10

\* Sequences are the same when their entries are.
LEMMA SameSeq ==
  ASSUME NEW S, NEW a \in Seq(S), NEW b \in Seq(S), Len(a) = Len(b),
         \A j \in 1 .. Len(b) : a[j] = b[j]
  PROVE  a = b
OBVIOUS

\* The ends of a sequence.
LEMMA Ends ==
  ASSUME NEW s \in Seq(ListNodes), NEW n \in ListNodes
  PROVE  /\ InsertAt(s, 1, n) = <<n>> \o s
         /\ InsertAt(s, Len(s) + 1, n) = Append(s, n)
         /\ s # <<>> => RemoveAt(s, 1) = Tail(s) /\ Head(s) = s[1]
<1>1. InsertAt(s, 1, n) = <<n>> \o s
  <2> DEFINE a == InsertAt(s, 1, n)
             b == <<n>> \o s
  <2>1. a \in Seq(ListNodes) /\ Len(a) = Len(s) + 1
        /\ \A j \in 1 .. Len(s) + 1 : a[j] = IF j < 1 THEN s[j] ELSE IF j = 1 THEN n ELSE s[j - 1]
    BY InsertAtIs
  <2>2. b \in Seq(ListNodes) /\ Len(b) = Len(s) + 1
        /\ \A j \in 1 .. Len(s) + 1 : b[j] = IF j = 1 THEN n ELSE s[j - 1]
    OBVIOUS
  <2> HIDE DEF a, b
  <2>3. \A j \in 1 .. Len(b) : a[j] = b[j]
    BY <2>1, <2>2
  <2>4. a = b
    BY <2>1, <2>2, <2>3, SameSeq
  <2> QED BY <2>4 DEF a, b
<1>2. InsertAt(s, Len(s) + 1, n) = Append(s, n)
  <2> DEFINE m == Len(s)
  <2>1. m \in Nat /\ (m + 1) - 1 = m
    OBVIOUS
  <2>2. SubSeq(s, 1, m) = s /\ SubSeq(s, m + 1, m) = <<>>
    OBVIOUS
  <2>3. (s \o <<n>>) \o <<>> = Append(s, n)
    OBVIOUS
  <2>4. InsertAt(s, m + 1, n) = SubSeq(s, 1, (m + 1) - 1) \o <<n>> \o SubSeq(s, m + 1, m)
    BY DEF InsertAt
  <2> HIDE DEF m
  <2>5. InsertAt(s, m + 1, n) = Append(s, n)
    BY <2>1, <2>2, <2>3, <2>4
  <2> QED BY <2>5 DEF m
<1>3. ASSUME s # <<>> PROVE RemoveAt(s, 1) = Tail(s) /\ Head(s) = s[1]
  <2> DEFINE a == RemoveAt(s, 1)
             b == Tail(s)
  <2>0. Len(s) \in Nat /\ 1 \in 1 .. Len(s)
    BY <1>3
  <2>1. a \in Seq(ListNodes) /\ Len(a) = Len(s) - 1
        /\ \A j \in 1 .. Len(s) - 1 : a[j] = IF j < 1 THEN s[j] ELSE s[j + 1]
    BY <2>0, RemoveAtIs
  <2>2. b \in Seq(ListNodes) /\ Len(b) = Len(s) - 1
        /\ \A j \in 1 .. Len(s) - 1 : b[j] = s[j + 1]
    BY <1>3, <2>0
  <2> HIDE DEF a, b
  <2>3. \A j \in 1 .. Len(b) : a[j] = b[j]
    BY <2>0, <2>1, <2>2
  <2>4. a = b
    BY <2>1, <2>2, <2>3, SameSeq
  <2> QED BY <1>3, <2>4 DEF a, b
<1> QED BY <1>1, <1>2, <1>3

\* Where a node is in a sequence of distinct ones.
LEMMA AtIs ==
  ASSUME NEW s \in Seq(ListNodes), \A i, j \in 1 .. Len(s) : s[i] = s[j] => i = j,
         NEW k \in 1 .. Len(s)
  PROVE  Order!At(s, s[k]) = k /\ s[k] \in ToSet(s)
BY DEF Order!At, ToSet

\* The lists as the pointers have them.
LEMMA OrderedWalk ==
  ASSUME NEW l, NEW o, NEW w, Rings(l, o), Ordered(l, o, w)
  PROVE  w = [h \in ListHeads |-> Walk(l, "next", h)]
<1>1. ASSUME NEW h \in ListHeads PROVE Walk(l, "next", h) = w[h]
  <2>1. l \in Links /\ Threads(l["next"], h, w[h])
    BY DEF Ordered, Rings
  <2> QED BY <2>1, WalkIs
<1> QED BY <1>1 DEF Ordered

\* The calls that add, at sequence w[h].
LEMMA AddOrdered ==
  ASSUME NEW l, NEW o, NEW w, Rings(l, o), Ordered(l, o, w), NEW h \in ListHeads,
         NEW n \in ListNodes \ Listed(o)
  PROVE  /\ Ordered(AfterLinks(l, h, n), [o EXCEPT ![n] = h], [w EXCEPT ![h] = <<n>> \o w[h]])
         /\ Ordered(BeforeLinks(l, h, n), [o EXCEPT ![n] = h],
                    [w EXCEPT ![h] = Append(w[h], n)])
         /\ \A k \in 1 .. Len(w[h]) :
              /\ Ordered(AfterLinks(l, w[h][k], n), [o EXCEPT ![n] = h],
                         [w EXCEPT ![h] = InsertAt(w[h], k + 1, n)])
              /\ Ordered(BeforeLinks(l, w[h][k], n), [o EXCEPT ![n] = h],
                         [w EXCEPT ![h] = InsertAt(w[h], k, n)])
<1>1. w[h] \in Seq(ListNodes) /\ Threads(l.next, h, w[h]) /\ n \in ListNodes
  BY DEF Ordered
<1>2. /\ Len(w[h]) \in Nat
      /\ \A i \in 1 .. Len(w[h]) : Cell(w[h], h, i) = w[h][i]
      /\ Cell(w[h], h, 0) = h /\ Cell(w[h], h, Len(w[h]) + 1) = h
  BY <1>1, ThreadCells
<1>3. InsertAt(w[h], 1, n) = <<n>> \o w[h] /\ InsertAt(w[h], Len(w[h]) + 1, n) = Append(w[h], n)
  BY <1>1, Ends
<1>4. \A k \in 0 .. Len(w[h]) :
        /\ Ordered(AfterLinks(l, Cell(w[h], h, k), n), [o EXCEPT ![n] = h],
                   [w EXCEPT ![h] = InsertAt(w[h], k + 1, n)])
        /\ Ordered(BeforeLinks(l, Cell(w[h], h, k + 1), n), [o EXCEPT ![n] = h],
                   [w EXCEPT ![h] = InsertAt(w[h], k + 1, n)])
  BY AfterOrdered, BeforeOrdered
<1>5. Ordered(AfterLinks(l, h, n), [o EXCEPT ![n] = h], [w EXCEPT ![h] = <<n>> \o w[h]])
  <2>1. 0 \in 0 .. Len(w[h]) /\ 0 + 1 = 1
    BY <1>2
  <2>2. Ordered(AfterLinks(l, Cell(w[h], h, 0), n), [o EXCEPT ![n] = h],
                [w EXCEPT ![h] = InsertAt(w[h], 0 + 1, n)])
    BY <2>1, <1>4
  <2> QED BY <2>1, <2>2, <1>2, <1>3
<1>6. Ordered(BeforeLinks(l, h, n), [o EXCEPT ![n] = h], [w EXCEPT ![h] = Append(w[h], n)])
  <2>1. Len(w[h]) \in 0 .. Len(w[h])
    BY <1>2
  <2>2. Ordered(BeforeLinks(l, Cell(w[h], h, Len(w[h]) + 1), n), [o EXCEPT ![n] = h],
                [w EXCEPT ![h] = InsertAt(w[h], Len(w[h]) + 1, n)])
    BY <2>1, <1>4
  <2> QED BY <2>2, <1>2, <1>3
<1>7. ASSUME NEW k \in 1 .. Len(w[h])
      PROVE  /\ Ordered(AfterLinks(l, w[h][k], n), [o EXCEPT ![n] = h],
                        [w EXCEPT ![h] = InsertAt(w[h], k + 1, n)])
             /\ Ordered(BeforeLinks(l, w[h][k], n), [o EXCEPT ![n] = h],
                        [w EXCEPT ![h] = InsertAt(w[h], k, n)])
  <2>1. k \in 0 .. Len(w[h]) /\ k - 1 \in 0 .. Len(w[h]) /\ (k - 1) + 1 = k
    BY <1>2
  <2>2. Ordered(AfterLinks(l, Cell(w[h], h, k), n), [o EXCEPT ![n] = h],
                [w EXCEPT ![h] = InsertAt(w[h], k + 1, n)])
    BY <2>1, <1>4
  <2>3. Ordered(BeforeLinks(l, Cell(w[h], h, (k - 1) + 1), n), [o EXCEPT ![n] = h],
                [w EXCEPT ![h] = InsertAt(w[h], (k - 1) + 1, n)])
    BY <2>1, <1>4
  <2> QED BY <2>1, <2>2, <2>3, <1>2
<1> QED BY <1>5, <1>6, <1>7

\* The calls that delete.
LEMMA TakeOrdered ==
  ASSUME NEW l, NEW o, NEW w, Rings(l, o), Ordered(l, o, w), NEW h \in ListHeads,
         NEW k \in 1 .. Len(w[h])
  PROVE  /\ Ordered(DelLinks(l, w[h][k]), [o EXCEPT ![w[h][k]] = NoHead],
                    [w EXCEPT ![h] = RemoveAt(w[h], k)])
         /\ Ordered(InitLinks(DelLinks(l, w[h][k]), w[h][k]), [o EXCEPT ![w[h][k]] = NoHead],
                    [w EXCEPT ![h] = RemoveAt(w[h], k)])
<1> DEFINE n == w[h][k]
           d == DelLinks(l, n)
           e == InitLinks(d, n)
           v == [w EXCEPT ![h] = RemoveAt(w[h], k)]
           q == [o EXCEPT ![n] = NoHead]
<1>1. n \in ListNodes /\ o[n] = h
  BY DEF Ordered, In
<1>2. n \in Listed(o) /\ n \in Live(o)
  BY <1>1, ListAssumption DEF Listed, Live
<1>3. l.prev[n] # n /\ l.prev[n] \in Live(o)
  <2>1. l["prev"][n] \in Live(o) /\ l["prev"][n] # n
    BY <1>2, Follow
  <2> QED BY <2>1
<1>4. \A c \in Live(o) : c \in Cells
  BY DEF Live, Listed, Cells
<1>5. l \in Links
  BY DEF Rings
<1>6. d.next = [l.next EXCEPT ![l.prev[n]] = l.next[n]]
      /\ e.next = [d.next EXCEPT ![n] = n]
  BY DEF DelLinks, InitLinks
<1> HIDE DEF n, d, e
<1>7. d.next[l.prev[n]] = l.next[n] /\ \A c \in Live(o) \ {n, l.prev[n]} : d.next[c] = l.next[c]
  BY <1>3, <1>4, <1>5, <1>6 DEF Links
<1>8. e.next[l.prev[n]] = l.next[n] /\ \A c \in Live(o) \ {n, l.prev[n]} : e.next[c] = l.next[c]
  BY <1>3, <1>4, <1>5, <1>6 DEF Links
<1>9. Ordered(d, q, v)
  BY <1>7, DelOrdered DEF n
<1>10. Ordered(e, q, v)
  BY <1>8, DelOrdered DEF n
<1> QED BY <1>9, <1>10 DEF n, d, e

Walks == [h \in ListHeads |-> Walk(links, "next", h)]

\* Every list is what the pointers show of it.
WalksOrdered == Ordered(links, on, Walks)

\* A node off the lists is in none of the sequences.
LEMMA Unlisted ==
  ASSUME NEW l, NEW o, NEW w, Rings(l, o), Ordered(l, o, w), NEW n \in ListNodes \ Listed(o)
  PROVE  n \notin UNION {ToSet(w[b]) : b \in ListHeads}
<1> SUFFICES ASSUME NEW b \in ListHeads, n \in ToSet(w[b]) PROVE FALSE
  OBVIOUS
<1>1. In(w[b], n)
  BY DEF In, ToSet, Ordered
<1>2. o[n] = b
  BY <1>1 DEF Ordered
<1> QED BY <1>2, ListAssumption DEF Listed

\* Where a listed node is.
LEMMA ListedAt ==
  ASSUME NEW l, NEW o, NEW w, Rings(l, o), Ordered(l, o, w), NEW n \in Listed(o)
  PROVE  o[n] \in ListHeads /\ \E k \in 1 .. Len(w[o[n]]) : n = w[o[n]][k]
<1>1. o[n] \in ListHeads
  BY DEF Listed, Rings
<1>2. RingOf(l, o, o[n], w[o[n]])
  BY <1>1, OrderedCells
<1> QED BY <1>1, <1>2 DEF RingOf

\* A call that leaves the pointers so is the abstract step that leaves v.
LEMMA CallWalks ==
  ASSUME ListInv', NEW v, Ordered(links', on', v)
  PROVE  WalksOrdered' /\ Walks' = v
<1>1. Rings(links', on')
  BY DEF ListInv, ListsAreRings
<1>2. v = [h \in ListHeads |-> Walk(links', "next", h)]
  BY <1>1, OrderedWalk
<1> QED BY <1>2 DEF Walks, WalksOrdered

\* The abstract steps, of the sequences before and after and the call.
InsertBy(w, v, c) ==
  \E h \in ListHeads, n \in ListNodes :
    /\ \/ c = <<"list_add", h, n>> /\ v = [w EXCEPT ![h] = <<n>> \o @]
       \/ c = <<"list_add_tail", h, n>> /\ v = [w EXCEPT ![h] = Append(@, n)]
    /\ n \notin UNION {ToSet(w[b]) : b \in ListHeads}

InsertNearBy(w, v, c) ==
  \E h \in ListHeads, p, n \in ListNodes :
    /\ c \in {<<f, p, n>> : f \in {"list_add_after", "list_add_before", "list_swap"}}
    /\ p \in ToSet(w[h]) /\ n \notin UNION {ToSet(w[b]) : b \in ListHeads}
    /\ LET s == w[h]
           k == Order!At(s, p)
       IN v = [w EXCEPT ![h] =
            CASE c[1] = "list_add_after" -> InsertAt(s, k + 1, n)
              [] c[1] = "list_add_before" -> InsertAt(s, k, n)
              [] c[1] = "list_swap" -> ReplaceAt(s, k, n)]

DeleteBy(w, v, c) ==
  \E h \in ListHeads, n \in ListNodes :
    /\ c \in {<<"list_del", n>>, <<"list_del_init", n>>}
    /\ n \in ToSet(w[h])
    /\ v = [w EXCEPT ![h] = RemoveAt(@, Order!At(@, n))]

\* They are the steps of ListOrder.
LEMMA StepsAre ==
  /\ InsertBy(Walks, Walks', call') => Order!Insert
  /\ InsertNearBy(Walks, Walks', call') => Order!InsertNear
  /\ DeleteBy(Walks, Walks', call') => Order!Delete
<1>1. InsertBy(Walks, Walks', call') => Order!Insert
  BY DEF InsertBy, Walks, Order!Insert, Order!Linked, ToSet, Order!ToSet
<1>2. InsertNearBy(Walks, Walks', call') => Order!InsertNear
  BY DEF InsertNearBy, Walks, Order!InsertNear, Order!Linked, ToSet, Order!ToSet,
         InsertAt, Order!InsertAt, ReplaceAt, Order!ReplaceAt
<1>3. DeleteBy(Walks, Walks', call') => Order!Delete
  BY DEF DeleteBy, Walks, Order!Delete, ToSet, Order!ToSet, RemoveAt, Order!RemoveAt
<1> QED BY <1>1, <1>2, <1>3

\* Every step of the list functions is a step of the sequences, or a stutter.
LEMMA ListRefines ==
  ListInv /\ WalksOrdered /\ [ListNext]_lvars /\ ListInv'
    => WalksOrdered' /\ [Order!OrderNext]_<<Walks, call>>
<1> SUFFICES ASSUME ListInv, WalksOrdered, [ListNext]_lvars, ListInv'
             PROVE  WalksOrdered' /\ [Order!OrderNext]_<<Walks, call>>
  OBVIOUS
<1> DEFINE w == Walks
<1>0. Rings(links, on) /\ Ordered(links, on, w)
  BY DEF ListInv, ListsAreRings, WalksOrdered
<1>13. w \in [ListHeads -> Seq(ListNodes)]
      /\ \A h \in ListHeads : \A i, j \in 1 .. Len(w[h]) : w[h][i] = w[h][j] => i = j
  BY <1>0 DEF Ordered, Threads
<1> HIDE DEF w
<1>1. ASSUME NEW h \in ListHeads, NEW n \in ListNodes \ Listed(on),
             ListAdd(h, n) \/ ListAddTail(h, n)
      PROVE  WalksOrdered' /\ Order!OrderNext
  <2>1. n \in ListNodes /\ n \notin UNION {ToSet(w[b]) : b \in ListHeads}
    BY <1>0, Unlisted
  <2>2. CASE ListAdd(h, n)
    <3>1. links' = AfterLinks(links, h, n) /\ on' = [on EXCEPT ![n] = h]
          /\ call' = <<"list_add", h, n>>
      BY <2>2 DEF ListAdd, Call, Put
    <3>2. Ordered(links', on', [w EXCEPT ![h] = <<n>> \o w[h]])
      BY <3>1, <1>0, AddOrdered
    <3>3. WalksOrdered' /\ Walks' = [w EXCEPT ![h] = <<n>> \o w[h]]
      BY <3>2, CallWalks
    <3>4. Order!Insert
      <4>1. InsertBy(w, Walks', call')
        BY <2>1, <3>1, <3>3 DEF InsertBy
      <4> QED BY <4>1, StepsAre DEF w
    <3> QED BY <3>3, <3>4 DEF Order!OrderNext
  <2>3. CASE ListAddTail(h, n)
    <3>1. links' = BeforeLinks(links, h, n) /\ on' = [on EXCEPT ![n] = h]
          /\ call' = <<"list_add_tail", h, n>>
      BY <2>3 DEF ListAddTail, Call, Put
    <3>2. Ordered(links', on', [w EXCEPT ![h] = Append(w[h], n)])
      BY <3>1, <1>0, AddOrdered
    <3>3. WalksOrdered' /\ Walks' = [w EXCEPT ![h] = Append(w[h], n)]
      BY <3>2, CallWalks
    <3>4. Order!Insert
      <4>1. InsertBy(w, Walks', call')
        BY <2>1, <3>1, <3>3 DEF InsertBy
      <4> QED BY <4>1, StepsAre DEF w
    <3> QED BY <3>3, <3>4 DEF Order!OrderNext
  <2> QED BY <1>1, <2>2, <2>3
<1>2. ASSUME NEW p \in Listed(on), NEW n \in ListNodes \ Listed(on),
             ListAddAfter(p, n) \/ ListAddBefore(p, n) \/ ListSwap(p, n)
      PROVE  WalksOrdered' /\ Order!OrderNext
  <2> DEFINE h == on[p]
             s == w[h]
  <2>1. n \in ListNodes /\ n \notin UNION {ToSet(w[b]) : b \in ListHeads}
    BY <1>0, Unlisted
  <2>2. h \in ListHeads /\ \E k \in 1 .. Len(s) : p = s[k]
    BY <1>0, ListedAt
  <2>3. PICK k \in 1 .. Len(s) : p = s[k]
    BY <2>2
  <2>4. s \in Seq(ListNodes) /\ p \in ListNodes
    BY <2>2, <1>13 DEF Listed
  <2>5. Order!At(s, p) = k /\ p \in ToSet(s)
    BY <2>2, <2>3, <2>4, <1>13, AtIs
  <2>6. ASSUME NEW c, NEW t, call' = c, Walks' = [w EXCEPT ![h] = t],
               c \in {<<f, p, n>> : f \in {"list_add_after", "list_add_before", "list_swap"}},
               c[1] = "list_add_after" => t = InsertAt(s, k + 1, n),
               c[1] = "list_add_before" => t = InsertAt(s, k, n),
               c[1] = "list_swap" => t = ReplaceAt(s, k, n)
        PROVE  Order!InsertNear
    <3> HIDE DEF h
    <3>1. t = CASE c[1] = "list_add_after" -> InsertAt(s, k + 1, n)
                [] c[1] = "list_add_before" -> InsertAt(s, k, n)
                [] c[1] = "list_swap" -> ReplaceAt(s, k, n)
      BY <2>6
    <3>2. InsertNearBy(w, Walks', call')
      BY <2>1, <2>2, <2>4, <2>5, <2>6, <3>1 DEF InsertNearBy
    <3> QED BY <3>2, StepsAre DEF w
  <2>7. CASE ListAddAfter(p, n)
    <3>1. links' = AfterLinks(links, p, n) /\ on' = [on EXCEPT ![n] = h]
          /\ call' = <<"list_add_after", p, n>>
      BY <2>7 DEF ListAddAfter, Call, Put
    <3>2. Ordered(links', on', [w EXCEPT ![h] = InsertAt(s, k + 1, n)])
      BY <3>1, <2>2, <2>3, <1>0, AddOrdered
    <3>3. WalksOrdered' /\ Walks' = [w EXCEPT ![h] = InsertAt(s, k + 1, n)]
      BY <3>2, CallWalks
    <3>4. Order!InsertNear
      BY <2>6, <3>1, <3>3
    <3> QED BY <3>3, <3>4 DEF Order!OrderNext
  <2>8. CASE ListAddBefore(p, n)
    <3>1. links' = BeforeLinks(links, p, n) /\ on' = [on EXCEPT ![n] = h]
          /\ call' = <<"list_add_before", p, n>>
      BY <2>8 DEF ListAddBefore, Call, Put
    <3>2. Ordered(links', on', [w EXCEPT ![h] = InsertAt(s, k, n)])
      BY <3>1, <2>2, <2>3, <1>0, AddOrdered
    <3>3. WalksOrdered' /\ Walks' = [w EXCEPT ![h] = InsertAt(s, k, n)]
      BY <3>2, CallWalks
    <3>4. Order!InsertNear
      BY <2>6, <3>1, <3>3
    <3> QED BY <3>3, <3>4 DEF Order!OrderNext
  <2>9. CASE ListSwap(p, n)
    <3>1. links' = SwapLinks(links, p, n) /\ on' = [on EXCEPT ![n] = on[p], ![p] = NoHead]
          /\ call' = <<"list_swap", p, n>>
      BY <2>9 DEF ListSwap, Call
    <3>2. Ordered(links', on', [w EXCEPT ![h] = ReplaceAt(s, k, n)])
      BY <3>1, <2>2, <2>3, <1>0, SwapOrdered
    <3>3. WalksOrdered' /\ Walks' = [w EXCEPT ![h] = ReplaceAt(s, k, n)]
      BY <3>2, CallWalks
    <3>4. Order!InsertNear
      BY <2>6, <3>1, <3>3
    <3> QED BY <3>3, <3>4 DEF Order!OrderNext
  <2> QED BY <1>2, <2>7, <2>8, <2>9
<1>3. ASSUME NEW n \in Listed(on), on' = Off(n),
             links' \in {DelLinks(links, n), InitLinks(DelLinks(links, n), n)}
      PROVE  WalksOrdered' /\ on[n] \in ListHeads /\ n \in ListNodes
             /\ n \in ToSet(w[on[n]])
             /\ Walks' = [w EXCEPT ![on[n]] = RemoveAt(w[on[n]], Order!At(w[on[n]], n))]
  <2> DEFINE h == on[n]
             s == w[h]
  <2>1. h \in ListHeads /\ \E k \in 1 .. Len(s) : n = s[k]
    BY <1>0, ListedAt
  <2>2. PICK k \in 1 .. Len(s) : n = s[k]
    BY <2>1
  <2>3. s \in Seq(ListNodes) /\ n \in ListNodes
    BY <2>1, <1>13 DEF Listed
  <2>4. Order!At(s, n) = k /\ n \in ToSet(s)
    BY <2>1, <2>2, <2>3, <1>13, AtIs
  <2>5. on' = [on EXCEPT ![n] = NoHead]
    BY <1>3 DEF Off, Put
  <2>6. Ordered(links', on', [w EXCEPT ![h] = RemoveAt(s, k)])
    <3> HIDE DEF h
    <3>1. /\ Ordered(DelLinks(links, w[h][k]), [on EXCEPT ![w[h][k]] = NoHead],
                     [w EXCEPT ![h] = RemoveAt(w[h], k)])
          /\ Ordered(InitLinks(DelLinks(links, w[h][k]), w[h][k]),
                     [on EXCEPT ![w[h][k]] = NoHead], [w EXCEPT ![h] = RemoveAt(w[h], k)])
      BY <1>0, <2>1, TakeOrdered
    <3> QED BY <3>1, <1>3, <2>2, <2>5
  <2>7. WalksOrdered' /\ Walks' = [w EXCEPT ![h] = RemoveAt(s, k)]
    BY <2>6, CallWalks
  <2> QED BY <2>1, <2>3, <2>4, <2>7
<1>4. ASSUME NEW n \in Listed(on), on' = Off(n),
             links' \in {DelLinks(links, n), InitLinks(DelLinks(links, n), n)},
             call' \in {<<"list_del", n>>, <<"list_del_init", n>>}
      PROVE  WalksOrdered' /\ Order!OrderNext
  <2>1. WalksOrdered' /\ on[n] \in ListHeads /\ n \in ListNodes
        /\ n \in ToSet(w[on[n]])
        /\ Walks' = [w EXCEPT ![on[n]] = RemoveAt(w[on[n]], Order!At(w[on[n]], n))]
    BY <1>3, <1>4
  <2>2. Order!Delete
    <3>1. DeleteBy(w, Walks', call')
      BY <1>4, <2>1 DEF DeleteBy
    <3> QED BY <3>1, StepsAre DEF w
  <2> QED BY <2>1, <2>2 DEF Order!OrderNext
<1>5. ASSUME NEW n \in Listed(on), ListDel(n) \/ ListDelInit(n) \/ ListDelFrom(on[n], n)
      PROVE  WalksOrdered' /\ Order!OrderNext
  BY <1>4, <1>5 DEF ListDel, ListDelInit, ListDelFrom, Call
<1>6. ASSUME NEW h \in ListHeads, ListPop(h)
      PROVE  WalksOrdered' /\ Order!OrderNext
  <2> DEFINE n == links.next[h]
             s == w[h]
  <2>1. n # h /\ on' = Off(n) /\ links' = DelLinks(links, n) /\ call' = <<"list_pop", h, n>>
    BY <1>6 DEF ListPop, list_empty, Call
  <2>2. h \in Live(on) /\ ListOf(on, h) = h
    BY DEF Live, ListOf
  <2>3. n \in Listed(on) /\ on[n] = h
    <3>1. n \in Live(on) /\ ListOf(on, n) = h
      BY <1>0, <2>2 DEF Rings, Symmetric
    <3> QED BY <2>1, <3>1 DEF Live, ListOf
  <2>4. Threads(links.next, h, s) /\ s \in Seq(ListNodes)
    BY <1>0, <1>13 DEF Ordered
  <2>5. n = Cell(s, h, 1) /\ Len(s) \in Nat
    <3>1. Cell(s, h, 0) = h /\ Len(s) \in Nat
      BY <2>4, ThreadCells
    <3>2. 0 \in 0 .. Len(s) /\ 0 + 1 = 1
      BY <3>1
    <3>3. links.next[Cell(s, h, 0)] = Cell(s, h, 0 + 1)
      BY <2>4, <3>2 DEF Threads
    <3> QED BY <3>1, <3>2, <3>3
  <2>6. n = s[1] /\ s # <<>> /\ 1 \in 1 .. Len(s)
    BY <2>1, <2>4, <2>5 DEF Cell
  <2>7. Order!At(s, n) = 1
    BY <2>4, <2>6, <1>13, AtIs
  <2>8. RemoveAt(s, 1) = Tail(s) /\ Head(s) = n /\ n \in ListNodes
    BY <2>3, <2>4, <2>6, Ends DEF Listed
  <2> HIDE DEF n
  <2>9. WalksOrdered' /\ Walks' = [w EXCEPT ![on[n]] = RemoveAt(w[on[n]], Order!At(w[on[n]], n))]
    BY <1>3, <2>1, <2>3
  <2>10. Walks' = [w EXCEPT ![h] = Tail(s)]
    BY <2>3, <2>7, <2>8, <2>9
  <2>11. Order!Pop
    BY <2>1, <2>6, <2>8, <2>10 DEF Order!Pop, Walks, w
  <2> QED BY <2>9, <2>11 DEF Order!OrderNext
<1>7. ASSUME NEW t \in ListHeads, NEW f \in ListHeads, t # f,
             ListAppend(t, f) \/ ListPrepend(t, f)
      PROVE  WalksOrdered' /\ Order!OrderNext
  <2>1. CASE ListAppend(t, f)
    <3>1. links' = AppendLinks(links, t, f) /\ on' = Moved(on, t, f)
          /\ call' = <<"list_append_list", t, f>>
      BY <2>1 DEF ListAppend, Call
    <3>2. Ordered(links', on', [w EXCEPT ![t] = w[t] \o w[f], ![f] = <<>>])
      BY <3>1, <1>0, <1>7, AppendOrdered
    <3>3. WalksOrdered' /\ Walks' = [w EXCEPT ![t] = w[t] \o w[f], ![f] = <<>>]
      BY <3>2, CallWalks
    <3>4. Order!Move
      BY <1>7, <3>1, <3>3 DEF Order!Move, Walks, w
    <3> QED BY <3>3, <3>4 DEF Order!OrderNext
  <2>2. CASE ListPrepend(t, f)
    <3>1. links' = PrependLinks(links, t, f) /\ on' = Moved(on, t, f)
          /\ call' = <<"list_prepend_list", t, f>>
      BY <2>2 DEF ListPrepend, Call
    <3>2. Ordered(links', on', [w EXCEPT ![t] = w[f] \o w[t], ![f] = <<>>])
      BY <3>1, <1>0, <1>7, AppendOrdered
    <3>3. WalksOrdered' /\ Walks' = [w EXCEPT ![t] = w[f] \o w[t], ![f] = <<>>]
      BY <3>2, CallWalks
    <3>4. Order!Move
      BY <1>7, <3>1, <3>3 DEF Order!Move, Walks, w
    <3> QED BY <3>3, <3>4 DEF Order!OrderNext
  <2> QED BY <1>7, <2>1, <2>2
<1>8. ASSUME UNCHANGED <<links, on, call>>
      PROVE  WalksOrdered' /\ UNCHANGED <<Walks, call>>
  BY <1>8 DEF WalksOrdered, Walks
<1>9. ASSUME Body PROVE WalksOrdered' /\ [Order!OrderNext]_<<Walks, call>>
  <2>1. loop.on /\ loop.i # loop.h /\ loop.i \in Live(on) /\ ListOf(on, loop.i) = loop.h
    BY <1>9 DEF Body, ListInv, LoopInside
  <2>2. loop.i \in Listed(on)
    BY <2>1 DEF Live, ListOf
  <2> QED BY <1>4, <1>8, <1>9, <2>2 DEF Body
<1>10. ASSUME NEW h \in ListHeads, NEW dir \in {"next", "prev"}, ForEach(h, dir)
       PROVE  WalksOrdered' /\ UNCHANGED <<Walks, call>>
  BY <1>8, <1>10 DEF ForEach
<1>11. ASSUME EndLoop PROVE WalksOrdered' /\ UNCHANGED <<Walks, call>>
  BY <1>8, <1>11 DEF EndLoop
<1>12. ASSUME UNCHANGED lvars PROVE WalksOrdered' /\ UNCHANGED <<Walks, call>>
  BY <1>8, <1>12 DEF lvars
<1>14. ASSUME NEW n \in ListNodes \ Listed(on), ListDelAgain(n)
       PROVE  WalksOrdered' /\ Order!OrderNext
  <2>1. links' = links /\ on' = on /\ call' \in {<<"list_del", n>>, <<"list_del_init", n>>}
    BY <1>0, <1>14, DelAgainIs
  <2>2. n \in ListNodes /\ n \notin UNION {ToSet(w[b]) : b \in ListHeads}
    BY <1>0, Unlisted
  <2>3. WalksOrdered' /\ UNCHANGED Walks
    BY <2>1 DEF WalksOrdered, Walks
  <2>4. Order!DeleteAgain
    BY <2>1, <2>2, <2>3 DEF Order!DeleteAgain, Order!Linked, ToSet, Order!ToSet, Walks, w
  <2> QED BY <2>3, <2>4 DEF Order!OrderNext
<1> QED BY <1>1, <1>2, <1>5, <1>6, <1>7, <1>9, <1>10, <1>11, <1>12, <1>14 DEF ListNext

\* At first every list is empty.
LEMMA WalksInit == ListInit => WalksOrdered /\ Walks = [h \in ListHeads |-> <<>>]
<1> SUFFICES ASSUME ListInit PROVE WalksOrdered /\ Walks = [h \in ListHeads |-> <<>>]
  OBVIOUS
<1> DEFINE v == [h \in ListHeads |-> <<>>]
<1>1. \A h \in ListHeads : Threads(links.next, h, v[h])
  BY DEF ListInit, Threads, Cell, Cells
<1>2. Ordered(links, on, v)
  BY <1>1, ListAssumption DEF Ordered, In, ListInit
<1>3. Rings(links, on)
  BY ListInitInv DEF ListInv, ListsAreRings
<1>4. v = Walks
  BY <1>2, <1>3, OrderedWalk DEF Walks
<1> QED BY <1>2, <1>4 DEF WalksOrdered

\* Call by call, ccan/list does to the pointers what ListOrder says of the
\* sequences: insertion at either end or next to an entry, replacement,
\* deletion, the first entry taken, and a whole list put before or after
\* another (ccan/list/list.h).
THEOREM ListImplementsOrder == ListSpec => ListIsOrder
<1>1. ListInit => Order!OrderInit
  BY WalksInit DEF ListInit, Order!OrderInit, Walks
<1>2. ListInv /\ WalksOrdered /\ [ListNext]_lvars /\ ListInv'
        => [Order!OrderNext]_<<[h \in ListHeads |-> Walk(links, "next", h)], call>>
  BY ListRefines DEF Walks
<1> QED BY <1>1, <1>2, WalksInit, ListRefines, ListInitInv, ListStepInv, PTL
        DEF ListSpec, ListIsOrder, Order!OrderSpec

-----------------------------------------------------------------------------
\* Loops.

\* The other way round a ring is the reverse.
LEMMA ReverseThreads ==
  ASSUME NEW f, NEW g, NEW h \in ListHeads, NEW s, Threads(f, h, s),
         \A k \in 0 .. Len(s) : g[Cell(s, h, k + 1)] = Cell(s, h, k)
  PROVE  Threads(g, h, Reverse(s))
<1> DEFINE t == Reverse(s)
           n == Len(s)
<1>1. /\ s \in Seq(ListNodes) /\ n \in Nat
      /\ \A i \in 1 .. n : s[i] \in ListNodes
      /\ \A i, j \in 1 .. n : s[i] = s[j] => i = j
  BY DEF Threads
<1>2. t \in Seq(ListNodes) /\ Len(t) = n /\ \A j \in 1 .. n : t[j] = s[(n - j) + 1]
  BY <1>1 DEF Reverse
<1>3. \A k \in 0 .. n : g[Cell(s, h, k + 1)] = Cell(s, h, k)
  OBVIOUS
<1>4. Cell(s, h, 0) = h /\ Cell(s, h, n + 1) = h /\ \A i \in 1 .. n : Cell(s, h, i) = s[i]
  BY <1>1 DEF Cell
<1> HIDE DEF t, n
<1>5. \A j \in 0 .. n : (n - j) + 1 \in Nat /\ n - j \in 0 .. n /\ n - j \in Nat
  BY <1>1
<1>6. \A i, j \in 1 .. n : t[i] = t[j] => i = j
  <2> TAKE i, j \in 1 .. n
  <2>1. (n - i) + 1 \in 1 .. n /\ (n - j) + 1 \in 1 .. n
    BY <1>1
  <2>2. t[i] = t[j] => (n - i) + 1 = (n - j) + 1
    BY <2>1, <1>1, <1>2
  <2>3. (n - i) + 1 = (n - j) + 1 => i = j
    BY <1>1
  <2> QED BY <2>2, <2>3
<1>7. \A j \in 0 .. n + 1 : Cell(t, h, j) = Cell(s, h, (n - j) + 1)
  <2> TAKE j \in 0 .. n + 1
  <2>1. CASE j = 0
    <3>1. (n - j) + 1 = n + 1
      BY <2>1, <1>1
    <3> QED BY <2>1, <3>1, <1>4 DEF Cell
  <2>2. CASE j = n + 1
    <3>1. (n - j) + 1 = 0 /\ j \notin 1 .. n
      BY <2>2, <1>1
    <3> QED BY <3>1, <1>2, <1>4 DEF Cell
  <2>3. CASE j \in 1 .. n
    <3>1. (n - j) + 1 \in 1 .. n
      BY <2>3, <1>1
    <3> QED BY <2>3, <3>1, <1>2, <1>4 DEF Cell
  <2> QED BY <2>1, <2>2, <2>3, <1>1
<1>8. \A k \in 0 .. n : g[Cell(t, h, k)] = Cell(t, h, k + 1)
  <2> TAKE k \in 0 .. n
  <2>1. k \in 0 .. n + 1 /\ k + 1 \in 0 .. n + 1 /\ n - k \in 0 .. n /\ (n - (k + 1)) + 1 = n - k
    BY <1>1
  <2>2. Cell(t, h, k) = Cell(s, h, (n - k) + 1) /\ Cell(t, h, k + 1) = Cell(s, h, n - k)
    BY <2>1, <1>7
  <2> DEFINE i == n - k
  <2>3. i \in 0 .. n
    BY <2>1
  <2> HIDE DEF i
  <2>4. g[Cell(s, h, i + 1)] = Cell(s, h, i)
    BY <2>3, <1>3
  <2> QED BY <2>2, <2>4 DEF i
<1>9. Threads(g, h, t)
  BY <1>2, <1>6, <1>8 DEF Threads
<1> QED BY <1>9 DEF t

\* Either way, what a loop sets out to give its body is the ring.
LEMMA WalkThreads ==
  ASSUME NEW l, NEW o, NEW w, Rings(l, o), Ordered(l, o, w), NEW h \in ListHeads,
         NEW dir \in {"next", "prev"}
  PROVE  Threads(l[dir], h, Walk(l, dir, h))
<1>1. l \in Links /\ Threads(l.next, h, w[h])
  BY DEF Rings, Ordered
<1>2. CASE dir = "next"
  <2>1. Threads(l[dir], h, w[h])
    BY <1>1, <1>2
  <2> QED BY <2>1, <1>1, WalkIs
<1>3. CASE dir = "prev"
  <2> DEFINE f == l.next
             g == l.prev
             s == w[h]
  <2>1. Threads(f, h, s) /\ \A k \in 0 .. Len(s) : g[Cell(s, h, k + 1)] = Cell(s, h, k)
    <3>1. RingOf(l, o, h, s)
      BY OrderedCells
    <3> QED BY <1>1, <3>1 DEF RingOf
  <2> HIDE DEF f, g, s
  <2>2. Threads(g, h, Reverse(s))
    BY <2>1, ReverseThreads
  <2>3. Threads(l[dir], h, Reverse(s))
    BY <2>2, <1>3 DEF g
  <2>4. Walk(l, dir, h) = Reverse(s)
    BY <2>3, <1>1, WalkIs
  <2> QED BY <2>3, <2>4
<1> QED BY <1>2, <1>3

\* Where a loop over h stands that has given seen of s: at the next of s, and
\* the pointers of those to come lead through the rest.
Stands(p, h, s, seen, i) ==
  /\ s \in Seq(ListNodes) /\ seen \in Seq(ListNodes) /\ Len(seen) <= Len(s)
  /\ \A j, k \in 1 .. Len(s) : s[j] = s[k] => j = k
  /\ \A j \in 1 .. Len(seen) : seen[j] = s[j]
  /\ i = Cell(s, h, Len(seen) + 1)
  /\ \A j \in Len(seen) + 1 .. Len(s) : p[s[j]] = Cell(s, h, j + 1)

LoopStands ==
  loop.on => Stands(links[loop.dir], loop.h, loop.want, loop.seen, loop.i)

\* A body that is given i and changes no pointer of those to come.
LEMMA StandsOn ==
  ASSUME NEW p, NEW q, NEW h \in ListHeads, NEW s, NEW seen, NEW i, Stands(p, h, s, seen, i),
         i # h, \A j \in Len(seen) + 2 .. Len(s) : q[s[j]] = p[s[j]]
  PROVE  Stands(q, h, s, Append(seen, i), p[i])
<1> DEFINE k == Len(seen)
           t == Append(seen, i)
<1>1. /\ s \in Seq(ListNodes) /\ seen \in Seq(ListNodes) /\ Len(s) \in Nat /\ k \in Nat
      /\ k <= Len(s) /\ i = Cell(s, h, k + 1)
  BY DEF Stands
<1>2. k + 1 \in 1 .. Len(s) /\ i = s[k + 1] /\ i \in ListNodes
  BY <1>1 DEF Cell
<1>3. /\ t \in Seq(ListNodes) /\ Len(t) = k + 1 /\ t[k + 1] = i
      /\ \A j \in 1 .. k : t[j] = seen[j]
  BY <1>1, <1>2
<1>4. \A j \in 1 .. Len(t) : t[j] = s[j]
  <2>1. \A j \in 1 .. k : seen[j] = s[j]
    BY DEF Stands
  <2> HIDE DEF t, k
  <2> QED BY <2>1, <1>1, <1>2, <1>3
<1>5. \A j \in k + 1 .. Len(s) : p[s[j]] = Cell(s, h, j + 1)
  BY DEF Stands
<1>6. p[i] = Cell(s, h, Len(t) + 1)
  <2>1. k + 1 \in k + 1 .. Len(s)
    BY <1>1, <1>2
  <2> HIDE DEF t, k
  <2> QED BY <2>1, <1>2, <1>3, <1>5
<1>7. \A j \in Len(t) + 1 .. Len(s) : q[s[j]] = Cell(s, h, j + 1)
  <2>1. \A j \in k + 2 .. Len(s) : q[s[j]] = p[s[j]]
    OBVIOUS
  <2> HIDE DEF t, k
  <2>2. \A j \in Len(t) + 1 .. Len(s) : j \in k + 2 .. Len(s) /\ j \in k + 1 .. Len(s)
    BY <1>1, <1>3
  <2> QED BY <2>1, <2>2, <1>5
<1>8. \A j, m \in 1 .. Len(s) : s[j] = s[m] => j = m
  BY DEF Stands
<1>9. Len(t) <= Len(s)
  BY <1>1, <1>2, <1>3
<1> HIDE DEF t
<1>10. Stands(q, h, s, t, p[i])
  BY <1>1, <1>3, <1>4, <1>6, <1>7, <1>8, <1>9 DEF Stands
<1> QED BY <1>10 DEF t

\* To take i off changes no pointer of those to come.
LEMMA StandsOff ==
  ASSUME NEW l, NEW o, Rings(l, o), NEW dir \in {"next", "prev"}, NEW h \in ListHeads,
         NEW s, NEW seen, NEW i \in Listed(o), Stands(l[dir], h, s, seen, i)
  PROVE  \A j \in Len(seen) + 2 .. Len(s) :
           InitLinks(DelLinks(l, i), i)[dir][s[j]] = l[dir][s[j]]
<1> DEFINE d == DelLinks(l, i)
           e == InitLinks(d, i)
           k == Len(seen)
<1>1. /\ s \in Seq(ListNodes) /\ Len(s) \in Nat /\ k \in Nat /\ k <= Len(s)
      /\ i = Cell(s, h, k + 1)
      /\ \A j, m \in 1 .. Len(s) : s[j] = s[m] => j = m
      /\ \A j \in k + 1 .. Len(s) : l[dir][s[j]] = Cell(s, h, j + 1)
  BY DEF Stands
<1>2. i \in Live(o) /\ i # h /\ i \in Cells /\ l \in Links
  BY ListAssumption DEF Listed, Live, Cells, Rings
<1>3. k + 1 \in 1 .. Len(s) /\ i = s[k + 1]
  BY <1>1, <1>2 DEF Cell
<1>4. l.next[l.prev[i]] = i /\ l.prev[l.next[i]] = i
  BY <1>2 DEF Rings, Symmetric
<1>5. e.next = [[l.next EXCEPT ![l.prev[i]] = l.next[i]] EXCEPT ![i] = i]
      /\ e.prev = [[l.prev EXCEPT ![l.next[i]] = l.prev[i]] EXCEPT ![i] = i]
  BY DEF DelLinks, InitLinks
<1>6. /\ \A c \in Cells \ {i, l.prev[i]} : e.next[c] = l.next[c]
      /\ \A c \in Cells \ {i, l.next[i]} : e.prev[c] = l.prev[c]
  <2> HIDE DEF e
  <2> QED BY <1>2, <1>5 DEF Links
<1> HIDE DEF e, k
<1>7. ASSUME NEW j \in k + 2 .. Len(s) PROVE e[dir][s[j]] = l[dir][s[j]]
  <2>1. j \in 1 .. Len(s) /\ j # k + 1 /\ j \in k + 1 .. Len(s) /\ j + 1 # k + 1
    BY <1>1
  <2>2. s[j] \in Cells /\ s[j] # i
    BY <2>1, <1>1, <1>3 DEF Cells
  <2>3. l[dir][s[j]] # i
    <3>1. l[dir][s[j]] = Cell(s, h, j + 1)
      BY <2>1, <1>1
    <3>2. CASE j + 1 \in 1 .. Len(s)
      BY <2>1, <3>1, <3>2, <1>1, <1>3 DEF Cell
    <3>3. CASE j + 1 \notin 1 .. Len(s)
      BY <3>1, <3>3, <1>2 DEF Cell
    <3> QED BY <3>2, <3>3
  <2>4. CASE dir = "next"
    BY <2>2, <2>3, <2>4, <1>4, <1>6
  <2>5. CASE dir = "prev"
    BY <2>2, <2>3, <2>5, <1>4, <1>6
  <2> QED BY <2>4, <2>5
<1> QED BY <1>7 DEF e, k

\* Every step keeps the loop where its body may rely on it.
LEMMA StandsStep ==
  ListInv /\ WalksOrdered /\ LoopStands /\ [ListNext]_lvars => LoopStands'
<1> SUFFICES ASSUME ListInv, WalksOrdered, LoopStands, [ListNext]_lvars PROVE LoopStands'
  OBVIOUS
<1>0. Rings(links, on) /\ Ordered(links, on, Walks) /\ LoopInside
  BY DEF ListInv, ListsAreRings, WalksOrdered
<1>1. ASSUME NEW l, NEW s, NEW c, Call(l, s, c) PROVE LoopStands'
  BY <1>1 DEF Call, LoopStands
<1>2. ASSUME NEW h \in ListHeads, NEW dir \in {"next", "prev"}, ForEach(h, dir)
      PROVE  LoopStands'
  <2> DEFINE s == Walk(links, dir, h)
             p == links[dir]
  <2>1. Threads(p, h, s)
    BY <1>0, WalkThreads
  <2>2. loop'.want = s /\ loop'.seen = <<>> /\ loop'.i = p[h] /\ loop'.h = h /\ loop'.dir = dir
        /\ links' = links
    BY <1>2 DEF ForEach
  <2> HIDE DEF s, p
  <2>3. /\ s \in Seq(ListNodes) /\ Len(s) \in Nat
        /\ \A i \in 1 .. Len(s) : Cell(s, h, i) = s[i]
        /\ Cell(s, h, 0) = h
    BY <2>1, ThreadCells
  <2>4. \A k \in 0 .. Len(s) : p[Cell(s, h, k)] = Cell(s, h, k + 1)
    BY <2>1 DEF Threads
  <2>5. p[h] = Cell(s, h, 0 + 1)
    BY <2>3, <2>4
  <2>6. \A j \in 1 .. Len(s) : p[s[j]] = Cell(s, h, j + 1)
    BY <2>3, <2>4
  <2>7. \A j, k \in 1 .. Len(s) : s[j] = s[k] => j = k
    BY <2>1 DEF Threads
  <2>8. Stands(p, h, s, <<>>, p[h])
    BY <2>3, <2>5, <2>6, <2>7 DEF Stands
  <2> QED BY <2>2, <2>8 DEF LoopStands, p
<1>3. ASSUME Body PROVE LoopStands'
  <2> DEFINE p == links[loop.dir]
             q == links'[loop.dir]
             s == loop.want
             seen == loop.seen
             i == loop.i
             h == loop.h
  <2>1. /\ loop.on /\ i # h /\ h \in ListHeads /\ loop.dir \in {"next", "prev"}
        /\ i \in Live(on) /\ ListOf(on, i) = h /\ loop.nxt = p[i]
    BY <1>0, <1>3 DEF Body, LoopInside
  <2>2. i \in Listed(on) /\ Stands(p, h, s, seen, i)
    BY <2>1 DEF Live, ListOf, LoopStands
  <2>3. \A j \in Len(seen) + 2 .. Len(s) : q[s[j]] = p[s[j]]
    <3>1. CASE links' = links
      BY <3>1
    <3>2. CASE links' = InitLinks(DelLinks(links, i), i)
      <4> DEFINE dir == loop.dir
      <4>1. dir \in {"next", "prev"} /\ Stands(links[dir], h, s, seen, i) /\ h \in ListHeads
        BY <2>1, <2>2
      <4> HIDE DEF dir, s, seen, i, h
      <4>2. \A j \in Len(seen) + 2 .. Len(s) :
              InitLinks(DelLinks(links, i), i)[dir][s[j]] = links[dir][s[j]]
        BY <1>0, <2>2, <4>1, StandsOff
      <4> QED BY <3>2, <4>2 DEF dir
    <3> QED BY <1>3, <3>1, <3>2 DEF Body
  <2> HIDE DEF p, q, s, seen, i, h
  <2>4. Stands(q, h, s, Append(seen, i), p[i])
    BY <2>1, <2>2, <2>3, StandsOn
  <2>5. loop' = [loop EXCEPT !.i = loop.nxt, !.nxt = links'[loop.dir][loop.nxt],
                             !.seen = Append(@, loop.i)]
    BY <1>3 DEF Body, Step
  <2>6. loop'.want = s /\ loop'.seen = Append(seen, i) /\ loop'.i = p[i] /\ loop'.h = h
        /\ loop'.dir = loop.dir
    BY <2>1, <2>5 DEF s, seen, i, h
  <2> QED BY <2>4, <2>6 DEF LoopStands, q
<1>4. ASSUME EndLoop PROVE LoopStands'
  BY <1>4 DEF EndLoop, NoLoop, LoopStands
<1>5. CASE UNCHANGED lvars
  BY <1>5 DEF lvars, LoopStands
<1>6. ASSUME ~(\E h \in ListHeads, dir \in {"next", "prev"} : ForEach(h, dir)), ~Body, ~EndLoop,
             ListNext
      PROVE  \E l, s, c : Call(l, s, c)
  BY <1>6 DEF ListNext, ListAdd, ListAddTail, ListAddAfter, ListAddBefore, ListSwap, ListDel,
              ListDelInit, ListDelAgain, ListDelFrom, ListPop, ListAppend, ListPrepend
<1> QED BY <1>1, <1>2, <1>3, <1>4, <1>5, <1>6

\* A loop that stands there has given what it should, and at its end all of it.
LEMMA StandsSees == ListInv /\ LoopStands => LoopSeesAll
<1> SUFFICES ASSUME ListInv, LoopStands, loop.on
             PROVE  /\ IsPrefix(loop.seen, loop.want)
                    /\ loop.i = loop.h => loop.seen = loop.want
  BY DEF LoopSeesAll
<1> DEFINE s == loop.want
           seen == loop.seen
           h == loop.h
           k == Len(seen)
<1>1. /\ s \in Seq(ListNodes) /\ seen \in Seq(ListNodes) /\ k <= Len(s)
      /\ \A j \in 1 .. k : seen[j] = s[j]
      /\ loop.i = Cell(s, h, k + 1)
      /\ h \in ListHeads
  BY DEF LoopStands, Stands, ListInv, LoopInside
<1> HIDE DEF s, seen, h
<1>2. IsPrefix(seen, s)
  <2> DEFINE a == SubSeq(seen, 1, k)
             b == SubSeq(s, 1, k)
  <2>1. a \in Seq(ListNodes) /\ Len(a) = k /\ \A j \in 1 .. k : a[j] = seen[j]
    BY <1>1
  <2>2. b \in Seq(ListNodes) /\ Len(b) = k /\ \A j \in 1 .. k : b[j] = s[j]
    BY <1>1
  <2> HIDE DEF a, b, k
  <2>3. \A j \in 1 .. Len(b) : a[j] = b[j]
    BY <1>1, <2>1, <2>2
  <2>4. a = b
    BY <2>1, <2>2, <2>3, SameSeq
  <2> QED BY <1>1, <2>4 DEF IsPrefix, a, b, k
<1>3. ASSUME loop.i = h PROVE seen = s
  <2>1. k + 1 \notin 1 .. Len(s)
    <3> HIDE DEF k
    <3> QED BY <1>1, <1>3, ListAssumption DEF Cell
  <2>2. Len(seen) = Len(s)
    BY <2>1, <1>1
  <2>3. \A j \in 1 .. Len(s) : seen[j] = s[j]
    BY <2>2, <1>1
  <2> QED BY <1>1, <2>2, <2>3, SameSeq
<1> QED BY <1>2, <1>3 DEF s, seen, h

\* list_for_each_safe and list_for_each_rev_safe give their body the entries
\* that the list had when they began, each once and in order, though the body
\* takes off those it is given (ccan/list/list.h).
THEOREM LoopsSeeAll == ListSpec => []LoopSeesAll
<1>1. ListInit => LoopStands
  BY DEF ListInit, NoLoop, LoopStands
<1> QED BY <1>1, WalksInit, ListRefines, ListInitInv, ListStepInv, StandsStep, StandsSees, PTL
        DEF ListSpec
=============================================================================
