------------------------------- MODULE TalStr -------------------------------
(***************************************************************************)
(* ccan/take and the functions that accept a take()n argument: tal_dup_    *)
(* and tal_expand_ (ccan/tal/tal.c) and ccan/tal/str.  A function given a  *)
(* take()n pointer owns it, whether it succeeds or not; every allocation   *)
(* may fail, with an error function that returns.                          *)
(*                                                                         *)
(* A function is an operator from the heap to its possible outcomes: the   *)
(* heap after, and what is returned.  The heap has the list of take()n     *)
(* pointers, how often take() itself failed, and the owner of each block.  *)
(* The two with a loop, the formatting of do_vfmt and the subexpressions   *)
(* of tal_strreg, take a step for each turn.                               *)
(***************************************************************************)
EXTENDS Integers, FiniteSetsExt, SequencesExt

CONSTANTS
  Blocks,           \* blocks there is memory for
  MaxFmt, MaxText,  \* bounds: lengths of a format and of its text
  MaxGroups         \* bound: subexpressions of a regex

NULL == 0
CTX == 100        \* the context of the caller
CRASH == -1
DONE == -2        \* true, where a bool is returned
INSIDE == -3      \* a pointer into a string, past its start
Given == {1, 2}   \* blocks of the caller

ASSUME TalStrAssumption ==
  /\ Blocks \subseteq Int /\ Blocks \cap ({NULL, CTX, CRASH, DONE, INSIDE} \cup Given) = {}
  /\ MaxFmt \in Nat /\ MaxText \in Nat /\ MaxGroups \in Nat

VARIABLES
  called, \* the function that was called, and which arguments take() marked or,
          \* failing, had freed; or what runs
  heap,   \* [taken, allocfail, own]
  ret,    \* what was returned
  vfmt,   \* the loop of do_vfmt: the room it tries, the length of the text,
          \* and the parity of its turns
  left,   \* the loop of tal_strreg: subexpressions to come
  stored  \* and the strings it stored for the caller

svars == <<called, heap, ret, vfmt, left, stored>>

-----------------------------------------------------------------------------
Out(h, r) == {[h |-> h, ret |-> r]}
Then(outs, F(_, _)) == UNION {F(o.h, o.ret) : o \in outs}

\* is_taken and taken: a failed take() of anything answers for NULL.
is_taken(h, p) == (p = NULL /\ h.allocfail > 0) \/ p \in ToSet(h.taken)
Untake(h, p) ==
  IF p = NULL /\ h.allocfail > 0 THEN [h EXCEPT !.allocfail = @ - 1]
  ELSE [h EXCEPT !.taken = RemoveFirst(@, p)]

\* take_: without room for p the callback of take_allocfail gets p and the failure
\* is counted; by default there is no callback, and p is left as it is: it leaks.
take_(h, p) ==
  Out([h EXCEPT !.taken = Append(@, p)], p)
    \cup Out([h EXCEPT !.allocfail = @ + 1,
                       !.own = Restrict(h.own, DOMAIN h.own \ {p})], NULL)
    \cup Out(h, p)

\* tal_free frees what p owns as well.
tal_free(h, p) ==
  [h EXCEPT !.own = Restrict(@, {q \in DOMAIN @ : q # p /\ @[q] # p})]
FreeTaken(h, p) == IF is_taken(h, p) THEN tal_free(Untake(h, p), p) ELSE h

tal_alloc(h, ctx) ==
  LET free == Blocks \ DOMAIN h.own
      new == CHOOSE b \in free : TRUE
      own == [q \in DOMAIN h.own \cup {new} |-> IF q = new THEN ctx ELSE h.own[q]]
  IN Out(h, NULL) \cup IF free = {} THEN {} ELSE Out([h EXCEPT !.own = own], new)

\* Mutant: when it cannot be resized, a take()n block is left.
tal_dup__Left(h, ctx, p) ==
  IF ~is_taken(h, p) THEN tal_alloc(h, ctx)
  ELSE LET k == Untake(h, p)
       IN IF p = NULL THEN Out(k, NULL)
          ELSE Out(k, NULL) \cup Out([k EXCEPT !.own[p] = ctx], p)

\* tal_dup_: a take()n block is resized and stolen, and freed if either fails.
tal_dup_(h, ctx, p) ==
  IF ~is_taken(h, p) THEN tal_alloc(h, ctx)
  ELSE LET k == Untake(h, p)
       IN IF p = NULL THEN Out(k, NULL)
          ELSE Out(tal_free(k, p), NULL) \cup Out([k EXCEPT !.own[p] = ctx], p)

\* tal_expand_ of a block the caller has: src goes either way.  It is copied
\* without a look.
tal_expand_(h, base, src) ==
  Out(FreeTaken(h, src), IF src = NULL THEN CRASH ELSE base) \cup Out(FreeTaken(h, src), NULL)

tal_strcat(h, s1, s2) ==
  IF s2 = NULL /\ is_taken(h, s2) THEN Out(FreeTaken(Untake(h, s2), s1), NULL)
  ELSE Then(tal_dup_(h, CTX, s1), LAMBDA k, r : Out(FreeTaken(k, s2), r))

\* The array first, a copy of the string under it, then the loop, in which the
\* array may have to grow.
tal_strsplit(h, string, delims) ==
  Then(tal_alloc(h, CTX), LAMBDA k, parts :
    IF parts = NULL THEN Out(FreeTaken(FreeTaken(k, string), delims), NULL)
    ELSE Then(tal_dup_(k, parts, string), LAMBDA m, str :
           LET fail == Out(FreeTaken(tal_free(m, parts), delims), NULL)
           IN IF str = NULL \/ (delims = NULL /\ is_taken(m, delims)) THEN fail
              ELSE fail \cup Out(FreeTaken(m, delims), parts)))

tal_strjoin(h, strings, delim) ==
  LET out(k, r) == Out(FreeTaken(FreeTaken(k, strings), delim), r)
  IN IF \E s \in {strings, delim} : s = NULL /\ is_taken(h, s) THEN out(h, NULL)
     ELSE Then(tal_alloc(h, CTX), LAMBDA k, r :
            IF r = NULL THEN out(k, NULL) ELSE out(k, r) \cup out(tal_free(k, r), NULL))

Outcomes(f, h, p, q) ==
  CASE f = "tal_expand" -> tal_expand_(h, p, q)
    [] f = "tal_dup" -> tal_dup_(h, CTX, p)
    [] f = "tal_strcat" -> tal_strcat(h, p, q)
    [] f = "tal_strsplit" -> tal_strsplit(h, p, q)
    [] f = "tal_strjoin" -> tal_strjoin(h, p, q)

\* The arguments of f are blocks of the caller, each given or take()n.
Functions == {"tal_expand", "tal_dup", "tal_strcat", "tal_strsplit", "tal_strjoin"}
Give(h, p, taking) == IF taking THEN take_(h, p) ELSE Out(h, p)

StrInit ==
  /\ called = <<>>
  /\ heap = [taken |-> <<>>, allocfail |-> 0, own |-> [p \in Given |-> CTX]]
  /\ ret = NULL
  /\ vfmt = [max |-> 0, text |-> 0, turn |-> 0]
  /\ left = 0 /\ stored = {}

CallFunction ==
  /\ called = <<>>
  /\ \E f \in Functions, t1, t2 \in BOOLEAN :
       /\ f = "tal_dup" => ~t2
       /\ f = "tal_expand" => ~t1
       /\ \E a \in Give(heap, 1, t1) : \E b \in Give(a.h, 2, t2) :
            \E o \in Outcomes(f, b.h, a.ret, b.ret) :
              /\ called' = <<f, a.h # heap, b.h # a.h>>
              /\ heap' = o.h
              /\ ret' = o.ret
  /\ UNCHANGED <<vfmt, left, stored>>

Formatting == called # <<>> /\ called[1] = "do_vfmt"

\* tal_vfmt and tal_append_vfmt up to the loop, with a format of n characters,
\* of which at least two make a conversion.
\* tal_vfmt does not look at what tal_arr gives, and tal_resize follows it.
StartFmt(f, taking, n) ==
  /\ called = <<>>
  /\ \E a \in Give(heap, 1, taking) :
       IF a.ret = NULL /\ is_taken(a.h, NULL)
       THEN /\ heap' = Untake(a.h, NULL) /\ ret' = NULL
            /\ called' = <<f, a.h # heap>> /\ UNCHANGED vfmt
       ELSE \E b \in IF f = "tal_fmt" THEN tal_alloc(a.h, CTX) ELSE Out(a.h, 2) :
              /\ heap' = b.h
              /\ ret' = IF b.ret = NULL THEN CRASH ELSE b.ret
              /\ called' = IF b.ret = NULL THEN <<f, a.h # heap>>
                           ELSE <<"do_vfmt", f, a.h # heap>>
              /\ vfmt' \in [max : {2 * n}, text : IF n < 2 THEN {n} ELSE 0 .. MaxText, turn : {0}]
  /\ UNCHANGED <<left, stored>>

\* do_vfmt, when it ends: tal_vfmt frees what it made if there was no room.
EndFmt(ok) ==
  LET h == FreeTaken(heap, 1)
  IN /\ called' = <<called[2], called[3]>>
     /\ IF ok THEN heap' = h /\ UNCHANGED ret
        ELSE ret' = NULL /\ heap' = IF called[2] = "tal_fmt" THEN tal_free(h, ret) ELSE h
     /\ UNCHANGED vfmt

\* do_vfmt, once round its loop.
TryFmt ==
  /\ Formatting
  /\ \/ EndFmt(FALSE)
     \/ vfmt.text < vfmt.max /\ EndFmt(TRUE)
     \/ vfmt.text >= vfmt.max /\ UNCHANGED <<called, heap, ret>>
        /\ vfmt' = [vfmt EXCEPT !.max = 2 * @, !.turn = 1 - @]
  /\ UNCHANGED <<left, stored>>

Matching == called # <<>> /\ called[1] = "regexec"

\* tal_strreg, when it ends: the regex and the string go if they are still taken.
EndReg(h, string, result) ==
  /\ heap' = FreeTaken(FreeTaken(h, 2), string)
  /\ ret' = result

\* tal_strreg up to its loop: the braces are counted before regex is looked at, and
\* regcomp or regexec may find no use for it.
StartReg(t1, t2) ==
  /\ called = <<>>
  /\ \E a \in Give(heap, 1, t1) : \E b \in Give(a.h, 2, t2) :
       \/ /\ b.ret = NULL
          /\ called' = <<"tal_strreg", a.h # heap, b.h # a.h>>
          /\ heap' = b.h /\ ret' = CRASH /\ UNCHANGED left
       \/ /\ b.ret # NULL
          /\ called' = <<"tal_strreg", a.h # heap, b.h # a.h>>
          /\ EndReg(b.h, a.ret, NULL) /\ UNCHANGED left
       \/ /\ b.ret # NULL /\ a.ret # NULL
          /\ called' = <<"regexec", a.h # heap, b.h # a.h>>
          /\ heap' = b.h /\ left' \in 0 .. MaxGroups /\ UNCHANGED ret
  /\ UNCHANGED <<vfmt, stored>>

\* The next subexpression is not wanted or not there, or a tal_strndup of the
\* string from where it starts.  At its very start that uses up a take()n
\* string, and what comes later reads a block that was resized.
Subexpression ==
  /\ Matching /\ left > 0 /\ left' = left - 1
  /\ \/ UNCHANGED <<called, heap, ret, stored>>
     \/ \E start \in {1, INSIDE} : \E o \in tal_dup_(heap, CTX, start) :
          IF o.ret = NULL
          THEN /\ EndReg(o.h, 1, NULL) /\ UNCHANGED stored
               /\ called' = <<"tal_strreg", called[2], called[3]>>
          ELSE heap' = o.h /\ stored' = stored \cup {o.ret} /\ UNCHANGED <<called, ret>>
     \/ /\ 1 \in stored /\ ret' = CRASH
        /\ called' = <<"tal_strreg", called[2], called[3]>> /\ UNCHANGED <<heap, stored>>
  /\ UNCHANGED vfmt

Matched ==
  /\ Matching /\ left = 0
  /\ called' = <<"tal_strreg", called[2], called[3]>>
  /\ EndReg(heap, 1, DONE)
  /\ UNCHANGED <<vfmt, left, stored>>

StrNext ==
  \/ CallFunction
  \/ \E f \in {"tal_fmt", "tal_append_fmt"}, taking \in BOOLEAN, n \in 0 .. MaxFmt :
       StartFmt(f, taking, n)
  \/ TryFmt
  \/ \E t1, t2 \in BOOLEAN : StartReg(t1, t2)
  \/ Subexpression \/ Matched

StrSpec == StrInit /\ [][StrNext]_svars

\* With memory to be had.
FmtSpec == StrSpec /\ WF_svars(TryFmt /\ ret' # NULL)

-----------------------------------------------------------------------------
Returned == called # <<>> /\ ~Formatting /\ ~Matching /\ ret # CRASH

\* What the caller still owns of its arguments, or has leaked: all that take() did not
\* mark or free, and for tal_append_fmt the string appended to.
Kept == {p \in Given : p + 1 > Len(called) \/ ~called[p + 1]}

\* An argument that take() marked is consumed by the call, fail where it may: it is
\* freed or part of the result, nobody remembers it as taken, and the others are as
\* they were.  A call that fails leaves nothing behind, but for the subexpressions
\* that tal_strreg had stored (the FIXME of str.c); none of those is freed.
TakenIsConsumed ==
  Returned =>
    /\ heap.taken = <<>> /\ heap.allocfail = 0
    /\ \A p \in Kept : p \in DOMAIN heap.own /\ heap.own[p] = CTX
    /\ \A p \in DOMAIN heap.own \ Kept :
         p \in stored \/ (ret # NULL /\ ret \in {p, heap.own[p]})
    /\ (stored \cup {ret}) \ {NULL, DONE} \subseteq DOMAIN heap.own

\* str.h of tal_fmt: "allocate a formatted string".  The string is there in the
\* end.
FmtEnds == Formatting ~> ~Formatting
=============================================================================
