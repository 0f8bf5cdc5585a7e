----------------------------- MODULE MCGenerator -----------------------------
(***************************************************************************)
(* What is built on the bit tree, on one small instance: the tree itself   *)
(* (TxTree), the filter iblt-selection-heuristic (Heuristic) and the       *)
(* selection in the corpus simulator (Selection).  And, to keep MCObjects  *)
(* small, the parsing of a command line (Opt).  They share no state: each  *)
(* behaviour is one of one of them.                                        *)
(***************************************************************************)
EXTENDS TxTree, Heuristic, Selection, Opt

VARIABLE part   \* the program that runs: never changes

MCTx == {"t0", "t1", "t2", "t3", "t4", "t5"}
\* Prefixes of every length are shared, and by two or three transactions: t0 and
\* t1 share two bits, t2 one with them, and a pool without t1 lists t0 by a
\* prefix that t1 matches in another.  t5 clashes with t1.
MCIdBits == [t0 |-> <<0, 0, 0>>, t1 |-> <<0, 0, 1>>, t2 |-> <<0, 1, 1>>,
             t3 |-> <<1, 1, 0>>, t4 |-> <<1, 0, 0>>, t5 |-> <<0, 0, 1>>]
\* A fee of zero, two of the same fee, and the highest paid for the longest.
MCFee == [t0 |-> 0, t1 |-> 1, t2 |-> 1, t3 |-> 3, t4 |-> 2, t5 |-> 1]
\* Lengths that transactions have.
MCLength == [t0 |-> 60, t1 |-> 250, t2 |-> 100, t3 |-> 1000, t4 |-> 400,
             t5 |-> 250]
\* Below, at and above the minimum fee of 2.
MCRate == [t0 |-> 2, t1 |-> 1, t2 |-> 3, t3 |-> 0, t4 |-> 2, t5 |-> 2]

\* The clash matters to the tree only, and the other two leave t5 out.
Distinct == MCTx \ {"t5"}

\* Opt: a flag and an option with an argument, early ones and others, and every
\* kind of argument: words, --, long and short forms, and two letters in one.
MCOptEntries ==
  [name : {"a"}, arg : {FALSE}, early : BOOLEAN]
    \cup [name : {"b"}, arg : {TRUE}, early : BOOLEAN]
MCTokens ==
  {<<"word">>, <<"--">>, <<"long", "a">>, <<"long", "b">>, <<"long=", "b">>,
   <<"long=", "a">>, <<"short", <<"a">>>>, <<"short", <<"a", "b">>>>,
   <<"short", <<"b", "a">>>>}

\* The argument of insert is meaningful only inside a call: its first value does
\* not matter.
GeneratorInit ==
  /\ part \in {"tree", "filter", "selection", "options"}
  /\ part = "tree" \/ pooled = {}
  /\ leaf = "t0"
  /\ TreeInit
  /\ HeuristicInit
  /\ IF part = "selection" THEN pool \in SUBSET Distinct /\ receiver \in SUBSET Distinct
     ELSE pool = {} /\ receiver = {}
  /\ SelectionInit
  /\ OptInit

TreePart == part = "tree" /\ TreeNext /\ UNCHANGED <<part, hvars, svars, ovars>>
FilterPart == /\ part = "filter" /\ HeuristicNext
              /\ block' \cup mempool' \subseteq Distinct
              /\ UNCHANGED <<part, tvars, svars, ovars>>
SelectionPart == part = "selection" /\ SelectionNext /\ UNCHANGED <<part, tvars, hvars, ovars>>
OptionsPart == /\ part = "options"
               /\ OptNext \/ (pass \in {"done", "error"} /\ UNCHANGED ovars)
               /\ UNCHANGED <<part, tvars, hvars, svars>>

GeneratorNext == TreePart \/ FilterPart \/ SelectionPart \/ OptionsPart

generatorvars == <<part, tvars, hvars, svars, ovars>>

GeneratorSpec ==
  /\ GeneratorInit
  /\ [][GeneratorNext]_generatorvars
  /\ WF_generatorvars(TreePart)

\* Every variable has its type.
TypesOK == TreeTypeOK /\ HeuristicTypeOK /\ SelectionTypeOK

\* PoolIsBuilt where the tree is what runs.
PoolOfTreeIsBuilt == part = "tree" => PoolIsBuilt

\* Only the tree.
TreeOnlySpec ==
  /\ GeneratorInit /\ part = "tree"
  /\ [][TreePart]_generatorvars
  /\ WF_generatorvars(TreePart)
=============================================================================
