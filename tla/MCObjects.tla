------------------------------ MODULE MCObjects ------------------------------
(***************************************************************************)
(* What the programs are built on, each called in every way its interface  *)
(* allows: class iblt (module Iblt) and, of the support libraries, the     *)
(* blocks of tal (Tal), files (Reading), strings and take (TalStr), hashes *)
(* (Hash), the values of options (OptValues) and the help (Usage).  They   *)
(* share no state: each behaviour is one of one of them, and may end.      *)
(***************************************************************************)
EXTENDS Iblt, Tal, Reading, TalStr, Hash, OptValues, Usage

VARIABLE part   \* what is called: never changes

-----------------------------------------------------------------------------
(* Iblt: slices of four bits (one of id, two of fragment number, one of      *)
(* contents), u16 and s16 cut to 2 bits, so that offsets and counters wrap.  *)

MCIdBits == {"i0"}
MCFragBits == {"f0", "f1"}
MCContentBits == {"c0"}
MCFragNum ==
  [f \in SUBSET MCFragBits |->
     (IF "f0" \in f THEN 1 ELSE 0) + (IF "f1" \in f THEN 2 ELSE 0)]
MCFragPattern ==
  [n \in 0 .. 3 |-> CHOOSE f \in SUBSET MCFragBits : MCFragNum[f] = n]
MCFragBase == [id \in SUBSET MCIdBits |-> IF id = {} THEN 1 ELSE 3]

\* One transaction of two slices and one of one.
MCTx == {"t0", "t1"}
MCTxId48 == [t \in MCTx |-> IF t = "t0" THEN {} ELSE {"i0"}]
MCTxContents == [t \in MCTx |-> IF t = "t0" THEN <<{}>> ELSE <<{"c0"}, {}>>]
MCExpected == [c \in SUBSET MCContentBits |-> IF c = {} THEN 1 ELSE 2]

\* A behaviour of MurmurHash3 is a list of placements, dealt out to the slices
\* by their fragment number and id.  The placements hit one bucket three times,
\* twice, or (with three buckets) once.
MCHashFns ==
  {<<<<0, 1, 2>>, <<1, 1, 0>>>>, <<<<2, 2, 2>>, <<0, 1, 0>>, <<1, 2, 2>>>>}
MCMurmurHash3(h, i, s) ==
  LET k == MCFragNum[s \cap MCFragBits] + Cardinality(s \cap MCIdBits)
  IN h[(k % Len(h)) + 1][i + 1]

RawIblts(size, counts, slices) ==
  {[size |-> size, counts |-> c, buckets |-> b] :
     c \in [Buckets(size) -> counts], b \in [Buckets(size) -> slices]}
AnyRawIblt == [size |-> 1, counts |-> [n \in Buckets(1) |-> 0],
               buckets |-> [n \in Buckets(1) |-> {}]]

\* The two arguments of the constructor: theirs with every combination of
\* three counters and of two slices, ours of the same size or not.
Arguments ==
  IF part = "iblt"
  THEN /\ riblt \in RawIblts(2, {-2, 0, 1}, {{}, {"i0", "f0"}})
       /\ ours \in RawIblts(2, {1}, {{"f1"}}) \cup RawIblts(1, {0}, {{}})
  ELSE riblt = AnyRawIblt /\ ours = AnyRawIblt /\ hf = <<<<0, 1, 2>>, <<1, 1, 0>>>>
       /\ manually_removed = [t \in TodoTypes |-> FALSE]

\* What is taken away as theirs: one of two slices, or what next returned.
MCInputs ==
  {{}, {"f0", "f1"}} \cup (IF NextType(todo) = NEITHER THEN {} ELSE {NextSlice})

IbltCalls ==
  \/ Construct
  \/ Fixup
  \/ \E s \in MCInputs : RemoveTheirSlice(s)
  \/ \E t \in Tx : RemoveOurTx(t)
  \/ FrobBucket
  \/ RemoveTodo

-----------------------------------------------------------------------------
(* Tal: three blocks and three lists of children, one that of the null       *)
(* parent.                                                                   *)

MCTalAddrs == 1 .. 3
MCTalGroups == {-2, -3, -4}
MCNullGroup == -2

-----------------------------------------------------------------------------
(* OptValues: the small numbers, those around each power of two up to the    *)
(* width of a long long, and multiples of the largest suffix, 3 ^ 6.         *)

Edges == {256, 512, 1024, 2048, 4096, 8192, 16384}
MCNumbers ==
  (-130 .. 130) \cup {x + d : x \in Edges, d \in -2 .. 2}
    \cup {d - x : x \in Edges, d \in -2 .. 2} \cup {729 * k : k \in -22 .. 22}

-----------------------------------------------------------------------------
ObjectsInit ==
  /\ part \in {"iblt", "blocks", "files", "strings", "hash", "values", "help"}
  /\ Arguments
  /\ IbltInit /\ TalInit /\ ReadInit /\ StrInit /\ HashInit /\ UsageInit
  /\ part = "values" \/ dest = [type |-> "int", base |-> 1, value |-> 0]
  /\ ValuesInit

supportvars == <<tal_vars, rvars, svars, hvars, vvars, uvars>>
objectsvars == <<part, ivars, supportvars>>

IbltPart == part = "iblt" /\ IbltCalls /\ UNCHANGED <<part, supportvars>>
BlocksPart == part = "blocks" /\ TalNext
                /\ UNCHANGED <<part, ivars, rvars, svars, hvars, vvars, uvars>>
FilesPart == part = "files" /\ ReadNext
               /\ UNCHANGED <<part, ivars, tal_vars, svars, hvars, vvars, uvars>>
StringsPart == part = "strings" /\ StrNext
                 /\ UNCHANGED <<part, ivars, tal_vars, rvars, hvars, vvars, uvars>>
HashPart == part = "hash" /\ HashNext
              /\ UNCHANGED <<part, ivars, tal_vars, rvars, svars, vvars, uvars>>
ValuesPart == part = "values" /\ ValuesNext
                /\ UNCHANGED <<part, ivars, tal_vars, rvars, svars, hvars, uvars>>
HelpPart == part = "help" /\ UsageNext
              /\ UNCHANGED <<part, ivars, tal_vars, rvars, svars, hvars, vvars>>

ObjectsNext ==
  \/ IbltPart \/ BlocksPart \/ FilesPart \/ StringsPart \/ HashPart
  \/ ValuesPart \/ HelpPart

ObjectsSpec == ObjectsInit /\ [][ObjectsNext]_objectsvars

\* Only blocks, with the calls that a destructor may make of those being destroyed.
BlocksAgain == /\ TalAgainNext
               /\ UNCHANGED <<part, ivars, rvars, svars, hvars, vvars, uvars>>
BlocksAgainSpec == ObjectsInit /\ part = "blocks" /\ [][BlocksAgain]_objectsvars
=============================================================================
