----------------------------- MODULE MinDecode -----------------------------
(***************************************************************************)
(* min_decode (iblt-test.cpp): the smallest IBLT that a peer can decode is *)
(* searched for by halves, though a larger IBLT need not decode whenever a *)
(* smaller one does.  What decode_block returns for a number of buckets is *)
(* fixed by the seed and otherwise arbitrary.                              *)
(***************************************************************************)
EXTENDS Integers

CONSTANT max_possible  \* 16 MB / IBLT_SIZE

ASSUME MaxAssumption == max_possible \in Nat \ {0}

VARIABLES
  decodes,      \* decodes[n]: does decode_block succeed with n buckets?
  min_buckets, max_buckets,
  iblt_slices,  \* the result: 0 until something decoded
  pc

mvars == <<decodes, min_buckets, max_buckets, iblt_slices, pc>>

MinDecodeInit ==
  /\ decodes \in [1 .. max_possible -> BOOLEAN]
  /\ min_buckets = 1
  /\ max_buckets = max_possible
  /\ iblt_slices = 0
  /\ pc = "search"

Half == (min_buckets + max_buckets) \div 2

\* Mutant: the size noted is the one that decoded before.
Decoded_Stale ==
  /\ pc = "search"
  /\ min_buckets # max_buckets
  /\ decodes[Half]
  /\ max_buckets' = Half
  /\ iblt_slices' = max_buckets
  /\ UNCHANGED <<decodes, min_buckets, pc>>

Decoded ==
  /\ pc = "search"
  /\ min_buckets # max_buckets
  /\ decodes[Half]
  /\ max_buckets' = Half
  /\ iblt_slices' = Half
  /\ UNCHANGED <<decodes, min_buckets, pc>>

\* Mutant: the number that failed stays in the interval.
Failed_KeepsHalf ==
  /\ pc = "search"
  /\ min_buckets # max_buckets
  /\ ~decodes[Half]
  /\ min_buckets' = Half
  /\ pc' = IF min_buckets' = max_possible - 1 THEN "done" ELSE "search"
  /\ UNCHANGED <<decodes, max_buckets, iblt_slices>>

\* Mutant: the lower end goes one too far.
Failed_SkipsOne ==
  /\ pc = "search"
  /\ min_buckets # max_buckets
  /\ ~decodes[Half]
  /\ min_buckets' = IF Half + 2 > max_buckets THEN max_buckets ELSE Half + 2
  /\ pc' = IF min_buckets' = max_possible - 1 THEN "done" ELSE "search"
  /\ UNCHANGED <<decodes, max_buckets, iblt_slices>>

\* Mutant: the lower end may pass the upper end.
Failed_Overtakes ==
  /\ pc = "search"
  /\ min_buckets # max_buckets
  /\ ~decodes[Half]
  /\ min_buckets' = Half + 2
  /\ pc' = IF min_buckets' = max_possible - 1 THEN "done" ELSE "search"
  /\ UNCHANGED <<decodes, max_buckets, iblt_slices>>

\* "Complete failure?"
Failed ==
  /\ pc = "search"
  /\ min_buckets # max_buckets
  /\ ~decodes[Half]
  /\ min_buckets' = Half + 1
  /\ pc' = IF min_buckets' = max_possible - 1 THEN "done" ELSE "search"
  /\ UNCHANGED <<decodes, max_buckets, iblt_slices>>

EndSearch ==
  /\ pc = "search"
  /\ min_buckets = max_buckets
  /\ pc' = "done"
  /\ UNCHANGED <<decodes, min_buckets, max_buckets, iblt_slices>>

SearchStep == Decoded \/ Failed \/ EndSearch

MinDecodeNext == SearchStep \/ (pc = "done" /\ UNCHANGED mvars)

\* One thread that does nothing else.
MinDecodeSpec == MinDecodeInit /\ [][MinDecodeNext]_mvars /\ WF_mvars(SearchStep)

-----------------------------------------------------------------------------
MinDecodeTypeOK ==
  /\ decodes \in [1 .. max_possible -> BOOLEAN]
  /\ min_buckets \in 1 .. max_possible
  /\ max_buckets \in min_buckets .. max_possible
  /\ iblt_slices \in 0 .. max_possible
  /\ pc \in {"search", "done"}

\* The interval ends at what was last decoded and begins after a failure.
Bracket ==
  /\ \/ iblt_slices = 0 /\ max_buckets = max_possible
     \/ /\ iblt_slices = max_buckets
        /\ max_buckets < max_possible
        /\ decodes[max_buckets]
  /\ min_buckets > 1 => ~decodes[min_buckets - 1]
  /\ pc = "done" => min_buckets = max_buckets \/ min_buckets = max_possible - 1

\* However decoding depends on the size, a size that is reported decodes and the
\* next smaller one does not (min_decode).
LocalMinimum ==
  pc = "done" /\ iblt_slices # 0 =>
    /\ decodes[iblt_slices]
    /\ iblt_slices > 1 => ~decodes[iblt_slices - 1]

\* If every IBLT from some size on decodes, that size is reported.  The test for
\* complete failure gives up the last two sizes (min_decode, line 494).
FindsThreshold ==
  pc = "done" =>
    \A t \in 1 .. max_possible - 2 :
      (\A n \in 1 .. max_possible : decodes[n] <=> n >= t) => iblt_slices = t

\* The search ends (min_decode's loop).
SearchEnds == <>(pc = "done")
=============================================================================
