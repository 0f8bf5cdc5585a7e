------------------------------ MODULE Reading ------------------------------
(***************************************************************************)
(* How the tools take in their input and the cache gets its entries:       *)
(* ccan/rbuf, grab_fd (ccan/tal/grab_file), write_all                      *)
(* (ccan/read_write_all) and utils/add-to-txcache.c.  The kernel may give  *)
(* less than is asked for, be interrupted, or fail; realloc may fail.      *)
(*                                                                         *)
(* A byte is TERM or anything else; sizes are scaled down.  The loop over  *)
(* the lines is add-to-txcache's, which takes every NULL for the end; the  *)
(* callers of grab_fd and rbuf_fill_all give up at theirs.  rbuf_fill,     *)
(* which nothing here calls, is left out.                                  *)
(***************************************************************************)
EXTENDS Integers, FiniteSetsExt, SequencesExt

CONSTANTS
  TERM, Other,   \* the terminator, and bytes that are not it
  MaxFile,       \* bound: the length of a file
  BufSizes,      \* the sizes a buffer may start with
  GoodSize       \* rbuf_good_size, and grab_fd's first size of what is no file

ASSUME ReadingAssumption ==
  /\ TERM # Other
  /\ MaxFile \in Nat /\ BufSizes \subseteq Nat /\ GoodSize \in Nat \ {0}

VARIABLES
  job,     \* what runs, or how it ended
  file,    \* what there is to read
  fpos,    \* how much of it was read
  held,    \* the valid bytes: those at rbuf->start
  off,     \* start - buf
  cap,     \* buf_end - buf
  prev,    \* bytes that were searched already
  got,     \* what the last get_more of rbuf_read_str gave: -1 when it failed
  lines,   \* the strings returned, with TERM at the end when there was one
  entries  \* the cache's files, in order: how much was written of each

rvars == <<job, file, fpos, held, off, cap, prev, got, lines, entries>>
line_vars == <<file, lines, entries>>

ReadInit ==
  /\ job = "start"
  /\ file = <<>> /\ fpos = 0
  /\ held = <<>> /\ off = 0 /\ cap = 0
  /\ prev = 0 /\ got = 0
  /\ lines = <<>> /\ entries = <<>>

\* rbuf_init or fstat: a reader is chosen, and a file.
Open ==
  /\ job = "start"
  /\ file' \in UNION {[1 .. n -> {TERM, Other}] : n \in 0 .. MaxFile}
  /\ \/ job' \in {"ready", "all"} /\ cap' \in BufSizes
     \/ job' = "grab" /\ cap' \in {GoodSize} \cup (0 .. MaxFile)
  /\ UNCHANGED <<fpos, held, off, prev, got, lines, entries>>

-----------------------------------------------------------------------------
\* read into what room there is: the end of the file, some bytes, or a failure.
\* get_more keeps the result in a size_t, so -1 passes for a length: len is
\* one less (or, from 0, the largest there is: held is then of no meaning).
Read(room, r) ==
  \/ r = 0 /\ (fpos = Len(file) \/ room = 0) /\ UNCHANGED <<fpos, held>>
  \/ /\ r \in 1 .. Min({room, Len(file) - fpos})
     /\ held' = held \o SubSeq(file, fpos + 1, fpos + r)
     /\ fpos' = fpos + r
  \/ r = -1 /\ held # <<>> /\ held' = Front(held) /\ UNCHANGED fpos
  \/ r = -1 /\ held = <<>> /\ UNCHANGED <<fpos, held>>

\* get_more, with enlarge_buf when the valid bytes reach the end.
get_more(r) ==
  LET full == off + Len(held) = cap
      size == IF ~full THEN cap ELSE IF cap = 0 THEN GoodSize ELSE 2 * cap
  IN \/ full /\ r = -1 /\ UNCHANGED <<fpos, held, cap>>
     \/ Read(size - off - Len(held), r) /\ cap' = size

\* Every reader first moves back to the start of an empty buffer.
Rewind == off' = IF held = <<>> THEN 0 ELSE off

StartStr ==
  /\ job = "ready" /\ job' = "str"
  /\ Rewind /\ prev' = 0 /\ got' = 0
  /\ UNCHANGED <<file, fpos, held, cap, lines, entries>>

\* A string of the first n valid bytes is returned.
Consume(n) ==
  /\ lines' = Append(lines, SubSeq(held, 1, n))
  /\ held' = SubSeq(held, n + 1, Len(held))
  /\ off' = off + n
  /\ job' = "line"

Found == {k \in prev + 1 .. Len(held) : held[k] = TERM}

StrFound ==
  /\ job = "str" /\ Found # {}
  /\ Consume(Min(Found))
  /\ UNCHANGED <<file, fpos, cap, prev, got, entries>>

\* Mutant: what was read is skipped too.
StrMore_Skip ==
  /\ job = "str" /\ Found = {}
  /\ \E r \in 1 .. MaxFile : get_more(r) /\ got' = r /\ prev' = prev + got + r
  /\ UNCHANGED <<job, off, line_vars>>

StrMore ==
  /\ job = "str" /\ Found = {}
  /\ prev' = prev + got
  /\ \E r \in 1 .. MaxFile : get_more(r) /\ got' = r
  /\ UNCHANGED <<job, off, line_vars>>

\* A read or realloc fails and the string is NULL, which add-to-txcache takes for
\* the end of its input: it does not look at errno, prints its count and returns 0.
StrFails ==
  /\ job = "str" /\ Found = {}
  /\ get_more(-1) /\ got' = -1 /\ job' = "eof"
  /\ prev' = prev + got
  /\ UNCHANGED <<off, line_vars>>

\* The end of the file: what is left is a string, with NUL put after it.
StrEnds ==
  /\ job = "str" /\ Found = {} /\ fpos = Len(file)
  /\ off + Len(held) = cap => cap' = IF cap = 0 THEN GoodSize ELSE 2 * cap
  /\ off + Len(held) # cap => cap' = cap
  /\ IF held = <<>> THEN job' = "eof" /\ UNCHANGED <<held, off, lines>>
     ELSE IF off + Len(held) < cap' THEN Consume(Len(held))
     ELSE job' = "assert" /\ UNCHANGED <<held, off, lines>>
  /\ UNCHANGED <<file, fpos, prev, got, entries>>

\* rbuf_fill_all, once round its loop.
FillAll ==
  /\ job = "all" /\ Rewind
  /\ \E r \in -1 .. MaxFile :
       /\ get_more(r)
       /\ job' = IF r < 0 THEN "error" ELSE IF r = 0 THEN "filled" ELSE "all"
  /\ UNCHANGED <<prev, got, line_vars>>

\* grab_fd: cap is max.  A full buffer grows before the next read, and no room
\* at all looks like the end of the file.
Grab ==
  /\ job = "grab"
  /\ \/ \E r \in 1 .. MaxFile :
          /\ Read(cap - Len(held), r)
          /\ IF Len(held') < cap THEN UNCHANGED <<cap, job>>
             ELSE (cap' = 2 * cap /\ UNCHANGED job) \/ (job' = "error" /\ UNCHANGED cap)
     \/ Read(cap - Len(held), 0) /\ job' = "filled" /\ UNCHANGED cap
     \/ job' = "error" /\ UNCHANGED <<fpos, held, cap>>
  /\ UNCHANGED <<off, prev, got, line_vars>>

-----------------------------------------------------------------------------
\* add-to-txcache, for a line: the entry is opened, which empties it, the fee
\* is written, and only then the hex is looked at.
Errx == job' = "error"
Entry(state) == entries' = Append(entries, state)

AddEntry ==
  /\ job = "line"
  /\ \/ Errx /\ UNCHANGED entries
     \/ \E n \in {"nothing", "some", "fee"} : Errx /\ Entry(n)
     \/ job' = "ready" /\ Entry("whole")
  /\ UNCHANGED <<file, fpos, held, off, cap, prev, got, lines>>

ReadNext ==
  \/ Open \/ StartStr \/ StrFound \/ StrMore \/ StrFails \/ StrEnds
  \/ FillAll \/ Grab \/ AddEntry

ReadSpec == ReadInit /\ [][ReadNext]_rvars

-----------------------------------------------------------------------------
\* Something failed, and the program was told: by -1, or by a call of err.
Failed == job = "error" \/ got = -1

\* However the file arrives, the lines are its beginning, cut at the terminators: no
\* byte is lost, moved or read twice, nor does a failure put one out of place.
\* Unless a read or realloc failed the lines and the bytes that are held are all
\* that was read, and the end is that of the file.
LinesAreFile ==
  /\ \E n \in 0 .. fpos : FlattenSeq(lines) = SubSeq(file, 1, n)
  /\ \A k \in DOMAIN lines : \A n \in 1 .. Len(lines[k]) - 1 : lines[k][n] # TERM
  /\ \A k \in 1 .. Len(lines) - 1 : Last(lines[k]) = TERM
  /\ job # "assert"
  /\ ~Failed => /\ FlattenSeq(lines) \o held = SubSeq(file, 1, fpos)
                /\ off + Len(held) <= cap
                /\ job \in {"eof", "filled"} => fpos = Len(file) \/ cap = 0

\* When add-to-txcache ends well the cache holds a whole transaction for every line it
\* was given; when it ends with an error only the last entry may be cut short.
EntriesAreWhole ==
  /\ \A k \in DOMAIN entries :
       entries[k] = "whole" \/ (job = "error" /\ k = Len(entries) /\ k = Len(lines))
  /\ job = "eof" => Len(entries) = Len(lines)

\* What the programs keep of a file is the file, line by line, up to a failure.
CacheIsFile == LinesAreFile /\ EntriesAreWhole

\* What add-to-txcache's exit without an error says (src/README.md, "How to Use": the
\* script feeds it every transaction there is to map): it was given the whole input.
CacheIsWhole == job = "eof" => FlattenSeq(lines) = file
=============================================================================
