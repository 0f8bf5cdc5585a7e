--------------------------- MODULE SupportProofs ---------------------------
(***************************************************************************)
(* Proofs about the support libraries: what is read of a file (module      *)
(* Reading), for files and buffers of any size; what the functions of ccan *)
(* hash add of a key (module Hash), for keys of any length; and the blocks *)
(* of ccan tal (module Tal) and the walks over their trees, for any number *)
(* of blocks.                                                              *)
(***************************************************************************)
EXTENDS Reading, Hash, Tal, CommonLemmas, FiniteSetTheorems

-----------------------------------------------------------------------------
(***************************************************************************)
(* What is read of a file: wherever the reads end, the strings and the     *)
(* bytes still in the buffer are the file up to where it is read, and only *)
(* the last string may lack its terminator.  After a failure the strings   *)
(* are still the beginning of the file.                                    *)
(***************************************************************************)

Bytes == {TERM, Other}
Jobs == {"start", "ready", "str", "line", "eof", "assert", "all", "grab", "filled", "error"}
Pieces == {"nothing", "some", "fee", "whole"}

ReadTypes ==
  /\ job \in Jobs
  /\ file \in Seq(Bytes) /\ fpos \in 0 .. Len(file)
  /\ held \in Seq(Bytes) /\ lines \in Seq(Seq(Bytes))
  /\ {off, cap, prev} \subseteq Nat /\ got \in Nat \cup {-1}
  /\ entries \in Seq(Pieces)

\* The valid bytes lie in the buffer, with room after them for grab_fd.
Placed ==
  /\ got = -1 => job = "eof"
  /\ ~Failed => off + Len(held) <= cap
  /\ job \in {"start", "all", "grab"} => off = 0 /\ lines = <<>> /\ entries = <<>>
  /\ job = "start" => held = <<>> /\ fpos = 0
  /\ job = "grab" => Len(held) < cap \/ cap = 0
  /\ job # "assert"

\* rbuf_read_str has found no terminator among the bytes it searched.
Searched ==
  job = "str" => prev + got <= Len(held) /\ \A k \in 1 .. prev : held[k] # TERM

\* A string is what lies up to a terminator; one without it is the last.
Whole(line) == line # <<>> /\ Last(line) = TERM
Terminated ==
  /\ \A k \in DOMAIN lines : \A n \in 1 .. Len(lines[k]) - 1 : lines[k][n] # TERM
  /\ \A k \in DOMAIN lines :
       Whole(lines[k]) \/ (k = Len(lines) /\ (Failed \/ (held = <<>> /\ fpos = Len(file))))

\* An entry is made of every line but the one just read.
Entered ==
  IF job = "error" THEN EntriesAreWhole
  ELSE /\ \A k \in DOMAIN entries : entries[k] = "whole"
       /\ Len(lines) = Len(entries) + IF job = "line" THEN 1 ELSE 0

\* The strings are the beginning of the file.
Begun == \E n \in 0 .. fpos : FlattenSeq(lines) = SubSeq(file, 1, n)

\* The strings and the valid bytes are what was read of the file.
FileKept ==
  IF Failed THEN Begun
  ELSE /\ FlattenSeq(lines) \o held = SubSeq(file, 1, fpos)
       /\ job \in {"eof", "filled"} => fpos = Len(file) \/ cap = 0

ReadInv == ReadTypes /\ Placed /\ Searched /\ Terminated /\ Entered /\ FileKept

\* What a read that does not fail adds to the valid bytes.
Grows(r) ==
  /\ fpos' = fpos + r /\ fpos' \in 0 .. Len(file)
  /\ held' \in Seq(Bytes) /\ Len(held') = Len(held) + r
  /\ \A k \in 1 .. Len(held) : held'[k] = held[k]
  /\ FlattenSeq(lines) \o held' = SubSeq(file, 1, fpos')

\* A read that gets something: more of the file is held, in order.
LEMMA ReadGrows ==
  ASSUME ReadTypes, FileKept, ~Failed,
         NEW room \in Nat, NEW r \in Nat, Read(room, r)
  PROVE  /\ Grows(r)
         /\ r <= room
         /\ r = 0 => fpos = Len(file) \/ room = 0
<1>1. /\ FlattenSeq(lines) \o held = SubSeq(file, 1, fpos)
      /\ FlattenSeq(lines) \in Seq(Bytes)
      /\ fpos \in 0 .. Len(file) /\ held \in Seq(Bytes) /\ file \in Seq(Bytes)
      /\ Len(file) \in Nat /\ Len(held) \in Nat
  <2>1. <<>> \in Seq(Bytes)
    BY EmptySeq
  <2> QED BY <2>1, FlattenAppend, LenProperties DEF ReadTypes, FileKept
<1> HIDE DEF Bytes
<1>2. CASE r = 0 /\ (fpos = Len(file) \/ room = 0) /\ UNCHANGED <<fpos, held>>
  <2>1. r <= room /\ fpos + r = fpos /\ Len(held) + r = Len(held)
    BY <1>1, <1>2
  <2> QED BY <1>1, <1>2, <2>1 DEF Grows
<1>3. CASE r \in 1 .. Min({room, Len(file) - fpos})
           /\ held' = held \o SubSeq(file, fpos + 1, fpos + r) /\ fpos' = fpos + r
  <2>1. r <= room /\ r <= Len(file) - fpos
    <3>1. Len(file) - fpos \in Int /\ room \in Int /\ r \in 1 .. Min({room, Len(file) - fpos})
      BY <1>1, <1>3
    <3> QED BY <3>1, LeastOfTwo
  <2> DEFINE x == SubSeq(file, fpos + 1, fpos + r)
  <2>2. x \in Seq(Bytes) /\ Len(x) = r
    <3>1. \A k \in fpos + 1 .. fpos + r : file[k] \in Bytes
      BY <1>1, <2>1, ElementOfSeq
    <3>2. r >= 1
      BY <1>3
    <3> QED BY <3>1, <3>2, <1>1, SubSeqProperties
  <2>3. SubSeq(file, 1, fpos) \o x = SubSeq(file, 1, fpos + r)
    <3>1. 1 \in 1 .. Len(file) + 1 /\ fpos \in 1 - 1 .. Len(file) /\ fpos + r \in fpos .. Len(file)
      BY <1>1, <2>1, <1>3
    <3>2. file \in Seq(Bytes)
      BY <1>1
    <3> QED BY <3>1, <3>2, ConcatAdjacentSubSeq
  <2> HIDE DEF x
  <2>4. FlattenSeq(lines) \o (held \o x) = SubSeq(file, 1, fpos + r)
    <3>1. held \in Seq(Bytes) /\ x \in Seq(Bytes) /\ FlattenSeq(lines) \in Seq(Bytes)
      BY <1>1, <2>2
    <3>2. (FlattenSeq(lines) \o held) \o x = FlattenSeq(lines) \o (held \o x)
      BY <3>1, Associative
    <3> QED BY <3>2, <1>1, <2>3
  <2>5. /\ held \o x \in Seq(Bytes) /\ Len(held \o x) = Len(held) + r
        /\ \A k \in 1 .. Len(held) : (held \o x)[k] = held[k]
    <3>1. held \in Seq(Bytes) /\ x \in Seq(Bytes) /\ Len(x) = r /\ Len(held) \in Nat
      BY <1>1, <2>2
    <3>2. /\ held \o x \in Seq(Bytes) /\ Len(held \o x) = Len(held) + Len(x)
          /\ \A k \in 1 .. Len(held) + Len(x) :
               (held \o x)[k] = IF k <= Len(held) THEN held[k] ELSE x[k - Len(held)]
      BY <3>1, ConcatProperties
    <3>3. \A k \in 1 .. Len(held) : k \in 1 .. Len(held) + Len(x) /\ k <= Len(held)
      BY <3>1
    <3> QED BY <3>1, <3>2, <3>3
  <2>6. held' = held \o x
    BY <1>3 DEF x
  <2>7. fpos + r \in 0 .. Len(file)
    BY <1>1, <2>1
  <2>8. Grows(r)
    BY <1>3, <2>4, <2>5, <2>6, <2>7 DEF Grows
  <2>9. r # 0
    BY <1>3
  <2> QED BY <2>1, <2>8, <2>9
<1>4. r # -1
  OBVIOUS
<1> QED BY <1>2, <1>3, <1>4 DEF Read

\* There is room for a read, and what is read fits.
LEMMA GetsMore ==
  ASSUME ReadTypes, Placed, FileKept, ~Failed, NEW r \in Nat, get_more(r)
  PROVE  /\ Grows(r)
         /\ cap' \in Nat /\ off + Len(held') <= cap'
         /\ r = 0 => fpos = Len(file)
<1>1. /\ off \in Nat /\ cap \in Nat /\ Len(held) \in Nat /\ off + Len(held) <= cap
      /\ GoodSize \in Nat \ {0}
  BY ReadingAssumption, LenProperties DEF ReadTypes, Placed
<1> DEFINE full == off + Len(held) = cap
           size == IF ~full THEN cap ELSE IF cap = 0 THEN GoodSize ELSE 2 * cap
           room == size - off - Len(held)
<1>2. size \in Nat /\ room \in Nat \ {0}
  BY <1>1
<1>3. Read(room, r) /\ cap' = size
  BY <1>1 DEF get_more
<1> HIDE DEF size
<1>4. Grows(r) /\ r <= room /\ (r = 0 => fpos = Len(file) \/ room = 0)
  <2> HIDE DEF room
  <2> QED BY <1>2, <1>3, ReadGrows
<1> QED BY <1>1, <1>2, <1>3, <1>4 DEF Grows

\* A read that fails leaves bytes of no meaning.
LEMMA ReadFails ==
  ASSUME ReadTypes, NEW room, Read(room, -1)
  PROVE  held' \in Seq(Bytes) /\ fpos' = fpos
<1>1. -1 # 0 /\ ~(-1 \in 1 .. Min({room, Len(file) - fpos}))
  OBVIOUS
<1>2. CASE held # <<>> /\ held' = Front(held) /\ UNCHANGED fpos
  <2>1. held \in Seq(Bytes) /\ Len(held) \in Nat \ {0}
    BY <1>2, EmptySeq DEF ReadTypes
  <2>2. \A i \in 1 .. Len(held) - 1 : held[i] \in Bytes
    BY <2>1, ElementOfSeq
  <2>3. SubSeq(held, 1, Len(held) - 1) \in Seq(Bytes)
    BY <2>1, <2>2, SubSeqProperties
  <2> QED BY <1>2, <2>3 DEF Front
<1> QED BY <1>1, <1>2 DEF Read, ReadTypes

\* After a read or realloc that fails what was made is kept.
LEMMA GetFails ==
  ASSUME ReadTypes, Placed, get_more(-1)
  PROVE  held' \in Seq(Bytes) /\ fpos' = fpos /\ cap' \in Nat
<1>1. cap \in Nat /\ GoodSize \in Nat
  BY ReadingAssumption DEF ReadTypes
<1>2. CASE UNCHANGED <<fpos, held, cap>>
  BY <1>1, <1>2 DEF ReadTypes
<1>3. ASSUME NEW size \in Nat, Read(size - off - Len(held), -1), cap' = size
      PROVE  held' \in Seq(Bytes) /\ fpos' = fpos /\ cap' \in Nat
  BY <1>3, ReadFails
<1>4. \E size \in Nat : \/ UNCHANGED <<fpos, held, cap>>
                        \/ Read(size - off - Len(held), -1) /\ cap' = size
  <2> DEFINE full == off + Len(held) = cap
             size == IF ~full THEN cap ELSE IF cap = 0 THEN GoodSize ELSE 2 * cap
  <2>1. size \in Nat
    BY <1>1
  <2>2. UNCHANGED <<fpos, held, cap>> \/ (Read(size - off - Len(held), -1) /\ cap' = size)
    BY DEF get_more
  <2> HIDE DEF size
  <2> QED BY <2>1, <2>2
<1> QED BY <1>2, <1>3, <1>4

\* Only the valid bytes change, by r more.
LEMMA MoreKept ==
  ASSUME ReadInv, ~Failed, NEW r \in Nat, Grows(r), off + Len(held') <= cap',
         cap' \in Nat, off' \in Nat, off' <= off, prev' \in Nat, got' \in Nat,
         job' \in {"str", "all", "grab", "filled"}, job \in {job', "all", "grab"},
         job' = "filled" => fpos = Len(file) \/ cap' = 0,
         job' = "grab" => Len(held') < cap' \/ cap' = 0,
         job' = "str" => /\ prev' + got' <= Len(held')
                         /\ \A k \in 1 .. prev' : held'[k] # TERM,
         r # 0 => \A k \in DOMAIN lines : Whole(lines[k]) \/ fpos # Len(file),
         UNCHANGED line_vars
  PROVE  ReadInv'
<1>1. /\ fpos' \in 0 .. Len(file) /\ fpos' = fpos + r
      /\ held' \in Seq(Bytes) /\ Len(held') = Len(held) + r
      /\ FlattenSeq(lines) \o held' = SubSeq(file, 1, fpos')
      /\ file' = file /\ lines' = lines /\ entries' = entries
  BY DEF Grows, line_vars
<1>2. /\ fpos \in 0 .. Len(file) /\ Len(file) \in Nat /\ Len(held) \in Nat /\ Len(held') \in Nat
      /\ job' \in Jobs /\ job' \notin {"error", "line", "eof", "start", "assert"}
      /\ job # "line" /\ got' # -1 /\ ~Failed'
  <2>1. fpos \in 0 .. Len(file) /\ file \in Seq(Bytes) /\ held \in Seq(Bytes)
    BY DEF ReadInv, ReadTypes
  <2>2. Len(file) \in Nat /\ Len(held) \in Nat /\ Len(held') \in Nat
    BY <1>1, <2>1, LenProperties
  <2>3. job' \in Jobs /\ job' \notin {"error", "line", "eof", "start", "assert"}
    BY DEF Jobs
  <2>4. job # "line" /\ got' # -1
    OBVIOUS
  <2>5. ~Failed'
    BY <2>3, <2>4 DEF Failed
  <2> QED BY <2>1, <2>2, <2>3, <2>4, <2>5
<1>3. ReadTypes'
  BY <1>1, <1>2 DEF ReadInv, ReadTypes, Bytes, Pieces
<1>4. Placed'
  <2>0. off \in Nat
    BY DEF ReadInv, ReadTypes
  <2>1. off' + Len(held') <= cap'
    BY <1>2, <2>0
  <2>2. ASSUME job' \in {"all", "grab"}
        PROVE  off' = 0 /\ lines' = <<>> /\ entries' = <<>>
    <3>1. job \in {"all", "grab"}
      BY <2>2
    <3>2. off = 0 /\ lines = <<>> /\ entries = <<>>
      BY <3>1 DEF ReadInv, Placed
    <3> QED BY <3>2, <1>1
  <2> QED BY <1>2, <2>1, <2>2 DEF Placed
<1>5. Searched'
  BY DEF Searched
<1>6. Terminated'
  <2> SUFFICES ASSUME NEW k \in DOMAIN lines
               PROVE  /\ \A n \in 1 .. Len(lines[k]) - 1 : lines[k][n] # TERM
                      /\ \/ Whole(lines[k])
                         \/ k = Len(lines) /\ held' = <<>> /\ fpos' = Len(file)
    BY <1>1, <1>2 DEF Terminated, Whole
  <2>1. /\ \A n \in 1 .. Len(lines[k]) - 1 : lines[k][n] # TERM
        /\ Whole(lines[k]) \/ (k = Len(lines) /\ held = <<>> /\ fpos = Len(file))
    BY DEF ReadInv, Terminated
  <2>2. CASE r = 0
    <3>1. held = <<>> => held' = <<>>
      BY <1>1, <1>2, <2>2, EmptySeq
    <3> QED BY <1>1, <1>2, <2>1, <2>2, <3>1
  <2>3. CASE r # 0
    BY <2>1, <2>3
  <2> QED BY <2>2, <2>3
<1>7. Entered'
  BY <1>1, <1>2 DEF ReadInv, Entered
<1>8. FileKept'
  BY <1>1, <1>2 DEF FileKept
<1> QED BY <1>3, <1>4, <1>5, <1>6, <1>7, <1>8 DEF ReadInv

\* Bytes can follow only when the file has not ended.
LEMMA GrowsBefore ==
  ASSUME ReadInv, NEW r \in Nat \ {0}, Grows(r)
  PROVE  fpos # Len(file)
BY LenProperties DEF ReadInv, ReadTypes, Grows

\* All of a sequence but its end is its beginning.
LEMMA BeginningOf ==
  ASSUME NEW s \in Seq(Bytes), NEW t \in Seq(Bytes), NEW f \in Seq(Bytes),
         NEW n \in 0 .. Len(f), s \o t = SubSeq(f, 1, n)
  PROVE  \E m \in 0 .. n : s = SubSeq(f, 1, m)
<1> DEFINE m == Len(s)
<1>1. /\ m \in Nat /\ Len(t) \in Nat /\ Len(f) \in Nat /\ n \in Nat /\ n <= Len(f)
      /\ \A k \in 1 .. Len(f) : f[k] \in Bytes
  BY LenProperties, ElementOfSeq
<1>2. /\ Len(s \o t) = m + Len(t)
      /\ \A k \in 1 .. m + Len(t) : (s \o t)[k] = IF k <= m THEN s[k] ELSE t[k - m]
  BY ConcatProperties
<1>3. /\ SubSeq(f, 1, n) \in Seq(Bytes) /\ Len(SubSeq(f, 1, n)) = n
      /\ \A k \in 1 .. n : SubSeq(f, 1, n)[k] = f[k]
  <2>1. \A k \in 1 .. n : f[k] \in Bytes
    BY <1>1
  <2>2. /\ SubSeq(f, 1, n) \in Seq(Bytes) /\ Len(SubSeq(f, 1, n)) = IF 1 <= n THEN n - 1 + 1 ELSE 0
        /\ \A k \in 1 .. n - 1 + 1 : SubSeq(f, 1, n)[k] = f[1 + k - 1]
    BY <1>1, <2>1, SubSeqProperties
  <2> QED BY <1>1, <2>2
<1>4. m + Len(t) = n /\ m \in 0 .. n
  BY <1>1, <1>2, <1>3
<1>5. /\ SubSeq(f, 1, m) \in Seq(Bytes) /\ Len(SubSeq(f, 1, m)) = m
      /\ \A k \in 1 .. m : SubSeq(f, 1, m)[k] = f[k]
  <2>1. \A k \in 1 .. m : f[k] \in Bytes
    BY <1>1, <1>4
  <2>2. /\ SubSeq(f, 1, m) \in Seq(Bytes) /\ Len(SubSeq(f, 1, m)) = IF 1 <= m THEN m - 1 + 1 ELSE 0
        /\ \A k \in 1 .. m - 1 + 1 : SubSeq(f, 1, m)[k] = f[1 + k - 1]
    BY <1>1, <2>1, SubSeqProperties
  <2> QED BY <1>1, <2>2
<1>6. ASSUME NEW k \in 1 .. m PROVE s[k] = SubSeq(f, 1, m)[k]
  <2>1. k \in 1 .. m + Len(t) /\ k <= m /\ k \in 1 .. n
    BY <1>1, <1>4
  <2>2. (s \o t)[k] = s[k]
    BY <2>1, <1>2
  <2>3. (s \o t)[k] = f[k]
    BY <2>1, <1>3
  <2> QED BY <2>2, <2>3, <1>5
<1>7. s = SubSeq(f, 1, m)
  <2> DEFINE z == SubSeq(f, 1, m)
  <2>1. z \in Seq(Bytes) /\ Len(s) = Len(z) /\ \A k \in 1 .. Len(s) : s[k] = z[k]
    BY <1>5, <1>6
  <2> HIDE DEF z
  <2>2. s = z
    BY <2>1, SeqEqual
  <2> QED BY <2>2 DEF z
<1> HIDE DEF m
<1> QED BY <1>4, <1>7

\* What was made before a failure is the beginning of the file.
LEMMA Begins == ASSUME ReadTypes, FileKept PROVE Begun
<1>1. CASE Failed
  BY <1>1 DEF FileKept
<1>2. CASE ~Failed
  <2>1. <<>> \in Seq(Bytes)
    BY EmptySeq
  <2>2. FlattenSeq(lines) \in Seq(Bytes)
    BY <2>1, FlattenAppend DEF ReadTypes
  <2>3. /\ FlattenSeq(lines) \o held = SubSeq(file, 1, fpos)
        /\ held \in Seq(Bytes) /\ file \in Seq(Bytes) /\ fpos \in 0 .. Len(file)
    BY <1>2 DEF FileKept, ReadTypes
  <2> QED BY <2>2, <2>3, BeginningOf DEF Begun
<1> QED BY <1>1, <1>2

\* A failure leaves the strings and the entries as they were.
LEMMA ErrorKept ==
  ASSUME ReadInv, job \notin {"error", "line"}, held' \in Seq(Bytes),
         \/ job' = "error" /\ got' = got
         \/ job' = "eof" /\ got' = -1,
         fpos' \in fpos .. Len(file), cap' \in Nat, off' \in Nat, prev' \in Nat,
         job' = "error" => got' # -1, UNCHANGED line_vars
  PROVE  ReadInv'
<1>1. ReadTypes'
  BY LenProperties DEF ReadInv, ReadTypes, line_vars, Bytes, Pieces, Jobs
<1>2. Failed' /\ job' \in {"error", "eof"}
  BY DEF Failed
<1>3. Placed' /\ Searched'
  BY <1>2 DEF ReadInv, Placed, Searched
<1>4. Terminated'
  BY <1>2 DEF ReadInv, Terminated, Whole, line_vars
<1>5. Entered'
  BY <1>2 DEF ReadInv, Entered, EntriesAreWhole, line_vars
<1>6. FileKept'
  <2>1. PICK n \in 0 .. fpos : FlattenSeq(lines) = SubSeq(file, 1, n)
    BY Begins DEF ReadInv, Begun
  <2>2. n \in 0 .. fpos'
    BY LenProperties DEF ReadInv, ReadTypes
  <2> QED BY <1>2, <2>1, <2>2 DEF FileKept, Begun, line_vars
<1> QED BY <1>1, <1>3, <1>4, <1>5, <1>6 DEF ReadInv

\* Nothing is read yet.
LEMMA ReadInitOK == ReadInit => ReadInv
<1> SUFFICES ASSUME ReadInit PROVE ReadInv
  OBVIOUS
<1>1. Len(<<>>) = 0 /\ DOMAIN <<>> = {} /\ <<>> \o <<>> = <<>> /\ SubSeq(<<>>, 1, 0) = <<>>
  BY SubSeqEmpty, EmptySeq, ConcatEmptySeq
<1>2. ReadTypes
  <2>1. <<>> \in Seq(Bytes) /\ <<>> \in Seq(Seq(Bytes)) /\ <<>> \in Seq(Pieces)
    BY EmptySeq
  <2> QED BY <1>1, <2>1 DEF ReadInit, ReadTypes, Jobs
<1>3. Placed /\ Searched
  BY <1>1 DEF ReadInit, Placed, Searched
<1>4. Terminated
  BY <1>1 DEF ReadInit, Terminated
<1>5. Entered
  BY <1>1 DEF ReadInit, Entered
<1>6. FileKept
  <2>1. ~Failed
    BY DEF ReadInit, Failed
  <2> QED BY <1>1, <2>1, FlattenNothing DEF ReadInit, FileKept
<1> QED BY <1>2, <1>3, <1>4, <1>5, <1>6 DEF ReadInv

\* rbuf_open, or a read of the whole file.
LEMMA OpenOK == ReadInv /\ Open => ReadInv'
<1> SUFFICES ASSUME ReadInv, Open PROVE ReadInv'
  OBVIOUS
<1>1. /\ job = "start" /\ off = 0 /\ lines = <<>> /\ entries = <<>> /\ held = <<>> /\ fpos = 0
      /\ UNCHANGED <<fpos, held, off, prev, got, lines, entries>>
      /\ job' \in {"ready", "all", "grab"} /\ got # -1 /\ got' # -1
  BY DEF ReadInv, Placed, Open
<1>2. Len(<<>>) = 0 /\ DOMAIN <<>> = {} /\ <<>> \o <<>> = <<>>
  BY EmptySeq, ConcatEmptySeq
<1>3. file' \in Seq(Bytes) /\ Len(file') \in Nat
  <2>1. PICK n \in 0 .. MaxFile : file' \in [1 .. n -> {TERM, Other}]
    BY DEF Open
  <2>2. n \in Nat
    BY ReadingAssumption
  <2>3. file' \in Seq(Bytes)
    BY <2>1, <2>2, SeqDef DEF Bytes
  <2> QED BY <2>3, LenProperties
<1>4. cap' \in Nat
  <2>1. cap' \in BufSizes \/ cap' = GoodSize \/ cap' \in 0 .. MaxFile
    BY DEF Open
  <2>2. 0 .. MaxFile \subseteq Nat
    OBVIOUS
  <2> QED BY <2>1, <2>2, ReadingAssumption
<1>5. SubSeq(file', 1, 0) = <<>>
  BY SubSeqEmpty
<1>6. ReadTypes'
  <2>1. 0 \in 0 .. Len(file')
    BY <1>3
  <2> QED BY <1>1, <1>3, <1>4, <2>1 DEF ReadInv, ReadTypes, Jobs, Bytes, Pieces
<1>7. Placed'
  BY <1>1, <1>2, <1>4 DEF Placed
<1>8. Searched' /\ Terminated'
  BY <1>1, <1>2 DEF Searched, Terminated
<1>9. Entered'
  BY <1>1, <1>2 DEF Entered
<1>10. FileKept'
  BY <1>1, <1>2, <1>5, FlattenNothing DEF FileKept, Failed
<1> QED BY <1>6, <1>7, <1>8, <1>9, <1>10 DEF ReadInv

\* rbuf_read_str starts with nothing searched.
LEMMA StartStrOK == ReadInv /\ StartStr => ReadInv'
<1> SUFFICES ASSUME ReadInv, StartStr PROVE ReadInv'
  OBVIOUS
<1>1. /\ job = "ready" /\ job' = "str" /\ prev' = 0 /\ got' = 0
      /\ UNCHANGED <<file, fpos, held, cap, lines, entries>>
      /\ off' = IF held = <<>> THEN 0 ELSE off
      /\ off \in Nat /\ off' \in Nat /\ off' <= off /\ Len(held) \in Nat /\ cap \in Nat
      /\ ~Failed /\ ~Failed'
  BY LenProperties DEF StartStr, Rewind, ReadInv, ReadTypes, Placed, Failed
<1>2. ReadTypes'
  BY <1>1 DEF ReadInv, ReadTypes, Jobs, Bytes, Pieces
<1>3. Placed'
  <2>1. off + Len(held) <= cap
    BY <1>1 DEF ReadInv, Placed
  <2> QED BY <1>1, <2>1 DEF Placed
<1>4. Searched'
  <2>1. 0 + 0 <= Len(held) /\ 1 .. 0 = {}
    BY <1>1
  <2> QED BY <1>1, <2>1 DEF Searched
<1>5. Terminated' /\ FileKept'
  BY <1>1 DEF ReadInv, Terminated, FileKept, Whole
<1>6. Entered'
  BY <1>1 DEF ReadInv, Entered
<1> QED BY <1>2, <1>3, <1>4, <1>5, <1>6 DEF ReadInv

\* A line of the first n bytes, found by its end or by that of the file.
LEMMA ConsumeOK ==
  ASSUME ReadInv, job = "str", NEW n \in 1 .. Len(held), Consume(n),
         cap' \in Nat, off + Len(held) <= cap', UNCHANGED <<file, fpos, prev, got, entries>>,
         \A k \in 1 .. n - 1 : held[k] # TERM,
         held[n] = TERM \/ (n = Len(held) /\ fpos = Len(file))
  PROVE  ReadInv'
<1>0. ~Failed /\ ~Failed'
  BY DEF ReadInv, Placed, Failed, Consume
<1> DEFINE x == SubSeq(held, 1, n)
           rest == SubSeq(held, n + 1, Len(held))
<1>1. /\ lines' = Append(lines, x) /\ held' = rest /\ off' = off + n /\ job' = "line"
      /\ file' = file /\ fpos' = fpos /\ entries' = entries
      /\ prev' = prev /\ got' = got
  BY DEF Consume
<1>2. /\ held \in Seq(Bytes) /\ Len(held) \in Nat /\ lines \in Seq(Seq(Bytes))
      /\ off \in Nat /\ n \in Nat
      /\ \A k \in 1 .. Len(held) : held[k] \in Bytes
  BY LenProperties, ElementOfSeq DEF ReadInv, ReadTypes
<1>3. /\ x \in Seq(Bytes) /\ Len(x) = n /\ \A k \in 1 .. n : x[k] = held[k]
      /\ rest \in Seq(Bytes) /\ Len(rest) = Len(held) - n
  <2>1. /\ \A k \in 1 .. n : held[k] \in Bytes
        /\ \A k \in n + 1 .. Len(held) : held[k] \in Bytes
    BY <1>2
  <2>2. x \in Seq(Bytes) /\ Len(x) = n /\ \A k \in 1 .. n : x[k] = held[k]
    <3>1. /\ x \in Seq(Bytes) /\ Len(x) = IF 1 <= n THEN n - 1 + 1 ELSE 0
          /\ \A k \in 1 .. n - 1 + 1 : x[k] = held[1 + k - 1]
      BY <2>1, <1>2, SubSeqProperties
    <3> QED BY <3>1, <1>2
  <2>3. rest \in Seq(Bytes) /\ Len(rest) = Len(held) - n
    <3>1. /\ rest \in Seq(Bytes)
          /\ Len(rest) = IF n + 1 <= Len(held) THEN Len(held) - (n + 1) + 1 ELSE 0
      BY <2>1, <1>2, SubSeqProperties
    <3> QED BY <3>1, <1>2
  <2> QED BY <2>2, <2>3
<1>4. x \o rest = held
  <2>1. x \o rest = SubSeq(held, 1, Len(held))
    BY <1>2, ConcatAdjacentSubSeq
  <2> QED BY <2>1, <1>2, SubSeqFull
<1> HIDE DEF x, rest
<1>5. ReadTypes'
  <2>1. lines' \in Seq(Seq(Bytes))
    BY <1>1, <1>2, <1>3, AppendProperties
  <2> QED BY <1>1, <1>2, <1>3, <2>1 DEF ReadInv, ReadTypes, Jobs, Bytes, Pieces
<1>6. Placed'
  <2>1. off + n + Len(rest) <= cap'
    BY <1>2, <1>3
  <2> QED BY <1>0, <1>1, <2>1 DEF Placed, Failed
<1>7. Searched'
  BY <1>1 DEF Searched
<1>8. /\ Len(lines) \in Nat /\ Len(lines') = Len(lines) + 1 /\ lines'[Len(lines) + 1] = x
      /\ \A k \in 1 .. Len(lines) : lines'[k] = lines[k]
      /\ DOMAIN lines' = 1 .. Len(lines) + 1 /\ DOMAIN lines = 1 .. Len(lines)
  <2>1. lines' \in Seq(Seq(Bytes))
    BY <1>1, <1>2, <1>3, AppendProperties
  <2>2. /\ Len(lines) \in Nat /\ Len(lines') = Len(lines) + 1 /\ lines'[Len(lines) + 1] = x
        /\ \A k \in 1 .. Len(lines) : lines'[k] = lines[k]
    BY <1>1, <1>2, <1>3, AppendProperties, LenProperties
  <2> QED BY <1>2, <2>1, <2>2, LenProperties
<1>9. Terminated'
  <2> SUFFICES ASSUME NEW k \in 1 .. Len(lines) + 1
               PROVE  /\ \A m \in 1 .. Len(lines'[k]) - 1 : lines'[k][m] # TERM
                      /\ \/ Whole(lines'[k])
                         \/ k = Len(lines') /\ held' = <<>> /\ fpos' = Len(file')
    BY <1>8 DEF Terminated, Whole
  <2>1. CASE k = Len(lines) + 1
    <3>1. lines'[k] = x
      BY <2>1, <1>8
    <3>2. ASSUME NEW m \in 1 .. n - 1 PROVE x[m] # TERM
      <4>1. m \in 1 .. n /\ \A i \in 1 .. n : x[i] = held[i]
        BY <1>2, <1>3
      <4>2. held[m] # TERM
        OBVIOUS
      <4> QED BY <4>1, <4>2
    <3>3. CASE held[n] = TERM
      <4>1. x[n] = TERM /\ x # <<>>
        BY <3>3, <1>3, <1>2, EmptySeq
      <4> QED BY <4>1, <3>1, <3>2, <1>3 DEF Whole, Last
    <3>4. CASE n = Len(held) /\ fpos = Len(file)
      <4>1. rest = <<>>
        BY <3>4, <1>2, <1>3, EmptySeq
      <4> QED BY <4>1, <3>1, <3>2, <3>4, <1>1, <1>3, <1>8, <2>1
    <3> QED BY <3>3, <3>4
  <2>2. CASE k # Len(lines) + 1
    <3>1. k \in DOMAIN lines /\ lines'[k] = lines[k]
      BY <1>8, <2>2
    <3>2. held # <<>>
      BY <1>2, EmptySeq
    <3> QED BY <1>0, <3>1, <3>2 DEF ReadInv, Terminated
  <2> QED BY <2>1, <2>2
<1>10. Entered'
  <2>1. /\ \A k \in DOMAIN entries : entries[k] = "whole"
        /\ Len(lines) = Len(entries) + 0
    BY DEF ReadInv, Entered
  <2>2. Len(lines) = Len(entries)
    BY <2>1, LenProperties DEF ReadInv, ReadTypes
  <2> QED BY <2>1, <2>2, <1>1, <1>8 DEF Entered
<1>11. FileKept'
  <2>1. FlattenSeq(lines) \in Seq(Bytes) /\ FlattenSeq(lines') = FlattenSeq(lines) \o x
    BY <1>1, <1>2, <1>3, FlattenAppend
  <2>2. (FlattenSeq(lines) \o x) \o rest = FlattenSeq(lines) \o (x \o rest)
    <3>1. FlattenSeq(lines) \in Seq(Bytes) /\ x \in Seq(Bytes) /\ rest \in Seq(Bytes)
      BY <1>3, <2>1
    <3>2. \A s, t, u \in Seq(Bytes) : (s \o t) \o u = s \o (t \o u)
      BY Associative
    <3> QED BY <3>1, <3>2
  <2> QED BY <2>1, <2>2, <1>0, <1>1, <1>4 DEF ReadInv, FileKept
<1> QED BY <1>5, <1>6, <1>7, <1>9, <1>10, <1>11 DEF ReadInv

\* The least of some naturals is one of them.
LEMMA LeastIn ==
  ASSUME NEW T \in SUBSET Nat, T # {}
  PROVE  Min(T) \in T /\ \A y \in T : Min(T) <= y
BY LeastNumber DEF Min

\* rbuf_read_str finds the terminator and gives what is up to it.
LEMMA StrFoundOK == ReadInv /\ StrFound => ReadInv'
<1> SUFFICES ASSUME ReadInv, StrFound PROVE ReadInv'
  OBVIOUS
<1> DEFINE n == Min(Found)
<1>1. /\ job = "str" /\ Found # {} /\ Consume(n)
      /\ UNCHANGED <<file, fpos, cap, prev, got, entries>>
  BY DEF StrFound
<1>2. prev \in Nat /\ Len(held) \in Nat /\ cap \in Nat
  BY LenProperties DEF ReadInv, ReadTypes
<1>3. Found \in SUBSET Nat
  BY <1>2 DEF Found
<1>4. n \in Found /\ \A k \in Found : n <= k
  BY <1>1, <1>3, LeastIn
<1> HIDE DEF n
<1>5. n \in prev + 1 .. Len(held) /\ n \in 1 .. Len(held) /\ held[n] = TERM
  BY <1>2, <1>4 DEF Found
<1>6. ASSUME NEW k \in 1 .. n - 1 PROVE held[k] # TERM
  <2>1. CASE k \in 1 .. prev
    BY <1>1, <2>1 DEF ReadInv, Searched
  <2>2. CASE k \notin 1 .. prev
    <3>1. k \in prev + 1 .. Len(held) /\ ~(n <= k)
      BY <1>2, <1>5, <2>2
    <3> QED BY <3>1, <1>4 DEF Found
  <2> QED BY <2>1, <2>2
<1>7. off + Len(held) <= cap' /\ cap' \in Nat
  BY <1>1, <1>2 DEF ReadInv, Placed, Failed
<1> QED BY <1>1, <1>5, <1>6, <1>7, ConsumeOK

\* No terminator among all the valid bytes.
LEMMA NoneFound ==
  ASSUME ReadInv, job = "str", Found = {}
  PROVE  \A k \in 1 .. Len(held) : held[k] # TERM
<1> SUFFICES ASSUME NEW k \in 1 .. Len(held) PROVE held[k] # TERM
  OBVIOUS
<1>1. prev \in Nat /\ Len(held) \in Nat
  BY LenProperties DEF ReadInv, ReadTypes
<1>2. CASE k \in 1 .. prev
  BY <1>2 DEF ReadInv, Searched
<1>3. CASE k \notin 1 .. prev
  BY <1>1, <1>3 DEF Found
<1> QED BY <1>2, <1>3

\* rbuf_read_str has searched all that is held and reads more.
LEMMA StrMoreOK == ReadInv /\ StrMore => ReadInv'
<1> SUFFICES ASSUME ReadInv, StrMore PROVE ReadInv'
  OBVIOUS
<1>1. PICK r \in 1 .. MaxFile : get_more(r) /\ got' = r
  BY DEF StrMore
<1>2. /\ job = "str" /\ job' = "str" /\ Found = {} /\ prev' = prev + got /\ off' = off
      /\ UNCHANGED line_vars
  BY DEF StrMore
<1>3. /\ r \in Nat \ {0} /\ off \in Nat /\ prev \in Nat /\ got \in Nat /\ Len(held) \in Nat
      /\ ~Failed
  BY <1>2, ReadingAssumption, LenProperties DEF ReadInv, ReadTypes, Placed, Failed
<1>4. Grows(r) /\ cap' \in Nat /\ off + Len(held') <= cap'
  BY <1>1, <1>2, <1>3, GetsMore DEF ReadInv
<1>5. prev + got <= Len(held)
  BY <1>2 DEF ReadInv, Searched
<1>6. prev' + got' <= Len(held')
  BY <1>1, <1>2, <1>3, <1>4, <1>5 DEF Grows
<1>7. ASSUME NEW k \in 1 .. prev' PROVE held'[k] # TERM
  <2>1. k \in 1 .. Len(held)
    BY <1>2, <1>3, <1>5
  <2> QED BY <2>1, <1>2, <1>4, NoneFound DEF Grows
<1>8. fpos # Len(file)
  BY <1>2, <1>3, <1>4, GrowsBefore
<1>9. prev' \in Nat /\ got' \in Nat /\ off' \in Nat /\ off' <= off
  BY <1>1, <1>2, <1>3
<1> QED BY <1>2, <1>3, <1>4, <1>6, <1>7, <1>8, <1>9, MoreKept

\* rbuf_read_str fails and its caller stops.
LEMMA StrFailsOK == ReadInv /\ StrFails => ReadInv'
<1> SUFFICES ASSUME ReadInv, StrFails PROVE ReadInv'
  OBVIOUS
<1>1. /\ get_more(-1) /\ job = "str" /\ job' = "eof" /\ got' = -1 /\ prev' = prev + got
      /\ UNCHANGED <<off, line_vars>>
  BY DEF StrFails
<1>2. /\ off' \in Nat /\ prev' \in Nat /\ Len(file) \in Nat /\ fpos \in fpos .. Len(file)
  BY <1>1, LenProperties DEF ReadInv, ReadTypes, Placed
<1>3. held' \in Seq(Bytes) /\ fpos' = fpos /\ cap' \in Nat
  BY <1>1, GetFails DEF ReadInv
<1> QED BY <1>1, <1>2, <1>3, ErrorKept

\* rbuf_read_str gives what is left at the end of the file.
LEMMA StrEndsOK == ReadInv /\ StrEnds => ReadInv'
<1> SUFFICES ASSUME ReadInv, StrEnds PROVE ReadInv'
  OBVIOUS
<1>1. /\ job = "str" /\ Found = {} /\ fpos = Len(file)
      /\ UNCHANGED <<file, fpos, prev, got, entries>>
      /\ cap' = IF off + Len(held) = cap THEN IF cap = 0 THEN GoodSize ELSE 2 * cap ELSE cap
  BY DEF StrEnds
<1>2. /\ off \in Nat /\ cap \in Nat /\ Len(held) \in Nat /\ GoodSize \in Nat \ {0}
      /\ off + Len(held) <= cap /\ ~Failed
  BY <1>1, ReadingAssumption, LenProperties DEF ReadInv, ReadTypes, Placed, Failed
<1>3. cap' \in Nat /\ off + Len(held) < cap'
  BY <1>1, <1>2
<1>4. CASE held = <<>> /\ job' = "eof" /\ UNCHANGED <<held, off, lines>>
  <2>0. ~Failed'
    BY <1>1, <1>2, <1>4 DEF Failed
  <2>1. ReadTypes'
    BY <1>1, <1>3, <1>4 DEF ReadInv, ReadTypes, Jobs, Bytes, Pieces
  <2>2. off + Len(held) <= cap'
    BY <1>2, <1>3
  <2>3. Placed' /\ Searched'
    BY <1>1, <1>4, <2>2 DEF ReadInv, Placed, Searched
  <2>4. Terminated'
    BY <1>1, <1>2, <1>4, <2>0 DEF ReadInv, Terminated, Whole
  <2>5. Entered'
    BY <1>1, <1>4 DEF ReadInv, Entered
  <2>6. FileKept'
    BY <1>1, <1>2, <1>4, <2>0 DEF ReadInv, FileKept
  <2> QED BY <2>1, <2>3, <2>4, <2>5, <2>6 DEF ReadInv
<1>5. CASE held # <<>> /\ Consume(Len(held))
  <2>1. Len(held) # 0
    BY <1>5, EmptySeq DEF ReadInv, ReadTypes
  <2>2. Len(held) \in 1 .. Len(held) /\ off + Len(held) <= cap'
    BY <1>2, <1>3, <2>1
  <2>3. \A k \in 1 .. Len(held) - 1 : held[k] # TERM
    BY <1>1, <1>2, NoneFound
  <2> QED BY <1>1, <1>3, <1>5, <2>2, <2>3, ConsumeOK
<1> QED BY <1>3, <1>4, <1>5 DEF StrEnds

\* rbuf_fill_all reads on until the end.
LEMMA FillAllOK == ReadInv /\ FillAll => ReadInv'
<1> SUFFICES ASSUME ReadInv, FillAll PROVE ReadInv'
  OBVIOUS
<1>1. PICK r \in -1 .. MaxFile :
        /\ get_more(r)
        /\ job' = IF r < 0 THEN "error" ELSE IF r = 0 THEN "filled" ELSE "all"
  BY DEF FillAll
<1>2. /\ job = "all" /\ UNCHANGED <<prev, got, line_vars>>
      /\ off' = IF held = <<>> THEN 0 ELSE off
  BY DEF FillAll, Rewind
<1>3. /\ off \in Nat /\ off' \in Nat /\ off' <= off /\ prev' \in Nat /\ got' \in Nat
      /\ r \in Int /\ Len(held) \in Nat /\ Len(file) \in Nat /\ ~Failed
      /\ got' # -1 /\ fpos \in fpos .. Len(file)
  BY <1>2, ReadingAssumption, LenProperties DEF ReadInv, ReadTypes, Placed, Failed
<1>4. CASE r < 0
  <2>1. r = -1
    BY <1>4, <1>3
  <2>2. job' = "error" /\ get_more(-1)
    BY <1>1, <1>4, <2>1
  <2>3. held' \in Seq(Bytes) /\ fpos' = fpos /\ cap' \in Nat
    BY <2>2, GetFails DEF ReadInv
  <2> QED BY <1>2, <1>3, <2>2, <2>3, ErrorKept
<1>5. CASE ~(r < 0)
  <2>1. r \in Nat /\ job' = IF r = 0 THEN "filled" ELSE "all"
    BY <1>1, <1>3, <1>5
  <2>2. Grows(r) /\ cap' \in Nat /\ off + Len(held') <= cap' /\ (r = 0 => fpos = Len(file))
    BY <1>1, <1>3, <2>1, GetsMore DEF ReadInv
  <2>3. r # 0 => fpos # Len(file)
    BY <1>2, <2>1, <2>2, GrowsBefore
  <2>4. job' \in {"all", "filled"} /\ (job' = "filled" => r = 0)
    BY <2>1
  <2> QED BY <1>2, <1>3, <2>1, <2>2, <2>3, <2>4, MoreKept
<1> QED BY <1>4, <1>5

\* grab_fd makes room and reads on until the end.
LEMMA GrabOK == ReadInv /\ Grab => ReadInv'
<1> SUFFICES ASSUME ReadInv, Grab PROVE ReadInv'
  OBVIOUS
<1>1. /\ job = "grab" /\ UNCHANGED <<off, prev, got, line_vars>>
      /\ off = 0 /\ (Len(held) < cap \/ cap = 0) /\ ~Failed
  BY DEF Grab, ReadInv, Placed, Failed
<1>2. /\ off' \in Nat /\ off' <= off /\ prev' \in Nat /\ got' \in Nat /\ off \in Nat
      /\ cap \in Nat /\ Len(held) \in Nat /\ Len(file) \in Nat /\ Len(held) <= cap
      /\ got' # -1 /\ fpos \in fpos .. Len(file)
  BY <1>1, LenProperties DEF ReadInv, ReadTypes, Placed
<1>3. cap - Len(held) \in Nat
  BY <1>2
<1>4. ASSUME NEW r \in 1 .. MaxFile, Read(cap - Len(held), r)
      PROVE  /\ r \in Nat \ {0} /\ Grows(r) /\ Len(held') <= cap /\ fpos # Len(file)
             /\ Len(held') \in Nat /\ cap # 0 /\ held' \in Seq(Bytes)
  <2>1. r \in Nat \ {0}
    BY ReadingAssumption
  <2>2. Grows(r) /\ r <= cap - Len(held)
    BY <1>1, <1>3, <1>4, <2>1, ReadGrows DEF ReadInv
  <2>3. fpos # Len(file)
    BY <1>1, <2>1, <2>2, GrowsBefore
  <2> QED BY <1>2, <2>1, <2>2, <2>3 DEF Grows
<1>5. ASSUME NEW r \in 1 .. MaxFile, Read(cap - Len(held), r),
             Len(held') < cap, UNCHANGED <<cap, job>>
      PROVE  ReadInv'
  BY <1>1, <1>2, <1>4, <1>5, MoreKept
<1>6. ASSUME NEW r \in 1 .. MaxFile, Read(cap - Len(held), r), ~(Len(held') < cap),
             cap' = 2 * cap, UNCHANGED job
      PROVE  ReadInv'
  <2>1. Len(held') <= cap' /\ Len(held') < cap' /\ cap' \in Nat
    BY <1>2, <1>4, <1>6
  <2> QED BY <1>1, <1>2, <1>4, <1>6, <2>1, MoreKept
<1>7. ASSUME NEW r \in 1 .. MaxFile, Read(cap - Len(held), r), ~(Len(held') < cap),
             job' = "error", UNCHANGED cap
      PROVE  ReadInv'
  <2>1. /\ held' \in Seq(Bytes) /\ fpos' \in fpos .. Len(file) /\ cap' \in Nat
    BY <1>2, <1>4, <1>7 DEF Grows
  <2> QED BY <1>1, <1>2, <1>7, <2>1, ErrorKept
<1>8. CASE Read(cap - Len(held), 0) /\ job' = "filled" /\ UNCHANGED cap
  <2>1. Grows(0) /\ (fpos = Len(file) \/ cap - Len(held) = 0)
    BY <1>1, <1>3, <1>8, ReadGrows DEF ReadInv
  <2>2. fpos = Len(file) \/ cap' = 0
    BY <1>1, <1>2, <1>8, <2>1
  <2>3. off + Len(held') <= cap' /\ cap' \in Nat
    BY <1>1, <1>2, <1>8, <2>1 DEF Grows
  <2> QED BY <1>1, <1>2, <1>8, <2>1, <2>2, <2>3, MoreKept
<1>9. CASE job' = "error" /\ UNCHANGED <<fpos, held, cap>>
  <2>1. held' \in Seq(Bytes) /\ cap' \in Nat
    BY <1>2, <1>9 DEF ReadInv, ReadTypes
  <2> QED BY <1>1, <1>2, <1>9, <2>1, ErrorKept
<1> QED BY <1>5, <1>6, <1>7, <1>8, <1>9 DEF Grab

\* load_txids, or another reader of lines, uses the line it was given.
LEMMA AddEntryOK == ReadInv /\ AddEntry => ReadInv'
<1> SUFFICES ASSUME ReadInv, AddEntry PROVE ReadInv'
  OBVIOUS
<1>1. job = "line" /\ UNCHANGED <<file, fpos, held, off, cap, prev, got, lines>>
  BY DEF AddEntry
<1>0. got # -1 /\ ~Failed /\ (job' # "error" => ~Failed')
  BY <1>1 DEF ReadInv, Placed, Failed
<1>8. job' = "error" => Placed' /\ Searched' /\ Terminated' /\ FileKept'
  <2>1. Begun
    BY Begins DEF ReadInv
  <2> SUFFICES ASSUME job' = "error" PROVE Placed' /\ Searched' /\ Terminated' /\ FileKept'
    OBVIOUS
  <2>2. Placed' /\ Searched'
    BY <1>0, <1>1 DEF Placed, Searched, Failed
  <2>3. Terminated'
    BY <1>1 DEF ReadInv, Terminated, Whole, Failed
  <2>4. FileKept'
    BY <1>1, <2>1 DEF FileKept, Begun, Failed
  <2> QED BY <2>2, <2>3, <2>4
<1>2. /\ \A k \in DOMAIN entries : entries[k] = "whole"
      /\ Len(lines) = Len(entries) + 1
      /\ Len(entries) \in Nat /\ DOMAIN entries = 1 .. Len(entries)
      /\ entries \in Seq(Pieces)
  BY <1>1, LenProperties DEF ReadInv, Entered, ReadTypes
<1>3. ASSUME NEW piece \in Pieces, entries' = Append(entries, piece)
      PROVE  /\ entries' \in Seq(Pieces) /\ Len(entries') = Len(entries) + 1
             /\ DOMAIN entries' = 1 .. Len(entries) + 1
             /\ entries'[Len(entries) + 1] = piece
             /\ \A k \in 1 .. Len(entries) : entries'[k] = "whole"
  <2>1. /\ entries' \in Seq(Pieces) /\ Len(entries') = Len(entries) + 1
        /\ entries'[Len(entries) + 1] = piece
        /\ \A k \in 1 .. Len(entries) : entries'[k] = entries[k]
    BY <1>2, <1>3, AppendProperties
  <2>2. DOMAIN entries' = 1 .. Len(entries')
    BY <2>1, LenProperties
  <2> QED BY <1>2, <2>1, <2>2
<1>4. CASE job' = "error" /\ UNCHANGED entries
  <2>1. ReadTypes'
    BY <1>1, <1>4 DEF ReadInv, ReadTypes, Jobs, Bytes, Pieces
  <2>2. Entered'
    BY <1>1, <1>2, <1>4 DEF Entered, EntriesAreWhole
  <2> QED BY <1>4, <1>8, <2>1, <2>2 DEF ReadInv
<1>5. ASSUME NEW piece \in Pieces, job' = "error", entries' = Append(entries, piece)
      PROVE  ReadInv'
  <2>1. ReadTypes'
    BY <1>1, <1>3, <1>5 DEF ReadInv, ReadTypes, Jobs, Bytes
  <2>2. Entered'
    <3> SUFFICES ASSUME NEW k \in 1 .. Len(entries) + 1
                 PROVE  entries'[k] = "whole" \/ (k = Len(entries') /\ k = Len(lines'))
      BY <1>3, <1>5 DEF Entered, EntriesAreWhole
    <3>1. CASE k = Len(entries) + 1
      BY <1>1, <1>2, <1>3, <1>5, <3>1
    <3>2. CASE k # Len(entries) + 1
      BY <1>2, <1>3, <1>5, <3>2
    <3> QED BY <3>1, <3>2
  <2> QED BY <1>5, <1>8, <2>1, <2>2 DEF ReadInv
<1>6. CASE job' = "ready" /\ entries' = Append(entries, "whole")
  <2>0. "whole" \in Pieces
    BY DEF Pieces
  <2>1. ReadTypes'
    BY <1>1, <1>3, <1>6, <2>0 DEF ReadInv, ReadTypes, Jobs, Bytes
  <2>2. Entered'
    <3>1. \A k \in 1 .. Len(entries) + 1 : entries'[k] = "whole"
      BY <1>2, <1>3, <1>6, <2>0
    <3>2. Len(lines') = Len(entries') + 0
      BY <1>1, <1>2, <1>3, <1>6, <2>0
    <3> QED BY <1>3, <1>6, <2>0, <3>1, <3>2 DEF Entered
  <2>3. Placed' /\ Searched'
    BY <1>0, <1>1, <1>6 DEF ReadInv, Placed, Searched
  <2>4. Terminated' /\ FileKept'
    BY <1>0, <1>1, <1>6 DEF ReadInv, Terminated, FileKept, Whole
  <2> QED BY <2>1, <2>2, <2>3, <2>4 DEF ReadInv
<1>7. {"nothing", "some", "fee"} \subseteq Pieces
  BY DEF Pieces
<1> QED BY <1>4, <1>5, <1>6, <1>7 DEF AddEntry, Errx, Entry

\* Nothing happens.
LEMMA ReadStays == ReadInv /\ UNCHANGED rvars => ReadInv'
BY DEF rvars, ReadInv, ReadTypes, Placed, Searched, Terminated, Entered, EntriesAreWhole,
       FileKept, Begun, Failed, Whole, Jobs, Bytes, Pieces

\* The bytes in the buffer and the strings are what was read, whatever the sizes of
\* the reads (rbuf.c, grab_file.c and their users): the invariant the rest follows from.
THEOREM AlwaysReadInv == ReadSpec => []ReadInv
<1>1. ReadInv /\ [ReadNext]_rvars => ReadInv'
  BY OpenOK, StartStrOK, StrFoundOK, StrMoreOK, StrFailsOK, StrEndsOK, FillAllOK, GrabOK,
     AddEntryOK, ReadStays DEF ReadNext
<1> QED BY <1>1, ReadInitOK, PTL DEF ReadSpec

\* What is read of a file is its beginning, whatever the reads give: no byte of it is
\* lost, moved or read twice, strings end at terminators, all of it is read unless a
\* read or realloc fails, and the cache gets a whole entry for every line when
\* add-to-txcache ends without an error (rbuf.c, grab_file.c, add-to-txcache.c).
THEOREM CacheAlwaysIsFile == ReadSpec => []CacheIsFile
<1>1. ReadInv => LinesAreFile
  <2> SUFFICES ASSUME ReadInv PROVE LinesAreFile
    OBVIOUS
  <2>1. /\ Begun
        /\ job # "assert"
        /\ ~Failed => /\ FlattenSeq(lines) \o held = SubSeq(file, 1, fpos)
                      /\ off + Len(held) <= cap
                      /\ job \in {"eof", "filled"} => fpos = Len(file) \/ cap = 0
    BY Begins DEF ReadInv, FileKept, Placed
  <2>2. Len(lines) \in Nat /\ DOMAIN lines = 1 .. Len(lines)
    BY LenProperties DEF ReadInv, ReadTypes
  <2>3. \A k \in DOMAIN lines : \A n \in 1 .. Len(lines[k]) - 1 : lines[k][n] # TERM
    BY DEF ReadInv, Terminated
  <2>4. ASSUME NEW k \in 1 .. Len(lines) - 1 PROVE Last(lines[k]) = TERM
    <3>0. Len(lines) \in Nat
      BY <2>2
    <3>1. k \in 1 .. Len(lines) /\ k # Len(lines)
      BY <3>0
    <3>2. k \in DOMAIN lines
      BY <2>2, <3>1
    <3> QED BY <3>1, <3>2 DEF ReadInv, Terminated, Whole
  <2> QED BY <2>1, <2>3, <2>4 DEF LinesAreFile, Begun
<1>2. ReadInv => EntriesAreWhole
  BY DEF ReadInv, Entered, EntriesAreWhole
<1> QED BY <1>1, <1>2, AlwaysReadInv, PTL DEF CacheIsFile

-----------------------------------------------------------------------------
(***************************************************************************)
(* The hashes: every element of a key is added where its place in the key  *)
(* says, on any machine.                                                   *)
(***************************************************************************)

\* The byte hashes, and where a byte goes within its word.
ByteHashes == {"hashlittle", "hashbig"}
Finds == [fn : Hashes, big : BOOLEAN, addr : 0 .. 3]

\* What the first n elements add.
AddedBy(fn, n) == UNION {Belongs(fn, e) : e \in 0 .. n - 1}
AddedFrom(fn, n, m) == UNION {Belongs(fn, n + i) : i \in 0 .. m - 1}

\* A last block that is full, for which these functions have no case.
Uncased(fn, n) == n = Block(fn) /\ fn \notin {"hashlittle", "hashbig", "hash_u32"}

\* So far, whole blocks are mixed, and what they hold is added where it belongs.
HashInv ==
  /\ num \in Nat /\ length \in Nat /\ mixes \in Nat /\ length <= num
  /\ IF hfn.fn = "none" THEN num = 0 /\ length = 0 /\ mixes = 0 /\ added = {} /\ ~hashed
     ELSE /\ hfn \in Finds
          /\ hashed => length <= Block(hfn.fn)
          /\ \E k \in Nat : num - length = Block(hfn.fn) * k /\ mixes = MixesOf(hfn.fn) * k
          /\ added = AddedBy(hfn.fn, IF hashed /\ ~Uncased(hfn.fn, length) THEN num
                                     ELSE num - length)

\* How many elements a block of each function has, and how often they are mixed.
LEMMA BlockIs ==
  ASSUME NEW fn \in Hashes
  PROVE  /\ Block(fn) \in {3, 6, 12}
         /\ fn \in ByteHashes => Block(fn) = 12 /\ MixesOf(fn) = 1
         /\ fn = "hash64_stable_16" => Block(fn) = 6 /\ MixesOf(fn) = 1
         /\ fn = "hash64_stable_64" => Block(fn) = 3 /\ MixesOf(fn) = 2
         /\ fn \in {"hash_u32", "hash64_stable_32"} => Block(fn) = 3 /\ MixesOf(fn) = 1
<1>1. CASE fn \in ByteHashes
  BY <1>1 DEF Block, MixesOf, ByteHashes
<1>2. CASE fn = "hash64_stable_16"
  BY <1>2 DEF Block, MixesOf, ByteHashes
<1>3. CASE fn = "hash64_stable_64"
  BY <1>3 DEF Block, MixesOf, ByteHashes
<1>4. CASE fn \in {"hash_u32", "hash64_stable_32"}
  BY <1>4 DEF Block, MixesOf, ByteHashes
<1> QED BY <1>1, <1>2, <1>3, <1>4 DEF Hashes, ByteHashes

\* A byte is at the same place of its word however wide the loads are.
LEMMA ByteShiftIs ==
  ASSUME NEW f \in Finds, f.fn \in ByteHashes, NEW left \in 0 .. 12, NEW i \in 0 .. 11
  PROVE  ByteShift(f, left, i) = IF f.fn = "hashlittle" THEN 8 * (i % 4) ELSE 24 - 8 * (i % 4)
<1> DEFINE n == LoadBytes(f)
<1>1. f.big \in BOOLEAN /\ (f.fn = "hashlittle" \/ f.fn = "hashbig")
  BY DEF Finds, ByteHashes
<1>2. /\ n = 4 \/ n = 2 \/ n = 1
      /\ n # 1 => f.big = (f.fn = "hashbig")
      /\ n = 2 => f.fn = "hashlittle"
  BY <1>1 DEF LoadBytes
<1>3. /\ i % 4 \in 0 .. 3 /\ i % 2 \in 0 .. 1
  OBVIOUS
<1>4. Loaded(f.fn = "hashbig", 4, i % 4)
        = IF f.fn = "hashlittle" THEN 8 * (i % 4) ELSE 24 - 8 * (i % 4)
  BY <1>1, <1>3 DEF Loaded
<1>5. ByteShift(f, left, i) = IF n > 1 /\ i < n * (left \div n)
                              THEN Loaded(f.big, n, i % n) + 8 * ((i % 4) - (i % n))
                              ELSE Loaded(f.fn = "hashbig", 4, i % 4)
  BY DEF ByteShift
<1> HIDE DEF n
<1>6. CASE n = 4
  <2>1. Loaded(f.big, 4, i % 4) + 8 * ((i % 4) - (i % 4)) = Loaded(f.fn = "hashbig", 4, i % 4)
    BY <1>1, <1>2, <1>3, <1>6 DEF Loaded
  <2> QED BY <1>4, <1>5, <1>6, <2>1
<1>7. CASE n = 2
  <2>1. Loaded(f.big, 2, i % 2) + 8 * ((i % 4) - (i % 2)) = 8 * (i % 4)
    BY <1>1, <1>2, <1>3, <1>7 DEF Loaded
  <2> QED BY <1>2, <1>4, <1>5, <1>7, <2>1
<1>8. CASE n = 1
  BY <1>4, <1>5, <1>8
<1> QED BY <1>2, <1>6, <1>7, <1>8

\* An element of a block is added where it belongs.
LEMMA AddsIs ==
  ASSUME HashInv, hfn \in Finds, NEW k \in Nat,
         num - length = Block(hfn.fn) * k, mixes = MixesOf(hfn.fn) * k,
         NEW left \in 0 .. Block(hfn.fn), NEW i \in 0 .. Block(hfn.fn) - 1
  PROVE  Adds(hfn, left, i) = Belongs(hfn.fn, num - length + i)
<1> DEFINE e == num - length + i
<1>1. hfn.fn \in Hashes /\ num - length \in Int /\ mixes \in Nat
  BY DEF Finds, HashInv
<1>2. CASE hfn.fn \in ByteHashes
  <2>1. Block(hfn.fn) = 12 /\ MixesOf(hfn.fn) = 1
    BY <1>1, <1>2, BlockIs
  <2>2. i \in 0 .. 11 /\ left \in 0 .. 12 /\ mixes = k /\ e = 12 * k + i
    BY <2>1
  <2> HIDE DEF e
  <2>3. e \div 12 = k /\ (e % 12) \div 4 = i \div 4 /\ e % 4 = i % 4
    BY <2>2
  <2>4. ByteShift(hfn, left, i)
          = IF hfn.fn = "hashlittle" THEN 8 * (e % 4) ELSE 24 - 8 * (e % 4)
    BY <1>2, <2>2, <2>3, ByteShiftIs
  <2>5. Adds(hfn, left, i) = {<<k, i \div 4, e, ByteShift(hfn, left, i)>>}
    BY <1>2, <2>2 DEF Adds, ByteHashes, e
  <2>6. CASE hfn.fn = "hashlittle"
    <3>1. Belongs(hfn.fn, e) = {<<e \div 12, (e % 12) \div 4, e, 8 * (e % 4)>>}
      BY <2>6 DEF Belongs
    <3> QED BY <2>3, <2>4, <2>5, <2>6, <3>1 DEF e
  <2>7. CASE hfn.fn = "hashbig"
    <3>1. Belongs(hfn.fn, e) = {<<e \div 12, (e % 12) \div 4, e, 24 - 8 * (e % 4)>>}
      BY <2>7 DEF Belongs
    <3> QED BY <2>3, <2>4, <2>5, <2>7, <3>1 DEF e
  <2> QED BY <1>2, <2>6, <2>7 DEF ByteHashes
<1>3. CASE hfn.fn = "hash64_stable_16"
  <2>1. Block(hfn.fn) = 6 /\ MixesOf(hfn.fn) = 1
    BY <1>1, <1>3, BlockIs
  <2>2. i \in 0 .. 5 /\ mixes = k /\ e = 6 * k + i
    BY <2>1
  <2> HIDE DEF e
  <2>3. e \div 6 = k /\ (e % 6) \div 2 = i \div 2 /\ e % 2 = i % 2
    BY <2>2
  <2>4. Adds(hfn, left, i) = {<<k, i \div 2, e, 16 * (i % 2)>>}
    BY <1>3, <2>2 DEF Adds, e
  <2>5. Belongs(hfn.fn, e) = {<<e \div 6, (e % 6) \div 2, e, 16 * (e % 2)>>}
    BY <1>3 DEF Belongs
  <2> QED BY <2>3, <2>4, <2>5 DEF e
<1>4. CASE hfn.fn = "hash64_stable_64"
  <2>1. Block(hfn.fn) = 3 /\ MixesOf(hfn.fn) = 2
    BY <1>1, <1>4, BlockIs
  <2>2. i \in 0 .. 2 /\ mixes = 2 * k /\ e = 3 * k + i
    BY <2>1
  <2> HIDE DEF e
  <2>3. Adds(hfn, left, i) = {<<2 * k + (w \div 3), w % 3, e, 0>> : w \in {2 * i, 2 * i + 1}}
    BY <1>4, <2>2 DEF Adds, e
  <2>4. Belongs(hfn.fn, e) = {<<w \div 3, w % 3, e, 0>> : w \in {2 * e, 2 * e + 1}}
    BY <1>4 DEF Belongs
  <2>5. \A w \in {2 * i, 2 * i + 1} :
          /\ 6 * k + w \in Int /\ (6 * k + w) \div 3 = 2 * k + (w \div 3)
          /\ (6 * k + w) % 3 = w % 3
    BY <2>2
  <2>6. 2 * e = 6 * k + 2 * i /\ 2 * e + 1 = 6 * k + (2 * i + 1)
    BY <2>2
  <2>7. Belongs(hfn.fn, e) = {<<(6 * k + w) \div 3, (6 * k + w) % 3, e, 0>> :
                                w \in {2 * i, 2 * i + 1}}
    BY <2>4, <2>6
  <2>8. Adds(hfn, left, i) = Belongs(hfn.fn, e)
    BY <2>3, <2>5, <2>7
  <2> QED BY <2>8 DEF e
<1>5. CASE hfn.fn \in {"hash_u32", "hash64_stable_32"}
  <2>1. Block(hfn.fn) = 3 /\ MixesOf(hfn.fn) = 1
    BY <1>1, <1>5, BlockIs
  <2>2. i \in 0 .. 2 /\ mixes = k /\ e = 3 * k + i
    BY <2>1
  <2> HIDE DEF e
  <2>3. e \div 3 = k /\ e % 3 = i
    BY <2>2
  <2>4. Adds(hfn, left, i) = {<<k, i, e, 0>>}
    BY <1>5, <2>2 DEF Adds, e
  <2>5. Belongs(hfn.fn, e) = {<<e \div 3, e % 3, e, 0>>}
    BY <1>5 DEF Belongs
  <2> QED BY <2>3, <2>4, <2>5 DEF e
<1> QED BY <1>1, <1>2, <1>3, <1>4, <1>5 DEF Hashes, ByteHashes

\* What m more elements add.
LEMMA AddedByMore ==
  ASSUME NEW fn, NEW n \in Nat, NEW m \in Nat
  PROVE  AddedBy(fn, n + m) = AddedBy(fn, n) \cup AddedFrom(fn, n, m)
<1>1. \A e \in 0 .. n + m - 1 : e \in 0 .. n - 1 \/ (e - n \in 0 .. m - 1 /\ e = n + (e - n))
  OBVIOUS
<1>2. /\ \A e \in 0 .. n - 1 : e \in 0 .. n + m - 1
      /\ \A i \in 0 .. m - 1 : n + i \in 0 .. n + m - 1
  OBVIOUS
<1> DEFINE B(e) == Belongs(fn, e)
<1> HIDE DEF B
<1>3. UNION {B(e) : e \in 0 .. n + m - 1}
        = (UNION {B(e) : e \in 0 .. n - 1}) \cup (UNION {B(n + i) : i \in 0 .. m - 1})
  BY <1>1, <1>2
<1> QED BY <1>3 DEF AddedBy, AddedFrom, B

\* No hash is computed yet.
LEMMA HashInitOK == HashInit => HashInv
BY DEF HashInit, HashInv

\* A hash starts: no element is added.
LEMMA HashStartOK == HashInv /\ HashStart => HashInv'
<1> SUFFICES ASSUME HashInv, HashStart PROVE HashInv'
  OBVIOUS
<1>1. /\ hfn' \in Finds /\ num' \in Nat /\ length' = num' /\ mixes = 0 /\ added = {} /\ ~hashed
      /\ UNCHANGED <<mixes, added, hashed>>
  BY KeyAssumption DEF HashStart, HashInv, Finds
<1>2. hfn'.fn # "none" /\ hfn'.fn \in Hashes
  BY <1>1 DEF Finds, Hashes
<1>3. Block(hfn'.fn) \in Nat /\ MixesOf(hfn'.fn) \in Nat
  BY <1>2, BlockIs DEF MixesOf
<1>4. num' - length' = Block(hfn'.fn) * 0 /\ mixes' = MixesOf(hfn'.fn) * 0 /\ num' - length' = 0
  <2>1. \A x \in Nat : x * 0 = 0
    OBVIOUS
  <2>2. num' \in Nat /\ length' \in Nat /\ length' = num' /\ mixes' = 0
    BY <1>1
  <2>3. num' - length' = 0
    <3>1. \A x \in Nat : x - x = 0
      OBVIOUS
    <3>2. num' - length' = num' - num'
      BY <2>2
    <3>3. num' \in Nat
      BY <2>2
    <3> QED BY <3>1, <3>2, <3>3
  <2> QED BY <1>3, <2>1, <2>2, <2>3
<1>5. AddedBy(hfn'.fn, 0) = {}
  BY DEF AddedBy
<1> QED BY <1>1, <1>2, <1>4, <1>5 DEF HashInv

\* A full block is added and mixed while more than a block is left.
LEMMA MixBlockOK == HashInv /\ MixBlock => HashInv'
<1> SUFFICES ASSUME HashInv, MixBlock PROVE HashInv'
  OBVIOUS
<1> DEFINE b == Block(hfn.fn)
           m == MixesOf(hfn.fn)
           d == num - length
<1>1. /\ hfn.fn # "none" /\ length > b
      /\ added' = added \cup UNION {Adds(hfn, b, i) : i \in 0 .. b - 1}
      /\ mixes' = mixes + m /\ length' = length - b
      /\ UNCHANGED <<hfn, num, hashed>>
  BY DEF MixBlock
<1>2. /\ num \in Nat /\ length \in Nat /\ mixes \in Nat /\ length <= num /\ hfn \in Finds
      /\ hashed => length <= b
      /\ added = AddedBy(hfn.fn, IF hashed /\ ~Uncased(hfn.fn, length) THEN num ELSE d)
  BY <1>1 DEF HashInv
<1>3. b \in Nat /\ m \in Nat
  <2>1. hfn.fn \in Hashes
    BY <1>2 DEF Finds
  <2> QED BY <2>1, BlockIs DEF MixesOf
<1>4. PICK k \in Nat : d = b * k /\ mixes = m * k
  BY <1>1 DEF HashInv
<1>5. ~hashed /\ added = AddedBy(hfn.fn, d) /\ d \in Nat
  BY <1>1, <1>2, <1>3
<1>6. ASSUME NEW i \in 0 .. b - 1 PROVE Adds(hfn, b, i) = Belongs(hfn.fn, d + i)
  BY <1>2, <1>3, <1>4, AddsIs
<1>7. added' = AddedBy(hfn.fn, d + b)
  <2> HIDE DEF b, d
  <2>1. UNION {Adds(hfn, b, i) : i \in 0 .. b - 1} = AddedFrom(hfn.fn, d, b)
    BY <1>6 DEF AddedFrom
  <2>2. b \in Nat /\ d \in Nat
    BY <1>3, <1>5
  <2>3. AddedBy(hfn.fn, d + b) = AddedBy(hfn.fn, d) \cup AddedFrom(hfn.fn, d, b)
    BY <2>2, AddedByMore
  <2>4. added' = added \cup AddedFrom(hfn.fn, d, b)
    BY <1>1, <2>1
  <2> QED BY <1>5, <2>3, <2>4
<1>8. num' - length' = b * (k + 1) /\ mixes' = m * (k + 1) /\ num' - length' = d + b
  <2>1. b * (k + 1) = b * k + b /\ m * (k + 1) = m * k + m
    BY <1>3
  <2>2. num' - length' = d + b
    BY <1>1, <1>2, <1>3
  <2> HIDE DEF b, m, d
  <2> QED BY <1>1, <1>4, <2>1, <2>2
<1>9. num' \in Nat /\ length' \in Nat /\ mixes' \in Nat /\ length' <= num'
  <2> HIDE DEF b, m
  <2> QED BY <1>1, <1>2, <1>3
<1> HIDE DEF b, m, d
<1>10. \E j \in Nat : num' - length' = b * j /\ mixes' = m * j
  BY <1>8
<1> QED BY <1>1, <1>2, <1>5, <1>7, <1>8, <1>9, <1>10 DEF HashInv, b, m, d

\* What is left is added by the cases of the switch.
LEMMA LastBlockOK == HashInv /\ LastBlock => HashInv'
<1> SUFFICES ASSUME HashInv, LastBlock PROVE HashInv'
  OBVIOUS
<1> DEFINE b == Block(hfn.fn)
           d == num - length
<1>1. /\ hfn.fn # "none" /\ ~hashed /\ length <= b
      /\ added' = IF length \in Cases(hfn.fn)
                  THEN added \cup UNION {Adds(hfn, length, i) : i \in 0 .. length - 1}
                  ELSE added
      /\ hashed' = TRUE
      /\ UNCHANGED <<hfn, num, length, mixes>>
  BY DEF LastBlock
<1>2. /\ num \in Nat /\ length \in Nat /\ mixes \in Nat /\ length <= num /\ hfn \in Finds
      /\ added = AddedBy(hfn.fn, d) /\ d \in Nat
  BY <1>1 DEF HashInv
<1>3. b \in Nat /\ hfn.fn \in Hashes
  <2>1. hfn.fn \in Hashes
    BY <1>2 DEF Finds
  <2> QED BY <2>1, BlockIs
<1>4. PICK k \in Nat : d = b * k /\ mixes = MixesOf(hfn.fn) * k
  BY <1>1 DEF HashInv
<1>5. ASSUME NEW i \in 0 .. length - 1 PROVE Adds(hfn, length, i) = Belongs(hfn.fn, d + i)
  <2>1. length \in 0 .. b /\ i \in 0 .. b - 1
    BY <1>1, <1>2, <1>3
  <2> QED BY <1>2, <1>4, <2>1, AddsIs
<1>6. length \in Cases(hfn.fn) <=> length # 0 /\ ~Uncased(hfn.fn, length)
  <2>1. CASE hfn.fn \in {"hashlittle", "hashbig", "hash_u32"}
    BY <1>1, <1>2, <1>3, <2>1 DEF Cases, Uncased
  <2>2. CASE hfn.fn \notin {"hashlittle", "hashbig", "hash_u32"}
    BY <1>1, <1>2, <1>3, <2>2 DEF Cases, Uncased
  <2> QED BY <2>1, <2>2
<1>7. d + length = num /\ (length = 0 => d = num)
  BY <1>2
<1>8. length # 0 /\ ~Uncased(hfn.fn, length) => added' = AddedBy(hfn.fn, num)
  <2> HIDE DEF d
  <2>1. UNION {Adds(hfn, length, i) : i \in 0 .. length - 1} = AddedFrom(hfn.fn, d, length)
    BY <1>5 DEF AddedFrom
  <2>2. AddedBy(hfn.fn, d + length) = AddedBy(hfn.fn, d) \cup AddedFrom(hfn.fn, d, length)
    BY <1>2, AddedByMore
  <2> QED BY <1>1, <1>2, <1>6, <1>7, <2>1, <2>2
<1>9. added' = AddedBy(hfn.fn, IF ~Uncased(hfn.fn, length) THEN num ELSE d)
  <2>1. CASE length = 0
    <3>1. added' = added /\ d = num
      BY <1>1, <1>6, <1>7, <2>1
    <3> HIDE DEF d
    <3> QED BY <3>1, <1>2
  <2>2. CASE length # 0 /\ Uncased(hfn.fn, length)
    BY <1>1, <1>2, <1>6, <2>2
  <2>3. CASE length # 0 /\ ~Uncased(hfn.fn, length)
    BY <1>8, <2>3
  <2> QED BY <2>1, <2>2, <2>3
<1>10. \E j \in Nat : num' - length' = Block(hfn'.fn) * j /\ mixes' = MixesOf(hfn'.fn) * j
  BY <1>1, <1>4
<1> QED BY <1>1, <1>2, <1>9, <1>10 DEF HashInv

\* Whole blocks are mixed and the elements of those blocks, and at the end of the rest,
\* are added where they belong (hashlittle, hashbig, hash_u32, hash64_stable_*).
THEOREM AlwaysHashInv == HashSpec => []HashInv
<1>1. HashInv /\ [HashNext]_hvars => HashInv'
  <2>1. HashInv /\ UNCHANGED hvars => HashInv'
    BY DEF HashInv, hvars
  <2> QED BY <2>1, HashStartOK, MixBlockOK, LastBlockOK DEF HashNext
<1> QED BY <1>1, HashInitOK, PTL DEF HashSpec

\* A hash adds each element of its key to the register, and at the place in it, that the
\* element has in the key, whatever the order of the bytes of the machine, the address of
\* the key and so the width of the loads, for keys of any length (hash_any, hash_stable).
THEOREM AlwaysSameOnAllMachines == HashSpec => []SameOnAllMachines
<1>1. HashInv => SameOnAllMachines
  <2> SUFFICES ASSUME HashInv, hashed PROVE SameOnAllMachines
    BY DEF SameOnAllMachines
  <2> DEFINE u == length = Block(hfn.fn) /\ hfn.fn \notin {"hashlittle", "hashbig", "hash_u32"}
             all == IF u THEN num - length ELSE num
  <2>1. added = AddedBy(hfn.fn, IF ~u THEN num ELSE num - length)
    BY DEF HashInv, Uncased
  <2>2. (IF ~u THEN num ELSE num - length) = all
    OBVIOUS
  <2> QED BY <2>1, <2>2 DEF SameOnAllMachines, AddedBy
<1> QED BY <1>1, AlwaysHashInv, PTL

-----------------------------------------------------------------------------
\* Module List, of these blocks, and what is proved of it.
LP == INSTANCE ListProofs WITH
        ListHeads <- TalGroups, ListNodes <- TalAddrs,
        NoHead <- NULL_PARENT, call <- <<>>, loop <- [on |-> FALSE],
        links <- ptrs,
        on <- [a \in TalAddrs |-> IF a \in Linked THEN blocks[a].parent_child
                                  ELSE NULL_PARENT]

\* The properties that chains are made of; a block has one name, of either kind.
Props ==
  {<<"children", g>> : g \in TalGroups} \cup {<<"length", b>> : b \in TalAddrs}
    \cup {<<t>> : t \in {"free", "child", "name", "literal"}}
KindOf(x) == IF x[1] = "literal" THEN "name" ELSE x[1]

\* A chain of the block at a: one property of each kind.
Chained(a, c, G) ==
  /\ c \in Seq(Props)
  /\ \A i, j \in 1 .. Len(c) : KindOf(c[i]) = KindOf(c[j]) => i = j
  /\ \A k \in 1 .. Len(c) :
       /\ c[k][1] = "literal" => k = Len(c)
       /\ c[k][1] = "length" => c[k][2] = a
       /\ c[k][1] = "children" => G[c[k][2]] = a

\* The blocks in use, those of them on a list, and on which.
AliveIn(B) == {a \in TalAddrs : B[a].live}
LinkedIn(B) == {a \in AliveIn(B) : ~B[a].dying}
OnIn(B) == [a \in TalAddrs |-> IF a \in LinkedIn(B) THEN B[a].parent_child ELSE NULL_PARENT]
BlockRecs == [live : BOOLEAN, parent_child : TalGroups \cup {NULL_PARENT}, dying : BOOLEAN,
              prop : Seq(Props)]

\* No blocks are each other's parents.
Grounded(B, G) ==
  \A S \in SUBSET LinkedIn(B) : (\A a \in S : G[B[a].parent_child] \in S) => S = {}

\* A block in use, and one that is not.
BlockOK(B, G, a) ==
  IF B[a].live
  THEN /\ B[a].parent_child \in TalGroups
       /\ Chained(a, B[a].prop, G)
       /\ ~B[a].dying => G[B[a].parent_child] \in AliveIn(B) \cup {NULL_PARENT}
  ELSE B[a] = Unused

\* A list of children, and who has it.
GroupOK(B, G, g) ==
  /\ G[g] \in AliveIn(B) \cup {FREE, NULL_PARENT}
  /\ G[g] = NULL_PARENT <=> g = NullGroup
  /\ G[g] \in AliveIn(B) => \E k \in 1 .. Len(B[G[g]].prop) : B[G[g]].prop[k] = <<"children", g>>

\* The blocks B, the lists G and the pointers P make a forest: of null_parent's
\* blocks, and of those that are being destroyed.
Forest(B, G, P) ==
  /\ B \in [TalAddrs -> BlockRecs]
  /\ G \in [TalGroups -> TalAddrs \cup {FREE, NULL_PARENT}]
  /\ L!Rings(P, OnIn(B))
  /\ \A a \in TalAddrs : BlockOK(B, G, a)
  /\ \A g \in TalGroups : GroupOK(B, G, g)
  /\ Grounded(B, G)

\* del_tree's calls are for the blocks that are marked, each once.
Calls(B, s) ==
  /\ s \in Seq([t : TalAddrs, at : {"destructor", "children"}])
  /\ \A i, j \in 1 .. Len(s) : s[i].t = s[j].t => i = j
  /\ AliveIn(B) \ LinkedIn(B) = {s[k].t : k \in 1 .. Len(s)}

\* notifiers counts at least the blocks with one.
NotedIn(B) == {a \in AliveIn(B) : \E k \in 1 .. Len(B[a].prop) : B[a].prop[k][1] = "child"}

\* The inductive invariant.
TalInv ==
  /\ Forest(blocks, groups, ptrs)
  /\ Calls(blocks, stack)
  /\ notifiers \in Nat /\ Cardinality(NotedIn(blocks)) <= notifiers

-----------------------------------------------------------------------------
\* What is assumed of lists holds of these.
LEMMA ListsAssumed ==
  /\ LP!ListAssumption
  /\ TalGroups \cap TalAddrs = {} /\ NULL_PARENT \notin TalGroups /\ NULL_PARENT \notin TalAddrs
  /\ FREE \notin TalGroups /\ FREE \notin TalAddrs /\ FREE # NULL_PARENT
  /\ NullGroup \in TalGroups
  /\ IsFiniteSet(TalAddrs)
<1>1. /\ TalGroups \cap TalAddrs = {} /\ NULL_PARENT \notin TalGroups /\ NULL_PARENT \notin TalAddrs
      /\ FREE \notin TalGroups /\ FREE \notin TalAddrs /\ FREE # NULL_PARENT
  BY TalAssumption DEF NULL_PARENT, FREE
<1>2. \A S : IsFiniteSet(S) <=> LP!IsFiniteSet(S)
  BY DEF IsFiniteSet, LP!IsFiniteSet
<1> QED BY <1>1, <1>2, TalAssumption DEF LP!ListAssumption

\* The lists of module List, and those the lemmas about it speak of, are the same.
LEMMA RingsAre ==
  ASSUME NEW l, NEW o
  PROVE  /\ L!Rings(l, o) <=> LP!Rings(l, o)
         /\ LP!Live(o) = L!Live(o) /\ LP!Listed(o) = L!Listed(o)
         /\ \A c : LP!ListOf(o, c) = L!ListOf(o, c)
BY DEF L!Rings, LP!Rings, L!Symmetric, LP!Symmetric, L!Headed, LP!Headed, L!Links, LP!Links,
       L!Cells, LP!Cells, L!Live, LP!Live, L!Listed, LP!Listed, L!ListOf, LP!ListOf

\* list_add_after, list_del and list_swap keep the rings, as lemmas about module
\* List say; here after a list's head.
LEMMA AfterRings ==
  ASSUME NEW l, NEW o, L!Rings(l, o), NEW g \in TalGroups, NEW n \in TalAddrs \ L!Listed(o)
  PROVE  L!Rings(L!AfterLinks(l, g, n), [o EXCEPT ![n] = g])
<1>1. LP!Rings(l, o) /\ g \in LP!Live(o) /\ n \in TalAddrs \ LP!Listed(o)
  BY RingsAre DEF LP!Live
<1>2. LP!Rings(LP!AfterLinks(l, g, n), [o EXCEPT ![n] = LP!ListOf(o, g)])
  BY <1>1, ListsAssumed, LP!AfterRings
<1>3. LP!AfterLinks(l, g, n) = L!AfterLinks(l, g, n) /\ LP!ListOf(o, g) = g
  BY DEF L!AfterLinks, LP!AfterLinks, LP!ListOf
<1> QED BY <1>2, <1>3, RingsAre

\* list_del, of a block that is on a list.
LEMMA DelRings ==
  ASSUME NEW l, NEW o, L!Rings(l, o), NEW n \in L!Listed(o)
  PROVE  L!Rings(L!DelLinks(l, n), [o EXCEPT ![n] = NULL_PARENT])
<1>1. LP!Rings(l, o) /\ n \in LP!Listed(o)
  BY RingsAre
<1>2. LP!Rings(LP!DelLinks(l, n), [o EXCEPT ![n] = NULL_PARENT])
  BY <1>1, ListsAssumed, LP!DelRings
<1>3. LP!DelLinks(l, n) = L!DelLinks(l, n)
  BY DEF L!DelLinks, LP!DelLinks
<1> QED BY <1>2, <1>3, RingsAre

\* list_swap, with a block that is on none.
LEMMA SwapRings ==
  ASSUME NEW l, NEW o, L!Rings(l, o), NEW x \in L!Listed(o), NEW n \in TalAddrs \ L!Listed(o)
  PROVE  L!Rings(L!SwapLinks(l, x, n), [o EXCEPT ![n] = o[x], ![x] = NULL_PARENT])
<1>1. LP!Rings(l, o) /\ x \in LP!Listed(o) /\ n \in TalAddrs \ LP!Listed(o)
  BY RingsAre
<1>2. LP!Rings(LP!SwapLinks(l, x, n), [o EXCEPT ![n] = o[x], ![x] = NULL_PARENT])
  BY <1>1, ListsAssumed, LP!SwapRings
<1>3. LP!SwapLinks(l, x, n) = L!SwapLinks(l, x, n)
  BY DEF L!SwapLinks, LP!SwapLinks
<1> QED BY <1>2, <1>3, RingsAre

\* A cell on no list, or the head of an empty one, is made a ring of its own.
LEMMA InitRings ==
  ASSUME NEW l, NEW o, L!Rings(l, o), NEW c \in TalAddrs \cup TalGroups,
         c \in L!Live(o) => l.next[c] = c
  PROVE  L!Rings(L!InitLinks(l, c), o)
<1> DEFINE m == L!InitLinks(l, c)
<1>1. LP!Rings(l, o) /\ l \in LP!Links /\ LP!Cells = TalAddrs \cup TalGroups
  BY RingsAre DEF LP!Rings, LP!Cells
<1>2. m \in LP!Links
  BY <1>1 DEF L!InitLinks, LP!Links
<1>3. \A d \in LP!Live(o) : d \in LP!Cells /\ l.prev[l.next[d]] = d
  BY <1>1 DEF LP!Rings, LP!Symmetric, LP!Live, LP!Listed, LP!Cells
<1>4. c \in LP!Live(o) => l.prev[c] = c /\ l.next[c] = c
  BY <1>3, RingsAre
<1>5. \A d \in LP!Live(o) : m.next[d] = l.next[d] /\ m.prev[d] = l.prev[d]
  BY <1>1, <1>3, <1>4 DEF L!InitLinks, LP!Links
<1> HIDE DEF m
<1>6. LP!Rings(m, o)
  BY <1>1, <1>2, <1>5, ListsAssumed, LP!SameRings
<1> QED BY <1>6, RingsAre DEF m

\* A list is empty when nothing is on it.
LEMMA EmptyRing ==
  ASSUME NEW l, NEW o, L!Rings(l, o), NEW g \in TalGroups
  PROVE  /\ l.next[g] = g <=> \A n \in TalAddrs : o[n] # g
         /\ l.next[g] # g => l.next[g] \in L!Listed(o) /\ o[l.next[g]] = g
<1>1. /\ \A c \in L!Live(o) :
           /\ l.next[c] \in L!Live(o) /\ L!ListOf(o, l.next[c]) = L!ListOf(o, c)
           /\ l.prev[c] \in L!Live(o) /\ L!ListOf(o, l.prev[c]) = L!ListOf(o, c)
           /\ l.prev[l.next[c]] = c /\ l.next[l.prev[c]] = c
      /\ \A S \in SUBSET L!Listed(o) : (\A c \in S : l.next[c] \in S) => S = {}
      /\ o \in [TalAddrs -> TalGroups \cup {NULL_PARENT}]
  BY DEF L!Rings, L!Symmetric, L!Headed
<1>2. /\ L!Live(o) = TalGroups \cup L!Listed(o)
      /\ L!Listed(o) = {n \in TalAddrs : o[n] # NULL_PARENT}
      /\ \A c \in TalGroups : L!ListOf(o, c) = c
      /\ \A c \in L!Listed(o) : L!ListOf(o, c) = o[c]
      /\ L!Listed(o) \cap TalGroups = {}
  BY ListsAssumed DEF L!Live, L!Listed, L!ListOf
<1>3. l.next[g] # g => l.next[g] \in L!Listed(o) /\ o[l.next[g]] = g
  BY <1>1, <1>2
<1>4. ASSUME l.next[g] = g, NEW n \in TalAddrs, o[n] = g PROVE FALSE
  <2> DEFINE S == {c \in L!Listed(o) : o[c] = g}
  <2>1. ASSUME NEW c \in S PROVE l.next[c] \in S
    <3>1. l.next[c] \in L!Live(o) /\ L!ListOf(o, l.next[c]) = g /\ l.prev[l.next[c]] = c
      BY <1>1, <1>2
    <3>2. l.next[c] # g
      <4>1. l.prev[g] = g
        BY <1>1, <1>2, <1>4
      <4> QED BY <3>1, <4>1, <1>2
    <3>3. l.next[c] \in L!Listed(o)
      BY <3>1, <3>2, <1>2
    <3> QED BY <3>1, <3>3, <1>2
  <2>2. S = {}
    BY <2>1, <1>1
  <2>3. n \in S
    BY <1>2, <1>4, ListsAssumed
  <2> QED BY <2>2, <2>3
<1>5. l.next[g] = g => \A n \in TalAddrs : o[n] # g
  BY <1>4
<1>6. (\A n \in TalAddrs : o[n] # g) => l.next[g] = g
  BY <1>2, <1>3
<1> QED BY <1>3, <1>5, <1>6

-----------------------------------------------------------------------------
(* Chains of properties. *)

\* What the parts of chains are.
LEMMA PropsAre ==
  /\ \A g \in TalGroups : <<"children", g>> \in Props
  /\ \A b \in TalAddrs : <<"length", b>> \in Props
  /\ \A t \in {"free", "child", "name", "literal"} : <<t>> \in Props
  /\ \A x \in Props :
       /\ x[1] \in {"children", "length", "free", "child", "name", "literal"}
       /\ x[1] = "children" => x = <<"children", x[2]>> /\ x[2] \in TalGroups
       /\ x[1] = "length" => x = <<"length", x[2]>> /\ x[2] \in TalAddrs
BY DEF Props

\* In front of a chain goes a property of a kind it does not have.
LEMMA PrependIs ==
  ASSUME NEW S, NEW c \in Seq(S), NEW x \in S
  PROVE  /\ <<x>> \o c \in Seq(S) /\ Len(<<x>> \o c) = Len(c) + 1
         /\ (<<x>> \o c)[1] = x
         /\ \A k \in 1 .. Len(c) : (<<x>> \o c)[k + 1] = c[k]
OBVIOUS

\* What goes in front keeps the chain.
LEMMA PrependChained ==
  ASSUME NEW a, NEW G, NEW c, Chained(a, c, G), NEW x \in Props,
         \A k \in 1 .. Len(c) : KindOf(c[k]) # KindOf(x),
         x[1] # "literal",
         x[1] = "length" => x[2] = a,
         x[1] = "children" => G[x[2]] = a
  PROVE  Chained(a, <<x>> \o c, G)
<1> DEFINE d == <<x>> \o c
<1>1. c \in Seq(Props) /\ Len(c) \in Nat
  BY DEF Chained
<1>2. /\ d \in Seq(Props) /\ Len(d) = Len(c) + 1 /\ d[1] = x
      /\ \A k \in 1 .. Len(c) : d[k + 1] = c[k]
  BY <1>1, PrependIs
<1> HIDE DEF d
<1>3. \A k \in 2 .. Len(d) : k - 1 \in 1 .. Len(c) /\ d[k] = c[k - 1]
  <2> SUFFICES ASSUME NEW k \in 2 .. Len(d) PROVE k - 1 \in 1 .. Len(c) /\ d[k] = c[k - 1]
    OBVIOUS
  <2>1. k - 1 \in 1 .. Len(c) /\ (k - 1) + 1 = k
    BY <1>1, <1>2
  <2> QED BY <1>2, <2>1
<1>4. ASSUME NEW i \in 1 .. Len(d), NEW j \in 1 .. Len(d), KindOf(d[i]) = KindOf(d[j])
      PROVE  i = j
  <2>1. CASE i = 1 /\ j = 1
    BY <2>1
  <2>2. CASE i = 1 /\ j # 1
    <3>1. j \in 2 .. Len(d)
      BY <1>1, <1>2, <2>2
    <3> QED BY <1>2, <1>3, <1>4, <2>2, <3>1
  <2>3. CASE i # 1 /\ j = 1
    <3>1. i \in 2 .. Len(d)
      BY <1>1, <1>2, <2>3
    <3> QED BY <1>2, <1>3, <1>4, <2>3, <3>1
  <2>4. CASE i # 1 /\ j # 1
    <3>1. i \in 2 .. Len(d) /\ j \in 2 .. Len(d)
      BY <1>1, <1>2, <2>4
    <3>2. i - 1 = j - 1
      BY <1>3, <1>4, <3>1 DEF Chained
    <3> QED BY <3>1, <3>2, <1>1, <1>2
  <2> QED BY <2>1, <2>2, <2>3, <2>4
<1>5. ASSUME NEW k \in 1 .. Len(d)
      PROVE  /\ d[k][1] = "literal" => k = Len(d)
             /\ d[k][1] = "length" => d[k][2] = a
             /\ d[k][1] = "children" => G[d[k][2]] = a
  <2>1. CASE k = 1
    BY <1>2, <2>1
  <2>2. CASE k # 1
    <3>1. k \in 2 .. Len(d)
      BY <1>1, <1>2, <2>2
    <3>2. /\ c[k - 1][1] = "literal" => k - 1 = Len(c)
          /\ c[k - 1][1] = "length" => c[k - 1][2] = a
          /\ c[k - 1][1] = "children" => G[c[k - 1][2]] = a
      BY <1>3, <3>1 DEF Chained
    <3>3. k - 1 = Len(c) => k = Len(d)
      BY <1>1, <1>2, <3>1
    <3> QED BY <1>3, <3>1, <3>2, <3>3
  <2> QED BY <2>1, <2>2
<1>6. Chained(a, d, G)
  BY <1>2, <1>4, <1>5 DEF Chained
<1> QED BY <1>6 DEF d

\* The place of a property is the one find_property gives.
LEMMA PlaceIs ==
  ASSUME NEW a, NEW G, NEW c, Chained(a, c, G), NEW type, NEW k \in 1 .. Len(c), c[k][1] = type
  PROVE  Places(c, type) = {k} /\ Min(Places(c, type)) = k
<1>1. c \in Seq(Props) /\ DOMAIN c = 1 .. Len(c) /\ Len(c) \in Nat
  BY DEF Chained
<1>2. \A j \in 1 .. Len(c) : c[j][1] = type => j = k
  BY DEF Chained, KindOf
<1>3. Places(c, type) = {k}
  BY <1>1, <1>2 DEF Places
<1>4. Min({k}) = k
  <2>1. \A j \in {k} : k <= j
    BY <1>1
  <2> QED BY <2>1 DEF Min
<1> QED BY <1>3, <1>4

\* A property is taken out.
LEMMA RemoveIs ==
  ASSUME NEW S, NEW s \in Seq(S), NEW k \in 1 .. Len(s)
  PROVE  /\ RemoveAt(s, k) \in Seq(S) /\ Len(RemoveAt(s, k)) = Len(s) - 1
         /\ \A j \in 1 .. Len(s) - 1 :
              RemoveAt(s, k)[j] = IF j < k THEN s[j] ELSE s[j + 1]
BY ListsAssumed, LP!RemoveAtIs DEF RemoveAt, LP!RemoveAt

\* What holds of every part of a chain, taken without its k-th property.
LEMMA RemoveChained ==
  ASSUME NEW a, NEW G, NEW c, Chained(a, c, G), NEW k \in 1 .. Len(c)
  PROVE  /\ Chained(a, RemoveAt(c, k), G)
         /\ \A x : (\E j \in 1 .. Len(RemoveAt(c, k)) : RemoveAt(c, k)[j] = x)
                     <=> (x # c[k] /\ \E j \in 1 .. Len(c) : c[j] = x)
<1> DEFINE d == RemoveAt(c, k)
           At(j) == IF j < k THEN j ELSE j + 1
<1>1. c \in Seq(Props) /\ Len(c) \in Nat
  BY DEF Chained
<1>2. /\ d \in Seq(Props) /\ Len(d) = Len(c) - 1
      /\ \A j \in 1 .. Len(c) - 1 : d[j] = IF j < k THEN c[j] ELSE c[j + 1]
  BY <1>1, RemoveIs
<1> HIDE DEF d
<1>3. \A j \in 1 .. Len(d) : At(j) \in 1 .. Len(c) /\ d[j] = c[At(j)] /\ At(j) # k
                            /\ (At(j) = Len(c) => j = Len(d))
  BY <1>1, <1>2
<1>4. \A i, j \in 1 .. Len(d) : At(i) = At(j) => i = j
  BY <1>1, <1>2
<1>5. \A j \in 1 .. Len(c) : j # k => \E i \in 1 .. Len(d) : At(i) = j
  <2> SUFFICES ASSUME NEW j \in 1 .. Len(c), j # k PROVE \E i \in 1 .. Len(d) : At(i) = j
    OBVIOUS
  <2>1. CASE j < k
    BY <1>1, <1>2, <2>1
  <2>2. CASE j > k
    <3>1. j - 1 \in 1 .. Len(d) /\ At(j - 1) = j
      BY <1>1, <1>2, <2>2
    <3> QED BY <3>1
  <2> QED BY <1>1, <2>1, <2>2
<1> HIDE DEF At
<1>6. Chained(a, d, G)
  <2>1. \A i, j \in 1 .. Len(d) : KindOf(d[i]) = KindOf(d[j]) => i = j
    <3>1. \A i, j \in 1 .. Len(c) : KindOf(c[i]) = KindOf(c[j]) => i = j
      BY DEF Chained
    <3>2. \A j \in 1 .. Len(d) : At(j) \in 1 .. Len(c) /\ d[j] = c[At(j)]
      BY <1>3
    <3> QED BY <1>4, <3>1, <3>2, Zenon
  <2>2. \A j \in 1 .. Len(d) :
          /\ d[j][1] = "literal" => j = Len(d)
          /\ d[j][1] = "length" => d[j][2] = a
          /\ d[j][1] = "children" => G[d[j][2]] = a
    BY <1>3 DEF Chained
  <2> QED BY <1>2, <2>1, <2>2 DEF Chained
<1>7. ASSUME NEW x
      PROVE  (\E j \in 1 .. Len(d) : d[j] = x) <=> (x # c[k] /\ \E j \in 1 .. Len(c) : c[j] = x)
  <2>1. ASSUME NEW j \in 1 .. Len(d), d[j] = x PROVE x # c[k] /\ \E i \in 1 .. Len(c) : c[i] = x
    BY <1>3, <2>1 DEF Chained
  <2>2. ASSUME x # c[k], NEW j \in 1 .. Len(c), c[j] = x PROVE \E i \in 1 .. Len(d) : d[i] = x
    BY <1>3, <1>5, <2>2
  <2> QED BY <2>1, <2>2
<1> QED BY <1>6, <1>7 DEF d

\* A literal name is the last of its chain.
LEMMA FrontIs ==
  ASSUME NEW a, NEW G, NEW c, Chained(a, c, G), NEW k \in 1 .. Len(c), c[k][1] = "literal"
  PROVE  Front(c) = RemoveAt(c, k)
<1>1. c \in Seq(Props) /\ Len(c) \in Nat /\ k = Len(c)
  BY DEF Chained
<1>2. SubSeq(c, Len(c) + 1, Len(c)) = << >> /\ SubSeq(c, 1, Len(c) - 1) \in Seq(Props)
  BY <1>1
<1>3. SubSeq(c, 1, Len(c) - 1) \o << >> = SubSeq(c, 1, Len(c) - 1)
  BY <1>2
<1> QED BY <1>1, <1>2, <1>3 DEF Front, RemoveAt

\* A literal name goes at the end.
LEMMA AppendChained ==
  ASSUME NEW a, NEW G, NEW c, Chained(a, c, G),
         \A k \in 1 .. Len(c) : KindOf(c[k]) # "name"
  PROVE  Chained(a, Append(c, <<"literal">>), G)
<1> DEFINE x == <<"literal">>
           d == Append(c, x)
<1>1. c \in Seq(Props) /\ Len(c) \in Nat /\ x \in Props /\ KindOf(x) = "name"
      /\ x[1] = "literal"
  BY PropsAre DEF Chained, KindOf
<1> HIDE DEF x
<1>2. /\ d \in Seq(Props) /\ Len(d) = Len(c) + 1 /\ d[Len(c) + 1] = x
      /\ \A k \in 1 .. Len(c) : d[k] = c[k]
  BY <1>1
<1> HIDE DEF d
<1>3. \A k \in 1 .. Len(d) : k = Len(c) + 1 \/ k \in 1 .. Len(c)
  BY <1>1, <1>2
<1>4. \A i, j \in 1 .. Len(d) : KindOf(d[i]) = KindOf(d[j]) => i = j
  BY <1>1, <1>2, <1>3 DEF Chained
<1>5. \A k \in 1 .. Len(d) :
        /\ d[k][1] = "literal" => k = Len(d)
        /\ d[k][1] = "length" => d[k][2] = a
        /\ d[k][1] = "children" => G[d[k][2]] = a
  <2>1. \A k \in 1 .. Len(c) : c[k][1] # "literal"
    BY DEF KindOf
  <2>2. "literal" # "length" /\ "literal" # "children"
    OBVIOUS
  <2> QED BY <1>1, <1>2, <1>3, <2>1, <2>2 DEF Chained
<1>6. Chained(a, d, G)
  BY <1>2, <1>4, <1>5 DEF Chained
<1> QED BY <1>6 DEF d, x

-----------------------------------------------------------------------------
(* The forest. *)

\* What a forest has to do with the lists of children.
LEMMA ForestLists ==
  ASSUME NEW B, NEW G, NEW P, Forest(B, G, P)
  PROVE  /\ L!Listed(OnIn(B)) = LinkedIn(B)
         /\ OnIn(B) \in [TalAddrs -> TalGroups \cup {NULL_PARENT}]
         /\ \A x \in LinkedIn(B) : OnIn(B)[x] = B[x].parent_child /\ B[x].parent_child \in TalGroups
         /\ \A x \in TalAddrs \ LinkedIn(B) : OnIn(B)[x] = NULL_PARENT
         /\ \A x \in LinkedIn(B) : G[B[x].parent_child] \in AliveIn(B) \cup {NULL_PARENT}
<1>1. \A x \in LinkedIn(B) : /\ x \in TalAddrs /\ B[x].parent_child \in TalGroups
                             /\ G[B[x].parent_child] \in AliveIn(B) \cup {NULL_PARENT}
  BY DEF Forest, BlockOK, LinkedIn, AliveIn
<1> QED BY <1>1, ListsAssumed DEF OnIn, L!Listed

\* From B to C the block at a, that is on no list and will have the chain c, goes
\* onto the list g, and p, whose list it is, is not among U, a and all under it.
Joins(B, G, a, g, c, U, C) ==
  /\ a \in TalAddrs \ LinkedIn(B)
  /\ g \in TalGroups /\ G[g] \in AliveIn(B) \cup {NULL_PARENT}
  /\ Chained(a, c, G)
  /\ \A h \in TalGroups : G[h] = a => \E k \in 1 .. Len(c) : c[k] = <<"children", h>>
  /\ a \in U /\ G[g] \notin U
  /\ \A x \in LinkedIn(B) : G[B[x].parent_child] \in U => x \in U
  /\ C \in [TalAddrs -> BlockRecs]
  /\ \A x \in TalAddrs \ {a} : C[x] = B[x]
  /\ C[a] = [live |-> TRUE, parent_child |-> g, dying |-> FALSE, prop |-> c]

\* add_child, when the list is there.
LEMMA LinkForest ==
  ASSUME NEW B, NEW G, NEW P, NEW a, NEW g, NEW c, NEW U, NEW C,
         Forest(B, G, P), Joins(B, G, a, g, c, U, C)
  PROVE  Forest(C, G, L!AfterLinks(P, g, a))
<1>0. /\ a \in TalAddrs \ LinkedIn(B)
      /\ g \in TalGroups /\ G[g] \in AliveIn(B) \cup {NULL_PARENT}
      /\ Chained(a, c, G)
      /\ \A h \in TalGroups : G[h] = a => \E k \in 1 .. Len(c) : c[k] = <<"children", h>>
      /\ a \in U /\ G[g] \notin U
      /\ \A x \in LinkedIn(B) : G[B[x].parent_child] \in U => x \in U
      /\ C \in [TalAddrs -> BlockRecs]
      /\ \A x \in TalAddrs \ {a} : C[x] = B[x]
      /\ C[a] = [live |-> TRUE, parent_child |-> g, dying |-> FALSE, prop |-> c]
  BY DEF Joins
<1> USE <1>0
<1>1. /\ AliveIn(C) = AliveIn(B) \cup {a} /\ LinkedIn(C) = LinkedIn(B) \cup {a}
      /\ C[a].live /\ ~C[a].dying /\ C[a].parent_child = g /\ C[a].prop = c
  BY DEF AliveIn, LinkedIn
<1>2. L!Rings(L!AfterLinks(P, g, a), OnIn(C))
  <2>1. OnIn(C) = [OnIn(B) EXCEPT ![a] = g]
    BY <1>1 DEF OnIn, AliveIn, LinkedIn
  <2>2. L!Rings(P, OnIn(B)) /\ a \in TalAddrs \ L!Listed(OnIn(B))
    BY ForestLists DEF Forest
  <2>3. L!Rings(L!AfterLinks(P, g, a), [OnIn(B) EXCEPT ![a] = g])
    BY <2>2, AfterRings
  <2> QED BY <2>1, <2>3
<1>3. ASSUME NEW x \in TalAddrs PROVE BlockOK(C, G, x)
  <2>1. CASE x = a
    BY <1>1, <2>1 DEF BlockOK
  <2>2. CASE x # a
    <3>1. BlockOK(B, G, x) /\ C[x] = B[x]
      BY <2>2 DEF Forest
    <3> QED BY <3>1, <1>1 DEF BlockOK
  <2> QED BY <2>1, <2>2
<1>4. ASSUME NEW h \in TalGroups PROVE GroupOK(C, G, h)
  <2>1. GroupOK(B, G, h)
    BY DEF Forest
  <2>2. G[h] \in AliveIn(C) => \E k \in 1 .. Len(C[G[h]].prop) : C[G[h]].prop[k] = <<"children", h>>
    <3>1. CASE G[h] = a
      BY <1>1, <3>1
    <3>2. CASE G[h] # a
      <4>1. G[h] \in AliveIn(C) => G[h] \in AliveIn(B) /\ C[G[h]] = B[G[h]]
        BY <1>1, <3>2 DEF AliveIn
      <4> QED BY <2>1, <4>1 DEF GroupOK
    <3> QED BY <3>1, <3>2
  <2> QED BY <1>1, <2>1, <2>2 DEF GroupOK
<1>5. Grounded(C, G)
  <2> SUFFICES ASSUME NEW S \in SUBSET LinkedIn(C), \A x \in S : G[C[x].parent_child] \in S
               PROVE  S = {}
    BY DEF Grounded
  <2> DEFINE T == S \ U
  <2>1. \A x \in LinkedIn(B) \ {a} : C[x] = B[x]
    BY DEF LinkedIn, AliveIn
  <2>2. T \in SUBSET LinkedIn(B) /\ \A x \in T : G[B[x].parent_child] \in T
    BY <1>1, <2>1
  <2>3. T = {}
    BY <2>2 DEF Forest, Grounded
  <2>4. a \notin S
    BY <1>1, <2>3
  <2>5. S \in SUBSET LinkedIn(B) /\ \A x \in S : G[B[x].parent_child] \in S
    BY <1>1, <2>1, <2>4
  <2> QED BY <2>5 DEF Forest, Grounded
<1> QED BY <1>2, <1>3, <1>4, <1>5 DEF Forest

\* A block gets its list of children.
LEMMA GroupForest ==
  ASSUME NEW B, NEW G, NEW P, Forest(B, G, P), NEW p \in AliveIn(B),
         NEW g \in TalGroups, G[g] = FREE,
         \A k \in 1 .. Len(B[p].prop) : B[p].prop[k][1] # "children"
  PROVE  /\ Forest([B EXCEPT ![p].prop = <<<<"children", g>>>> \o @], [G EXCEPT ![g] = p],
                   L!InitLinks(P, g))
         /\ Chained(p, <<<<"children", g>>>> \o B[p].prop, [G EXCEPT ![g] = p])
<1> DEFINE c == <<<<"children", g>>>> \o B[p].prop
           C == [B EXCEPT ![p].prop = <<<<"children", g>>>> \o @]
           H == [G EXCEPT ![g] = p]
           x0 == <<"children", g>>
<1>0. /\ p \in TalAddrs /\ B[p].live /\ p # FREE /\ p # NULL_PARENT /\ g # NullGroup
      /\ B \in [TalAddrs -> BlockRecs] /\ G \in [TalGroups -> TalAddrs \cup {FREE, NULL_PARENT}]
      /\ Chained(p, B[p].prop, G)
  <2>1. BlockOK(B, G, p) /\ GroupOK(B, G, NullGroup)
    BY ListsAssumed DEF Forest, AliveIn
  <2> QED BY <2>1, ListsAssumed DEF Forest, AliveIn, BlockOK, GroupOK
<1>1. /\ H \in [TalGroups -> TalAddrs \cup {FREE, NULL_PARENT}] /\ H[g] = p
      /\ \A h \in TalGroups \ {g} : H[h] = G[h]
  BY <1>0
<1>2. ASSUME NEW x \in TalAddrs, NEW d, Chained(x, d, G) PROVE Chained(x, d, H)
  <2>1. \A k \in 1 .. Len(d) : d[k][1] = "children" => d[k][2] \in TalGroups /\ d[k][2] # g
    BY <1>2, PropsAre, ListsAssumed DEF Chained
  <2> QED BY <1>1, <1>2, <2>1 DEF Chained
<1>3. Chained(p, c, H)
  <2> HIDE DEF H
  <2>1. Chained(p, B[p].prop, H)
    BY <1>0, <1>2
  <2>2. x0 \in Props /\ x0[1] = "children" /\ x0[2] = g /\ KindOf(x0) = "children"
    BY PropsAre DEF KindOf
  <2>3. \A k \in 1 .. Len(B[p].prop) : KindOf(B[p].prop[k]) # "children"
    BY DEF KindOf
  <2> HIDE DEF x0
  <2>4. Chained(p, <<x0>> \o B[p].prop, H)
    BY <2>1, <2>2, <2>3, <1>1, PrependChained
  <2> QED BY <2>4 DEF x0
<1>4. c \in Seq(Props) /\ Len(c) = Len(B[p].prop) + 1 /\ c[1] = x0
      /\ \A k \in 1 .. Len(B[p].prop) : c[k + 1] = B[p].prop[k]
  <2>1. B[p].prop \in Seq(Props) /\ x0 \in Props
    BY <1>0, PropsAre DEF Chained
  <2> HIDE DEF x0
  <2>2. c = <<x0>> \o B[p].prop
    BY DEF x0
  <2> QED BY <2>1, <2>2, PrependIs
<1> HIDE DEF c
<1>5. /\ C \in [TalAddrs -> BlockRecs]
      /\ \A x \in TalAddrs \ {p} : C[x] = B[x]
      /\ C[p].live = B[p].live /\ C[p].parent_child = B[p].parent_child
      /\ C[p].dying = B[p].dying /\ C[p].prop = c
  BY <1>0, <1>4 DEF BlockRecs, c
<1> HIDE DEF C, H
<1>6. AliveIn(C) = AliveIn(B) /\ LinkedIn(C) = LinkedIn(B) /\ OnIn(C) = OnIn(B)
  <2>1. \A x \in TalAddrs : C[x].live = B[x].live /\ C[x].dying = B[x].dying
                            /\ C[x].parent_child = B[x].parent_child
    BY <1>5
  <2> QED BY <2>1 DEF AliveIn, LinkedIn, OnIn
<1>7. \A x \in LinkedIn(B) : x \in TalAddrs /\ B[x].parent_child \in TalGroups \ {g}
                             /\ C[x].parent_child = B[x].parent_child
                             /\ H[B[x].parent_child] = G[B[x].parent_child]
  <2>1. \A x \in LinkedIn(B) : x \in TalAddrs /\ B[x].parent_child \in TalGroups
                               /\ G[B[x].parent_child] \in AliveIn(B) \cup {NULL_PARENT}
    BY ForestLists DEF LinkedIn, AliveIn
  <2>2. FREE \notin AliveIn(B) \cup {NULL_PARENT}
    BY ListsAssumed DEF AliveIn
  <2> QED BY <2>1, <2>2, <1>1, <1>5
<1>8. L!Rings(L!InitLinks(P, g), OnIn(C))
  <2>1. L!Rings(P, OnIn(B))
    BY DEF Forest
  <2>2. \A n \in TalAddrs : OnIn(B)[n] # g
    BY <1>7, ForestLists, ListsAssumed
  <2>3. P.next[g] = g
    BY <2>1, <2>2, EmptyRing
  <2> QED BY <2>1, <2>3, <1>6, InitRings
<1>9. ASSUME NEW x \in TalAddrs PROVE BlockOK(C, H, x)
  <2>1. BlockOK(B, G, x)
    BY DEF Forest
  <2>2. CASE ~C[x].live
    <3>1. x # p
      BY <2>2, <1>0, <1>5
    <3> QED BY <2>1, <2>2, <3>1, <1>5 DEF BlockOK
  <2>3. CASE C[x].live
    <3>1. B[x].live /\ C[x].parent_child \in TalGroups
      BY <2>1, <2>3, <1>5 DEF BlockOK
    <3>2. Chained(x, C[x].prop, H)
      <4>1. CASE x = p
        BY <4>1, <1>3, <1>5 DEF c
      <4>2. CASE x # p
        BY <4>2, <2>1, <3>1, <1>2, <1>5 DEF BlockOK
      <4> QED BY <4>1, <4>2
    <3>3. ~C[x].dying => H[C[x].parent_child] \in AliveIn(C) \cup {NULL_PARENT}
      <4> SUFFICES ASSUME ~C[x].dying PROVE H[C[x].parent_child] \in AliveIn(C) \cup {NULL_PARENT}
        OBVIOUS
      <4>1. x \in LinkedIn(B)
        BY <1>6, <2>3 DEF LinkedIn, AliveIn
      <4> QED BY <4>1, <1>6, <1>7, ForestLists
    <3> QED BY <2>3, <3>1, <3>2, <3>3 DEF BlockOK
  <2> QED BY <2>2, <2>3
<1>10. ASSUME NEW h \in TalGroups PROVE GroupOK(C, H, h)
  <2>1. GroupOK(B, G, h)
    BY DEF Forest
  <2>2. CASE h = g
    <3>1. H[h] = p /\ C[p].prop = c /\ c[1] = <<"children", g>> /\ 1 \in 1 .. Len(c)
      BY <2>2, <1>0, <1>1, <1>4, <1>5 DEF Chained
    <3> QED BY <2>2, <3>1, <1>0, <1>6 DEF GroupOK
  <2>3. CASE h # g
    <3>1. H[h] = G[h]
      BY <2>3, <1>1
    <3>2. G[h] \in AliveIn(B) =>
            \E k \in 1 .. Len(C[G[h]].prop) : C[G[h]].prop[k] = <<"children", h>>
      <4> SUFFICES ASSUME G[h] \in AliveIn(B)
                   PROVE \E k \in 1 .. Len(C[G[h]].prop) : C[G[h]].prop[k] = <<"children", h>>
        OBVIOUS
      <4>1. PICK k \in 1 .. Len(B[G[h]].prop) : B[G[h]].prop[k] = <<"children", h>>
        BY <2>1 DEF GroupOK
      <4>2. CASE G[h] = p
        <5>1. k + 1 \in 1 .. Len(c) /\ c[k + 1] = <<"children", h>>
          BY <4>1, <4>2, <1>0, <1>4 DEF Chained
        <5> QED BY <5>1, <4>2, <1>5
      <4>3. CASE G[h] # p
        <5>1. C[G[h]] = B[G[h]]
          BY <4>3, <1>5 DEF AliveIn
        <5> QED BY <5>1, <4>1
      <4> QED BY <4>2, <4>3
    <3> QED BY <2>1, <3>1, <3>2, <1>6 DEF GroupOK
  <2> QED BY <2>2, <2>3
<1>11. Grounded(C, H)
  <2> SUFFICES ASSUME NEW S \in SUBSET LinkedIn(C), \A x \in S : H[C[x].parent_child] \in S
               PROVE  S = {}
    BY DEF Grounded
  <2>1. S \in SUBSET LinkedIn(B) /\ \A x \in S : G[B[x].parent_child] \in S
    BY <1>6, <1>7
  <2> QED BY <2>1 DEF Forest, Grounded
<1>12. Forest(C, H, L!InitLinks(P, g))
  BY <1>1, <1>5, <1>8, <1>9, <1>10, <1>11 DEF Forest
<1> QED BY <1>3, <1>12 DEF C, H, c

\* A block is taken off its list, to be destroyed or put elsewhere.
LEMMA UnlinkForest ==
  ASSUME NEW B, NEW G, NEW P, Forest(B, G, P), NEW a \in LinkedIn(B)
  PROVE  /\ Forest([B EXCEPT ![a].dying = TRUE], G, L!DelLinks(P, a))
         /\ AliveIn([B EXCEPT ![a].dying = TRUE]) = AliveIn(B)
         /\ LinkedIn([B EXCEPT ![a].dying = TRUE]) = LinkedIn(B) \ {a}
<1> DEFINE C == [B EXCEPT ![a].dying = TRUE]
<1>0. a \in TalAddrs /\ B \in [TalAddrs -> BlockRecs] /\ B[a].live
  BY DEF Forest, LinkedIn, AliveIn
<1>1. /\ C \in [TalAddrs -> BlockRecs]
      /\ \A x \in TalAddrs \ {a} : C[x] = B[x]
      /\ C[a].live = B[a].live /\ C[a].parent_child = B[a].parent_child
      /\ C[a].dying /\ C[a].prop = B[a].prop
  BY <1>0 DEF BlockRecs
<1> HIDE DEF C
<1>2. AliveIn(C) = AliveIn(B) /\ LinkedIn(C) = LinkedIn(B) \ {a}
  BY <1>0, <1>1 DEF AliveIn, LinkedIn
<1>3. L!Rings(L!DelLinks(P, a), OnIn(C))
  <2>1. OnIn(C) = [OnIn(B) EXCEPT ![a] = NULL_PARENT]
    BY <1>1, <1>2 DEF OnIn
  <2>2. L!Rings(P, OnIn(B)) /\ a \in L!Listed(OnIn(B))
    BY ForestLists DEF Forest
  <2>3. L!Rings(L!DelLinks(P, a), [OnIn(B) EXCEPT ![a] = NULL_PARENT])
    BY <2>2, DelRings
  <2> QED BY <2>1, <2>3
<1>4. ASSUME NEW x \in TalAddrs PROVE BlockOK(C, G, x)
  <2>1. BlockOK(B, G, x)
    BY DEF Forest
  <2>2. CASE x = a
    BY <2>1, <2>2, <1>0, <1>1, <1>2 DEF BlockOK
  <2>3. CASE x # a
    BY <2>1, <2>3, <1>1, <1>2 DEF BlockOK
  <2> QED BY <2>2, <2>3
<1>5. ASSUME NEW h \in TalGroups PROVE GroupOK(C, G, h)
  <2>1. GroupOK(B, G, h)
    BY DEF Forest
  <2>2. \A x \in AliveIn(B) : C[x].prop = B[x].prop
    BY <1>1 DEF AliveIn
  <2> QED BY <2>1, <2>2, <1>2 DEF GroupOK
<1>6. Grounded(C, G)
  <2>1. \A x \in LinkedIn(C) : x \in LinkedIn(B) /\ C[x] = B[x]
    BY <1>1, <1>2 DEF LinkedIn, AliveIn
  <2> QED BY <2>1 DEF Forest, Grounded
<1>7. Forest(C, G, L!DelLinks(P, a))
  BY <1>1, <1>3, <1>4, <1>5, <1>6 DEF Forest
<1> QED BY <1>2, <1>7 DEF C

\* A block's other properties change.
KeepsChain(d, c) ==
  \A h \in TalGroups : (\E k \in 1 .. Len(d) : d[k] = <<"children", h>>)
                          => \E k \in 1 .. Len(c) : c[k] = <<"children", h>>

\* The block at a gets the chain c.
Rechain(B, a, c) == [B EXCEPT ![a].prop = c]
Rechained(B, G, P, a, c) ==
  Forest(B, G, P) /\ a \in AliveIn(B) /\ Chained(a, c, G) /\ KeepsChain(B[a].prop, c)

\* A chain that keeps the list of children keeps the forest.
LEMMA ChainForest ==
  ASSUME NEW B, NEW G, NEW P, NEW a, NEW c, Rechained(B, G, P, a, c)
  PROVE  /\ Forest(Rechain(B, a, c), G, P)
         /\ AliveIn(Rechain(B, a, c)) = AliveIn(B)
         /\ LinkedIn(Rechain(B, a, c)) = LinkedIn(B)
<1> DEFINE C == Rechain(B, a, c)
<1> USE DEF KeepsChain, Rechained
<1>0. a \in TalAddrs /\ B \in [TalAddrs -> BlockRecs] /\ B[a].live
  BY DEF Forest, AliveIn
<1>1. /\ C \in [TalAddrs -> BlockRecs]
      /\ \A x \in TalAddrs \ {a} : C[x] = B[x]
      /\ C[a].live = B[a].live /\ C[a].parent_child = B[a].parent_child
      /\ C[a].dying = B[a].dying /\ C[a].prop = c
  BY <1>0 DEF BlockRecs, Chained, Rechain
<1> HIDE DEF C
<1>2. AliveIn(C) = AliveIn(B) /\ LinkedIn(C) = LinkedIn(B) /\ OnIn(C) = OnIn(B)
  <2>1. \A x \in TalAddrs : C[x].live = B[x].live /\ C[x].dying = B[x].dying
                            /\ C[x].parent_child = B[x].parent_child
    BY <1>1
  <2> QED BY <2>1 DEF AliveIn, LinkedIn, OnIn
<1>3. ASSUME NEW x \in TalAddrs PROVE BlockOK(C, G, x)
  <2>1. BlockOK(B, G, x)
    BY DEF Forest
  <2>2. CASE x = a
    BY <2>1, <2>2, <1>0, <1>1, <1>2 DEF BlockOK
  <2>3. CASE x # a
    BY <2>1, <2>3, <1>1, <1>2 DEF BlockOK
  <2> QED BY <2>2, <2>3
<1>4. ASSUME NEW h \in TalGroups PROVE GroupOK(C, G, h)
  <2>1. GroupOK(B, G, h)
    BY DEF Forest
  <2>2. CASE G[h] = a
    BY <2>1, <2>2, <1>1, <1>2 DEF GroupOK
  <2>3. CASE G[h] # a
    <3>1. G[h] \in AliveIn(B) => C[G[h]] = B[G[h]]
      BY <2>3, <1>1 DEF AliveIn
    <3> QED BY <2>1, <3>1, <1>2 DEF GroupOK
  <2> QED BY <2>2, <2>3
<1>5. Grounded(C, G)
  <2>1. \A x \in LinkedIn(C) : C[x].parent_child = B[x].parent_child
    BY <1>1 DEF LinkedIn, AliveIn
  <2> QED BY <2>1, <1>2 DEF Forest, Grounded
<1>6. Forest(C, G, P)
  BY <1>1, <1>2, <1>3, <1>4, <1>5 DEF Forest
<1> QED BY <1>2, <1>6 DEF C

\* The lists when that of the block at a is freed.
Freed(G, a, H) ==
  /\ H \in [TalGroups -> TalAddrs \cup {FREE, NULL_PARENT}]
  /\ \A h \in TalGroups : H[h] = IF G[h] = a THEN FREE ELSE G[h]

\* A block without children is freed, and its list with it.
LEMMA FreeForest ==
  ASSUME NEW B, NEW G, NEW P, Forest(B, G, P), NEW a \in AliveIn(B) \ LinkedIn(B),
         \A x \in LinkedIn(B) : G[B[x].parent_child] # a, NEW H, Freed(G, a, H)
  PROVE  /\ Forest([B EXCEPT ![a] = Unused], H, L!InitLinks(P, a))
         /\ AliveIn([B EXCEPT ![a] = Unused]) = AliveIn(B) \ {a}
         /\ LinkedIn([B EXCEPT ![a] = Unused]) = LinkedIn(B)
<1> DEFINE C == [B EXCEPT ![a] = Unused]
<1> USE DEF Freed
<1>0. a \in TalAddrs /\ B \in [TalAddrs -> BlockRecs] /\ B[a].live /\ B[a].dying
      /\ a # NULL_PARENT /\ a # FREE
  BY ListsAssumed DEF Forest, AliveIn, LinkedIn
<1>1. Unused \in BlockRecs /\ ~Unused.live
  BY DEF Unused, BlockRecs
<1>2. /\ C \in [TalAddrs -> BlockRecs]
      /\ \A x \in TalAddrs \ {a} : C[x] = B[x]
      /\ C[a] = Unused
  BY <1>0, <1>1
<1> HIDE DEF C
<1>3. AliveIn(C) = AliveIn(B) \ {a} /\ LinkedIn(C) = LinkedIn(B) /\ OnIn(C) = OnIn(B)
  <2>1. AliveIn(C) = AliveIn(B) \ {a} /\ LinkedIn(C) = LinkedIn(B)
    BY <1>0, <1>1, <1>2 DEF AliveIn, LinkedIn
  <2>2. \A x \in LinkedIn(B) : C[x] = B[x]
    BY <1>0, <1>2 DEF AliveIn, LinkedIn
  <2> QED BY <2>1, <2>2 DEF OnIn
<1>4. \A x \in LinkedIn(B) : /\ C[x] = B[x] /\ B[x].parent_child \in TalGroups
                             /\ H[B[x].parent_child] = G[B[x].parent_child]
                             /\ G[B[x].parent_child] \in AliveIn(C) \cup {NULL_PARENT}
  <2>1. \A x \in LinkedIn(B) : x \in TalAddrs \ {a}
    BY <1>0 DEF AliveIn, LinkedIn
  <2> QED BY <2>1, <1>2, <1>3, ForestLists
<1>5. L!Rings(L!InitLinks(P, a), OnIn(C))
  <2>1. L!Rings(P, OnIn(B)) /\ a \notin L!Live(OnIn(B))
    BY <1>0, ForestLists, ListsAssumed DEF Forest, L!Live
  <2> QED BY <2>1, <1>0, <1>3, InitRings
<1>6. ASSUME NEW x \in TalAddrs, NEW d, x # a, Chained(x, d, G) PROVE Chained(x, d, H)
  <2>1. \A k \in 1 .. Len(d) : d[k][1] = "children" => d[k][2] \in TalGroups
    BY <1>6, PropsAre DEF Chained
  <2> QED BY <1>6, <2>1 DEF Chained
<1>7. ASSUME NEW x \in TalAddrs PROVE BlockOK(C, H, x)
  <2>1. BlockOK(B, G, x)
    BY DEF Forest
  <2>2. CASE x = a
    BY <2>2, <1>1, <1>2 DEF BlockOK
  <2>3. CASE x # a
    <3>1. C[x] = B[x]
      BY <2>3, <1>2
    <3>2. B[x].live /\ ~B[x].dying => x \in LinkedIn(B)
      BY DEF LinkedIn, AliveIn
    <3> QED BY <2>1, <2>3, <3>1, <3>2, <1>3, <1>4, <1>6 DEF BlockOK
  <2> QED BY <2>2, <2>3
<1>8. ASSUME NEW h \in TalGroups PROVE GroupOK(C, H, h)
  <2>1. GroupOK(B, G, h)
    BY DEF Forest
  <2>2. CASE G[h] = a
    <3>1. H[h] = FREE /\ G[h] # NULL_PARENT
      BY <2>2, <1>0
    <3>2. FREE \notin AliveIn(C) /\ FREE # NULL_PARENT
      BY ListsAssumed DEF AliveIn
    <3> QED BY <2>1, <3>1, <3>2 DEF GroupOK
  <2>3. CASE G[h] # a
    <3>1. H[h] = G[h] /\ (G[h] \in AliveIn(B) => G[h] \in AliveIn(C) /\ C[G[h]] = B[G[h]])
      BY <2>3, <1>2, <1>3 DEF AliveIn
    <3> QED BY <2>1, <3>1, <1>3 DEF GroupOK
  <2> QED BY <2>2, <2>3
<1>9. Grounded(C, H)
  BY <1>3, <1>4 DEF Forest, Grounded
<1>10. Forest(C, H, L!InitLinks(P, a))
  BY <1>2, <1>5, <1>7, <1>8, <1>9 DEF Forest
<1> QED BY <1>3, <1>10 DEF C

\* A block moves, and all that pointed to it is told.
Moves(B, G, P, a, b, c, C, H) ==
  /\ Forest(B, G, P)
  /\ a \in LinkedIn(B) /\ b \in TalAddrs \ AliveIn(B)
  /\ c \in Seq(Props) /\ Len(c) = Len(B[a].prop)
  /\ \A k \in 1 .. Len(c) : c[k] = IF B[a].prop[k][1] = "length" THEN <<"length", b>>
                                   ELSE B[a].prop[k]
  /\ C \in [TalAddrs -> BlockRecs]
  /\ \A x \in TalAddrs \ {a, b} : C[x] = B[x]
  /\ C[a] = Unused /\ C[b] = [B[a] EXCEPT !.prop = c]
  /\ H \in [TalGroups -> TalAddrs \cup {FREE, NULL_PARENT}]
  /\ \A h \in TalGroups : H[h] = IF G[h] = a THEN b ELSE G[h]

\* tal_resize_ keeps the forest.
LEMMA MoveForest ==
  ASSUME NEW B, NEW G, NEW P, NEW a, NEW b, NEW c, NEW C, NEW H, Moves(B, G, P, a, b, c, C, H)
  PROVE  /\ Forest(C, H, L!InitLinks(L!SwapLinks(P, a, b), a))
         /\ AliveIn(C) = (AliveIn(B) \ {a}) \cup {b}
         /\ LinkedIn(C) = (LinkedIn(B) \ {a}) \cup {b}
<1> USE DEF Moves
<1> DEFINE R(x) == IF x = a THEN b ELSE x
<1>0. /\ a \in TalAddrs /\ B \in [TalAddrs -> BlockRecs] /\ B[a].live /\ ~B[a].dying
      /\ a # b /\ a # NULL_PARENT /\ a # FREE /\ b # NULL_PARENT /\ b # FREE /\ ~B[b].live
      /\ B[b] = Unused
  <2>1. a \in TalAddrs /\ B[a].live /\ ~B[a].dying /\ ~B[b].live
    BY DEF AliveIn, LinkedIn
  <2>2. BlockOK(B, G, b)
    BY DEF Forest
  <2> QED BY <2>1, <2>2, ListsAssumed DEF Forest, BlockOK
<1>1. C[b].live /\ ~C[b].dying /\ C[b].parent_child = B[a].parent_child /\ C[b].prop = c
      /\ ~C[a].live
  <2>1. B[a] \in BlockRecs
    BY <1>0
  <2> QED BY <2>1, <1>0 DEF BlockRecs, Unused
<1>2. AliveIn(C) = (AliveIn(B) \ {a}) \cup {b} /\ LinkedIn(C) = (LinkedIn(B) \ {a}) \cup {b}
  <2>1. \A x \in TalAddrs : C[x].live <=> (x # a /\ B[x].live) \/ x = b
    BY <1>0, <1>1
  <2>2. AliveIn(C) = (AliveIn(B) \ {a}) \cup {b}
    BY <1>0, <2>1 DEF AliveIn
  <2>3. ASSUME NEW x \in AliveIn(C) PROVE C[x].dying <=> B[IF x = b THEN a ELSE x].dying
    <3>1. CASE x = b
      BY <1>0, <1>1, <3>1
    <3>2. CASE x # b
      BY <2>2, <3>2 DEF AliveIn
    <3> QED BY <3>1, <3>2
  <2>4. LinkedIn(C) = (LinkedIn(B) \ {a}) \cup {b}
    BY <1>0, <2>2, <2>3 DEF LinkedIn
  <2> QED BY <2>2, <2>4
<1>3. \A x \in AliveIn(B) \ {a} : x \in TalAddrs \ {a, b} /\ C[x] = B[x]
  BY <1>0 DEF AliveIn
<1>4. LinkedIn(B) \subseteq AliveIn(B) /\ AliveIn(B) \subseteq TalAddrs
  BY DEF LinkedIn, AliveIn
<1>5. L!Rings(L!InitLinks(L!SwapLinks(P, a, b), a), OnIn(C))
  <2>1. OnIn(C) = [OnIn(B) EXCEPT ![b] = OnIn(B)[a], ![a] = NULL_PARENT]
    <3>1. /\ OnIn(C)[a] = NULL_PARENT /\ OnIn(C)[b] = OnIn(B)[a]
          /\ \A x \in TalAddrs \ {a, b} : OnIn(C)[x] = OnIn(B)[x]
      BY <1>0, <1>1, <1>2 DEF OnIn
    <3> QED BY <3>1, <1>0 DEF OnIn
  <2>2. L!Rings(P, OnIn(B)) /\ a \in L!Listed(OnIn(B)) /\ b \in TalAddrs \ L!Listed(OnIn(B))
    BY <1>4, ForestLists DEF Forest
  <2>3. L!Rings(L!SwapLinks(P, a, b), [OnIn(B) EXCEPT ![b] = OnIn(B)[a], ![a] = NULL_PARENT])
    BY <2>2, SwapRings
  <2>4. a \notin L!Live(OnIn(C))
    BY <1>0, <2>1, ListsAssumed DEF L!Live, L!Listed, OnIn
  <2> QED BY <1>0, <2>1, <2>3, <2>4, InitRings
<1>6. ASSUME NEW x \in TalAddrs, NEW d, x # a, Chained(x, d, G) PROVE Chained(x, d, H)
  <2>1. \A k \in 1 .. Len(d) : d[k][1] = "children" => d[k][2] \in TalGroups
    BY <1>6, PropsAre DEF Chained
  <2> QED BY <1>6, <2>1 DEF Chained
<1>7. Chained(b, c, H)
  <2>1. Chained(a, B[a].prop, G)
    BY <1>0 DEF Forest, BlockOK
  <2>2. \A k \in 1 .. Len(c) : c[k][1] = B[a].prop[k][1] /\ KindOf(c[k]) = KindOf(B[a].prop[k])
    BY DEF KindOf
  <2>3. \A i, j \in 1 .. Len(c) : KindOf(c[i]) = KindOf(c[j]) => i = j
    BY <2>1, <2>2 DEF Chained
  <2>4. ASSUME NEW k \in 1 .. Len(c)
        PROVE  /\ c[k][1] = "literal" => k = Len(c)
               /\ c[k][1] = "length" => c[k][2] = b
               /\ c[k][1] = "children" => H[c[k][2]] = b
    <3>1. c[k][1] = "literal" => k = Len(c)
      BY <2>1, <2>2 DEF Chained
    <3>2. c[k][1] = "length" => c[k][2] = b
      BY <2>2
    <3>3. ASSUME c[k][1] = "children" PROVE H[c[k][2]] = b
      <4>1. c[k] = B[a].prop[k] /\ c[k][2] \in TalGroups
        BY <2>2, <3>3, PropsAre
      <4> QED BY <2>1, <3>3, <4>1 DEF Chained
    <3> QED BY <3>1, <3>2, <3>3
  <2> QED BY <2>3, <2>4 DEF Chained
<1>8. \A x \in AliveIn(B) \cup {NULL_PARENT} : R(x) \in AliveIn(C) \cup {NULL_PARENT}
  BY <1>2
<1>9. \A x \in LinkedIn(B) : /\ C[R(x)].parent_child = B[x].parent_child
                             /\ H[B[x].parent_child] = R(G[B[x].parent_child])
                             /\ B[x].parent_child \in TalGroups
                             /\ G[B[x].parent_child] \in AliveIn(B) \cup {NULL_PARENT}
  BY <1>1, <1>3, <1>4, ForestLists
<1>10. ASSUME NEW x \in TalAddrs PROVE BlockOK(C, H, x)
  <2>1. BlockOK(B, G, x)
    BY DEF Forest
  <2>2. CASE x = a
    BY <2>2, <1>1 DEF BlockOK
  <2>3. CASE x = b
    <3>1. C[b].parent_child \in TalGroups /\ H[C[b].parent_child] \in AliveIn(C) \cup {NULL_PARENT}
      BY <1>1, <1>8, <1>9
    <3> QED BY <2>3, <3>1, <1>1, <1>7 DEF BlockOK
  <2>4. CASE x # a /\ x # b
    <3>1. C[x] = B[x]
      BY <2>4
    <3>2. B[x].live /\ ~B[x].dying => H[B[x].parent_child] \in AliveIn(C) \cup {NULL_PARENT}
      <4> SUFFICES ASSUME B[x].live, ~B[x].dying
                   PROVE  H[B[x].parent_child] \in AliveIn(C) \cup {NULL_PARENT}
        OBVIOUS
      <4>1. x \in LinkedIn(B)
        BY DEF LinkedIn, AliveIn
      <4> QED BY <4>1, <1>8, <1>9
    <3> QED BY <2>1, <2>4, <3>1, <3>2, <1>6 DEF BlockOK
  <2> QED BY <2>2, <2>3, <2>4
<1>11. ASSUME NEW h \in TalGroups PROVE GroupOK(C, H, h)
  <2>1. GroupOK(B, G, h)
    BY DEF Forest
  <2>2. CASE G[h] = a
    <3>1. PICK k \in 1 .. Len(B[a].prop) : B[a].prop[k] = <<"children", h>>
      BY <2>1, <2>2, <1>4 DEF GroupOK
    <3>2. k \in 1 .. Len(C[b].prop) /\ C[b].prop[k] = <<"children", h>>
      BY <3>1, <1>1
    <3>3. H[h] = b /\ b \in AliveIn(C) /\ h # NullGroup
      BY <2>1, <2>2, <1>0, <1>2 DEF GroupOK
    <3> QED BY <3>2, <3>3, <1>0 DEF GroupOK
  <2>3. CASE G[h] # a
    <3>1. /\ H[h] = G[h] /\ (G[h] \in AliveIn(B) => G[h] \in AliveIn(C) /\ C[G[h]] = B[G[h]])
          /\ (G[h] \in AliveIn(C) => G[h] \in AliveIn(B))
      <4>1. G[h] # b
        BY <2>1, <1>0 DEF GroupOK
      <4> QED BY <2>3, <4>1, <1>2, <1>3
    <3> QED BY <2>1, <3>1 DEF GroupOK
  <2> QED BY <2>2, <2>3
<1>12. Grounded(C, H)
  <2> SUFFICES ASSUME NEW S \in SUBSET LinkedIn(C), \A x \in S : H[C[x].parent_child] \in S
               PROVE  S = {}
    BY DEF Grounded
  <2> DEFINE T == {x \in LinkedIn(B) : R(x) \in S}
  <2>1. ASSUME NEW x \in T PROVE G[B[x].parent_child] \in T
    <3> DEFINE z == G[B[x].parent_child]
    <3>1. R(z) \in S /\ z \in AliveIn(B) \cup {NULL_PARENT}
      BY <1>9
    <3>2. R(z) \in LinkedIn(C)
      BY <3>1
    <3>3. z \in LinkedIn(B)
      <4> HIDE DEF z
      <4> QED BY <3>1, <3>2, <1>0, <1>2
    <3> QED BY <3>1, <3>3
  <2>2. T = {}
    BY <2>1 DEF Forest, Grounded
  <2>3. ASSUME NEW x \in S PROVE FALSE
    <3>1. CASE x = b
      BY <2>2, <3>1
    <3>2. CASE x # b
      <4>1. x \in LinkedIn(B) /\ x # a
        BY <3>2, <1>2
      <4> QED BY <2>2, <4>1
    <3> QED BY <3>1, <3>2
  <2> QED BY <2>3
<1>13. Forest(C, H, L!InitLinks(L!SwapLinks(P, a, b), a))
  BY <1>5, <1>10, <1>11, <1>12 DEF Forest
<1> QED BY <1>2, <1>13

-----------------------------------------------------------------------------
(* What is under a block, what is free, and add_child. *)

\* Under(p) is p and what has its parent in there, however far down.
LEMMA UnderIs ==
  ASSUME NEW p \in TalAddrs \cup {NULL_PARENT}
  PROVE  /\ p \in Under(p) /\ Under(p) \subseteq TalAddrs \cup {p}
         /\ \A x \in Linked : Parent(x) \in Under(p) => x \in Under(p)
         /\ \A x \in Under(p) \ {p} : x \in Linked /\ Parent(x) \in Under(p)
<1> DEFINE N == Cardinality(TalAddrs)
           All == TalAddrs \cup {p}
           Below(X) == X \cup {a \in Linked : groups[blocks[a].parent_child] \in X}
           U(f) == [k \in 0 .. N |-> IF k = 0 THEN {p} ELSE Below(f[k - 1])]
           up == CHOOSE f : f = U(f)
<1>1. Under(p) = up[N]
  BY Zenon DEF Under
<1>2. Linked \subseteq TalAddrs /\ Linked \subseteq All
  BY DEF Linked, Alive
<1>3. N \in Nat /\ IsFiniteSet(All) /\ Cardinality(All) \in Nat /\ Cardinality(All) <= N + 1
  <2>1. IsFiniteSet(TalAddrs) /\ N \in Nat
    BY ListsAssumed, FS_CardinalityType
  <2>2. IsFiniteSet(All) /\ Cardinality(All) = IF p \in TalAddrs THEN N ELSE N + 1
    BY <2>1, FS_AddElement
  <2> QED BY <2>1, <2>2
<1>4. up = U(up)
  <2> DEFINE S == SUBSET All
             g == [X \in S |-> Below(X)]
  <2>1. g \in [S -> S] /\ {p} \in S
    BY <1>2
  <2>2. PICK f \in [0 .. N -> S] : LP!Follows(f, g, {p}, N)
    <3> HIDE DEF N, g, S
    <3> QED BY <1>3, <2>1, ListsAssumed, LP!Recursion
  <2>3. f[0] = {p} /\ \A k \in 1 .. N : f[k] = g[f[k - 1]]
    BY <2>2 DEF LP!Follows
  <2>4. \A k \in 0 .. N : f[k] = IF k = 0 THEN {p} ELSE Below(f[k - 1])
    <3>1. ASSUME NEW k \in 1 .. N PROVE f[k] = Below(f[k - 1])
      <4>1. k - 1 \in 0 .. N
        BY <1>3
      <4>2. f[k - 1] \in S
        BY <2>2, <4>1
      <4> QED BY <2>3, <4>2
    <3>2. \A k \in 0 .. N : k = 0 \/ k \in 1 .. N
      BY <1>3
    <3> HIDE DEF N, Below
    <3> QED BY <2>3, <3>1, <3>2
  <2>5. f = U(f)
    <3> HIDE DEF N, Below
    <3> QED BY <2>2, <2>4
  <2> HIDE DEF U
  <2> QED BY <2>5
<1>5. /\ up[0] = {p}
      /\ \A k \in 1 .. N : up[k] = Below(up[k - 1])
  <2>1. \A k \in 0 .. N : up[k] = IF k = 0 THEN {p} ELSE Below(up[k - 1])
    <3> HIDE DEF up, Below, N
    <3> QED BY <1>4
  <2> HIDE DEF up, Below, N
  <2>2. 0 \in 0 .. N /\ \A k \in 1 .. N : k \in 0 .. N /\ k # 0
    BY <1>3
  <2> QED BY <2>1, <2>2
<1> DEFINE Closed(X) == {a \in Linked : groups[blocks[a].parent_child] \in X} \subseteq X
           Fine(X) == /\ p \in X /\ X \subseteq All
                      /\ \A x \in X \ {p} : x \in Linked /\ groups[blocks[x].parent_child] \in X
           Good(k) == Fine(up[k]) /\ (Cardinality(up[k]) > k \/ Closed(up[k]))
           T == {k \in 0 .. N : ~Good(k)}
<1> HIDE DEF up, N
<1>6. Good(0)
  <2>1. Cardinality({p}) = 1
    BY FS_Singleton
  <2> QED BY <1>5, <2>1
<1>7. ASSUME NEW k \in 1 .. N, Good(k - 1) PROVE Good(k)
  <2> DEFINE X == up[k - 1]
             Y == up[k]
  <2>1. Y = Below(X)
    BY <1>5
  <2>2. Fine(X) /\ (Cardinality(X) > k - 1 \/ Closed(X))
    BY <1>7
  <2> HIDE DEF X, Y
  <2>3. Fine(Y)
    BY <1>2, <2>1, <2>2
  <2>4. CASE Closed(X)
    <3>1. Y = X
      BY <2>1, <2>4
    <3> QED BY <2>3, <2>4, <3>1 DEF X, Y
  <2>5. CASE ~Closed(X)
    <3>1. X \subseteq Y /\ X # Y /\ Y \subseteq All
      BY <2>1, <2>3, <2>5
    <3>2. IsFiniteSet(Y) /\ IsFiniteSet(X)
      BY <1>3, <3>1, FS_Subset
    <3>3. Cardinality(X) < Cardinality(Y) /\ Cardinality(X) \in Nat /\ Cardinality(Y) \in Nat
      <4>1. Cardinality(X) <= Cardinality(Y) /\ (Cardinality(X) = Cardinality(Y) => X = Y)
        BY <3>1, <3>2, FS_Subset
      <4>2. Cardinality(X) \in Nat /\ Cardinality(Y) \in Nat
        BY <3>2, FS_CardinalityType
      <4> QED BY <3>1, <4>1, <4>2
    <3>4. Cardinality(X) > k - 1
      BY <2>2, <2>5
    <3>5. Cardinality(Y) > k
      BY <1>3, <3>3, <3>4
    <3> QED BY <2>3, <3>5 DEF X, Y
  <2> QED BY <2>4, <2>5
<1>8. T = {}
  <2> SUFFICES ASSUME T # {} PROVE FALSE
    OBVIOUS
  <2>1. T \in SUBSET Nat
    BY <1>3
  <2>2. PICK m \in T : \A y \in T : m <= y
    <3> HIDE DEF T
    <3> QED BY <2>1, ListsAssumed, LP!LeastIndex
  <2>3. m \in 0 .. N /\ ~Good(m)
    OBVIOUS
  <2>4. m # 0
    BY <1>6, <2>3
  <2> HIDE DEF Good
  <2>5. m \in 1 .. N /\ m - 1 \in 0 .. N
    BY <1>3, <2>3, <2>4
  <2>6. ~Good(m - 1)
    BY <1>7, <2>3, <2>5
  <2>7. m - 1 \in T
    BY <2>5, <2>6
  <2>8. m <= m - 1
    BY <2>2, <2>7
  <2> QED BY <2>5, <2>8
<1>9. Good(N)
  <2>1. N \in 0 .. N
    BY <1>3
  <2> HIDE DEF Good
  <2> QED BY <1>8, <2>1
<1>10. Closed(up[N])
  <2> SUFFICES ASSUME Cardinality(up[N]) > N PROVE up[N] = All
    BY <1>2, <1>9
  <2>1. up[N] \subseteq All
    BY <1>9
  <2>2. /\ IsFiniteSet(up[N]) /\ Cardinality(up[N]) <= Cardinality(All)
        /\ (Cardinality(up[N]) = Cardinality(All) => up[N] = All)
    BY <1>3, <2>1, FS_Subset
  <2>3. Cardinality(up[N]) \in Nat
    BY <2>2, FS_CardinalityType
  <2> QED BY <1>3, <2>2, <2>3
<1> QED BY <1>1, <1>9, <1>10 DEF Parent

\* A finite set of numbers has a largest one: the one with the fewest that are
\* not smaller.
LEMMA MaxIs ==
  ASSUME NEW S \in SUBSET Int, IsFiniteSet(S), S # {}
  PROVE  Max(S) \in S
<1> DEFINE Above(x) == {y \in S : y >= x}
           T == {Cardinality(Above(x)) : x \in S}
<1>1. \A x \in S : IsFiniteSet(Above(x)) /\ Cardinality(Above(x)) \in Nat
  <2>1. ASSUME NEW x \in S PROVE IsFiniteSet(Above(x)) /\ Cardinality(Above(x)) \in Nat
    <3>1. Above(x) \subseteq S
      OBVIOUS
    <3> HIDE DEF Above
    <3> QED BY <3>1, FS_Subset, FS_CardinalityType
  <2> QED BY <2>1
<1>2. T \in SUBSET Nat /\ T # {}
  <2> HIDE DEF Above
  <2> QED BY <1>1
<1>3. PICK m \in T : \A n \in T : m <= n
  <2> HIDE DEF T
  <2> QED BY <1>2, ListsAssumed, LP!LeastIndex
<1>4. PICK x \in S : m = Cardinality(Above(x))
  OBVIOUS
<1>5. ASSUME NEW z \in S, z > x PROVE FALSE
  <2>1. Above(z) \subseteq Above(x) /\ x \in Above(x) /\ x \notin Above(z)
    <3>1. x \in Int /\ z \in Int /\ \A y \in S : y \in Int
      OBVIOUS
    <3>2. x >= x /\ ~(x >= z) /\ \A y \in S : y >= z => y >= x
      BY <1>5, <3>1
    <3> QED BY <3>2
  <2>2. Cardinality(Above(z)) <= Cardinality(Above(x))
        /\ (Cardinality(Above(z)) = Cardinality(Above(x)) => Above(z) = Above(x))
    <3> HIDE DEF Above
    <3> QED BY <1>1, <2>1, FS_Subset
  <2>3. m <= Cardinality(Above(z))
    BY <1>3
  <2> HIDE DEF Above
  <2> QED BY <1>1, <1>4, <2>1, <2>2, <2>3
<1>6. \A y \in S : x >= y
  BY <1>5
<1> QED BY <1>6 DEF Max

\* A set of naturals has a least one.
LEMMA MinIs ==
  ASSUME NEW S \in SUBSET Nat, S # {}
  PROVE  Min(S) \in S
<1>1. PICK m \in S : \A n \in S : m <= n
  BY ListsAssumed, LP!LeastIndex
<1> QED BY <1>1 DEF Min

\* Where the next block is, and the next list.
LEMMA NextFree ==
  /\ FreeAddrs # {} => Min(FreeAddrs) \in TalAddrs \ Alive
  /\ FreeGroups # {} => Max(FreeGroups) \in TalGroups /\ groups[Max(FreeGroups)] = FREE
<1>1. FreeAddrs \in SUBSET Nat /\ FreeGroups \in SUBSET Int /\ FreeGroups \subseteq TalGroups
  BY TalAssumption DEF FreeAddrs, FreeGroups
<1>2. IsFiniteSet(FreeGroups)
  BY <1>1, TalAssumption, FS_Subset
<1>3. FreeAddrs # {} => Min(FreeAddrs) \in FreeAddrs
  BY <1>1, MinIs
<1>4. FreeGroups # {} => Max(FreeGroups) \in FreeGroups
  BY <1>1, <1>2, MaxIs
<1> QED BY <1>3, <1>4 DEF FreeAddrs, FreeGroups

\* The list of a block's children is the one whose parent it is.
LEMMA GroupIs ==
  ASSUME Forest(blocks, groups, ptrs), NEW p \in Alive \cup {NULL_PARENT}
  PROVE  /\ HasGroup(p) => /\ GroupOf(p) \in TalGroups /\ groups[GroupOf(p)] = p
                           /\ \A h \in TalGroups : groups[h] = p => h = GroupOf(p)
         /\ ~HasGroup(p) => /\ p \in Alive
                            /\ \A k \in 1 .. Len(blocks[p].prop) :
                                 blocks[p].prop[k][1] # "children"
                            /\ \A h \in TalGroups : groups[h] # p
<1>1. CASE p = NULL_PARENT
  <2>1. \A h \in TalGroups : GroupOK(blocks, groups, h)
    BY DEF Forest
  <2> QED BY <1>1, <2>1, ListsAssumed DEF HasGroup, GroupOf, GroupOK
<1>2. CASE p # NULL_PARENT
  <2> DEFINE c == blocks[p].prop
  <2>1. p \in Alive /\ p \in TalAddrs /\ AliveIn(blocks) = Alive /\ Chained(p, c, groups)
        /\ \A h \in TalGroups : GroupOK(blocks, groups, h)
    BY <1>2 DEF Forest, BlockOK, Alive, AliveIn
  <2>2. c \in Seq(Props) /\ DOMAIN c = 1 .. Len(c)
    BY <2>1 DEF Chained
  <2> HIDE DEF c
  <2>3. HasGroup(p) <=> \E k \in 1 .. Len(c) : c[k][1] = "children"
    BY <1>2, <2>2 DEF HasGroup, Has, Places, c
  <2>4. \A h \in TalGroups : groups[h] = p => \E k \in 1 .. Len(c) : c[k] = <<"children", h>>
    BY <2>1 DEF GroupOK, c
  <2>5. ASSUME NEW k \in 1 .. Len(c), c[k][1] = "children"
        PROVE  /\ GroupOf(p) \in TalGroups /\ groups[GroupOf(p)] = p
               /\ \A h \in TalGroups : groups[h] = p => h = GroupOf(p)
    <3>1. Min(Places(c, "children")) = k
      BY <2>1, <2>5, PlaceIs
    <3>2. GroupOf(p) = c[k][2]
      BY <1>2, <3>1 DEF GroupOf, find_property, c
    <3>3. c[k][2] \in TalGroups /\ groups[c[k][2]] = p
      <4>1. c[k] \in Props
        BY <2>2
      <4>2. c[k][2] \in TalGroups
        BY <2>5, <4>1, PropsAre
      <4>3. groups[c[k][2]] = p
        BY <2>1, <2>5 DEF Chained
      <4> QED BY <4>2, <4>3
    <3>4. ASSUME NEW h \in TalGroups, groups[h] = p PROVE h = c[k][2]
      <4>1. PICK j \in 1 .. Len(c) : c[j] = <<"children", h>>
        BY <2>4, <3>4
      <4>2. KindOf(c[j]) = KindOf(c[k])
        BY <2>5, <4>1 DEF KindOf
      <4>3. j = k
        BY <2>1, <4>2 DEF Chained
      <4> QED BY <4>1, <4>3
    <3> QED BY <3>2, <3>3, <3>4
  <2>6. CASE HasGroup(p)
    BY <2>3, <2>5, <2>6
  <2>7. CASE ~HasGroup(p)
    <3>1. \A k \in 1 .. Len(c) : c[k][1] # "children"
      BY <2>3, <2>7
    <3>2. \A h \in TalGroups : groups[h] # p
      BY <2>4, <3>1
    <3> QED BY <2>1, <2>7, <3>1, <3>2 DEF c
  <2> QED BY <2>6, <2>7
<1> QED BY <1>1, <1>2

\* add_child may put a, with the chain c, under p: without a on any list the
\* blocks are B, with it they are b, and p is not among U, a and all under it.
MayAdd(p, B, l, a, c, U, b) ==
  /\ p \in Alive \cup {NULL_PARENT} /\ p # a
  /\ Forest(B, groups, l) /\ AliveIn(B) = Alive
  /\ a \in TalAddrs \ LinkedIn(B)
  /\ \A x \in TalAddrs \ {a} : B[x] = blocks[x]
  /\ Chained(a, c, groups)
  /\ \A h \in TalGroups : groups[h] = a => \E k \in 1 .. Len(c) : c[k] = <<"children", h>>
  /\ a \in U /\ p \notin U
  /\ \A x \in LinkedIn(B) : groups[B[x].parent_child] \in U => x \in U
  /\ b \in [TalAddrs -> BlockRecs]
  /\ \A x \in TalAddrs \ {a} : b[x] = blocks[x]
  /\ b[a].live /\ ~b[a].dying /\ b[a].prop = c

\* add_child keeps the forest, whether it has to make the list or not.
LEMMA AddChildForest ==
  ASSUME Forest(blocks, groups, ptrs), NEW p, NEW B, NEW l, NEW a, NEW c, NEW U, NEW b,
         MayAdd(p, B, l, a, c, U, b), add_child(p, a, b, l)
  PROVE  /\ Forest(blocks', groups', ptrs')
         /\ AliveIn(blocks') = Alive \cup {a} /\ LinkedIn(blocks') = LinkedIn(B) \cup {a}
         /\ NotedIn(blocks') = NotedIn(b)
<1>0. /\ p \in Alive \cup {NULL_PARENT} /\ p # a
      /\ Forest(B, groups, l) /\ AliveIn(B) = Alive
      /\ a \in TalAddrs \ LinkedIn(B)
      /\ \A x \in TalAddrs \ {a} : B[x] = blocks[x]
      /\ Chained(a, c, groups)
      /\ \A h \in TalGroups : groups[h] = a => \E k \in 1 .. Len(c) : c[k] = <<"children", h>>
      /\ a \in U /\ p \notin U
      /\ \A x \in LinkedIn(B) : groups[B[x].parent_child] \in U => x \in U
      /\ b \in [TalAddrs -> BlockRecs]
      /\ \A x \in TalAddrs \ {a} : b[x] = blocks[x]
      /\ b[a].live /\ ~b[a].dying /\ b[a].prop = c
  BY DEF MayAdd
<1> USE <1>0
<1>1. /\ \A x \in LinkedIn(B) : x \in TalAddrs /\ x # a
      /\ a \in TalAddrs /\ b[a] \in BlockRecs /\ B \in [TalAddrs -> BlockRecs]
      /\ groups \in [TalGroups -> TalAddrs \cup {FREE, NULL_PARENT}]
  BY DEF LinkedIn, AliveIn, Forest
<1>2. CASE HasGroup(p)
  <2> DEFINE g == GroupOf(p)
  <2>1. /\ blocks' = [b EXCEPT ![a].parent_child = g] /\ ptrs' = L!AfterLinks(l, g, a)
        /\ groups' = groups
    BY <1>2 DEF add_child
  <2>2. g \in TalGroups /\ groups[g] = p
    BY <1>2, GroupIs
  <2> HIDE DEF g
  <2>3. /\ blocks' \in [TalAddrs -> BlockRecs]
        /\ \A x \in TalAddrs \ {a} : blocks'[x] = b[x]
        /\ blocks'[a] = [live |-> TRUE, parent_child |-> g, dying |-> FALSE, prop |-> c]
    BY <1>1, <2>1, <2>2 DEF BlockRecs
  <2>4. Forest(blocks', groups, ptrs')
    <3>1. groups[g] \in AliveIn(B) \cup {NULL_PARENT} /\ groups[g] \notin U
      BY <2>2
    <3>2. \A x \in TalAddrs \ {a} : blocks'[x] = B[x]
      BY <2>3
    <3>3. Forest(blocks', groups, L!AfterLinks(l, g, a))
      <4> DEFINE C == blocks'
      <4>1. /\ C \in [TalAddrs -> BlockRecs] /\ \A x \in TalAddrs \ {a} : C[x] = B[x]
            /\ C[a] = [live |-> TRUE, parent_child |-> g, dying |-> FALSE, prop |-> c]
        BY <2>3, <3>2
      <4> HIDE DEF C
      <4>2. Forest(C, groups, L!AfterLinks(l, g, a))
        <5>1. Joins(B, groups, a, g, c, U, C)
          BY <2>2, <3>1, <4>1 DEF Joins
        <5> QED BY <5>1, LinkForest
      <4> QED BY <4>2 DEF C
    <3> QED BY <2>1, <3>3
  <2>5. AliveIn(blocks') = Alive \cup {a} /\ LinkedIn(blocks') = LinkedIn(B) \cup {a}
    <3>1. blocks'[a].live /\ ~blocks'[a].dying
      BY <2>3
    <3> QED BY <2>3, <3>1, <1>1 DEF AliveIn, LinkedIn
  <2>6. NotedIn(blocks') = NotedIn(b)
    <3>1. \A x \in TalAddrs : (blocks'[x].live <=> b[x].live) /\ blocks'[x].prop = b[x].prop
      BY <2>3
    <3> QED BY <3>1 DEF NotedIn, AliveIn
  <2> QED BY <2>1, <2>4, <2>5, <2>6
<1>3. CASE ~HasGroup(p)
  <2> DEFINE g == Max(FreeGroups)
             q == <<<<"children", g>>>> \o blocks[p].prop
             H == [groups EXCEPT ![g] = p]
             D == [B EXCEPT ![p].prop = <<<<"children", g>>>> \o @]
  <2>1. /\ FreeGroups # {}
        /\ blocks' = [b EXCEPT ![a].parent_child = g, ![p].prop = <<<<"children", g>>>> \o @]
        /\ ptrs' = L!AfterLinks(L!InitLinks(l, g), g, a)
        /\ groups' = H
    BY <1>3 DEF add_child
  <2>2. g \in TalGroups /\ groups[g] = FREE
    BY <2>1, NextFree
  <2> HIDE DEF g
  <2>3. /\ p \in AliveIn(B) /\ p \in TalAddrs /\ p # FREE /\ B[p] = blocks[p] /\ b[p] = blocks[p]
        /\ \A k \in 1 .. Len(B[p].prop) : B[p].prop[k][1] # "children"
    <3>1. p \in Alive /\ p \in TalAddrs
      BY <1>3, GroupIs DEF Alive
    <3> QED BY <1>3, <3>1, GroupIs, ListsAssumed
  <2>4. Forest(D, H, L!InitLinks(l, g)) /\ Chained(p, <<<<"children", g>>>> \o B[p].prop, H)
    BY <2>2, <2>3, GroupForest
  <2>5. q \in Seq(Props)
    BY <2>3, <2>4 DEF Chained
  <2> HIDE DEF q
  <2>6. /\ D \in [TalAddrs -> BlockRecs]
        /\ \A x \in TalAddrs \ {p} : D[x] = B[x]
        /\ D[p].prop = q /\ D[p].live = B[p].live /\ D[p].dying = B[p].dying
        /\ D[p].parent_child = B[p].parent_child
    BY <1>1, <2>3, <2>5 DEF BlockRecs, q
  <2>7. /\ AliveIn(D) = Alive /\ LinkedIn(D) = LinkedIn(B)
    <3>1. \A x \in TalAddrs : D[x].live = B[x].live /\ D[x].dying = B[x].dying
      BY <2>6
    <3> QED BY <3>1 DEF AliveIn, LinkedIn
  <2>8. /\ blocks' \in [TalAddrs -> BlockRecs]
        /\ \A x \in TalAddrs \ {a} : blocks'[x] = D[x]
        /\ blocks'[a] = [live |-> TRUE, parent_child |-> g, dying |-> FALSE, prop |-> c]
    <3>1. blocks' = [b EXCEPT ![a].parent_child = g, ![p].prop = q]
      BY <2>1, <2>3 DEF q
    <3>2. D = [B EXCEPT ![p].prop = q]
      BY <2>3 DEF q
    <3>3. blocks' \in [TalAddrs -> BlockRecs]
      <4> DEFINE e == [b EXCEPT ![a].parent_child = g]
      <4>1. e \in [TalAddrs -> BlockRecs]
        BY <1>1, <2>2 DEF BlockRecs
      <4>2. blocks' = [e EXCEPT ![p].prop = q]
        BY <3>1
      <4> HIDE DEF e
      <4>3. e[p] \in BlockRecs /\ [e[p] EXCEPT !.prop = q] \in BlockRecs
        <5>1. \A r \in BlockRecs : [r EXCEPT !.prop = q] \in BlockRecs
          BY <2>5 DEF BlockRecs
        <5>2. e[p] \in BlockRecs
          BY <2>3, <4>1
        <5> QED BY <5>1, <5>2
      <4>4. blocks' = [e EXCEPT ![p] = [e[p] EXCEPT !.prop = q]]
        BY <4>2
      <4> QED BY <2>3, <4>1, <4>3, <4>4
    <3>4. /\ blocks'[a] = [b[a] EXCEPT !.parent_child = g]
          /\ blocks'[p] = [b[p] EXCEPT !.prop = q]
          /\ \A x \in TalAddrs \ {a, p} : blocks'[x] = b[x]
      BY <1>1, <2>3, <3>1
    <3>5. blocks'[a] = [live |-> TRUE, parent_child |-> g, dying |-> FALSE, prop |-> c]
      BY <1>1, <3>4 DEF BlockRecs
    <3>6. D[p] = [B[p] EXCEPT !.prop = q] /\ \A x \in TalAddrs \ {p} : D[x] = B[x]
      BY <1>1, <2>3, <3>2
    <3>7. \A x \in TalAddrs \ {a} : blocks'[x] = D[x]
      BY <2>3, <3>4, <3>6
    <3> QED BY <3>3, <3>5, <3>7
  <2>9. H[g] = p /\ \A h \in TalGroups \ {g} : H[h] = groups[h]
    BY <1>1, <2>2
  <2> HIDE DEF D, H
  <2>10. Forest(blocks', groups', ptrs')
    <3>1. H[g] \in AliveIn(D) \cup {NULL_PARENT} /\ H[g] \notin U
      BY <2>3, <2>7, <2>9
    <3>2. \A h \in TalGroups : H[h] = a => \E k \in 1 .. Len(c) : c[k] = <<"children", h>>
      BY <2>9
    <3>3. Chained(a, c, H)
      <4>1. \A k \in 1 .. Len(c) : c[k][1] = "children" => c[k][2] \in TalGroups /\ c[k][2] # g
        BY <2>2, PropsAre, ListsAssumed DEF Chained
      <4> QED BY <2>9, <4>1 DEF Chained
    <3>4. ASSUME NEW x \in LinkedIn(D), H[D[x].parent_child] \in U PROVE x \in U
      <4>1. x \in LinkedIn(B) /\ D[x].parent_child = B[x].parent_child
        BY <2>6, <2>7, <1>1
      <4>2. /\ B[x].parent_child \in TalGroups
            /\ groups[B[x].parent_child] \in AliveIn(B) \cup {NULL_PARENT}
        BY <4>1, ForestLists
      <4>3. B[x].parent_child # g
        BY <2>2, <4>2, ListsAssumed DEF Alive
      <4> QED BY <2>9, <3>4, <4>1, <4>2, <4>3
    <3>5. a \in TalAddrs \ LinkedIn(D)
      BY <2>7
    <3>6. Forest(blocks', H, L!AfterLinks(L!InitLinks(l, g), g, a))
      <4> DEFINE C == blocks'
                 m == L!InitLinks(l, g)
      <4>1. /\ C \in [TalAddrs -> BlockRecs] /\ \A x \in TalAddrs \ {a} : C[x] = D[x]
            /\ C[a] = [live |-> TRUE, parent_child |-> g, dying |-> FALSE, prop |-> c]
            /\ Forest(D, H, m)
        BY <2>4, <2>8
      <4> HIDE DEF C, m
      <4>2. Forest(C, H, L!AfterLinks(m, g, a))
        <5>1. Joins(D, H, a, g, c, U, C)
          BY <2>2, <3>1, <3>2, <3>3, <3>4, <3>5, <4>1 DEF Joins
        <5> QED BY <4>1, <5>1, LinkForest
      <4> QED BY <4>2 DEF C, m
    <3> QED BY <2>1, <3>6
  <2>11. AliveIn(blocks') = Alive \cup {a} /\ LinkedIn(blocks') = LinkedIn(B) \cup {a}
    <3>1. blocks'[a].live /\ ~blocks'[a].dying
      BY <2>8
    <3>2. \A x \in TalAddrs \ {a} : (blocks'[x].live <=> x \in Alive) /\
                                    (blocks'[x].live /\ ~blocks'[x].dying <=> x \in LinkedIn(B))
      BY <2>7, <2>8 DEF AliveIn, LinkedIn
    <3> QED BY <3>1, <3>2, <1>1 DEF AliveIn, LinkedIn, Alive
  <2>12. NotedIn(blocks') = NotedIn(b)
    <3>1. \A x \in TalAddrs \ {p} : (blocks'[x].live <=> b[x].live) /\ blocks'[x].prop = b[x].prop
      <4>1. \A x \in TalAddrs \ {p, a} : blocks'[x] = b[x]
        BY <2>6, <2>8
      <4> QED BY <2>8, <4>1
    <3>2. blocks'[p].live /\ b[p].live /\ blocks'[p].prop = q /\ b[p].prop = blocks[p].prop
      BY <2>3, <2>6, <2>8 DEF AliveIn
    <3>3. (\E k \in 1 .. Len(q) : q[k][1] = "child")
            <=> \E k \in 1 .. Len(blocks[p].prop) : blocks[p].prop[k][1] = "child"
      <4> DEFINE d == blocks[p].prop
                 y == <<"children", g>>
      <4>1. d \in Seq(Props) /\ Len(d) \in Nat /\ y \in Props /\ y[1] = "children"
        <5>1. blocks[p] \in BlockRecs
          BY <2>3, <1>1
        <5> QED BY <2>2, <5>1, PropsAre DEF BlockRecs
      <4> HIDE DEF d, y
      <4>2. q = <<y>> \o d
        BY DEF q, d, y
      <4>3. Len(q) = Len(d) + 1 /\ q[1] = y /\ \A k \in 1 .. Len(d) : q[k + 1] = d[k]
        BY <4>1, <4>2, PrependIs
      <4>4. ASSUME NEW k \in 1 .. Len(q), q[k][1] = "child"
            PROVE  \E j \in 1 .. Len(d) : d[j][1] = "child"
        <5>1. k # 1
          BY <4>1, <4>3, <4>4
        <5>2. k - 1 \in 1 .. Len(d) /\ (k - 1) + 1 = k
          BY <4>1, <4>3, <5>1
        <5>3. q[(k - 1) + 1] = d[k - 1]
          BY <4>3, <5>2
        <5> QED BY <4>4, <5>2, <5>3
      <4>5. ASSUME NEW k \in 1 .. Len(d), d[k][1] = "child"
            PROVE  \E j \in 1 .. Len(q) : q[j][1] = "child"
        <5>1. k + 1 \in 1 .. Len(q) /\ q[k + 1] = d[k]
          BY <4>1, <4>3
        <5> QED BY <4>5, <5>1
      <4> QED BY <4>4, <4>5 DEF d
    <3> QED BY <3>1, <3>2, <3>3 DEF NotedIn, AliveIn
  <2> QED BY <2>10, <2>11, <2>12
<1> QED BY <1>2, <1>3

-----------------------------------------------------------------------------
(* The operations. *)

\* The blocks, lists and calls as their definitions in Tal have them.
LEMMA SameSets ==
  /\ AliveIn(blocks) = Alive /\ LinkedIn(blocks) = Linked
  /\ Linked \subseteq Alive /\ Alive \subseteq TalAddrs
BY DEF AliveIn, LinkedIn, Alive, Linked

\* What is in front of add_child in tal_alloc_.
LEMMA AllocOK ==
  ASSUME TalInv, NEW p \in Alive \cup {NULL_PARENT}, NEW array \in BOOLEAN, TalAlloc(p, array)
  PROVE  TalInv'
<1> DEFINE a == Min(FreeAddrs)
           c == IF array THEN << <<"length", a>>, <<"literal">> >> ELSE << <<"literal">> >>
           b == [blocks EXCEPT ![a] = [Unused EXCEPT !.live = TRUE, !.prop = c]]
<1>1. add_child(p, a, b, ptrs) /\ a \in TalAddrs \ Alive /\ UNCHANGED <<notifiers, stack>>
  BY NextFree DEF TalAlloc
<1>2. Forest(blocks, groups, ptrs) /\ blocks \in [TalAddrs -> BlockRecs]
  BY DEF TalInv, Forest
<1> DEFINE z == <<"length", a>>
           n == <<"literal">>
<1> HIDE DEF a
<1>3. /\ z \in Props /\ z[1] = "length" /\ z[2] = a /\ KindOf(z) = "length"
      /\ n \in Props /\ n[1] = "literal" /\ KindOf(n) = "name"
  BY <1>1, PropsAre DEF KindOf
<1>4. c = <<z, n>> \/ c = <<n>>
  OBVIOUS
<1> HIDE DEF z, n, c
<1>5. /\ Chained(a, c, groups)
      /\ \A k \in 1 .. Len(c) : c[k][1] # "child"
  <2>1. CASE c = <<z, n>>
    <3>1. c \in Seq(Props) /\ Len(c) = 2 /\ c[1] = z /\ c[2] = n
      BY <1>3, <2>1
    <3>2. \A k \in 1 .. Len(c) : k = 1 \/ k = 2
      BY <3>1
    <3> QED BY <1>3, <3>1, <3>2 DEF Chained
  <2>2. CASE c = <<n>>
    <3>1. c \in Seq(Props) /\ Len(c) = 1 /\ c[1] = n
      BY <1>3, <2>2
    <3>2. \A k \in 1 .. Len(c) : k = 1
      BY <3>1
    <3> QED BY <1>3, <3>1, <3>2 DEF Chained
  <2> QED BY <1>4, <2>1, <2>2
<1>6. /\ b \in [TalAddrs -> BlockRecs] /\ b[a].live /\ ~b[a].dying /\ b[a].prop = c
      /\ \A x \in TalAddrs \ {a} : b[x] = blocks[x]
  <2>1. c \in Seq(Props)
    BY <1>5 DEF Chained
  <2> QED BY <1>1, <1>2, <2>1 DEF Unused, BlockRecs
<1> HIDE DEF b
<1>7. MayAdd(p, blocks, ptrs, a, c, {a}, b)
  <2>1. a # NULL_PARENT /\ a # FREE /\ p # a
    BY <1>1, ListsAssumed
  <2>2. \A h \in TalGroups : groups[h] # a
    <3>1. \A h \in TalGroups : GroupOK(blocks, groups, h)
      BY <1>2 DEF Forest
    <3> QED BY <1>1, <2>1, <3>1, SameSets DEF GroupOK
  <2>3. \A x \in LinkedIn(blocks) : groups[blocks[x].parent_child] # a
    BY <1>1, <1>2, <2>1, ForestLists, SameSets
  <2> QED BY <1>1, <1>2, <1>5, <1>6, <2>1, <2>2, <2>3, SameSets DEF MayAdd
<1>8. /\ Forest(blocks', groups', ptrs')
      /\ AliveIn(blocks') = Alive \cup {a} /\ LinkedIn(blocks') = Linked \cup {a}
      /\ NotedIn(blocks') = NotedIn(b)
  BY <1>1, <1>2, <1>7, AddChildForest, SameSets
<1>9. NotedIn(b) = NotedIn(blocks)
  BY <1>1, <1>5, <1>6, SameSets DEF NotedIn, AliveIn, Alive
<1>10. AliveIn(blocks') \ LinkedIn(blocks') = AliveIn(blocks) \ LinkedIn(blocks)
  BY <1>1, <1>8, SameSets
<1> QED BY <1>1, <1>8, <1>9, <1>10 DEF TalInv, Calls

\* tal_steal_ is a list_del and add_child, under the new parent or the old one.
LEMMA StealOK ==
  ASSUME TalInv, NEW a \in Linked, NEW p \in Alive \cup {NULL_PARENT}, TalSteal(p, a)
  PROVE  TalInv'
<1> DEFINE l == L!DelLinks(ptrs, a)
           B == [blocks EXCEPT ![a].dying = TRUE]
           c == blocks[a].prop
           q == Parent(a)
<1>1. /\ p \notin Under(a) /\ UNCHANGED <<notifiers, stack>>
      /\ add_child(p, a, blocks, l) \/ add_child(q, a, blocks, l)
  BY DEF TalSteal
<1>2. Forest(blocks, groups, ptrs) /\ blocks \in [TalAddrs -> BlockRecs]
  BY DEF TalInv, Forest
<1>3. /\ Forest(B, groups, l) /\ AliveIn(B) = Alive /\ LinkedIn(B) = Linked \ {a}
      /\ \A x \in TalAddrs \ {a} : B[x] = blocks[x]
  BY <1>2, UnlinkForest, SameSets
<1>4. a \in TalAddrs /\ blocks[a].live /\ ~blocks[a].dying /\ Chained(a, c, groups)
  BY <1>2, SameSets DEF Forest, BlockOK, Linked, Alive
<1>5. \A h \in TalGroups : groups[h] = a => \E k \in 1 .. Len(c) : c[k] = <<"children", h>>
  BY <1>2, SameSets DEF Forest, GroupOK
<1>6. /\ a \in Under(a)
      /\ \A x \in Linked : groups[blocks[x].parent_child] \in Under(a) => x \in Under(a)
  BY <1>4, UnderIs DEF Parent
<1>7. q \in Alive \cup {NULL_PARENT} /\ q \notin Under(a)
  <2>1. q \in Alive \cup {NULL_PARENT}
    BY <1>2, ForestLists, SameSets DEF Parent
  <2>2. ASSUME q \in Under(a) PROVE FALSE
    <3>1. \A x \in Under(a) : x \in Linked /\ groups[blocks[x].parent_child] \in Under(a)
      BY <1>4, <2>2, UnderIs DEF Parent
    <3>2. Under(a) \in SUBSET LinkedIn(blocks)
      BY <3>1, SameSets
    <3>3. Under(a) = {}
      BY <1>2, <3>1, <3>2 DEF Forest, Grounded
    <3> QED BY <1>6, <3>3
  <2> QED BY <2>1, <2>2
<1> HIDE DEF l, B, q
<1>8. ASSUME NEW r \in Alive \cup {NULL_PARENT}, r \notin Under(a), add_child(r, a, blocks, l)
      PROVE  TalInv'
  <2>1. MayAdd(r, B, l, a, c, Under(a), blocks)
    <3>1. \A x \in LinkedIn(B) : groups[B[x].parent_child] \in Under(a) => x \in Under(a)
      BY <1>3, <1>6, SameSets
    <3> HIDE DEF c
    <3> QED BY <1>2, <1>3, <1>4, <1>5, <1>6, <1>8, <3>1 DEF MayAdd, c
  <2>2. /\ Forest(blocks', groups', ptrs')
        /\ AliveIn(blocks') = Alive \cup {a} /\ LinkedIn(blocks') = (Linked \ {a}) \cup {a}
        /\ NotedIn(blocks') = NotedIn(blocks)
    BY <1>2, <1>3, <1>8, <2>1, AddChildForest
  <2>3. AliveIn(blocks') = AliveIn(blocks) /\ LinkedIn(blocks') = LinkedIn(blocks)
    BY <2>2, SameSets
  <2> QED BY <1>1, <2>2, <2>3 DEF TalInv, Calls
<1> QED BY <1>1, <1>7, <1>8

\* del_tree begins with a, which is taken off its list.
LEMMA EnterOK ==
  ASSUME TalInv, NEW a \in Linked, ptrs' = L!DelLinks(ptrs, a), blocks' = Mark(a),
         stack' = Append(stack, Enter(a)), UNCHANGED <<groups, notifiers>>
  PROVE  TalInv'
<1>1. Forest(blocks, groups, ptrs) /\ blocks \in [TalAddrs -> BlockRecs] /\ a \in TalAddrs
  BY SameSets DEF TalInv, Forest
<1>2. /\ Forest(blocks', groups', ptrs')
      /\ AliveIn(blocks') = Alive /\ LinkedIn(blocks') = Linked \ {a}
  BY <1>1, UnlinkForest, SameSets DEF Mark
<1>3. NotedIn(blocks') = NotedIn(blocks)
  <2>1. \A x \in TalAddrs : blocks'[x].live = blocks[x].live /\ blocks'[x].prop = blocks[x].prop
    BY <1>1 DEF Mark, BlockRecs
  <2> QED BY <2>1 DEF NotedIn, AliveIn
<1>4. Calls(blocks', stack')
  <2> DEFINE S == [t : TalAddrs, at : {"destructor", "children"}]
             e == Enter(a)
  <2>1. /\ stack \in Seq(S) /\ Len(stack) \in Nat
        /\ \A i, j \in 1 .. Len(stack) : stack[i].t = stack[j].t => i = j
        /\ Alive \ Linked = {stack[k].t : k \in 1 .. Len(stack)}
    BY SameSets DEF TalInv, Calls
  <2>2. e \in S /\ e.t = a
    BY <1>1 DEF Enter
  <2> HIDE DEF S, e
  <2>3. /\ stack' \in Seq(S) /\ Len(stack') = Len(stack) + 1 /\ stack'[Len(stack) + 1] = e
        /\ \A k \in 1 .. Len(stack) : stack'[k] = stack[k]
    BY <2>1, <2>2 DEF e
  <2>4. \A k \in 1 .. Len(stack) : stack[k].t # a
    BY <2>1
  <2>5. \A k \in 1 .. Len(stack') : k \in 1 .. Len(stack) \/ k = Len(stack) + 1
    BY <2>1, <2>3
  <2>6. 1 .. Len(stack') = (1 .. Len(stack)) \cup {Len(stack) + 1}
    BY <2>1, <2>3
  <2>7. {stack'[k].t : k \in 1 .. Len(stack')} = {stack[k].t : k \in 1 .. Len(stack)} \cup {a}
    BY <2>2, <2>3, <2>6
  <2>8. \A i, j \in 1 .. Len(stack') : stack'[i].t = stack'[j].t => i = j
    BY <2>1, <2>2, <2>3, <2>4, <2>5
  <2>9. Alive \ (Linked \ {a}) = (Alive \ Linked) \cup {a}
    BY SameSets
  <2> QED BY <1>2, <2>1, <2>3, <2>7, <2>8, <2>9 DEF Calls, S
<1> QED BY <1>2, <1>3, <1>4 DEF TalInv

\* The block that is being destroyed, and who is below it.
LEMMA TopIs ==
  ASSUME TalInv, Destroying
  PROVE  /\ Top \in Alive \ Linked /\ Len(stack) \in Nat \ {0} /\ Top = stack[Len(stack)].t
         /\ Childless(Top) => \A x \in Linked : Parent(x) # Top
         /\ ~Childless(Top) => ptrs.next[GroupOf(Top)] \in Linked
<1>1. /\ Forest(blocks, groups, ptrs) /\ L!Rings(ptrs, OnIn(blocks))
      /\ stack \in Seq([t : TalAddrs, at : {"destructor", "children"}])
      /\ Alive \ Linked = {stack[k].t : k \in 1 .. Len(stack)}
  BY SameSets DEF TalInv, Forest, Calls
<1>2. Len(stack) \in Nat \ {0} /\ Top = stack[Len(stack)].t
  BY <1>1 DEF Destroying, Top, Last
<1>3. Top \in Alive \ Linked
  <2>1. Len(stack) \in 1 .. Len(stack)
    BY <1>2
  <2> HIDE DEF Top
  <2> QED BY <1>1, <1>2, <2>1
<1> DEFINE a == Top
           g == GroupOf(a)
<1> HIDE DEF a
<1>4. a \in Alive /\ a # NULL_PARENT
  BY <1>3, SameSets, ListsAssumed DEF a
<1>5. HasGroup(a) <=> Has(a, "children")
  BY <1>4 DEF HasGroup
<1>6. L!list_empty(g) <=> ptrs.next[g] = g
  BY DEF L!list_empty
<1>7. HasGroup(a) => /\ g \in TalGroups /\ groups[g] = a
                     /\ \A h \in TalGroups : groups[h] = a => h = g
  BY <1>1, <1>4, GroupIs
<1>8. ~HasGroup(a) => \A h \in TalGroups : groups[h] # a
  BY <1>1, <1>4, GroupIs
<1> HIDE DEF g
<1>9. \A x \in Linked : /\ x \in TalAddrs /\ OnIn(blocks)[x] = blocks[x].parent_child
                        /\ blocks[x].parent_child \in TalGroups
  BY <1>1, ForestLists, SameSets
<1>10. ASSUME Childless(a) PROVE \A x \in Linked : Parent(x) # a
  <2>1. CASE HasGroup(a)
    <3>1. ptrs.next[g] = g
      BY <1>5, <1>6, <1>10, <2>1 DEF Childless, g
    <3>2. \A x \in TalAddrs : OnIn(blocks)[x] # g
      BY <1>1, <1>7, <2>1, <3>1, EmptyRing
    <3> QED BY <1>7, <1>9, <2>1, <3>2 DEF Parent
  <2>2. CASE ~HasGroup(a)
    BY <1>8, <1>9, <2>2 DEF Parent
  <2> QED BY <2>1, <2>2
<1>11. ASSUME ~Childless(a) PROVE ptrs.next[g] \in Linked
  <2>1. HasGroup(a) /\ ptrs.next[g] # g
    BY <1>5, <1>6, <1>11 DEF Childless, g
  <2>2. ptrs.next[g] \in L!Listed(OnIn(blocks))
    BY <1>1, <1>7, <2>1, EmptyRing
  <2> QED BY <1>1, <2>2, ForestLists, SameSets
<1> QED BY <1>2, <1>3, <1>10, <1>11 DEF a, g

\* The child that del_tree takes is on the list of the block that is freed.
LEMMA FreeChildOK == ASSUME TalInv, FreeChild PROVE TalInv'
<1> DEFINE i == ptrs.next[GroupOf(Top)]
<1>1. i \in Linked
  BY TopIs DEF FreeChild
<1>2. /\ ptrs' = L!DelLinks(ptrs, i) /\ blocks' = Mark(i)
      /\ stack' = Append(stack, Enter(i)) /\ UNCHANGED <<groups, notifiers>>
  BY DEF FreeChild
<1> HIDE DEF i
<1> QED BY <1>1, <1>2, EnterOK

\* The blocks are finitely many, and so are those with a notifier.
LEMMA NotedFinite ==
  ASSUME NEW B
  PROVE  IsFiniteSet(NotedIn(B)) /\ Cardinality(NotedIn(B)) \in Nat
<1>1. NotedIn(B) \subseteq TalAddrs
  BY DEF NotedIn, AliveIn
<1> QED BY <1>1, ListsAssumed, FS_Subset, FS_CardinalityType

\* All but the last of a sequence.
LEMMA FrontParts ==
  ASSUME NEW S, NEW s \in Seq(S), Len(s) # 0
  PROVE  /\ Front(s) \in Seq(S) /\ Len(Front(s)) = Len(s) - 1
         /\ \A k \in 1 .. Len(Front(s)) : Front(s)[k] = s[k]
<1>1. ASSUME NEW m \in 1 .. Len(s)
      PROVE  /\ SubSeq(s, 1, m - 1) \in Seq(S) /\ Len(SubSeq(s, 1, m - 1)) = m - 1
             /\ \A k \in 1 .. m - 1 : SubSeq(s, 1, m - 1)[k] = s[k]
  OBVIOUS
<1>2. Len(s) \in 1 .. Len(s)
  OBVIOUS
<1>3. /\ SubSeq(s, 1, Len(s) - 1) \in Seq(S) /\ Len(SubSeq(s, 1, Len(s) - 1)) = Len(s) - 1
      /\ \A k \in 1 .. Len(s) - 1 : SubSeq(s, 1, Len(s) - 1)[k] = s[k]
  BY <1>1, <1>2
<1> QED BY <1>3 DEF Front

\* del_tree frees a block when it has no children left: nobody's parent.
LEMMA FreeBlockOK == ASSUME TalInv, FreeBlock PROVE TalInv'
<1> DEFINE a == Top
<1>1. /\ Destroying /\ Childless(a)
      /\ blocks' = [blocks EXCEPT ![a] = Unused]
      /\ groups' = IF Has(a, "children") THEN [groups EXCEPT ![GroupOf(a)] = FREE] ELSE groups
      /\ ptrs' = L!InitLinks(ptrs, a)
      /\ stack' = Front(stack)
      /\ notifiers' = notifiers
  BY DEF FreeBlock
<1>2. /\ a \in Alive \ Linked /\ Len(stack) \in Nat \ {0} /\ a = stack[Len(stack)].t
      /\ \A x \in Linked : Parent(x) # a
  BY <1>1, TopIs
<1> HIDE DEF a
<1>3. Forest(blocks, groups, ptrs) /\ groups \in [TalGroups -> TalAddrs \cup {FREE, NULL_PARENT}]
  BY DEF TalInv, Forest
<1>4. /\ groups' \in [TalGroups -> TalAddrs \cup {FREE, NULL_PARENT}]
      /\ \A h \in TalGroups : groups'[h] = IF groups[h] = a THEN FREE ELSE groups[h]
  <2>1. a # NULL_PARENT
    BY <1>2, SameSets, ListsAssumed
  <2>2. CASE Has(a, "children")
    <3>1. HasGroup(a)
      BY <2>2 DEF HasGroup
    <3>2. /\ GroupOf(a) \in TalGroups /\ groups[GroupOf(a)] = a
          /\ \A h \in TalGroups : groups[h] = a => h = GroupOf(a)
      BY <1>2, <1>3, <3>1, GroupIs
    <3> DEFINE g == GroupOf(a)
    <3> HIDE DEF g
    <3>3. groups' = [groups EXCEPT ![g] = FREE]
      BY <1>1, <2>2 DEF g
    <3>4. g \in TalGroups /\ groups[g] = a /\ \A h \in TalGroups : groups[h] = a => h = g
      BY <3>2 DEF g
    <3> QED BY <1>3, <3>3, <3>4
  <2>3. CASE ~Has(a, "children")
    <3>1. ~HasGroup(a)
      BY <2>1, <2>3 DEF HasGroup
    <3>2. \A h \in TalGroups : groups[h] # a
      BY <1>2, <1>3, <3>1, GroupIs
    <3> QED BY <1>1, <1>3, <2>3, <3>2
  <2> QED BY <2>2, <2>3
<1>5. /\ Forest(blocks', groups', ptrs')
      /\ AliveIn(blocks') = Alive \ {a} /\ LinkedIn(blocks') = Linked
  <2>1. \A x \in LinkedIn(blocks) : groups[blocks[x].parent_child] # a
    BY <1>2, SameSets DEF Parent
  <2>2. a \in AliveIn(blocks) \ LinkedIn(blocks)
    BY <1>2, SameSets
  <2> DEFINE H == groups'
  <2>3. /\ H \in [TalGroups -> TalAddrs \cup {FREE, NULL_PARENT}]
        /\ \A h \in TalGroups : H[h] = IF groups[h] = a THEN FREE ELSE groups[h]
    BY <1>4
  <2> HIDE DEF H
  <2>4. Freed(groups, a, H)
    BY <2>3 DEF Freed
  <2>5. /\ Forest([blocks EXCEPT ![a] = Unused], H, L!InitLinks(ptrs, a))
        /\ AliveIn([blocks EXCEPT ![a] = Unused]) = AliveIn(blocks) \ {a}
        /\ LinkedIn([blocks EXCEPT ![a] = Unused]) = LinkedIn(blocks)
    BY <1>3, <2>1, <2>2, <2>4, FreeForest
  <2> QED BY <1>1, <2>5, SameSets DEF H
<1>6. Calls(blocks', stack')
  <2> DEFINE S == [t : TalAddrs, at : {"destructor", "children"}]
  <2>1. /\ stack \in Seq(S)
        /\ \A i, j \in 1 .. Len(stack) : stack[i].t = stack[j].t => i = j
        /\ Alive \ Linked = {stack[k].t : k \in 1 .. Len(stack)}
    BY SameSets DEF TalInv, Calls
  <2> HIDE DEF S
  <2>2. /\ stack' \in Seq(S) /\ Len(stack') = Len(stack) - 1
        /\ \A k \in 1 .. Len(stack') : stack'[k] = stack[k]
    BY <1>1, <1>2, <2>1, FrontParts
  <2>3. 1 .. Len(stack) = (1 .. Len(stack')) \cup {Len(stack)}
    BY <1>2, <2>2
  <2>4. Len(stack) \notin 1 .. Len(stack')
    BY <1>2, <2>2
  <2>5. \A k \in 1 .. Len(stack') : k \in 1 .. Len(stack) /\ stack[k].t # a
    BY <1>2, <2>1, <2>3, <2>4
  <2>6. {stack'[k].t : k \in 1 .. Len(stack')} = {stack[k].t : k \in 1 .. Len(stack)} \ {a}
    <3>1. \A k \in 1 .. Len(stack') : stack'[k].t = stack[k].t /\ stack[k].t # a
      BY <2>2, <2>5
    <3>2. {stack'[k].t : k \in 1 .. Len(stack')} = {stack[k].t : k \in 1 .. Len(stack')}
      BY <3>1
    <3>3. {stack[k].t : k \in 1 .. Len(stack)}
            = {stack[k].t : k \in 1 .. Len(stack')} \cup {stack[Len(stack)].t}
      BY <2>3
    <3> QED BY <1>2, <3>1, <3>2, <3>3
  <2>7. (Alive \ {a}) \ Linked = (Alive \ Linked) \ {a}
    OBVIOUS
  <2>8. \A i, j \in 1 .. Len(stack') : stack'[i].t = stack'[j].t => i = j
    BY <2>1, <2>2, <2>5
  <2> QED BY <1>5, <2>1, <2>2, <2>6, <2>7, <2>8 DEF Calls, S
<1>7. Cardinality(NotedIn(blocks')) <= notifiers'
  <2>1. NotedIn(blocks') \subseteq NotedIn(blocks)
    <3>1. \A x \in Alive \ {a} : blocks'[x] = blocks[x]
      BY <1>1, <1>3, SameSets DEF Forest
    <3> QED BY <1>5, <3>1, SameSets DEF NotedIn
  <2>2. Cardinality(NotedIn(blocks')) <= Cardinality(NotedIn(blocks))
    BY <2>1, NotedFinite, FS_Subset
  <2>3. Cardinality(NotedIn(blocks)) <= notifiers /\ notifiers \in Nat
    BY DEF TalInv
  <2> QED BY <1>1, <2>2, <2>3, NotedFinite
<1> QED BY <1>1, <1>5, <1>6, <1>7 DEF TalInv

\* A destructor that returns leaves all as it is.
LEMMA DestructorReturnsOK == ASSUME TalInv, DestructorReturns PROVE TalInv'
<1> DEFINE S == [t : TalAddrs, at : {"destructor", "children"}]
           n == Len(stack)
<1>1. /\ stack \in Seq(S) /\ n \in Nat
      /\ \A i, j \in 1 .. n : stack[i].t = stack[j].t => i = j
      /\ AliveIn(blocks) \ LinkedIn(blocks) = {stack[k].t : k \in 1 .. n}
  BY DEF TalInv, Calls
<1>2. stack' = [stack EXCEPT ![n].at = "children"] /\ UNCHANGED <<blocks, groups, ptrs, notifiers>>
  BY DEF DestructorReturns
<1>3. n # 0
  BY <1>1 DEF DestructorReturns
<1> HIDE DEF n
<1>4. stack' \in Seq(S) /\ Len(stack') = n /\ \A k \in 1 .. n : stack'[k].t = stack[k].t
  <2>1. n \in 1 .. Len(stack) /\ stack[n] \in S
    <3> HIDE DEF S
    <3>1. Len(stack) \in 1 .. Len(stack)
      BY <1>1, <1>3 DEF n
    <3> QED BY <1>1, <3>1 DEF n
  <2>2. /\ [stack[n] EXCEPT !.at = "children"] \in S
        /\ [stack[n] EXCEPT !.at = "children"].t = stack[n].t
    BY <2>1
  <2> DEFINE e == [stack[n] EXCEPT !.at = "children"]
  <2>3. stack' = [stack EXCEPT ![n] = e]
    BY <1>2
  <2>4. e \in S /\ e.t = stack[n].t
    BY <2>2
  <2> HIDE DEF e, S
  <2>5. Len(stack) = n
    BY DEF n
  <2>6. stack' \in Seq(S) /\ Len(stack') = n
    BY <1>1, <2>1, <2>3, <2>4, <2>5
  <2>7. \A k \in 1 .. n : stack'[k] = IF k = n THEN e ELSE stack[k]
    BY <1>1, <2>1, <2>3, <2>5
  <2> QED BY <2>4, <2>6, <2>7
<1>5. Calls(blocks, stack')
  <2>1. {stack'[k].t : k \in 1 .. n} = {stack[k].t : k \in 1 .. n}
    BY <1>4
  <2> QED BY <1>1, <1>4, <2>1 DEF Calls
<1> QED BY <1>2, <1>5 DEF TalInv

\* The properties of a chain with one more in front, or at the end.
LEMMA PrependHas ==
  ASSUME NEW c \in Seq(Props), NEW x \in Props
  PROVE  /\ \A k \in 1 .. Len(c) : \E j \in 1 .. Len(<<x>> \o c) : (<<x>> \o c)[j] = c[k]
         /\ \A j \in 1 .. Len(<<x>> \o c) :
              (<<x>> \o c)[j] = x \/ \E k \in 1 .. Len(c) : (<<x>> \o c)[j] = c[k]
<1> DEFINE q == <<x>> \o c
<1>1. Len(c) \in Nat
  OBVIOUS
<1>2. Len(q) = Len(c) + 1 /\ q[1] = x /\ \A k \in 1 .. Len(c) : q[k + 1] = c[k]
  BY PrependIs
<1> HIDE DEF q
<1>3. 1 \in 1 .. Len(q) /\ \A k \in 1 .. Len(c) : k + 1 \in 1 .. Len(q)
  BY <1>1, <1>2
<1>4. \A j \in 1 .. Len(q) : j = 1 \/ (j - 1 \in 1 .. Len(c) /\ (j - 1) + 1 = j)
  BY <1>1, <1>2
<1>5. \A j \in 1 .. Len(q) : q[j] = x \/ \E k \in 1 .. Len(c) : q[j] = c[k]
  BY <1>2, <1>4
<1>6. \A k \in 1 .. Len(c) : \E j \in 1 .. Len(q) : q[j] = c[k]
  BY <1>2, <1>3
<1> QED BY <1>5, <1>6 DEF q

\* The same of one more at the end.
LEMMA AppendHas ==
  ASSUME NEW S, NEW c \in Seq(S), NEW x \in S
  PROVE  /\ \A k \in 1 .. Len(c) : \E j \in 1 .. Len(Append(c, x)) : Append(c, x)[j] = c[k]
         /\ \A j \in 1 .. Len(Append(c, x)) :
              Append(c, x)[j] = x \/ \E k \in 1 .. Len(c) : Append(c, x)[j] = c[k]
<1> DEFINE q == Append(c, x)
<1>1. Len(c) \in Nat
  OBVIOUS
<1>2. Len(q) = Len(c) + 1 /\ q[Len(c) + 1] = x /\ \A k \in 1 .. Len(c) : q[k] = c[k]
  OBVIOUS
<1> HIDE DEF q
<1>3. \A k \in 1 .. Len(c) : k \in 1 .. Len(q)
  BY <1>1, <1>2
<1>4. \A j \in 1 .. Len(q) : j = Len(c) + 1 \/ j \in 1 .. Len(c)
  BY <1>1, <1>2
<1>5. \A j \in 1 .. Len(q) : q[j] = x \/ \E k \in 1 .. Len(c) : q[j] = c[k]
  BY <1>2, <1>4
<1>6. \A k \in 1 .. Len(c) : \E j \in 1 .. Len(q) : q[j] = c[k]
  BY <1>2, <1>3
<1> QED BY <1>5, <1>6 DEF q

\* A chain has a notifier that is no destructor.
NotedChain(c) == \E k \in 1 .. Len(c) : c[k][1] = "child"
ChildrenOf(c) == {h \in TalGroups : \E k \in 1 .. Len(c) : c[k] = <<"children", h>>}

\* A block's chain changes, but for its children, and notifiers with it.
LEMMA ChainStep ==
  ASSUME TalInv, NEW a \in Alive, NEW c, Chained(a, c, groups),
         ChildrenOf(blocks[a].prop) \subseteq ChildrenOf(c),
         blocks' = [blocks EXCEPT ![a].prop = c], UNCHANGED <<groups, ptrs, stack>>,
         \/ notifiers' = notifiers /\ (NotedChain(c) => NotedChain(blocks[a].prop))
         \/ notifiers' = notifiers + 1
         \/ notifiers' = notifiers - 1 /\ NotedChain(blocks[a].prop) /\ ~NotedChain(c)
  PROVE  TalInv'
<1> DEFINE N == NotedIn(blocks)
<1>1. /\ Forest(blocks, groups, ptrs) /\ blocks \in [TalAddrs -> BlockRecs]
      /\ a \in AliveIn(blocks) /\ a \in TalAddrs /\ blocks[a].live
  BY SameSets DEF TalInv, Forest, AliveIn
<1>2. /\ Forest(blocks', groups, ptrs)
      /\ AliveIn(blocks') = Alive /\ LinkedIn(blocks') = Linked
  <2>1. KeepsChain(blocks[a].prop, c)
    BY DEF ChildrenOf, KeepsChain
  <2>2. /\ Forest(Rechain(blocks, a, c), groups, ptrs)
        /\ AliveIn(Rechain(blocks, a, c)) = AliveIn(blocks)
        /\ LinkedIn(Rechain(blocks, a, c)) = LinkedIn(blocks)
    <3>1. Rechained(blocks, groups, ptrs, a, c)
      BY <1>1, <2>1 DEF Rechained
    <3> QED BY <3>1, ChainForest
  <2>3. blocks' = Rechain(blocks, a, c)
    BY DEF Rechain
  <2> QED BY <2>2, <2>3, SameSets
<1>3. NotedIn(blocks') = IF NotedChain(c) THEN N \cup {a} ELSE N \ {a}
  <2>1. blocks'[a].prop = c /\ \A x \in TalAddrs \ {a} : blocks'[x] = blocks[x]
    BY <1>1 DEF BlockRecs
  <2>2. \A x \in TalAddrs : x \in NotedIn(blocks') <=> x \in Alive /\ NotedChain(blocks'[x].prop)
    BY <1>2 DEF NotedIn, NotedChain
  <2>3. \A x \in TalAddrs : x \in N <=> x \in Alive /\ NotedChain(blocks[x].prop)
    BY SameSets DEF NotedIn, NotedChain
  <2>4. NotedIn(blocks') \subseteq TalAddrs /\ N \subseteq TalAddrs
    BY <1>2, SameSets DEF NotedIn
  <2> DEFINE M == IF NotedChain(c) THEN N \cup {a} ELSE N \ {a}
  <2>5. \A x \in TalAddrs : x \in NotedIn(blocks') <=> x \in M
    <3> TAKE x \in TalAddrs
    <3>1. CASE x = a
      BY <1>1, <2>1, <2>2, <3>1, SameSets
    <3>2. CASE x # a
      BY <2>1, <2>2, <2>3, <3>2
    <3> QED BY <3>1, <3>2
  <2>6. M \subseteq TalAddrs
    BY <1>1, <2>4
  <2> HIDE DEF M, N
  <2>7. NotedIn(blocks') = M
    BY <2>4, <2>5, <2>6
  <2> QED BY <2>7 DEF M, N
<1>4. a \in N <=> NotedChain(blocks[a].prop)
  BY <1>1 DEF NotedIn, NotedChain
<1>5. /\ IsFiniteSet(N) /\ Cardinality(N) \in Nat
      /\ Cardinality(N \cup {a}) = IF a \in N THEN Cardinality(N) ELSE Cardinality(N) + 1
      /\ Cardinality(N \ {a}) = IF a \in N THEN Cardinality(N) - 1 ELSE Cardinality(N)
  <2>1. IsFiniteSet(N) /\ Cardinality(N) \in Nat
    BY NotedFinite
  <2> HIDE DEF N
  <2> QED BY <2>1, FS_AddElement, FS_RemoveElement
<1>6. notifiers \in Nat /\ Cardinality(N) <= notifiers
  BY DEF TalInv
<1> DEFINE n == Cardinality(N)
           m == Cardinality(NotedIn(blocks'))
<1>7. n \in Nat /\ n <= notifiers
  BY <1>5, <1>6
<1>8. m = IF NotedChain(c) THEN (IF a \in N THEN n ELSE n + 1) ELSE (IF a \in N THEN n - 1 ELSE n)
  BY <1>3, <1>5
<1>9. a \in N => n # 0
  BY <1>5, FS_EmptySet
<1> HIDE DEF n, m, N
<1>10. notifiers' \in Nat /\ m <= notifiers'
  <2>1. CASE notifiers' = notifiers /\ (NotedChain(c) => NotedChain(blocks[a].prop))
    BY <2>1, <1>4, <1>6, <1>7, <1>8
  <2>2. CASE notifiers' = notifiers + 1
    BY <2>2, <1>6, <1>7, <1>8
  <2>3. CASE notifiers' = notifiers - 1 /\ NotedChain(blocks[a].prop) /\ ~NotedChain(c)
    BY <2>3, <1>4, <1>6, <1>7, <1>8, <1>9
  <2> QED BY <2>1, <2>2, <2>3
<1>11. Calls(blocks', stack')
  BY <1>2, SameSets DEF TalInv, Calls
<1> QED BY <1>2, <1>10, <1>11 DEF TalInv, m

\* What an operation on the block at a has to go by.
LEMMA ChainIs ==
  ASSUME TalInv, NEW a \in Alive
  PROVE  /\ Chained(a, blocks[a].prop, groups) /\ a \in TalAddrs
         /\ blocks[a].prop \in Seq(Props) /\ Len(blocks[a].prop) \in Nat
         /\ \A type : Has(a, type) <=> \E k \in 1 .. Len(blocks[a].prop) :
                                         blocks[a].prop[k][1] = type
<1>1. Chained(a, blocks[a].prop, groups) /\ a \in TalAddrs
  BY SameSets DEF TalInv, Forest, BlockOK, Alive
<1>2. blocks[a].prop \in Seq(Props) /\ DOMAIN blocks[a].prop = 1 .. Len(blocks[a].prop)
      /\ Len(blocks[a].prop) \in Nat
  BY <1>1 DEF Chained
<1> QED BY <1>1, <1>2 DEF Has, Places

\* tal_add_destructor_ and tal_add_notifier_.
LEMMA AddNotifierOK ==
  ASSUME TalInv, NEW a \in Alive, NEW type \in {"free", "child"}, TalAddNotifier(a, type)
  PROVE  TalInv'
<1> DEFINE d == blocks[a].prop
           x == <<type>>
           c == <<x>> \o d
<1>1. /\ ~Has(a, type) /\ blocks' = [blocks EXCEPT ![a].prop = c]
      /\ UNCHANGED <<groups, ptrs, stack>>
      /\ notifiers' = IF type = "free" THEN notifiers ELSE notifiers + 1
  BY DEF TalAddNotifier, Noted, Chain
<1>2. Chained(a, d, groups) /\ d \in Seq(Props) /\ \A k \in 1 .. Len(d) : d[k][1] # type
  BY <1>1, ChainIs
<1>3. x \in Props /\ x[1] = type /\ KindOf(x) = type /\ \A h : x # <<"children", h>>
  BY PropsAre DEF KindOf
<1> HIDE DEF d, x
<1>4. \A k \in 1 .. Len(d) : KindOf(d[k]) # KindOf(x)
  BY <1>2, <1>3 DEF KindOf
<1>5. Chained(a, c, groups)
  BY <1>2, <1>3, <1>4, PrependChained
<1>6. /\ \A k \in 1 .. Len(d) : \E j \in 1 .. Len(c) : c[j] = d[k]
      /\ \A j \in 1 .. Len(c) : c[j] = x \/ \E k \in 1 .. Len(d) : c[j] = d[k]
  BY <1>2, <1>3, PrependHas
<1> HIDE DEF c
<1>7. ChildrenOf(d) \subseteq ChildrenOf(c)
  BY <1>6 DEF ChildrenOf
<1>8. type = "free" => (NotedChain(c) => NotedChain(d))
  BY <1>3, <1>6 DEF NotedChain
<1> QED BY <1>1, <1>5, <1>7, <1>8, ChainStep DEF d

\* A property other than the list of children is taken out.
LEMMA WithoutIs ==
  ASSUME TalInv, NEW a \in Alive, NEW type, Has(a, type), type # "children"
  PROVE  /\ Chained(a, Without(blocks[a].prop, type), groups)
         /\ Without(blocks[a].prop, type) \in Seq(Props)
         /\ ChildrenOf(blocks[a].prop) \subseteq ChildrenOf(Without(blocks[a].prop, type))
         /\ NotedChain(Without(blocks[a].prop, type))
              => NotedChain(blocks[a].prop) /\ type # "child"
         /\ \A k \in 1 .. Len(Without(blocks[a].prop, type)) :
              /\ KindOf(Without(blocks[a].prop, type)[k]) # KindOf(<<type>>)
              /\ \E j \in 1 .. Len(blocks[a].prop) :
                   Without(blocks[a].prop, type)[k] = blocks[a].prop[j]
<1> DEFINE d == blocks[a].prop
           c == Without(d, type)
<1>1. Chained(a, d, groups) /\ d \in Seq(Props)
  BY ChainIs
<1>2. PICK k \in 1 .. Len(d) : d[k][1] = type
  BY ChainIs
<1> HIDE DEF d
<1>3. c = RemoveAt(d, k)
  BY <1>1, <1>2, PlaceIs DEF Without
<1>4. /\ Chained(a, c, groups)
      /\ \A x : (\E j \in 1 .. Len(c) : c[j] = x) <=> (x # d[k] /\ \E j \in 1 .. Len(d) : d[j] = x)
  <2>1. /\ Chained(a, RemoveAt(d, k), groups)
        /\ \A x : (\E j \in 1 .. Len(RemoveAt(d, k)) : RemoveAt(d, k)[j] = x)
                   <=> (x # d[k] /\ \E j \in 1 .. Len(d) : d[j] = x)
    BY <1>1, RemoveChained
  <2> QED BY <1>3, <2>1
<1> HIDE DEF c
<1>5. \A j \in 1 .. Len(c) : /\ \E i \in 1 .. Len(d) : c[j] = d[i]
                             /\ KindOf(c[j]) # KindOf(<<type>>) /\ c[j][1] # type
  <2>1. ASSUME NEW j \in 1 .. Len(c)
        PROVE  /\ \E i \in 1 .. Len(d) : c[j] = d[i]
               /\ KindOf(c[j]) # KindOf(<<type>>) /\ c[j][1] # type
    <3>1. c[j] # d[k] /\ \E i \in 1 .. Len(d) : d[i] = c[j]
      BY <1>4
    <3>2. PICK i \in 1 .. Len(d) : d[i] = c[j]
      BY <3>1
    <3>3. i # k
      BY <3>1, <3>2
    <3>4. KindOf(d[i]) # KindOf(d[k])
      BY <1>1, <3>3 DEF Chained
    <3>5. KindOf(d[k]) = KindOf(<<type>>)
      BY <1>2 DEF KindOf
    <3> QED BY <1>2, <3>2, <3>4, <3>5 DEF KindOf
  <2> QED BY <2>1
<1>6. ChildrenOf(d) \subseteq ChildrenOf(c)
  <2>1. \A h : d[k] # <<"children", h>>
    BY <1>2
  <2> QED BY <1>4, <2>1 DEF ChildrenOf
<1>7. NotedChain(c) => NotedChain(d) /\ type # "child"
  BY <1>5 DEF NotedChain
<1>8. c \in Seq(Props)
  BY <1>4 DEF Chained
<1> QED BY <1>4, <1>5, <1>6, <1>7, <1>8 DEF c, d

\* tal_del_destructor_ and tal_del_notifier_.
LEMMA DelNotifierOK ==
  ASSUME TalInv, NEW a \in Linked, NEW type \in {"free", "child"}, TalDelNotifier(a, type)
  PROVE  TalInv'
<1> DEFINE d == blocks[a].prop
           c == Without(d, type)
<1>1. /\ Has(a, type) /\ blocks' = [blocks EXCEPT ![a].prop = c]
      /\ UNCHANGED <<groups, ptrs, stack>>
      /\ notifiers' = IF type = "free" THEN notifiers ELSE notifiers - 1
  BY DEF TalDelNotifier, Chain
<1>0. a \in Alive
  BY DEF Linked
<1>2. /\ Chained(a, c, groups) /\ ChildrenOf(d) \subseteq ChildrenOf(c)
      /\ NotedChain(c) => NotedChain(d) /\ type # "child"
  BY <1>0, <1>1, WithoutIs
<1>3. type = "child" => NotedChain(d)
  BY <1>0, <1>1, ChainIs DEF NotedChain
<1> HIDE DEF c
<1> QED BY <1>0, <1>1, <1>2, <1>3, ChainStep

\* The name goes, and perhaps another comes.
LEMMA SetNameOK ==
  ASSUME TalInv, NEW a \in Alive, NEW kind \in {"literal", "name"}, TalSetName(a, kind)
  PROVE  TalInv'
<1> DEFINE d == blocks[a].prop
           old == IF Has(a, "name") THEN Without(d, "name")
                  ELSE IF Has(a, "literal") THEN Front(d) ELSE d
<1>1. /\ \/ Chain(a, Append(old, <<"literal">>)) \/ Chain(a, Named(old)) \/ Chain(a, old)
      /\ notifiers' = notifiers
  BY DEF TalSetName
<1>2. /\ Chained(a, old, groups) /\ old \in Seq(Props)
      /\ ChildrenOf(d) \subseteq ChildrenOf(old)
      /\ NotedChain(old) => NotedChain(d)
      /\ \A k \in 1 .. Len(old) : KindOf(old[k]) # "name"
  <2>1. KindOf(<<"name">>) = "name" /\ KindOf(<<"literal">>) = "name"
    BY DEF KindOf
  <2>2. CASE Has(a, "name")
    <3> DEFINE w == Without(d, "name")
    <3>1. /\ Chained(a, w, groups) /\ w \in Seq(Props) /\ ChildrenOf(d) \subseteq ChildrenOf(w)
          /\ NotedChain(w) => NotedChain(d)
          /\ \A k \in 1 .. Len(w) : KindOf(w[k]) # KindOf(<<"name">>)
      BY <2>2, WithoutIs
    <3>2. old = w
      BY <2>2
    <3> HIDE DEF w, d, old
    <3> QED BY <2>1, <3>1, <3>2
  <2>3. CASE ~Has(a, "name") /\ Has(a, "literal")
    <3>1. PICK k \in 1 .. Len(d) : d[k][1] = "literal"
      BY <2>3, ChainIs
    <3>2. Chained(a, d, groups)
      BY ChainIs
    <3>3. Front(d) = Without(d, "literal")
      <4> HIDE DEF d
      <4> QED BY <3>1, <3>2, FrontIs, PlaceIs DEF Without
    <3> DEFINE w == Without(d, "literal")
    <3>4. /\ Chained(a, w, groups) /\ w \in Seq(Props) /\ ChildrenOf(d) \subseteq ChildrenOf(w)
          /\ NotedChain(w) => NotedChain(d)
          /\ \A j \in 1 .. Len(w) : KindOf(w[j]) # KindOf(<<"literal">>)
      BY <2>3, WithoutIs
    <3>5. old = w
      BY <2>3, <3>3
    <3> HIDE DEF w, d, old
    <3> QED BY <2>1, <3>4, <3>5
  <2>4. CASE ~Has(a, "name") /\ ~Has(a, "literal")
    <3>1. /\ Chained(a, d, groups) /\ d \in Seq(Props)
          /\ \A k \in 1 .. Len(d) : d[k][1] # "name" /\ d[k][1] # "literal"
      BY <2>4, ChainIs
    <3> QED BY <2>4, <3>1 DEF KindOf
  <2> QED BY <2>2, <2>3, <2>4
<1> HIDE DEF old
<1> DEFINE n == <<"name">>
           m == <<"literal">>
<1>3. /\ n \in Props /\ n[1] = "name" /\ KindOf(n) = "name"
      /\ m \in Props /\ m[1] = "literal"
  BY PropsAre DEF KindOf
<1>4. ASSUME NEW c, Chain(a, c), Chained(a, c, groups), ChildrenOf(old) \subseteq ChildrenOf(c),
             NotedChain(c) => NotedChain(old)
      PROVE  TalInv'
  <2>1. blocks' = [blocks EXCEPT ![a].prop = c] /\ UNCHANGED <<groups, ptrs, stack>>
    BY <1>4 DEF Chain
  <2>2. ChildrenOf(d) \subseteq ChildrenOf(c) /\ (NotedChain(c) => NotedChain(d))
    BY <1>2, <1>4
  <2> QED BY <1>1, <1>4, <2>1, <2>2, ChainStep
<1>5. CASE Chain(a, old)
  BY <1>2, <1>4, <1>5
<1>6. CASE Chain(a, Named(old))
  <2> HIDE DEF n
  <2> DEFINE c == <<n>> \o old
  <2>1. Named(old) = c
    BY DEF Named, n
  <2>2. Chained(a, c, groups)
    BY <1>2, <1>3, PrependChained
  <2>3. /\ \A k \in 1 .. Len(old) : \E j \in 1 .. Len(c) : c[j] = old[k]
        /\ \A j \in 1 .. Len(c) : c[j] = n \/ \E k \in 1 .. Len(old) : c[j] = old[k]
    BY <1>2, <1>3, PrependHas
  <2> HIDE DEF c
  <2>4. ChildrenOf(old) \subseteq ChildrenOf(c) /\ (NotedChain(c) => NotedChain(old))
    BY <1>3, <2>3 DEF ChildrenOf, NotedChain
  <2> QED BY <1>4, <1>6, <2>1, <2>2, <2>4
<1>7. CASE Chain(a, Append(old, <<"literal">>))
  <2> DEFINE c == Append(old, m)
  <2>1. Chained(a, c, groups)
    BY <1>2, AppendChained
  <2> HIDE DEF m
  <2>2. /\ \A k \in 1 .. Len(old) : \E j \in 1 .. Len(c) : c[j] = old[k]
        /\ \A j \in 1 .. Len(c) : c[j] = m \/ \E k \in 1 .. Len(old) : c[j] = old[k]
    BY <1>2, <1>3, AppendHas
  <2>3. Chain(a, c)
    BY <1>7 DEF m
  <2> HIDE DEF c
  <2>4. ChildrenOf(old) \subseteq ChildrenOf(c) /\ (NotedChain(c) => NotedChain(old))
    BY <1>3, <2>2 DEF ChildrenOf, NotedChain
  <2> QED BY <1>4, <2>1, <2>3, <2>4
<1> QED BY <1>1, <1>5, <1>6, <1>7

\* A block moves: what pointed to it points to where it is now.
LEMMA ResizeOK == ASSUME TalInv, NEW a \in Linked, TalResize(a) PROVE TalInv'
<1> DEFINE b == Min(FreeAddrs)
           d == blocks[a].prop
           c == [k \in DOMAIN d |-> IF d[k][1] = "length" THEN <<"length", b>> ELSE d[k]]
           M == [blocks EXCEPT ![a] = Unused]
           r == [blocks[a] EXCEPT !.prop = c]
           N == NotedIn(blocks)
<1>1. /\ b \in TalAddrs \ Alive
      /\ blocks' = MovedTo(a, b)
      /\ ptrs' = L!InitLinks(L!SwapLinks(ptrs, a, b), a)
      /\ groups' = [g \in TalGroups |-> IF groups[g] = a THEN b ELSE groups[g]]
      /\ UNCHANGED <<notifiers, stack>>
  BY NextFree DEF TalResize
<1>2. /\ Forest(blocks, groups, ptrs) /\ blocks \in [TalAddrs -> BlockRecs]
      /\ groups \in [TalGroups -> TalAddrs \cup {FREE, NULL_PARENT}]
      /\ a \in TalAddrs /\ a \in Alive /\ blocks[a].live
  BY SameSets DEF TalInv, Forest, Alive, Linked
<1>3. d \in Seq(Props) /\ DOMAIN d = 1 .. Len(d) /\ Len(d) \in Nat
  <2>1. blocks[a].prop \in Seq(Props) /\ Len(blocks[a].prop) \in Nat
    BY ONLY TalInv, <1>2, ChainIs
  <2> QED BY ONLY <2>1, LenProperties DEF d
<1>4. blocks' = [M EXCEPT ![b] = r]
  BY <1>1 DEF MovedTo
<1> HIDE DEF b, d
<1>5. /\ c \in Seq(Props) /\ Len(c) = Len(d)
      /\ \A k \in 1 .. Len(c) : c[k] = IF d[k][1] = "length" THEN <<"length", b>> ELSE d[k]
  <2>1. \A k \in 1 .. Len(d) : (IF d[k][1] = "length" THEN <<"length", b>> ELSE d[k]) \in Props
    BY <1>1, <1>3, PropsAre
  <2>2. c \in [1 .. Len(d) -> Props]
    BY <1>3, <2>1
  <2>3. c \in Seq(Props) /\ Len(c) = Len(d)
    BY <1>3, <2>2
  <2> QED BY <1>3, <2>3
<1> HIDE DEF c
<1>6. a # b /\ r \in BlockRecs
  BY <1>1, <1>2, <1>5 DEF BlockRecs
<1>7. M \in [TalAddrs -> BlockRecs] /\ M[a] = Unused /\ \A x \in TalAddrs \ {a} : M[x] = blocks[x]
  BY <1>2 DEF Unused, BlockRecs
<1> HIDE DEF M
<1>8. /\ blocks' \in [TalAddrs -> BlockRecs] /\ blocks'[a] = Unused /\ blocks'[b] = r
      /\ \A x \in TalAddrs \ {a, b} : blocks'[x] = blocks[x]
  BY <1>1, <1>2, <1>4, <1>6, <1>7
<1>9. /\ Forest(blocks', groups', ptrs')
      /\ AliveIn(blocks') = (Alive \ {a}) \cup {b} /\ LinkedIn(blocks') = (Linked \ {a}) \cup {b}
  <2> DEFINE C == blocks'
             H == groups'
  <2>1. /\ H \in [TalGroups -> TalAddrs \cup {FREE, NULL_PARENT}]
        /\ \A h \in TalGroups : H[h] = IF groups[h] = a THEN b ELSE groups[h]
    BY <1>1, <1>2
  <2>2. /\ C \in [TalAddrs -> BlockRecs] /\ C[a] = Unused /\ C[b] = r
        /\ \A x \in TalAddrs \ {a, b} : C[x] = blocks[x]
    BY <1>8
  <2> HIDE DEF C, H
  <2>3. Moves(blocks, groups, ptrs, a, b, c, C, H)
    BY <1>1, <1>2, <1>5, <2>1, <2>2, SameSets DEF Moves, d
  <2>4. /\ Forest(C, H, L!InitLinks(L!SwapLinks(ptrs, a, b), a))
        /\ AliveIn(C) = (AliveIn(blocks) \ {a}) \cup {b}
        /\ LinkedIn(C) = (LinkedIn(blocks) \ {a}) \cup {b}
    BY <2>3, MoveForest
  <2> QED BY <1>1, <2>4, SameSets DEF C, H
<1>10. Calls(blocks', stack')
  <2>1. AliveIn(blocks') \ LinkedIn(blocks') = Alive \ Linked
    BY <1>1, <1>9, SameSets
  <2> QED BY <1>1, <2>1, SameSets DEF TalInv, Calls
<1>11. blocks'[b].prop = c /\ (NotedChain(c) <=> NotedChain(d))
  <2>1. blocks'[b].prop = c
    BY <1>2, <1>8 DEF BlockRecs
  <2>2. \A k \in 1 .. Len(c) : c[k][1] = d[k][1]
    BY <1>5
  <2> QED BY <1>5, <2>1, <2>2 DEF NotedChain
<1>12. NotedIn(blocks') = IF a \in N THEN (N \ {a}) \cup {b} ELSE N
  <2>1. \A x \in TalAddrs :
          x \in NotedIn(blocks') <=> x \in AliveIn(blocks') /\ NotedChain(blocks'[x].prop)
    BY DEF NotedIn, NotedChain, AliveIn
  <2>2. \A x \in TalAddrs : x \in N <=> x \in Alive /\ NotedChain(blocks[x].prop)
    BY SameSets DEF NotedIn, NotedChain
  <2>3. NotedIn(blocks') \subseteq TalAddrs /\ N \subseteq TalAddrs
    BY DEF NotedIn, AliveIn
  <2> HIDE DEF N
  <2>4. a \in N <=> NotedChain(d)
    BY <1>2, <2>2 DEF d
  <2>5. b \in NotedIn(blocks') <=> NotedChain(d)
    BY <1>1, <1>9, <1>11, <2>1
  <2>6. \A x \in TalAddrs \ {a, b} : x \in NotedIn(blocks') <=> x \in N
    BY <1>8, <1>9, <2>1, <2>2
  <2>7. a \notin NotedIn(blocks') /\ b \notin N
    BY <1>1, <1>2, <1>6, <1>9, <2>1, <2>2
  <2> QED BY <1>1, <1>2, <2>3, <2>4, <2>5, <2>6, <2>7
<1>13. notifiers' \in Nat /\ Cardinality(NotedIn(blocks')) <= notifiers'
  <2>1. IsFiniteSet(N) /\ Cardinality(N) \in Nat
    BY NotedFinite
  <2>2. notifiers' \in Nat /\ Cardinality(N) <= notifiers'
    BY <1>1 DEF TalInv
  <2>3. b \notin N
    BY <1>1, SameSets DEF NotedIn
  <2> HIDE DEF N
  <2>4. ASSUME a \in N PROVE Cardinality((N \ {a}) \cup {b}) = Cardinality(N)
    <3> DEFINE O == N \ {a}
    <3>1. IsFiniteSet(O) /\ Cardinality(O) = Cardinality(N) - 1
      BY <2>1, <2>4, FS_RemoveElement
    <3>2. b \notin O
      BY <2>3
    <3> HIDE DEF O
    <3>3. Cardinality(O \cup {b}) = Cardinality(O) + 1
      BY <3>1, <3>2, FS_AddElement
    <3> QED BY <2>1, <3>1, <3>3 DEF O
  <2> QED BY <1>12, <2>2, <2>4
<1> QED BY <1>9, <1>10, <1>13 DEF TalInv

\* tal_free: of a block that is being destroyed, list_del writes what is there.
LEMMA FreeOK == ASSUME TalInv, NEW a \in Alive, MayFree(a), TalFree(a) PROVE TalInv'
<1>1. CASE a \in Linked
  BY <1>1, EnterOK DEF TalFree
<1>2. CASE a \notin Linked
  <2>1. ptrs \in L!Links
    BY DEF TalInv, Forest, L!Rings
  <2>2. ptrs.prev[ptrs.next[a]] = ptrs.prev[a] /\ ptrs.next[ptrs.prev[a]] = ptrs.next[a]
    BY <1>2 DEF MayFree, Undisturbed
  <2>3. L!DelLinks(ptrs, a) = ptrs
    <3>1. /\ [ptrs.next EXCEPT ![ptrs.prev[a]] = ptrs.next[a]] = ptrs.next
          /\ [ptrs.prev EXCEPT ![ptrs.next[a]] = ptrs.prev[a]] = ptrs.prev
          /\ [next |-> ptrs.next, prev |-> ptrs.prev] = ptrs
      BY <2>1, <2>2 DEF L!Links
    <3> QED BY <3>1 DEF L!DelLinks
  <2>4. UNCHANGED tal_vars
    BY <1>2, <2>3 DEF TalFree, tal_vars
  <2> QED BY <2>4 DEF TalInv, tal_vars
<1> QED BY <1>1, <1>2

-----------------------------------------------------------------------------
(* The invariant, and what it implies. *)

\* Nothing is allocated.
LEMMA TalInitOK == TalInit => TalInv
<1> SUFFICES ASSUME TalInit PROVE TalInv
  OBVIOUS
<1>1. /\ blocks = [a \in TalAddrs |-> Unused]
      /\ groups = [g \in TalGroups |-> IF g = NullGroup THEN NULL_PARENT ELSE FREE]
      /\ ptrs = [next |-> [c \in TalAddrs \cup TalGroups |-> c],
                 prev |-> [c \in TalAddrs \cup TalGroups |-> c]]
      /\ notifiers = 0 /\ stack = <<>>
  BY DEF TalInit
<1>2. Unused \in BlockRecs /\ ~Unused.live
  <2>1. <<>> \in Seq(Props)
    OBVIOUS
  <2> QED BY <2>1 DEF Unused, BlockRecs
<1>3. AliveIn(blocks) = {} /\ LinkedIn(blocks) = {} /\ NotedIn(blocks) = {}
  BY <1>1, <1>2 DEF AliveIn, LinkedIn, NotedIn
<1>4. OnIn(blocks) = [a \in TalAddrs |-> NULL_PARENT]
  BY <1>3 DEF OnIn
<1>5. L!Rings(ptrs, OnIn(blocks))
  <2> DEFINE o == [a \in TalAddrs |-> NULL_PARENT]
  <2>1. L!Listed(o) = {} /\ L!Live(o) = TalGroups
    BY DEF L!Listed, L!Live
  <2>2. o \in [TalAddrs -> TalGroups \cup {NULL_PARENT}]
    OBVIOUS
  <2>3. \A c \in TalGroups : ptrs.next[c] = c /\ ptrs.prev[c] = c
    BY <1>1
  <2>4. ptrs \in L!Links
    BY <1>1 DEF L!Links, L!Cells
  <2> HIDE DEF o
  <2>5. L!Symmetric(ptrs, o) /\ L!Headed(ptrs, o)
    BY <2>1, <2>3 DEF L!Symmetric, L!Headed, L!ListOf
  <2> QED BY <1>4, <2>2, <2>4, <2>5 DEF L!Rings, o
<1>6. \A a \in TalAddrs : BlockOK(blocks, groups, a)
  BY <1>1, <1>2 DEF BlockOK
<1>7. \A g \in TalGroups : GroupOK(blocks, groups, g)
  BY <1>1, <1>3, ListsAssumed DEF GroupOK
<1>8. /\ blocks \in [TalAddrs -> BlockRecs]
      /\ groups \in [TalGroups -> TalAddrs \cup {FREE, NULL_PARENT}]
      /\ Grounded(blocks, groups)
  BY <1>1, <1>2, <1>3 DEF Grounded
<1>9. Calls(blocks, stack)
  BY <1>1, <1>3 DEF Calls
<1>10. Cardinality(NotedIn(blocks)) = 0
  BY <1>3, FS_EmptySet
<1> QED BY <1>1, <1>5, <1>6, <1>7, <1>8, <1>9, <1>10 DEF TalInv, Forest

\* Nothing happens.
LEMMA TalStays == ASSUME TalInv, UNCHANGED tal_vars PROVE TalInv'
BY DEF TalInv, tal_vars

\* What the tree is, of the blocks, the lists, the calls and the count.
THEOREM AlwaysTalInv == TalSpec => []TalInv
<1>1. TalInit => TalInv
  BY TalInitOK
<1>2. TalInv /\ [TalNext]_tal_vars => TalInv'
  <2> SUFFICES ASSUME TalInv, [TalNext]_tal_vars PROVE TalInv'
    OBVIOUS
  <2>1. ASSUME NEW p \in Alive \cup {NULL_PARENT}, NEW array \in BOOLEAN, TalAlloc(p, array)
        PROVE  TalInv'
    BY <2>1, AllocOK
  <2>2. ASSUME NEW a \in Alive, MayFree(a), TalFree(a) PROVE TalInv'
    BY <2>2, FreeOK
  <2>3. ASSUME NEW a \in Linked, NEW p \in Alive \cup {NULL_PARENT}, TalSteal(p, a) PROVE TalInv'
    BY <2>3, StealOK
  <2>4. ASSUME NEW a \in Alive, NEW type \in {"free", "child"}, TalAddNotifier(a, type)
        PROVE  TalInv'
    BY <2>4, AddNotifierOK
  <2>5. ASSUME NEW a \in Linked, NEW type \in {"free", "child"}, TalDelNotifier(a, type)
        PROVE  TalInv'
    BY <2>5, DelNotifierOK
  <2>6. ASSUME NEW a \in Alive, NEW kind \in {"literal", "name"}, TalSetName(a, kind) PROVE TalInv'
    BY <2>6, SetNameOK
  <2>7. ASSUME NEW a \in Linked, TalResize(a) PROVE TalInv'
    BY <2>7, ResizeOK
  <2>8. CASE DestructorReturns
    BY <2>8, DestructorReturnsOK
  <2>9. CASE FreeChild
    BY <2>9, FreeChildOK
  <2>10. CASE FreeBlock
    BY <2>10, FreeBlockOK
  <2>11. CASE UNCHANGED tal_vars
    BY <2>11, TalStays
  <2> QED BY <2>1, <2>2, <2>3, <2>4, <2>5, <2>6, <2>7, <2>8, <2>9, <2>10, <2>11 DEF TalNext
<1> QED BY <1>1, <1>2, PTL DEF TalSpec

\* What is in a set of places of which there is one at most.
LEMMA AtMostOne ==
  ASSUME NEW T, \A i, j \in T : i = j
  PROVE  Cardinality(T) <= 1
<1>1. CASE T = {}
  BY <1>1, FS_EmptySet
<1>2. CASE T # {}
  <2>1. PICK i \in T : TRUE
    BY <1>2
  <2>2. T = {i}
    BY <2>1
  <2>3. Cardinality({i}) = 1
    BY FS_Singleton
  <2> QED BY <2>2, <2>3
<1> QED BY <1>1, <1>2

\* What tal_check asks of the chain of a block.
LEMMA ChainsOK == ASSUME TalInv, NEW a \in Alive PROVE ChainOK(a)
<1> DEFINE p == blocks[a].prop
           names == Places(p, "name") \cup Places(p, "literal")
<1>1. Chained(a, p, groups)
  BY SameSets DEF TalInv, Forest, BlockOK, Alive
<1> HIDE DEF p
<1>2. p \in Seq(Props) /\ DOMAIN p = 1 .. Len(p)
  BY <1>1 DEF Chained
<1>3. \A i, j \in 1 .. Len(p) : KindOf(p[i]) = KindOf(p[j]) => i = j
  BY <1>1 DEF Chained
<1>4. ASSUME NEW type \in {"children", "length"} PROVE Cardinality(Places(p, type)) <= 1
  <2>1. \A i \in Places(p, type) : i \in 1 .. Len(p) /\ KindOf(p[i]) = type
    BY <1>2 DEF Places, KindOf
  <2>2. \A i, j \in Places(p, type) : i = j
    BY <1>3, <2>1
  <2> QED BY <2>2, AtMostOne
<1>5. Cardinality(names) <= 1
  <2>1. \A i \in names : i \in 1 .. Len(p) /\ KindOf(p[i]) = "name"
    BY <1>2 DEF Places, KindOf
  <2>2. \A i, j \in names : i = j
    BY <1>3, <2>1
  <2> HIDE DEF names
  <2> QED BY <2>2, AtMostOne
<1>6. /\ Places(p, "literal") \subseteq {Len(p)}
      /\ \A k \in Places(p, "length") : p[k][2] = a
      /\ \A k \in Places(p, "children") : groups[p[k][2]] = a
  BY <1>1, <1>2 DEF Places, Chained
<1> QED BY <1>4, <1>5, <1>6 DEF ChainOK, p

\* Every block is below one that is being destroyed or below null_parent: those
\* that are not would be each other's parents.
LEMMA AllUnder ==
  ASSUME TalInv
  PROVE  Alive \ UNION {Under(p) : p \in (Alive \ Linked) \cup {NULL_PARENT}} = {}
<1> DEFINE Roots == (Alive \ Linked) \cup {NULL_PARENT}
           S == Alive \ UNION {Under(p) : p \in Roots}
<1>1. Forest(blocks, groups, ptrs)
  BY DEF TalInv
<1>2. \A p \in Roots : p \in TalAddrs \cup {NULL_PARENT}
  BY SameSets
<1>3. \A p \in Roots : p \in Under(p) /\ \A x \in Linked : Parent(x) \in Under(p) => x \in Under(p)
  BY <1>2, UnderIs
<1>4. S \subseteq Linked
  BY <1>3
<1>5. ASSUME NEW x \in S PROVE Parent(x) \in S
  <2>1. x \in Linked /\ Parent(x) \in Alive \cup {NULL_PARENT}
    BY <1>1, <1>4, SameSets, ForestLists DEF Parent
  <2>2. \A p \in Roots : Parent(x) \notin Under(p)
    BY <1>3, <2>1
  <2>3. Parent(x) # NULL_PARENT
    BY <1>3, <2>2
  <2> QED BY <2>1, <2>2, <2>3
<1> HIDE DEF S
<1>6. S \in SUBSET LinkedIn(blocks) /\ \A x \in S : groups[blocks[x].parent_child] \in S
  BY <1>4, <1>5, SameSets DEF Parent
<1>7. S = {}
  BY <1>1, <1>6 DEF Forest, Grounded
<1> QED BY <1>7 DEF S

\* The invariant says all that the property says.
LEMMA TreeOf == ASSUME TalInv PROVE TalIsTree
<1>1. Forest(blocks, groups, ptrs)
  BY DEF TalInv
<1>2. L!ListsAreRings
  BY <1>1, SameSets DEF Forest, OnIn, L!ListsAreRings
<1>3. \A a \in Linked : Parent(a) \in Alive \cup {NULL_PARENT}
  BY <1>1, SameSets, ForestLists DEF Parent
<1>4. ASSUME NEW g \in TalGroups \ FreeGroups, groups[g] # NULL_PARENT
      PROVE  <<"children", g>> \in ToSet(blocks[groups[g]].prop)
  <2> DEFINE p == blocks[groups[g]].prop
  <2>1. groups[g] \in Alive /\ \E k \in 1 .. Len(p) : p[k] = <<"children", g>>
    BY <1>1, <1>4, SameSets DEF Forest, GroupOK, FreeGroups
  <2>2. p \in Seq(Props)
    BY <1>1, <2>1 DEF Forest, BlockOK, Alive, Chained
  <2> HIDE DEF p
  <2>3. DOMAIN p = 1 .. Len(p)
    BY <2>2
  <2> QED BY <2>1, <2>3 DEF ToSet, p
<1>5. Alive \ Linked = {stack[k].t : k \in DOMAIN stack}
  <2>1. DOMAIN stack = 1 .. Len(stack)
    BY DEF TalInv, Calls
  <2> QED BY <2>1, SameSets DEF TalInv, Calls
<1>6. notifiers >= Cardinality({a \in Alive : Has(a, "child")})
  <2>1. \A a \in Alive :
          Has(a, "child") <=> \E k \in 1 .. Len(blocks[a].prop) : blocks[a].prop[k][1] = "child"
    <3>1. ASSUME NEW a \in Alive PROVE DOMAIN blocks[a].prop = 1 .. Len(blocks[a].prop)
      BY <1>1 DEF Forest, BlockOK, Alive, Chained
    <3> QED BY <3>1 DEF Has, Places
  <2>2. {a \in Alive : Has(a, "child")} = NotedIn(blocks)
    BY <2>1, SameSets DEF NotedIn
  <2> QED BY <2>2, NotedFinite DEF TalInv
<1> QED BY <1>2, <1>3, <1>4, <1>5, <1>6, ChainsOK, AllUnder DEF TalIsTree

\* Whatever the program and the destructors allocate, steal, resize, name and
\* free, a block that is being destroyed too while its old neighbours on the
\* list still are each other's, every block is on its parent's list and nowhere
\* else, or is being destroyed by a call that runs; every list belongs to a
\* block that knows it (tal_free, tal_steal_, tal_resize_ and del_tree).
THEOREM BlocksAlwaysTree == TalSpec => []TalIsTree
BY AlwaysTalInv, TreeOf, PTL

-----------------------------------------------------------------------------
(***************************************************************************)
(* The walk over a tree: what begins with the first child and goes on with *)
(* tal_next misses nothing below a block, because a set that it leads      *)
(* nowhere out of has, with each block, all that is below it: of those not *)
(* so, one with the fewest blocks below would have a child that is not so. *)
(***************************************************************************)

Everyone == Alive \cup {NULL_PARENT}
Kids(p) == {c \in Linked : Parent(c) = p}
Below(p) == Under(p) \ {p}

\* Nothing is being destroyed, and what is in use is a forest.
AtRest == Forest(blocks, groups, ptrs) /\ Alive = Linked

\* Who is among its own parents is nobody.
LEMMA NoneGrounded ==
  ASSUME AtRest, NEW S \in SUBSET Linked, \A x \in S : Parent(x) \in S
  PROVE  S = {}
BY SameSets DEF AtRest, Forest, Grounded, Parent

\* What UnderIs says, of blocks at rest.
LEMMA UnderAtRest ==
  ASSUME AtRest, NEW p \in Everyone
  PROVE  /\ p \in Under(p) /\ Under(p) \subseteq Everyone
         /\ \A x \in Linked : Parent(x) \in Everyone
         /\ \A x \in Linked : Parent(x) \in Under(p) => x \in Under(p)
         /\ \A x \in Under(p) \ {p} : x \in Linked /\ Parent(x) \in Under(p)
<1>1. p \in TalAddrs \cup {NULL_PARENT}
  BY SameSets DEF Everyone
<1>2. \A x \in Linked : Parent(x) \in Everyone
  BY SameSets, ForestLists DEF AtRest, Parent, Everyone
<1>3. /\ p \in Under(p)
      /\ \A x \in Linked : Parent(x) \in Under(p) => x \in Under(p)
      /\ \A x \in Under(p) \ {p} : x \in Linked /\ Parent(x) \in Under(p)
  BY <1>1, UnderIs
<1>4. Under(p) \subseteq Everyone
  BY <1>3, SameSets DEF Everyone
<1> QED BY <1>2, <1>3, <1>4

\* Under is transitive, and goes one way only.
LEMMA UnderTrans ==
  ASSUME AtRest, NEW z \in Everyone, NEW y \in Under(z)
  PROVE  Under(y) \subseteq Under(z)
<1> DEFINE S == Under(y) \ Under(z)
<1>1. y \in Everyone
  BY UnderAtRest
<1>2. ASSUME NEW w \in S PROVE w \in Linked /\ Parent(w) \in S
  <2>1. w \in Linked /\ Parent(w) \in Under(y)
    BY <1>1, <1>2, UnderAtRest
  <2> QED BY <1>2, <2>1, UnderAtRest
<1> HIDE DEF S
<1>3. S \in SUBSET Linked /\ \A w \in S : Parent(w) \in S
  BY <1>2
<1>4. S = {}
  BY <1>3, NoneGrounded
<1> QED BY <1>4 DEF S

LEMMA NotAbove ==
  ASSUME AtRest, NEW z \in Everyone, NEW x \in Below(z)
  PROVE  z \notin Under(x)
<1> SUFFICES ASSUME z \in Under(x) PROVE FALSE
  OBVIOUS
<1> DEFINE S == Under(x) \cup Under(z)
<1>1. x \in Everyone /\ x # z /\ x \in Under(z)
  BY UnderAtRest DEF Below
<1>2. ASSUME NEW w \in S PROVE w \in Linked /\ Parent(w) \in S
  <2>1. CASE w # z /\ w \in Under(z)
    BY <2>1, UnderAtRest
  <2>2. CASE w # x /\ w \in Under(x)
    BY <1>1, <2>2, UnderAtRest
  <2>3. CASE w = x
    BY <1>1, <2>1, <2>3
  <2>4. CASE w = z
    BY <1>1, <2>2, <2>4
  <2> QED BY <1>2, <2>1, <2>2, <2>3, <2>4
<1>3. x \in S
  BY <1>1
<1> HIDE DEF S
<1>4. S \in SUBSET Linked /\ \A w \in S : Parent(w) \in S
  BY <1>2
<1> QED BY <1>3, <1>4, NoneGrounded

\* A child is under its parent only; what is below is under a child.
LEMMA KidBelow ==
  ASSUME AtRest, NEW z \in Everyone, NEW c \in Kids(z)
  PROVE  c \in Below(z) /\ Under(c) \subseteq Below(z)
<1>1. c \in Linked /\ Parent(c) = z /\ c \in Under(z)
  BY UnderAtRest DEF Kids
<1>2. c # z
  <2> SUFFICES ASSUME c = z PROVE FALSE
    OBVIOUS
  <2>1. {c} \in SUBSET Linked /\ \A x \in {c} : Parent(x) \in {c}
    BY <1>1
  <2>2. {c} = {}
    BY <2>1, NoneGrounded
  <2> QED BY <2>2
<1>3. c \in Below(z)
  BY <1>1, <1>2 DEF Below
<1>4. Under(c) \subseteq Under(z) /\ z \notin Under(c)
  BY <1>1, <1>3, UnderTrans, NotAbove
<1> QED BY <1>3, <1>4 DEF Below

LEMMA BelowKid ==
  ASSUME AtRest, NEW z \in Everyone, NEW x \in Below(z)
  PROVE  \E c \in Kids(z) : x \in Under(c)
<1> DEFINE S == {w \in Below(z) : \A c \in Kids(z) : w \notin Under(c)}
<1>1. ASSUME NEW w \in S PROVE w \in Linked /\ Parent(w) \in S
  <2>1. w \in Linked /\ Parent(w) \in Under(z) /\ w \in Everyone
    BY UnderAtRest DEF Below
  <2>2. Parent(w) # z
    <3> SUFFICES ASSUME Parent(w) = z PROVE FALSE
      OBVIOUS
    <3>1. w \in Kids(z) /\ w \in Under(w)
      BY <2>1, UnderAtRest DEF Kids
    <3> QED BY <3>1
  <2>3. ASSUME NEW c \in Kids(z), Parent(w) \in Under(c) PROVE FALSE
    <3>1. c \in Everyone
      BY SameSets DEF Kids, Everyone
    <3>2. w \in Under(c)
      BY <2>1, <2>3, <3>1, UnderAtRest
    <3> QED BY <3>2
  <2> QED BY <2>1, <2>2, <2>3 DEF Below
<1> HIDE DEF S
<1>2. S \in SUBSET Linked /\ \A w \in S : Parent(w) \in S
  BY <1>1
<1>3. S = {}
  BY <1>2, NoneGrounded
<1> QED BY <1>3 DEF S

\* Nothing is under two children of one block.
LEMMA OneKid ==
  ASSUME AtRest, NEW z \in Everyone, NEW c \in Kids(z), NEW e \in Kids(z), NEW d,
         d \in Under(c), d \in Under(e)
  PROVE  c = e
<1> SUFFICES ASSUME c # e PROVE FALSE
  OBVIOUS
<1> DEFINE S == Under(c) \cap Under(e)
<1>1. c \in Everyone /\ e \in Everyone /\ Parent(c) = z /\ Parent(e) = z
  BY SameSets DEF Kids, Everyone
<1>2. c \in Below(z) /\ e \in Below(z) /\ z \notin Under(c) /\ z \notin Under(e)
  BY KidBelow, NotAbove
<1>3. ASSUME NEW w \in S PROVE w \in Linked /\ Parent(w) \in S
  <2>1. w # c
    <3> SUFFICES ASSUME w = c PROVE FALSE
      OBVIOUS
    <3>1. c \in Under(e) \ {e}
      BY <1>3
    <3>2. Parent(c) \in Under(e)
      BY <1>1, <3>1, UnderAtRest
    <3> QED BY <1>1, <1>2, <3>2
  <2>2. w # e
    <3> SUFFICES ASSUME w = e PROVE FALSE
      OBVIOUS
    <3>1. e \in Under(c) \ {c}
      BY <1>3
    <3>2. Parent(e) \in Under(c)
      BY <1>1, <3>1, UnderAtRest
    <3> QED BY <1>1, <1>2, <3>2
  <2>3. w \in Under(c) \ {c} /\ w \in Under(e) \ {e}
    BY <1>3, <2>1, <2>2
  <2> QED BY <1>1, <2>3, UnderAtRest
<1>4. d \in S
  OBVIOUS
<1> HIDE DEF S
<1>5. S \in SUBSET Linked /\ \A w \in S : Parent(w) \in S
  BY <1>3
<1> QED BY <1>4, <1>5, NoneGrounded

-----------------------------------------------------------------------------
\* The list of a block's children, as first_child and the siblings' pointers give it.
LEMMA KidsAre ==
  ASSUME AtRest, NEW p \in Everyone
  PROVE  /\ first_child(p) = NULL_PARENT <=> Kids(p) = {}
         /\ first_child(p) \in Kids(p) \cup {NULL_PARENT}
         /\ \A c \in Kids(p) : ptrs.next[c] \in Kids(p) \cup {blocks[c].parent_child}
         /\ Kids(p) # {} => \E c \in Kids(p) : ptrs.next[c] = blocks[c].parent_child
         /\ \A T \in SUBSET Kids(p) :
              /\ first_child(p) \in T \cup {NULL_PARENT}
              /\ \A c \in T : ptrs.next[c] \in T \cup {blocks[c].parent_child}
              => T = Kids(p)
<1> DEFINE o == OnIn(blocks)
           h == GroupOf(p)
<1>1. /\ Forest(blocks, groups, ptrs) /\ L!Rings(ptrs, o)
      /\ L!Listed(o) = Linked /\ \A c \in Linked : o[c] = blocks[c].parent_child /\ o[c] \in TalGroups
  BY SameSets, ForestLists DEF AtRest, Forest
<1>2. \A c \in Linked : c \in TalAddrs /\ c \notin TalGroups /\ c # NULL_PARENT
  BY SameSets, ListsAssumed
<1>3. \A c \in Kids(p) : c \in Linked /\ groups[blocks[c].parent_child] = p
  BY DEF Kids, Parent
<1>4. CASE ~HasGroup(p)
  <2>1. \A g \in TalGroups : groups[g] # p
    BY <1>1, <1>4, GroupIs DEF Everyone
  <2>2. Kids(p) = {}
    BY <1>1, <1>3, <2>1
  <2> QED BY <1>4, <2>2 DEF first_child
<1>5. CASE HasGroup(p)
  <2>1. h \in TalGroups /\ groups[h] = p /\ \A g \in TalGroups : groups[g] = p => g = h
    BY <1>1, <1>5, GroupIs DEF Everyone
  <2>2. \A c : c \in Kids(p) <=> c \in Linked /\ blocks[c].parent_child = h
    BY <1>1, <2>1 DEF Kids, Parent
  <2> HIDE DEF h, o
  <2>3. /\ \A c \in L!Live(o) :
             /\ ptrs.next[c] \in L!Live(o) /\ L!ListOf(o, ptrs.next[c]) = L!ListOf(o, c)
             /\ ptrs.prev[c] \in L!Live(o) /\ L!ListOf(o, ptrs.prev[c]) = L!ListOf(o, c)
             /\ ptrs.prev[ptrs.next[c]] = c /\ ptrs.next[ptrs.prev[c]] = c
        /\ \A S \in SUBSET Linked : (\A c \in S : ptrs.next[c] \in S) => S = {}
    BY <1>1 DEF L!Rings, L!Symmetric, L!Headed
  <2>4. /\ L!Live(o) = TalGroups \cup Linked
        /\ \A c \in TalGroups : L!ListOf(o, c) = c
        /\ \A c \in Linked : L!ListOf(o, c) = o[c]
    BY <1>1, <1>2 DEF L!Live, L!ListOf
  <2>5. \A c \in Kids(p) \cup {h} :
          ptrs.next[c] \in Kids(p) \cup {h} /\ ptrs.prev[c] \in Kids(p) \cup {h}
          /\ ptrs.prev[ptrs.next[c]] = c /\ ptrs.next[ptrs.prev[c]] = c
    BY <1>1, <1>2, <2>1, <2>2, <2>3, <2>4
  <2>6. first_child(p) = IF ptrs.next[h] # h THEN ptrs.next[h] ELSE NULL_PARENT
    BY <1>5 DEF first_child, L!list_empty, h
  <2>7. ptrs.next[h] = h <=> Kids(p) = {}
    <3>1. ptrs.next[h] = h <=> \A n \in TalAddrs : o[n] # h
      BY <1>1, <2>1, EmptyRing
    <3>2. \A n \in TalAddrs : o[n] = h => n \in Linked
      BY <2>1, SameSets, ListsAssumed DEF o, OnIn
    <3> QED BY <1>1, <1>2, <2>2, <3>1, <3>2
  <2>8. h \notin Kids(p) /\ NULL_PARENT \notin Kids(p)
    BY <1>2, <2>1, <2>2
  <2>9. Kids(p) # {} => \E c \in Kids(p) : ptrs.next[c] = blocks[c].parent_child
    <3> SUFFICES ASSUME Kids(p) # {} PROVE \E c \in Kids(p) : ptrs.next[c] = h
      BY <2>2
    <3>1. ptrs.prev[h] # h
      BY <2>5, <2>7
    <3> QED BY <2>5, <3>1
  <2>10. ASSUME NEW T \in SUBSET Kids(p), first_child(p) \in T \cup {NULL_PARENT},
                \A c \in T : ptrs.next[c] \in T \cup {blocks[c].parent_child}
         PROVE  T = Kids(p)
    <3> DEFINE W == Kids(p) \ T
               f == [c \in W |-> ptrs.prev[c]]
    <3>1. ASSUME NEW c \in W PROVE ptrs.prev[c] \in W
      <4>1. ptrs.prev[c] \in Kids(p) \cup {h} /\ ptrs.next[ptrs.prev[c]] = c
        BY <2>5
      <4>2. ptrs.prev[c] # h
        BY <2>6, <2>7, <2>8, <2>10, <4>1
      <4>3. ptrs.prev[c] \notin T
        BY <2>2, <2>8, <2>10, <4>1
      <4> QED BY <4>1, <4>2, <4>3
    <3>2. IsFiniteSet(W)
      <4>1. W \in SUBSET TalAddrs
        BY <1>2, <2>2
      <4> HIDE DEF W
      <4> QED BY <4>1, ListsAssumed, FS_Subset
    <3>3. \A c \in W : ptrs.next[ptrs.prev[c]] = c
      BY <2>5
    <3>4. f \in Injection(W, W)
      <4> HIDE DEF W
      <4> QED BY <3>1, <3>3 DEF Injection, IsInjective
    <3>5. f \in Surjection(W, W)
      <4> HIDE DEF f, W
      <4> QED BY <3>2, <3>4, FS_Injection
    <3>6. \A c \in W : \E d \in W : ptrs.prev[d] = c
      <4> HIDE DEF W
      <4> QED BY <3>5 DEF Surjection
    <3>7. \A c \in W : ptrs.next[c] \in W
      <4> HIDE DEF W
      <4> QED BY <3>3, <3>6
    <3>8. W \in SUBSET Linked
      BY <2>2
    <3>9. W = {}
      <4> HIDE DEF W
      <4> QED BY <2>3, <3>7, <3>8
    <3> QED BY <3>9
  <2> QED BY <2>2, <2>5, <2>6, <2>7, <2>8, <2>9, <2>10
<1> QED BY <1>4, <1>5

-----------------------------------------------------------------------------
\* The parents of a, one above the other.
Climbs(u, a) ==
  /\ u \in [0 .. Cardinality(TalAddrs) -> Everyone]
  /\ u[0] = a
  /\ \A k \in 1 .. Cardinality(TalAddrs) :
       u[k] = IF u[k - 1] = NULL_PARENT THEN NULL_PARENT ELSE Parent(u[k - 1])

\* From a block under root they lead to root, through blocks that it is under.
LEMMA ClimbsTo ==
  ASSUME AtRest, NEW root \in Everyone, NEW a \in Under(root), NEW u, Climbs(u, a)
  PROVE  \E t \in 0 .. Cardinality(TalAddrs) :
           /\ u[t] = root
           /\ \A k \in 0 .. t - 1 : u[k] \in Below(root) /\ a \in Under(u[k])
<1> DEFINE N == Cardinality(TalAddrs)
<1>1. N \in Nat /\ IsFiniteSet(TalAddrs)
  BY ListsAssumed, FS_CardinalityType
<1>2. /\ u \in [0 .. N -> Everyone] /\ u[0] = a
      /\ \A k \in 1 .. N : u[k] = IF u[k - 1] = NULL_PARENT THEN NULL_PARENT ELSE Parent(u[k - 1])
  BY DEF Climbs
<1> HIDE DEF N
<1>3. a \in Everyone /\ a \in Under(a)
  BY UnderAtRest
<1> DEFINE Here(k) == u[k] \in Under(root) /\ a \in Under(u[k])
           T == {k \in Nat : k <= N /\ (\A j \in 0 .. k - 1 : u[j] # root) => Here(k)}
<1>4. T = Nat
  <2>1. 0 \in T
    BY <1>2, <1>3
  <2>2. ASSUME NEW k \in Nat, k \in T PROVE k + 1 \in T
    <3> SUFFICES ASSUME k + 1 <= N, \A j \in 0 .. (k + 1) - 1 : u[j] # root
                 PROVE  Here(k + 1)
      OBVIOUS
    <3>1. k <= N /\ k \in 0 .. (k + 1) - 1 /\ \A j \in 0 .. k - 1 : j \in 0 .. (k + 1) - 1
      BY <1>1
    <3>2. u[k] # root /\ Here(k)
      BY <2>2, <3>1
    <3> DEFINE b == u[k]
    <3>3. b \in Linked /\ Parent(b) \in Under(root) /\ b \in Everyone
      BY <3>2, UnderAtRest
    <3>4. u[k + 1] = Parent(b)
      <4>1. k + 1 \in 1 .. N /\ (k + 1) - 1 = k
        BY <1>1
      <4>2. b # NULL_PARENT
        BY <3>3, SameSets, ListsAssumed
      <4> QED BY <1>2, <4>1, <4>2
    <3> HIDE DEF b
    <3>5. Parent(b) \in Everyone /\ b \in Under(Parent(b))
      BY <3>3, UnderAtRest
    <3>6. Under(b) \subseteq Under(Parent(b))
      BY <3>5, UnderTrans
    <3> QED BY <3>2, <3>3, <3>4, <3>6 DEF b
  <2>3. T \in SUBSET Nat
    OBVIOUS
  <2> HIDE DEF T
  <2> QED BY <2>1, <2>2, <2>3, Inductive
<1>5. \E t \in 0 .. N : u[t] = root
  <2> SUFFICES ASSUME \A t \in 0 .. N : u[t] # root PROVE FALSE
    OBVIOUS
  <2>1. \A k \in 0 .. N : u[k] \in Linked /\ u[k] \in TalAddrs /\ u[k] # NULL_PARENT
    <3> TAKE k \in 0 .. N
    <3>1. k \in Nat /\ k <= N /\ \A j \in 0 .. k - 1 : j \in 0 .. N
      BY <1>1
    <3>2. u[k] \in Under(root) /\ u[k] # root
      BY <1>4, <3>1
    <3> QED BY <3>2, UnderAtRest, SameSets, ListsAssumed
  <2>2. u \in [0 .. N -> TalAddrs]
    BY <1>2, <2>1
  <2>3. IsFiniteSet(0 .. N) /\ Cardinality(TalAddrs) < Cardinality(0 .. N)
    <3>1. 0 \in Int /\ N \in Int
      BY <1>1
    <3>2. IsFiniteSet(0 .. N) /\ Cardinality(0 .. N) = IF 0 > N THEN 0 ELSE N - 0 + 1
      BY <3>1, FS_Interval
    <3> QED BY <1>1, <3>2 DEF N
  <2>4. PICK x, y \in 0 .. N : x # y /\ u[x] = u[y]
    BY <1>1, <2>2, <2>3, FS_PigeonHole
  <2>5. PICK i, j \in 0 .. N : i < j /\ u[i] = u[j]
    BY <1>1, <2>4
  <2> DEFINE S == {u[k] : k \in i .. j - 1}
  <2>6. ASSUME NEW k \in i .. j - 1 PROVE u[k] \in Linked /\ Parent(u[k]) \in S
    <3>1. k \in 0 .. N /\ k + 1 \in 1 .. N /\ (k + 1) - 1 = k /\ i \in i .. j - 1
      BY <1>1, <2>5
    <3>2. u[k + 1] = Parent(u[k])
      BY <1>2, <2>1, <3>1
    <3>3. CASE k + 1 = j
      BY <2>1, <2>5, <3>1, <3>2, <3>3
    <3>4. CASE k + 1 # j
      <4>1. k + 1 \in i .. j - 1
        BY <1>1, <2>5, <3>4
      <4> QED BY <2>1, <3>1, <3>2, <4>1
    <3> QED BY <3>3, <3>4
  <2>7. S \in SUBSET Linked /\ \A x1 \in S : Parent(x1) \in S
    BY <2>6
  <2>8. u[i] \in S
    BY <1>1, <2>5
  <2> HIDE DEF S
  <2> QED BY <2>7, <2>8, NoneGrounded
<1>6. PICK t \in 0 .. N : u[t] = root /\ \A j \in 0 .. N : u[j] = root => t <= j
  <2> DEFINE R == {k \in 0 .. N : u[k] = root}
  <2>1. R \in SUBSET Nat /\ R # {}
    BY <1>1, <1>5
  <2>2. PICK m \in R : \A y \in R : m <= y
    <3> HIDE DEF R
    <3> QED BY <2>1, LeastNumber
  <2> QED BY <2>2
<1>7. ASSUME NEW k \in 0 .. t - 1 PROVE u[k] \in Below(root) /\ a \in Under(u[k])
  <2>1. k \in Nat /\ k <= N /\ \A j \in 0 .. k : j \in 0 .. N /\ ~(t <= j)
    BY <1>1
  <2>2. \A j \in 0 .. k : u[j] # root
    BY <1>6, <2>1
  <2>3. k \in 0 .. k /\ \A j \in 0 .. k - 1 : j \in 0 .. k
    BY <2>1
  <2>4. Here(k)
    BY <1>4, <2>1, <2>2, <2>3
  <2> QED BY <2>2, <2>3, <2>4 DEF Below
<1> QED BY <1>6, <1>7 DEF N

\* tal_next, by the parents of a block.
LEMMA TalNextIs ==
  ASSUME AtRest, NEW root \in Everyone, NEW a \in Under(root)
  PROVE  \E u : \E t \in 0 .. Cardinality(TalAddrs) :
           LET turns == {k \in 0 .. t - 1 : ptrs.next[u[k]] # blocks[u[k]].parent_child}
           IN /\ Climbs(u, a) /\ u[t] = root
              /\ \A k \in 0 .. t - 1 : u[k] \in Below(root) /\ a \in Under(u[k])
              /\ tal_next(root, a) = IF first_child(a) # NULL_PARENT THEN first_child(a)
                                     ELSE IF turns = {} THEN NULL_PARENT
                                     ELSE ptrs.next[u[Min(turns)]]
<1> DEFINE N == Cardinality(TalAddrs)
           U(f) == [k \in 0 .. N |->
                      IF k = 0 THEN a
                      ELSE LET b == f[k - 1] IN IF b = NULL_PARENT THEN b ELSE Parent(b)]
           up == CHOOSE f : f = U(f)
           top == Min({k \in DOMAIN up : up[k] = root})
           turns(u, t) == {k \in 0 .. t - 1 : ptrs.next[u[k]] # blocks[u[k]].parent_child}
<1>1. tal_next(root, a) = IF first_child(a) # NULL_PARENT THEN first_child(a)
                          ELSE IF turns(up, top) = {} THEN NULL_PARENT
                          ELSE ptrs.next[up[Min(turns(up, top))]]
  BY Zenon DEF tal_next
<1>2. N \in Nat /\ a \in Everyone
  BY ListsAssumed, FS_CardinalityType, UnderAtRest
<1> DEFINE g == [b \in Everyone |-> IF b = NULL_PARENT THEN b ELSE Parent(b)]
<1>3. g \in [Everyone -> Everyone]
  <2>1. ASSUME NEW b \in Everyone PROVE g[b] \in Everyone
    <3>1. CASE b = NULL_PARENT
      BY <3>1
    <3>2. CASE b # NULL_PARENT
      <4>1. b \in Linked
        BY <3>2 DEF Everyone, AtRest
      <4> QED BY <3>2, <4>1, <1>2, UnderAtRest
    <3> QED BY <3>1, <3>2
  <2> QED BY <2>1
<1>4. PICK f \in [0 .. N -> Everyone] : LP!Follows(f, g, a, N)
  <2> HIDE DEF N, g
  <2> QED BY <1>2, <1>3, ListsAssumed, LP!Recursion
<1>5. f[0] = a /\ \A k \in 1 .. N : f[k] = g[f[k - 1]]
  BY <1>4 DEF LP!Follows
<1>6. \A k \in 1 .. N : f[k] = IF f[k - 1] = NULL_PARENT THEN NULL_PARENT ELSE Parent(f[k - 1])
  <2> TAKE k \in 1 .. N
  <2>1. k - 1 \in 0 .. N
    BY <1>2
  <2>2. f[k - 1] \in Everyone
    BY <1>4, <2>1
  <2> QED BY <1>5, <2>2
<1>7. f = U(f)
  <2>1. \A k \in 0 .. N :
          f[k] = IF k = 0 THEN a
                 ELSE LET b == f[k - 1] IN IF b = NULL_PARENT THEN b ELSE Parent(b)
    <3>1. \A k \in 0 .. N : k = 0 \/ k \in 1 .. N
      BY <1>2
    <3> HIDE DEF N
    <3> QED BY <1>5, <1>6, <3>1
  <2> HIDE DEF N
  <2> QED BY <1>4, <2>1
<1>8. up = U(up)
  <2> HIDE DEF U
  <2> QED BY <1>7
<1>9. Climbs(up, a)
  <2> DEFINE T == {k \in Nat : k <= N => up[k] = f[k]}
  <2>1. \A k \in 0 .. N :
          up[k] = IF k = 0 THEN a
                  ELSE LET b == up[k - 1] IN IF b = NULL_PARENT THEN b ELSE Parent(b)
    <3> HIDE DEF N, up
    <3> QED BY <1>8
  <2> HIDE DEF up
  <2>2. 0 \in T
    BY <1>2, <1>5, <2>1
  <2>3. ASSUME NEW k \in Nat, k \in T PROVE k + 1 \in T
    <3> SUFFICES ASSUME k + 1 <= N PROVE up[k + 1] = f[k + 1]
      OBVIOUS
    <3>1. k <= N /\ k + 1 \in 0 .. N /\ k + 1 \in 1 .. N /\ (k + 1) - 1 = k /\ k + 1 # 0
      BY <1>2
    <3>2. up[k] = f[k]
      BY <2>3, <3>1
    <3> HIDE DEF N
    <3> QED BY <1>6, <2>1, <3>1, <3>2
  <2>4. T = Nat
    <3>1. T \in SUBSET Nat
      OBVIOUS
    <3> HIDE DEF T
    <3> QED BY <2>2, <2>3, <3>1, Inductive
  <2>5. \A k \in 0 .. N : up[k] = f[k]
    BY <1>2, <2>4
  <2>6. up = f
    <3>1. up = [k \in 0 .. N |-> up[k]]
      BY <1>8 DEF U
    <3> HIDE DEF N
    <3> QED BY <1>4, <2>5, <3>1
  <2>7. Climbs(f, a)
    BY <1>4, <1>5, <1>6 DEF Climbs, N
  <2> QED BY <2>6, <2>7
<1>10. PICK t \in 0 .. N : up[t] = root
                           /\ \A k \in 0 .. t - 1 : up[k] \in Below(root) /\ a \in Under(up[k])
  <2> HIDE DEF up
  <2> QED BY <1>9, ClimbsTo
<1>11. top = t
  <2> DEFINE R == {k \in DOMAIN up : up[k] = root}
  <2>1. DOMAIN up = 0 .. N
    <3> HIDE DEF up
    <3> QED BY <1>9 DEF Climbs
  <2> HIDE DEF up
  <2>2. R \in SUBSET Nat /\ t \in R
    BY <1>2, <1>10, <2>1
  <2>3. \A k \in R : k >= t
    <3> TAKE k \in R
    <3>1. k \in Nat /\ up[k] = root /\ t \in Nat
      BY <1>2, <2>1
    <3>2. root \notin Below(root)
      BY DEF Below
    <3>3. k \notin 0 .. t - 1
      BY <1>10, <3>1, <3>2
    <3> QED BY <3>1, <3>3
  <2> HIDE DEF R
  <2>4. Min(R) \in R /\ \A k \in R : Min(R) <= k
    <3>1. \E m \in R : \A k \in R : m <= k
      BY <2>2, LeastNumber
    <3> QED BY <3>1 DEF Min
  <2>5. Min(R) = t
    <3>1. Min(R) \in Nat /\ t \in Nat
      BY <2>2, <2>4
    <3>2. Min(R) <= t /\ Min(R) >= t
      BY <2>2, <2>3, <2>4
    <3> DEFINE m == Min(R)
    <3> HIDE DEF m
    <3>3. m \in Nat /\ t \in Nat /\ m <= t /\ m >= t
      BY <3>1, <3>2 DEF m
    <3>4. m = t
      BY <3>3
    <3> QED BY <3>4 DEF m
  <2> QED BY <2>5 DEF R
<1> HIDE DEF up, top, N
<1> WITNESS up
<1>12. t \in 0 .. Cardinality(TalAddrs)
  BY DEF N
<1> WITNESS t \in 0 .. Cardinality(TalAddrs)
<1> QED BY <1>1, <1>9, <1>10, <1>11

-----------------------------------------------------------------------------
\* d is the last that a traversal gives of what is under z.
OnEnd(z, d) ==
  /\ d \in Under(z) /\ first_child(d) = NULL_PARENT
  /\ \A a \in Below(z) : d \in Under(a) => ptrs.next[a] = blocks[a].parent_child

\* After it comes z's next sibling, or nothing when z is root.
LEMMA AfterEnd ==
  ASSUME AtRest, NEW root \in Everyone, NEW z \in Under(root), NEW d, OnEnd(z, d)
  PROVE  /\ d \in Under(root)
         /\ z = root => tal_next(root, d) = NULL_PARENT
         /\ z # root /\ ptrs.next[z] # blocks[z].parent_child
              => tal_next(root, d) = ptrs.next[z]
<1> DEFINE N == Cardinality(TalAddrs)
           turns(u, t) == {k \in 0 .. t - 1 : ptrs.next[u[k]] # blocks[u[k]].parent_child}
<1>1. z \in Everyone /\ d \in Under(root) /\ d \in Under(z) /\ N \in Nat
  BY UnderAtRest, UnderTrans, ListsAssumed, FS_CardinalityType DEF OnEnd
<1>2. PICK u : \E t \in 0 .. N :
        /\ Climbs(u, d) /\ u[t] = root
        /\ \A k \in 0 .. t - 1 : u[k] \in Below(root) /\ d \in Under(u[k])
        /\ tal_next(root, d) = IF first_child(d) # NULL_PARENT THEN first_child(d)
                               ELSE IF turns(u, t) = {} THEN NULL_PARENT
                               ELSE ptrs.next[u[Min(turns(u, t))]]
  BY <1>1, TalNextIs
<1>3. PICK t \in 0 .. N :
        /\ Climbs(u, d) /\ u[t] = root
        /\ \A k \in 0 .. t - 1 : u[k] \in Below(root) /\ d \in Under(u[k])
        /\ tal_next(root, d) = IF turns(u, t) = {} THEN NULL_PARENT
                               ELSE ptrs.next[u[Min(turns(u, t))]]
  BY <1>2 DEF OnEnd
<1>4. PICK s \in 0 .. N : /\ u[s] = z
                          /\ \A k \in 0 .. s - 1 : u[k] \in Below(z) /\ d \in Under(u[k])
  BY <1>1, <1>3, ClimbsTo
<1>5. \A k \in 0 .. s - 1 : ptrs.next[u[k]] = blocks[u[k]].parent_child
  BY <1>4 DEF OnEnd
<1> HIDE DEF N
<1>6. s \in Nat /\ t \in Nat
  BY <1>1
<1>7. ASSUME z = root PROVE tal_next(root, d) = NULL_PARENT
  <2>1. root \notin Below(root) /\ \A k \in 0 .. s - 1 : u[k] # root
    BY <1>4, <1>7 DEF Below
  <2>2. t \notin 0 .. s - 1
    BY <1>3, <2>1
  <2>3. s \notin 0 .. t - 1
    BY <1>3, <1>4, <1>7, <2>1
  <2>4. s = t
    BY <1>6, <2>2, <2>3
  <2>5. turns(u, t) = {}
    BY <1>5, <2>4
  <2> QED BY <1>3, <2>5
<1>8. ASSUME z # root, ptrs.next[z] # blocks[z].parent_child
      PROVE  tal_next(root, d) = ptrs.next[z]
  <2>1. z \in Below(root)
    BY <1>8 DEF Below
  <2>2. root \notin Under(z)
    BY <2>1, NotAbove
  <2>3. \A k \in 0 .. s - 1 : u[k] # root
    BY <1>4, <2>2 DEF Below
  <2>4. t \notin 0 .. s - 1 /\ t # s
    BY <1>3, <1>4, <1>8, <2>3
  <2>5. s \in 0 .. t - 1
    BY <1>6, <2>4
  <2> DEFINE R == turns(u, t)
  <2>6. s \in R
    BY <1>4, <1>8, <2>5
  <2>7. \A k \in R : k \in Nat /\ k \notin 0 .. s - 1
    BY <1>5, <1>6
  <2>8. tal_next(root, d) = ptrs.next[u[Min(R)]]
    BY <1>3, <2>6
  <2> HIDE DEF R
  <2>9. R \in SUBSET Nat /\ \A k \in R : k >= s
    BY <1>6, <2>7
  <2>10. Min(R) \in R /\ \A k \in R : Min(R) <= k
    <3>1. \E m \in R : \A k \in R : m <= k
      BY <2>6, <2>9, LeastNumber
    <3> QED BY <3>1 DEF Min
  <2>11. Min(R) \in Nat /\ Min(R) <= s /\ Min(R) >= s
    BY <2>6, <2>9, <2>10
  <2> DEFINE m == Min(R)
  <2> HIDE DEF m
  <2>12. m \in Nat /\ m <= s /\ m >= s
    BY <2>11 DEF m
  <2>13. m = s
    BY <1>6, <2>12
  <2> QED BY <1>4, <2>8, <2>13 DEF m
<1> QED BY <1>1, <1>7, <1>8

\* A traversal goes to the first child, if there is one.
LEMMA FirstIsNext ==
  ASSUME NEW root, NEW a, first_child(a) # NULL_PARENT
  PROVE  tal_next(root, a) = first_child(a)
BY Zenon DEF tal_next

\* It stays below root.
LEMMA NextBelow ==
  ASSUME AtRest, NEW root \in Everyone, NEW a \in Under(root)
  PROVE  tal_next(root, a) \in Below(root) \cup {NULL_PARENT}
<1> DEFINE N == Cardinality(TalAddrs)
           turns(u, t) == {k \in 0 .. t - 1 : ptrs.next[u[k]] # blocks[u[k]].parent_child}
<1>1. PICK u : \E t \in 0 .. N :
        /\ Climbs(u, a) /\ u[t] = root
        /\ \A k \in 0 .. t - 1 : u[k] \in Below(root) /\ a \in Under(u[k])
        /\ tal_next(root, a) = IF first_child(a) # NULL_PARENT THEN first_child(a)
                               ELSE IF turns(u, t) = {} THEN NULL_PARENT
                               ELSE ptrs.next[u[Min(turns(u, t))]]
  BY TalNextIs
<1>2. PICK t \in 0 .. N :
        /\ \A k \in 0 .. t - 1 : u[k] \in Below(root)
        /\ tal_next(root, a) = IF first_child(a) # NULL_PARENT THEN first_child(a)
                               ELSE IF turns(u, t) = {} THEN NULL_PARENT
                               ELSE ptrs.next[u[Min(turns(u, t))]]
  BY <1>1
<1>3. \A z \in Under(root) : z \in Everyone /\ Kids(z) \subseteq Below(root)
  <2> TAKE z \in Under(root)
  <2>1. z \in Everyone
    BY UnderAtRest
  <2>2. Under(z) \subseteq Under(root)
    BY UnderTrans
  <2>3. z = root \/ root \notin Under(z)
    BY NotAbove DEF Below
  <2>4. \A c \in Kids(z) : c \in Under(z) /\ c # z
    BY <2>1, KidBelow DEF Below
  <2> QED BY <2>1, <2>2, <2>3, <2>4 DEF Below
<1>4. CASE first_child(a) # NULL_PARENT
  BY <1>2, <1>3, <1>4, KidsAre
<1>5. ASSUME NEW k \in turns(u, t) PROVE ptrs.next[u[k]] \in Below(root)
  <2>1. u[k] \in Below(root) /\ ptrs.next[u[k]] # blocks[u[k]].parent_child
    BY <1>2
  <2> DEFINE b == u[k]
  <2>2. b \in Linked /\ Parent(b) \in Under(root)
    BY <2>1, UnderAtRest DEF Below
  <2>3. b \in Kids(Parent(b)) /\ Parent(b) \in Everyone
    BY <2>2, UnderAtRest DEF Kids
  <2> HIDE DEF b
  <2>4. ptrs.next[b] \in Kids(Parent(b)) \cup {blocks[b].parent_child}
    BY <2>3, KidsAre
  <2> QED BY <1>3, <2>1, <2>2, <2>4 DEF b
<1>6. turns(u, t) # {} => Min(turns(u, t)) \in turns(u, t)
  <2> DEFINE R == turns(u, t)
  <2>1. R \in SUBSET Nat
    OBVIOUS
  <2> HIDE DEF R
  <2>2. R # {} => Min(R) \in R
    BY <2>1, MinIs
  <2> QED BY <2>2 DEF R
<1> QED BY <1>2, <1>4, <1>5, <1>6

\* What begins with root's first child and goes on with tal_next misses nothing.
LEMMA Covers ==
  ASSUME AtRest, NEW root \in Everyone, NEW C \in SUBSET Below(root),
         first_child(root) \in C \cup {NULL_PARENT},
         \A a \in C : tal_next(root, a) \in C \cup {NULL_PARENT}
  PROVE  C = Below(root) /\ (C # {} => \E d \in C : tal_next(root, d) = NULL_PARENT)
<1> DEFINE Done(z) == Below(z) \subseteq C /\ \E d \in C \cup {root} : OnEnd(z, d)
           D == C \cup {root}
<1>1. \A z \in D : z \in Under(root) /\ z \in Everyone
  BY UnderAtRest DEF Below
<1>2. \A z \in D : first_child(z) \in C \cup {NULL_PARENT}
  BY FirstIsNext
<1>3. ASSUME NEW z \in D, \A c \in Kids(z) \cap C : Done(c) PROVE Done(z)
  <2>1. z \in Everyone /\ first_child(z) \in C \cup {NULL_PARENT}
    BY <1>1, <1>2
  <2> DEFINE T == Kids(z) \cap C
  <2>2. T \in SUBSET Kids(z) /\ first_child(z) \in T \cup {NULL_PARENT}
    BY <2>1, KidsAre
  <2>3. ASSUME NEW c \in T PROVE ptrs.next[c] \in T \cup {blocks[c].parent_child}
    <3> SUFFICES ASSUME ptrs.next[c] # blocks[c].parent_child PROVE ptrs.next[c] \in T
      OBVIOUS
    <3>1. PICK d \in C \cup {root} : OnEnd(c, d)
      BY <1>3
    <3>2. c \in Under(root) /\ c # root
      BY DEF Below
    <3>3. tal_next(root, d) = ptrs.next[c] /\ d \in Under(root)
      BY <3>1, <3>2, AfterEnd
    <3>4. d # root
      <4> SUFFICES ASSUME d = root PROVE FALSE
        OBVIOUS
      <4>1. root \in Under(c)
        BY <3>1 DEF OnEnd
      <4>2. c \in Below(root)
        OBVIOUS
      <4> QED BY <4>1, <4>2, NotAbove
    <3>5. ptrs.next[c] \in C \cup {NULL_PARENT}
      BY <3>1, <3>3, <3>4
    <3>6. ptrs.next[c] \in Kids(z)
      BY <2>1, KidsAre
    <3>7. ptrs.next[c] # NULL_PARENT
      BY <3>6, SameSets, ListsAssumed DEF Kids
    <3> QED BY <3>5, <3>6, <3>7
  <2>4. T = Kids(z)
    <3> HIDE DEF T
    <3> QED BY <2>1, <2>2, <2>3, KidsAre
  <2>5. Kids(z) \subseteq C /\ \A c \in Kids(z) : Done(c)
    BY <1>3, <2>4
  <2>6. Below(z) \subseteq C
    <3> SUFFICES ASSUME NEW x \in Below(z) PROVE x \in C
      OBVIOUS
    <3>1. PICK c \in Kids(z) : x \in Under(c)
      BY <2>1, BelowKid
    <3>2. x = c \/ x \in Below(c)
      BY <3>1 DEF Below
    <3> QED BY <2>5, <3>2
  <2>7. CASE Kids(z) = {}
    <3>1. first_child(z) = NULL_PARENT /\ z \in Under(z)
      BY <2>1, <2>7, KidsAre, UnderAtRest
    <3>2. Below(z) = {}
      BY <2>1, <2>7, BelowKid
    <3>3. OnEnd(z, z)
      BY <3>1, <3>2 DEF OnEnd
    <3> QED BY <2>6, <3>3
  <2>8. CASE Kids(z) # {}
    <3>1. PICK c \in Kids(z) : ptrs.next[c] = blocks[c].parent_child
      BY <2>1, <2>8, KidsAre
    <3>2. PICK d \in C \cup {root} : OnEnd(c, d)
      BY <2>5
    <3>3. c \in Under(z) /\ c \in Everyone /\ Under(c) \subseteq Below(z)
      BY <2>1, KidBelow, UnderAtRest DEF Below
    <3>4. d \in Under(c) /\ first_child(d) = NULL_PARENT /\ d \in Below(z)
      BY <3>2, <3>3 DEF OnEnd
    <3>5. ASSUME NEW a \in Below(z), d \in Under(a) PROVE ptrs.next[a] = blocks[a].parent_child
      <4>1. PICK e \in Kids(z) : a \in Under(e)
        BY <2>1, BelowKid
      <4>2. a \in Everyone /\ e \in Everyone /\ d \in Under(e)
        <5>1. e \in Everyone
          BY <2>1, KidBelow, UnderAtRest DEF Below
        <5> QED BY <2>1, <3>5, <4>1, <5>1, UnderTrans, UnderAtRest DEF Below
      <4>3. e = c
        BY <2>1, <3>1, <3>4, <4>1, <4>2, OneKid
      <4>4. CASE a = c
        BY <3>1, <4>4
      <4>5. CASE a # c
        <5>1. a \in Below(c)
          BY <4>1, <4>3, <4>5 DEF Below
        <5> QED BY <3>2, <3>5, <5>1 DEF OnEnd
      <4> QED BY <4>4, <4>5
    <3>6. OnEnd(z, d)
      BY <3>4, <3>5 DEF OnEnd, Below
    <3> QED BY <2>6, <3>2, <3>6
  <2> QED BY <2>7, <2>8
<1>4. \A z \in D : Done(z)
  <2> DEFINE Bad == {z \in D : ~Done(z)}
             Size(z) == Cardinality(Under(z))
             Sizes == {Size(z) : z \in Bad}
  <2> SUFFICES ASSUME Bad # {} PROVE FALSE
    OBVIOUS
  <2>1. \A z \in D : IsFiniteSet(Under(z)) /\ Size(z) \in Nat
    <3> TAKE z \in D
    <3>1. IsFiniteSet(Everyone) /\ Under(z) \in SUBSET Everyone
      <4>1. IsFiniteSet(Alive)
        BY SameSets, ListsAssumed, FS_Subset
      <4>2. IsFiniteSet(Everyone)
        BY <4>1, FS_AddElement DEF Everyone
      <4> QED BY <1>1, <4>2, UnderAtRest
    <3> QED BY <3>1, FS_Subset, FS_CardinalityType
  <2>2. PICK m \in Sizes : \A n \in Sizes : m <= n
    <3>1. Sizes \in SUBSET Nat /\ Sizes # {}
      <4> HIDE DEF Done, D, Size
      <4> QED BY <2>1
    <3> HIDE DEF Sizes
    <3> QED BY <3>1, LeastNumber
  <2>3. PICK z \in Bad : Size(z) = m
    <3> HIDE DEF Bad, Size
    <3> QED BY <2>2
  <2>4. ASSUME NEW c \in Kids(z) \cap C PROVE Done(c)
    <3> SUFFICES ASSUME ~Done(c) PROVE FALSE
      OBVIOUS
    <3>1. z \in D /\ c \in D /\ c \in Bad
      OBVIOUS
    <3>2. z \in Everyone /\ Under(c) \subseteq Under(z) /\ z \in Under(z) /\ z \notin Under(c)
      BY <1>1, <3>1, KidBelow, UnderAtRest DEF Below
    <3>3. Size(c) <= Size(z) /\ (Size(c) = Size(z) => Under(c) = Under(z))
      <4> HIDE DEF D
      <4> QED BY <2>1, <3>1, <3>2, FS_Subset
    <3>4. Size(z) <= Size(c)
      <4> HIDE DEF Bad, Size
      <4> QED BY <2>2, <2>3, <3>1
    <3>5. Size(z) \in Nat /\ Size(c) \in Nat
      <4> HIDE DEF D
      <4> QED BY <2>1, <3>1
    <3> HIDE DEF Size
    <3> QED BY <3>2, <3>3, <3>4, <3>5
  <2> HIDE DEF Done
  <2> QED BY <1>3, <2>4
<1>5. Done(root)
  BY <1>4
<1>6. ASSUME C # {} PROVE \E d \in C : tal_next(root, d) = NULL_PARENT
  <2>1. PICK d \in C \cup {root} : OnEnd(root, d)
    BY <1>5
  <2>2. root \in Under(root)
    BY UnderAtRest
  <2>3. tal_next(root, d) = NULL_PARENT
    BY <2>1, <2>2, AfterEnd
  <2>4. d # root
    <3> SUFFICES ASSUME d = root PROVE FALSE
      OBVIOUS
    <3>1. Kids(root) = {}
      BY <2>1, KidsAre DEF OnEnd
    <3> QED BY <1>6, <3>1, BelowKid
  <2> QED BY <2>1, <2>3, <2>4
<1> QED BY <1>5, <1>6

-----------------------------------------------------------------------------
\* Following g through a set of n that no part of is all that g leads to, before
\* it leads out: n steps give each one once, and then nothing.
LEMMA FollowsAll ==
  ASSUME NEW B, IsFiniteSet(B), NEW none, none \notin B,
         NEW g \in [B \cup {none} -> B \cup {none}], g[none] = none,
         NEW first \in B \cup {none}, NEW f, LP!Follows(f, g, first, Cardinality(B)),
         \A C \in SUBSET B :
           first \in C \cup {none} /\ (\A x \in C : g[x] \in C \cup {none})
             => C = B /\ (C # {} => \E d \in C : g[d] = none)
  PROVE  /\ f[Cardinality(B)] = none /\ \A k \in 0 .. Cardinality(B) - 1 : f[k] \in B
         /\ {f[k] : k \in 0 .. Cardinality(B) - 1} = B
<1> DEFINE n == Cardinality(B)
           To(m) == {f[k] : k \in 0 .. m - 1}
<1>1. n \in Nat /\ f[0] = first /\ \A k \in 1 .. n : f[k] = g[f[k - 1]]
  BY FS_CardinalityType DEF LP!Follows
<1> HIDE DEF n
<1>2. \A k \in 0 .. n : f[k] \in B \cup {none}
  <2> DEFINE T == {k \in Nat : k <= n => f[k] \in B \cup {none}}
  <2>1. 0 \in T
    BY <1>1
  <2>2. ASSUME NEW k \in Nat, k \in T PROVE k + 1 \in T
    <3> SUFFICES ASSUME k + 1 <= n PROVE f[k + 1] \in B \cup {none}
      OBVIOUS
    <3>1. k <= n /\ k + 1 \in 1 .. n /\ (k + 1) - 1 = k
      BY <1>1
    <3>2. f[k] \in B \cup {none} /\ f[k + 1] = g[f[k]]
      BY <1>1, <2>2, <3>1
    <3> QED BY <3>2
  <2>3. T \in SUBSET Nat
    OBVIOUS
  <2>4. T = Nat
    <3> HIDE DEF T
    <3> QED BY <2>1, <2>2, <2>3, Inductive
  <2> QED BY <1>1, <2>4
<1>3. ASSUME NEW m \in 0 .. n, \A k \in 0 .. m - 1 : f[k] \in B, f[m] \in To(m) \cup {none}
      PROVE  To(m) = B /\ (To(m) # {} => \E k \in 0 .. m - 1 : g[f[k]] = none)
  <2>1. first \in To(m) \cup {none}
    <3>1. CASE m = 0
      BY <1>1, <1>3, <3>1
    <3>2. CASE m # 0
      <4>1. 0 \in 0 .. m - 1
        BY <1>1, <3>2
      <4> QED BY <1>1, <4>1
    <3> QED BY <3>1, <3>2
  <2>2. ASSUME NEW k \in 0 .. m - 1 PROVE g[f[k]] \in To(m) \cup {none}
    <3>1. k + 1 \in 1 .. n /\ (k + 1) - 1 = k
      BY <1>1
    <3>2. f[k + 1] = g[f[k]]
      BY <1>1, <3>1
    <3>3. CASE k + 1 = m
      BY <1>3, <3>2, <3>3
    <3>4. CASE k + 1 # m
      <4>1. k + 1 \in 0 .. m - 1
        BY <1>1, <3>4
      <4> QED BY <3>2, <4>1
    <3> QED BY <3>3, <3>4
  <2>3. To(m) \in SUBSET B
    BY <1>3
  <2>4. \A x \in To(m) : g[x] \in To(m) \cup {none}
    BY <2>2
  <2>5. \A x \in To(m) : \E k \in 0 .. m - 1 : x = f[k]
    OBVIOUS
  <2> HIDE DEF To
  <2> QED BY <2>1, <2>3, <2>4, <2>5
<1>4. CASE \E k \in 0 .. n : f[k] = none
  <2> DEFINE R == {k \in 0 .. n : f[k] = none}
  <2>1. R \in SUBSET Nat /\ R # {}
    BY <1>1, <1>4
  <2>2. PICK m \in R : \A k \in R : m <= k
    <3> HIDE DEF R
    <3> QED BY <2>1, LeastNumber
  <2>3. m \in 0 .. n /\ f[m] = none /\ m \in Nat
    BY <1>1
  <2>4. ASSUME NEW k \in 0 .. m - 1 PROVE f[k] \in B
    <3>1. k \in 0 .. n /\ ~(m <= k)
      BY <1>1, <2>3
    <3> QED BY <1>2, <2>2, <3>1
  <2>5. To(m) = B
    BY <1>3, <2>3, <2>4
  <2>6. m = n
    <3> DEFINE e == [k \in 1 .. m |-> f[k - 1]]
    <3>1. \A k \in 1 .. m : k - 1 \in 0 .. m - 1
      BY <2>3
    <3>2. \A k \in 0 .. m - 1 : k + 1 \in 1 .. m /\ (k + 1) - 1 = k
      BY <2>3
    <3>3. e \in [1 .. m -> B]
      BY <2>4, <3>1
    <3>4. \A x \in B : \E k \in 1 .. m : e[k] = x
      BY <2>5, <3>2
    <3> HIDE DEF e
    <3>5. e \in Surjection(1 .. m, B)
      BY <3>3, <3>4 DEF Surjection
    <3>6. n <= m
      BY <2>3, <3>5, FS_SurjCardinalityBound DEF ExistsSurjection, n
    <3> QED BY <1>1, <2>3, <3>6
  <2> QED BY <2>3, <2>4, <2>5, <2>6 DEF n
<1>5. CASE ~\E k \in 0 .. n : f[k] = none
  <2>1. \A k \in 0 .. n : f[k] \in B
    BY <1>2, <1>5
  <2> DEFINE e == [k \in 0 .. n |-> f[k]]
  <2>2. e \in [0 .. n -> B]
    BY <2>1
  <2>3. IsFiniteSet(0 .. n) /\ Cardinality(B) < Cardinality(0 .. n)
    <3>1. 0 \in Int /\ n \in Int
      BY <1>1
    <3>2. IsFiniteSet(0 .. n) /\ Cardinality(0 .. n) = IF 0 > n THEN 0 ELSE n - 0 + 1
      BY <3>1, FS_Interval
    <3> QED BY <1>1, <3>2 DEF n
  <2>4. PICK x, y \in 0 .. n : x # y /\ e[x] = e[y]
    <3> DEFINE I == 0 .. n
    <3>1. IsFiniteSet(I) /\ IsFiniteSet(B) /\ Cardinality(B) < Cardinality(I) /\ e \in [I -> B]
      BY <2>2, <2>3
    <3> HIDE DEF e, I
    <3>2. \E x, y \in I : x # y /\ e[x] = e[y]
      BY <3>1, FS_PigeonHole
    <3> QED BY <3>2 DEF I
  <2>5. PICK i, j \in 0 .. n : i < j /\ f[i] = f[j]
    BY <1>1, <2>4
  <2>6. i \in 0 .. j - 1 /\ \A k \in 0 .. j - 1 : k \in 0 .. n /\ k + 1 \in 1 .. n /\ (k + 1) - 1 = k
    BY <1>1, <2>5
  <2>7. f[j] \in To(j) /\ To(j) # {}
    BY <2>5, <2>6
  <2>8. \E k \in 0 .. j - 1 : g[f[k]] = none
    BY <1>3, <2>1, <2>6, <2>7
  <2>9. PICK k \in 0 .. j - 1 : g[f[k]] = none
    BY <2>8
  <2>10. f[k + 1] = none /\ k + 1 \in 0 .. n
    BY <1>1, <2>6, <2>9
  <2> QED BY <1>5, <2>10
<1> QED BY <1>4, <1>5

\* What tal_first and tal_next give, for blocks at rest.
LEMMA TraversalIs == ASSUME AtRest, stack = <<>> PROVE TraversalSeesAll
<1> SUFFICES ASSUME NEW p \in Everyone
             PROVE  LET below == Under(p) \ {p}
                        n == Cardinality(below)
                        at[k \in 1 .. n + 1] ==
                          IF k = 1 THEN first_child(p) ELSE tal_next(p, at[k - 1])
                    IN {at[k] : k \in 1 .. n} = below /\ at[n + 1] = NULL_PARENT
  BY DEF TraversalSeesAll, Everyone
<1> DEFINE B == Under(p) \ {p}
           n == Cardinality(B)
           U(h) == [k \in 1 .. n + 1 |-> IF k = 1 THEN first_child(p) ELSE tal_next(p, h[k - 1])]
           at == CHOOSE h : h = U(h)
           none == NULL_PARENT
           g == [x \in B \cup {none} |-> IF x = none THEN none ELSE tal_next(p, x)]
<1>1. B = Below(p) /\ IsFiniteSet(B) /\ none \notin B /\ n \in Nat
  <2>1. B = Below(p) /\ B \in SUBSET Linked
    BY UnderAtRest DEF Below
  <2> HIDE DEF B
  <2>2. B \in SUBSET TalAddrs
    BY <2>1, SameSets
  <2>3. IsFiniteSet(B)
    BY <2>2, ListsAssumed, FS_Subset
  <2> QED BY <2>1, <2>2, <2>3, ListsAssumed, FS_CardinalityType
<1> HIDE DEF B
<1>2. first_child(p) \in B \cup {none}
  <2>1. Kids(p) \subseteq Below(p)
    BY KidBelow
  <2> QED BY <1>1, <2>1, KidsAre
<1>3. \A x \in B : tal_next(p, x) \in B \cup {none}
  BY <1>1, NextBelow DEF Below
<1>4. g \in [B \cup {none} -> B \cup {none}] /\ g[none] = none
      /\ \A x \in B : g[x] = tal_next(p, x)
  BY <1>1, <1>3
<1>5. ASSUME NEW C \in SUBSET B, first_child(p) \in C \cup {none}, \A x \in C : g[x] \in C \cup {none}
      PROVE  C = B /\ (C # {} => \E d \in C : g[d] = none)
  <2>1. \A x \in C : g[x] = tal_next(p, x)
    BY <1>4
  <2> HIDE DEF g
  <2>2. C \in SUBSET Below(p) /\ \A x \in C : tal_next(p, x) \in C \cup {NULL_PARENT}
    BY <1>1, <1>5, <2>1
  <2>3. C = Below(p) /\ (C # {} => \E d \in C : tal_next(p, d) = NULL_PARENT)
    BY <1>5, <2>2, Covers
  <2> QED BY <1>1, <2>1, <2>3
<1> HIDE DEF g, n
<1>6. PICK f \in [0 .. n -> B \cup {none}] : LP!Follows(f, g, first_child(p), n)
  BY <1>1, <1>2, <1>4, ListsAssumed, LP!Recursion
<1>7. f[n] = none /\ (\A k \in 0 .. n - 1 : f[k] \in B) /\ {f[k] : k \in 0 .. n - 1} = B
  BY <1>1, <1>2, <1>4, <1>5, <1>6, FollowsAll DEF n
<1>8. f[0] = first_child(p) /\ \A k \in 1 .. n : f[k] = g[f[k - 1]]
  BY <1>6 DEF LP!Follows
<1>9. \A k \in 1 .. n : f[k] = tal_next(p, f[k - 1])
  <2> TAKE k \in 1 .. n
  <2>1. k - 1 \in 0 .. n - 1
    BY <1>1
  <2> QED BY <1>4, <1>7, <1>8, <2>1
<1> DEFINE h == [k \in 1 .. n + 1 |-> f[k - 1]]
<1>10. h = U(h)
  <2>1. ASSUME NEW k \in 1 .. n + 1
        PROVE  h[k] = IF k = 1 THEN first_child(p) ELSE tal_next(p, h[k - 1])
    <3>1. CASE k = 1
      BY <1>8, <3>1
    <3>2. CASE k # 1
      <4>1. k - 1 \in 1 .. n /\ k - 1 \in 1 .. n + 1
        BY <1>1, <3>2
      <4>2. h[k] = f[k - 1] /\ h[k - 1] = f[(k - 1) - 1]
        BY <4>1
      <4>3. f[k - 1] = tal_next(p, f[(k - 1) - 1])
        BY <1>9, <4>1
      <4> QED BY <3>2, <4>2, <4>3
    <3> QED BY <3>1, <3>2
  <2> DEFINE r(k) == IF k = 1 THEN first_child(p) ELSE tal_next(p, h[k - 1])
  <2>2. \A k \in 1 .. n + 1 : h[k] = r(k)
    BY <2>1
  <2>3. h = [k \in 1 .. n + 1 |-> h[k]]
    OBVIOUS
  <2> HIDE DEF h, r
  <2>4. h = [k \in 1 .. n + 1 |-> r(k)]
    BY <2>2, <2>3
  <2> QED BY <2>4 DEF r
<1>11. at = U(at)
  <2> HIDE DEF U, h
  <2> QED BY <1>10
<1> HIDE DEF at
<1>12. \A k \in 1 .. n + 1 :
         at[k] = IF k = 1 THEN first_child(p) ELSE tal_next(p, at[k - 1])
  BY <1>11
<1>13. \A k \in 0 .. n : at[k + 1] = f[k]
  <2> DEFINE T == {k \in Nat : k <= n => at[k + 1] = f[k]}
  <2>1. 0 \in T
    <3>1. 1 \in 1 .. n + 1 /\ 0 + 1 = 1
      BY <1>1
    <3>2. at[1] = first_child(p)
      BY <1>12, <3>1
    <3>3. at[0 + 1] = f[0]
      BY <1>8, <3>1, <3>2
    <3> QED BY <3>3
  <2>2. ASSUME NEW k \in Nat, k \in T PROVE k + 1 \in T
    <3> SUFFICES ASSUME k + 1 <= n PROVE at[(k + 1) + 1] = f[k + 1]
      OBVIOUS
    <3>1. /\ k <= n /\ k + 1 \in 1 .. n /\ (k + 1) - 1 = k /\ (k + 1) + 1 \in 1 .. n + 1
          /\ (k + 1) + 1 # 1 /\ ((k + 1) + 1) - 1 = k + 1
      BY <1>1
    <3>2. at[k + 1] = f[k]
      BY <2>2, <3>1
    <3>3. at[(k + 1) + 1] = tal_next(p, at[k + 1])
      BY <1>12, <3>1
    <3> QED BY <1>9, <3>1, <3>2, <3>3
  <2>3. T \in SUBSET Nat
    OBVIOUS
  <2>4. T = Nat
    <3> HIDE DEF T
    <3> QED BY <2>1, <2>2, <2>3, Inductive
  <2> QED BY <1>1, <2>4
<1>14. {at[k] : k \in 1 .. n} = B
  <2>1. \A k \in 1 .. n : k - 1 \in 0 .. n - 1 /\ k - 1 \in 0 .. n /\ (k - 1) + 1 = k
    BY <1>1
  <2>2. \A k \in 0 .. n - 1 : k + 1 \in 1 .. n /\ k \in 0 .. n
    BY <1>1
  <2>3. \A k \in 1 .. n : at[k] = f[k - 1]
    BY <1>13, <2>1
  <2>4. {at[k] : k \in 1 .. n} \subseteq {f[k] : k \in 0 .. n - 1}
    BY <2>1, <2>3
  <2>5. {f[k] : k \in 0 .. n - 1} \subseteq {at[k] : k \in 1 .. n}
    BY <1>13, <2>2
  <2> QED BY <1>7, <2>4, <2>5
<1>15. at[n + 1] = NULL_PARENT
  BY <1>1, <1>7, <1>13
<1> QED BY <1>14, <1>15 DEF at, n, B

\* Whatever was allocated, moved, stolen and freed, tal_first and tal_next give
\* each block below any other, once, and then end (first_child, tal_next).
THEOREM TraversalsSeeAll == TalSpec => []TraversalSeesAll
<1>1. TalInv => TraversalSeesAll
  <2> SUFFICES ASSUME TalInv PROVE TraversalSeesAll
    OBVIOUS
  <2>1. CASE stack # <<>>
    BY <2>1 DEF TraversalSeesAll
  <2>2. CASE stack = <<>>
    <3>1. Forest(blocks, groups, ptrs) /\ Calls(blocks, stack)
      BY DEF TalInv
    <3>2. Alive \ Linked = {}
      BY <2>2, <3>1, SameSets DEF Calls
    <3>3. AtRest
      BY <3>1, <3>2, SameSets DEF AtRest
    <3> QED BY <2>2, <3>3, TraversalIs
  <2> QED BY <2>1, <2>2
<1> QED BY <1>1, AlwaysTalInv, PTL
=============================================================================
