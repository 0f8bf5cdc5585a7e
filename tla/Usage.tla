------------------------------- MODULE Usage -------------------------------
(***************************************************************************)
(* ccan/opt/usage.c: an option's entry in the help.  Its names, its        *)
(* description broken into lines by consume_words, and its default are     *)
(* added one string after the other to a buffer that grows.                *)
(*                                                                         *)
(* A character is "x" for what is to be seen, a space or an end of line.   *)
(***************************************************************************)
EXTENDS Integers, FiniteSetsExt, SequencesExt

CONSTANTS
  MaxDesc,    \* bound: the length of a description
  NameLens,   \* the lengths of the names
  Indents, DescWidth   \* where descriptions may begin, and the room they have

ASSUME UsageAssumption ==
  /\ MaxDesc \in Nat /\ NameLens \subseteq Nat /\ Indents \subseteq Nat
  /\ DescWidth \in Nat \ {0}

VARIABLES
  entry,     \* the option: [names, desc, show, indent]
  place,     \* where add_desc is
  p,         \* how many characters of the description are used
  start,     \* whether a line of the description starts at p
  same_line, \* whether nothing of the description was added yet
  printed,   \* the lines of the description that were added
  at,       \* the length of the last line
  out        \* the buffer: [len, max]

uvars == <<entry, place, p, start, same_line, printed, at, out>>

Space == {" ", "\n"}
CharSet == Space \cup {"x"}

\* strcspn and strspn of s from i on: how many characters are not, or are, in S.
strcspn(s, i, S) ==
  LET ends == {k \in i + 1 .. Len(s) : s[k] \in S}
  IN IF ends = {} THEN Len(s) - i ELSE Min(ends) - i - 1
strspn(s, i, S) == strcspn(s, i, CharSet \ S)

\* The loop of consume_words, once: the words that end at len are joined by one
\* more, unless there is none or a line ends.
FillLine(w, len) ==
  LET blank == len + strspn(w, len, {" "})
      more == blank + strcspn(w, blank, Space)
  IN IF more = len \/ (blank < Len(w) /\ w[blank + 1] = "\n") THEN <<>> ELSE <<more>>

consume_words(words, maxlen, fresh) ==
  LET prefix == strspn(words, 0, Space)
      w == SubSeq(words, prefix + 1, Len(words))
      first == strcspn(w, 0, {" "})
      fill[k \in 0 .. MaxDesc] ==
        IF k = 0 THEN first
        ELSE LET len == fill[k - 1]
                 next == FillLine(w, len)
             IN IF len > maxlen \/ next = <<>> \/ next[1] > maxlen THEN len ELSE next[1]
      oldlen == IF fresh /\ prefix > 0 THEN strcspn(w, 0, {"\n"}) ELSE fill[MaxDesc]
  IN [prefix |-> prefix, len |-> oldlen, literal |-> fresh /\ prefix > 0,
      start |-> oldlen > 0 /\ w[oldlen] = "\n"]

\* Mutant: the buffer grows only when the string is longer than its room.
Add_Tight(b, slen) ==
  [len |-> b.len + slen,
   max |-> IF slen > b.max - b.len THEN 2 * b.max + slen + 1 ELSE b.max]

\* add_str_len and add_indent.
Add(b, slen) ==
  [len |-> b.len + slen,
   max |-> IF slen >= b.max - b.len THEN 2 * b.max + slen + 1 ELSE b.max]

-----------------------------------------------------------------------------
UsageInit ==
  /\ entry = [names |-> 0, desc |-> <<>>, show |-> FALSE, indent |-> 0]
  /\ place = "idle"
  /\ p = 0 /\ start = TRUE /\ same_line = FALSE
  /\ printed = <<>> /\ at = 0
  /\ out = [len |-> 0, max |-> 0]

\* add_desc begins: the names, and where the description starts.
AddNames ==
  /\ place = "idle" /\ place' = "desc"
  /\ entry' \in [names : NameLens, desc : UNION {[1 .. k -> CharSet] : k \in 0 .. MaxDesc},
                 show : BOOLEAN, indent : Indents]
  /\ same_line' = (entry'.names + 2 <= entry'.indent)
  /\ out' = IF same_line' THEN Add(Add(out, entry'.names), entry'.indent - entry'.names)
            ELSE Add(Add(out, entry'.names), 1)
  /\ at' = IF same_line' THEN entry'.indent ELSE 0
  /\ UNCHANGED <<p, start, printed>>

Rest == SubSeq(entry.desc, p + 1, Len(entry.desc))
Words == consume_words(Rest, DescWidth, start)

AddLine ==
  /\ place = "desc" /\ Words.len # 0
  /\ printed' = Append(printed, [words |-> SubSeq(Rest, Words.prefix + 1, Words.prefix + Words.len),
                                 literal |-> Words.literal])
  /\ p' = p + Words.prefix + Words.len
  /\ out' = Add(Add(IF same_line THEN out ELSE Add(out, entry.indent), Words.len), 1)
  /\ at' = entry.indent + Words.len
  /\ start' = Words.start
  /\ same_line' = FALSE
  /\ UNCHANGED <<entry, place>>

\* Nothing left: the default goes on the last line, if it fits.
EndEntry ==
  /\ place = "desc" /\ Words.len = 0 /\ place' = "done"
  /\ LET b == IF same_line THEN Add(out, 1) ELSE out
     IN out' = IF ~entry.show THEN b
               ELSE IF at + 13 > entry.indent + DescWidth THEN Add(Add(b, entry.indent), 14)
               ELSE Add([b EXCEPT !.len = @ - 1], 14)
  /\ UNCHANGED <<entry, p, start, same_line, printed, at>>

UsageNext == AddNames \/ AddLine \/ EndEntry
UsageSpec == UsageInit /\ [][UsageNext]_uvars

-----------------------------------------------------------------------------
Seen(s) == SelectSeq(s, LAMBDA c : c \notin Space)

\* No character of a description that is to be seen is lost or shown twice, a
\* line is no longer than its room unless it is one word or given as it is, and
\* the buffer holds what was added and the NUL after it.
DescriptionIsShown ==
  /\ Seen(FlattenSeq([k \in DOMAIN printed |-> printed[k].words])) = Seen(SubSeq(entry.desc, 1, p))
  /\ place = "done" => Seen(Rest) = <<>>
  /\ \A k \in DOMAIN printed :
       LET line == printed[k].words
       IN printed[k].literal \/ Len(line) <= DescWidth \/ " " \notin ToSet(line)
  /\ place # "idle" => out.len < out.max
=============================================================================
