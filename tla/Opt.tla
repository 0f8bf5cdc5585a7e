-------------------------------- MODULE Opt --------------------------------
(***************************************************************************)
(* ccan/opt: the table of options, and the two passes over a command line  *)
(* with which a program may read it: opt_early_parse, on a copy, which     *)
(* calls back for the early options only, and opt_parse, which calls back  *)
(* for the others and takes what it understood out of argv.                *)
(*                                                                         *)
(* A pass looks for the first argument with a dash, again and again, and   *)
(* remembers in offset how far it is in one like -abc.  Arguments are kept *)
(* by their place on the command line.                                     *)
(***************************************************************************)
EXTENDS Integers, FiniteSetsExt, SequencesExt

CONSTANTS
  OptEntries,  \* what may be registered: [name, arg, early], short and long
  MaxTable,    \* bound: the options registered
  Tokens,      \* the arguments, with what follows their dashes
  MaxLine      \* bound: the length of the command line

ASSUME OptAssumption ==
  /\ \A e \in OptEntries : e.arg \in BOOLEAN /\ e.early \in BOOLEAN
  /\ MaxTable \in Nat /\ MaxLine \in Nat

VARIABLES
  opt_table,  \* the options, and headings
  cmdline,    \* what the program was given
  posixly,    \* whether POSIXLY_CORRECT is set
  pass,       \* "register", "early", "parse", or what parse_one gave: 0 or -1
  argv,       \* the places still in argv, or in its copy
  offset,     \* how far parse_one is in the letters of a short option
  calls       \* the callbacks: [opt, early, value]

ovars == <<opt_table, cmdline, posixly, pass, argv, offset, calls>>

\* Arguments: <<"word">>, <<"--">>, <<"long", name>>, <<"long=", name>> and
\* <<"short", letters>>.
Dashed(tok) == tok[1] # "word"
HEADING == [name |-> "none", arg |-> FALSE, early |-> FALSE]

\* first_lopt and next_lopt, first_sopt and next_sopt: names are tried in the
\* order of the table, headings skipped.
Find(name) == SelectInSeq(opt_table, LAMBDA e : e # HEADING /\ e.name = name)

-----------------------------------------------------------------------------
OptInit ==
  /\ opt_table = <<>> /\ cmdline = <<>> /\ posixly = FALSE /\ pass = "register"
  /\ argv = <<>> /\ offset = 0 /\ calls = <<>>

\* opt_register, and opt_register_table, which puts a heading in front.
OptRegister(es) ==
  /\ pass = "register"
  /\ Len(opt_table) + Len(es) <= MaxTable
  /\ opt_table' = opt_table \o es
  /\ UNCHANGED <<cmdline, posixly, pass, argv, offset, calls>>

\* opt_early_parse, or opt_parse at once.
StartParse(p) ==
  /\ pass = "register"
  /\ cmdline' \in UNION {[1 .. k -> Tokens] : k \in 0 .. MaxLine}
  /\ posixly' \in BOOLEAN
  /\ pass' = p
  /\ argv' = [k \in DOMAIN cmdline' |-> k]
  /\ UNCHANGED <<opt_table, offset, calls>>

\* opt_early_parse worked on a copy.
AfterEarly ==
  /\ pass = "early done"
  /\ pass' = "parse"
  /\ argv' = [k \in DOMAIN cmdline |-> k]
  /\ offset' = 0
  /\ UNCHANGED <<opt_table, cmdline, posixly, calls>>

-----------------------------------------------------------------------------
\* The argument that parse_one looks at: 0 when there is none.
Arg ==
  IF posixly THEN IF argv # <<>> /\ Dashed(cmdline[argv[1]]) THEN 1 ELSE 0
  ELSE SelectInSeq(argv, LAMBDA k : Dashed(cmdline[k]))
Tok == cmdline[argv[Arg]]
Finished == IF pass = "early" THEN "early done" ELSE "done"
Parsing == pass \in {"early", "parse"}

\* No options left, or the terminator.
ParseEnds ==
  /\ Parsing
  /\ \/ Arg = 0 /\ UNCHANGED argv
     \/ Arg # 0 /\ Tok[1] = "--" /\ argv' = RemoveAt(argv, Arg)
  /\ pass' = Finished
  /\ UNCHANGED <<opt_table, cmdline, posixly, offset, calls>>

IsOption == Parsing /\ Arg # 0 /\ Tok[1] # "--"
Short == Tok[1] = "short"
Name == IF Short THEN Tok[2][offset + 1] ELSE Tok[2]
Known == Find(Name) # 0
Opt == opt_table[Find(Name)]
More == Short /\ offset + 1 < Len(Tok[2])

\* The argument of the option: what follows '=', the letters that are left, or
\* the next argument, whatever it is.
NoValue == <<"none">>
Value ==
  CASE Tok[1] = "long=" -> <<"=", argv[Arg]>>
    [] ~Opt.arg -> NoValue
    [] More -> <<"letters", argv[Arg], offset + 1>>
    [] Arg < Len(argv) -> <<"argument", argv[Arg + 1]>>
    [] OTHER -> NoValue

\* Unknown, an argument that is not allowed, or one that is required.
ParseFails ==
  /\ IsOption
  /\ Known => ((Value = NoValue) = Opt.arg)
  /\ pass' = "error"
  /\ offset' = IF Short /\ Known THEN offset + 1 ELSE offset
  /\ UNCHANGED <<opt_table, cmdline, posixly, argv, calls>>

\* Mutant: an option's argument that stands on its own is left in argv.
Consumed_Option ==
  IF More /\ ~Opt.arg THEN argv ELSE RemoveAt(argv, Arg)

\* consume_option: unless there are letters left.
Consumed ==
  IF More /\ ~Opt.arg THEN argv
  ELSE IF Value[1] = "argument" THEN RemoveAt(RemoveAt(argv, Arg), Arg)
  ELSE RemoveAt(argv, Arg)

\* Mutant: both passes call back for all options.
CallsBack_Both == TRUE

CallsBack == Opt.early = (pass = "early")

\* An option is parsed; its callback may find a problem.
ParseOption ==
  /\ IsOption /\ Known /\ ((Value # NoValue) = Opt.arg)
  /\ calls' = IF CallsBack
              THEN Append(calls, [opt |-> Find(Name), early |-> Opt.early, value |-> Value])
              ELSE calls
  /\ \/ /\ argv' = Consumed
        /\ offset' = IF More /\ ~Opt.arg THEN offset + 1 ELSE 0
        /\ UNCHANGED pass
     \/ CallsBack /\ pass' = "error" /\ UNCHANGED <<argv, offset>>
  /\ UNCHANGED <<opt_table, cmdline, posixly>>

OptNext ==
  \/ \E e \in OptEntries : OptRegister(<<e>>) \/ OptRegister(<<HEADING, e>>)
  \/ \E p \in {"early", "parse"} : StartParse(p)
  \/ AfterEarly
  \/ ParseEnds
  \/ ParseFails
  \/ ParseOption

OptSpec == OptInit /\ [][OptNext]_ovars

-----------------------------------------------------------------------------
\* How a command line reads from left to right: after each argument, what was
\* called, what is left over, and whether it ended in an error; skip says that
\* the argument is the value of the option before, stop that options ended.
Ends(r) == r.stop \/ r.error
Called(r, name, value) ==
  [r EXCEPT !.calls = Append(@, [opt |-> Find(name), early |-> opt_table[Find(name)].early,
                                 value |-> value])]
Letters(r, k) ==
  LET letters == cmdline[k][2]
      step(q, m) ==
        IF q.error \/ q.past THEN q
        ELSE IF Find(letters[m]) = 0 THEN [q EXCEPT !.error = TRUE]
        ELSE IF ~opt_table[Find(letters[m])].arg THEN Called(q, letters[m], NoValue)
        ELSE IF m < Len(letters)
        THEN [Called(q, letters[m], <<"letters", k, m>>) EXCEPT !.past = TRUE]
        ELSE IF k < Len(cmdline)
        THEN [Called(q, letters[m], <<"argument", k + 1>>) EXCEPT !.past = TRUE, !.skip = TRUE]
        ELSE [q EXCEPT !.error = TRUE]
  IN FoldLeftDomain(step, [r EXCEPT !.past = FALSE], letters)

ReadArg(r, k) ==
  LET tok == cmdline[k]
      e == Find(tok[2])
  IN IF r.error THEN r
     ELSE IF r.skip THEN [r EXCEPT !.skip = FALSE]
     ELSE IF r.stop \/ tok[1] = "word"
     THEN [r EXCEPT !.rest = Append(@, k), !.stop = @ \/ posixly]
     ELSE IF tok[1] = "--" THEN [r EXCEPT !.stop = TRUE]
     ELSE IF tok[1] = "short" THEN Letters(r, k)
     ELSE IF e = 0 THEN [r EXCEPT !.error = TRUE]
     ELSE IF tok[1] = "long="
     THEN IF opt_table[e].arg THEN Called(r, tok[2], <<"=", k>>) ELSE [r EXCEPT !.error = TRUE]
     ELSE IF ~opt_table[e].arg THEN Called(r, tok[2], NoValue)
     ELSE IF k < Len(cmdline)
     THEN [Called(r, tok[2], <<"argument", k + 1>>) EXCEPT !.skip = TRUE]
     ELSE [r EXCEPT !.error = TRUE]

AsRead ==
  FoldLeft(ReadArg, [calls |-> <<>>, rest |-> <<>>, skip |-> FALSE, stop |-> FALSE,
                     error |-> FALSE, past |-> FALSE],
           [k \in DOMAIN cmdline |-> k])

\* The passes call back for what the line says from left to right, each option
\* in its pass, once; argv is left with what is not an option, in order.
BothPassesRead ==
  LET read == AsRead
      of(early) == SelectSeq(read.calls, LAMBDA c : c.early = early)
      made(early) == SelectSeq(calls, LAMBDA c : c.early = early)
  IN pass # "register" =>
       /\ \A early \in BOOLEAN : IsPrefix(made(early), of(early))
       /\ pass \in {"early done", "done"} => ~read.error /\ argv = read.rest
       /\ pass = "early done" => calls = of(TRUE)
       /\ pass = "done" => made(FALSE) = of(FALSE) /\ made(TRUE) \in {<<>>, of(TRUE)}
=============================================================================
