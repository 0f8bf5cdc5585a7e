----------------------------- MODULE OptValues -----------------------------
(***************************************************************************)
(* ccan/opt/helpers.c: the callbacks that set an integer from its text and *)
(* show one, with the suffixes k to E for the powers of a base.  A text is *)
(* a number and a suffix.  Widths and bases are scaled down together: in   *)
(* the program a long long has 64 bits and is a long, an int has 32 bits,  *)
(* and the bases are 1024 (_bi) and 1000 (_si); the sixth power of a    *)
(* base fits a long long.                                                  *)
(***************************************************************************)
EXTENDS Integers, FiniteSets

CONSTANTS
  LongBits, IntBits,   \* the widths of a long long and of an int
  Bases,               \* of the functions _bi and _si
  SeenNumbers          \* bound: the numbers that the texts begin with

ASSUME OptValuesAssumption ==
  /\ IntBits \in Nat \ {0} /\ LongBits \in Nat \ (0 .. IntBits)
  /\ \A b \in Bases : b \in Nat \ {0, 1} /\ b ^ 6 < 2 ^ (LongBits - 1)
  /\ SeenNumbers \subseteq Int

\* Powers: arithmetic, nothing about the program.
ASSUME ValuePowersAssumption ==
  /\ \A b \in Bases \cup {1} : b ^ 0 = 1 /\ \A k \in 0 .. 6 : b ^ k \in Nat \ {0}
  /\ {2 ^ (IntBits - 1), 2 ^ IntBits, 2 ^ (LongBits - 1), 2 ^ LongBits} \subseteq Nat \ {0}
  /\ 2 ^ IntBits = 2 * 2 ^ (IntBits - 1) /\ 2 ^ IntBits <= 2 ^ (LongBits - 1)

VARIABLES
  dest,   \* what the option sets: [type, base, value]
  text,   \* the text last shown or given: [num, suffix]
  did     \* what was called last, and whether it returned an error

vvars == <<dest, text, did>>

LLONG_MAX == 2 ^ (LongBits - 1) - 1
LLONG_MIN == -LLONG_MAX - 1
INT_MAX == 2 ^ (IntBits - 1) - 1

\* The types; a base of 1 stands for the functions without suffixes, which there
\* are for long (and long long) and int only.
Types == {"longlong", "ulonglong", "int", "uint"}
Fits(type, x) ==
  CASE type = "longlong" -> x \in LLONG_MIN .. LLONG_MAX
    [] type = "ulonglong" -> x \in 0 .. 2 * LLONG_MAX + 1
    [] type = "int" -> x \in -INT_MAX - 1 .. INT_MAX
    [] type = "uint" -> x \in 0 .. 2 * INT_MAX + 1

\* C's conversion to an int or to an unsigned int.
As(type, x) ==
  CASE type \in {"longlong", "ulonglong"} -> x
    [] type = "int" -> ((x + INT_MAX + 1) % (2 ^ IntBits)) - INT_MAX - 1
    [] type = "uint" -> x % (2 ^ IntBits)

\* C's division truncates.
Quotient(x, y) == IF x < 0 THEN -((-x) \div y) ELSE x \div y

-----------------------------------------------------------------------------
\* set_llong_with_suffix, and opt_set_longval where no suffix is known.
set_llong_with_suffix(t, base) ==
  LET mul == base ^ t.suffix
  IN [ok |-> t.num \in LLONG_MIN .. LLONG_MAX /\ (base = 1 => t.suffix = 0)
             /\ t.num <= Quotient(LLONG_MAX, mul) /\ t.num >= Quotient(LLONG_MIN, mul),
      ll |-> t.num * mul]

\* Mutant: a number that does not fit the type is cut short.
Accepts_Cut(type, base, r) ==
  /\ r.ok
  /\ type \in {"ulonglong", "uint"} => r.ll >= 0

\* The others: opt_set_uintval goes by way of an int, the unsigned ones by way
\* of a long long.
Accepts(type, base, r) ==
  /\ r.ok
  /\ type \in {"ulonglong", "uint"} => r.ll >= 0
  /\ As(type, r.ll) = r.ll
  /\ type = "uint" /\ base = 1 => r.ll <= INT_MAX

\* strtoll's result: a number beyond a long long is the nearest one.
Clamped(number) ==
  IF number > LLONG_MAX THEN LLONG_MAX ELSE IF number < LLONG_MIN THEN LLONG_MIN ELSE number

\* What a refused text leaves behind: opt_set_longval and the functions for long
\* long have stored strtoll's result already, those for int what did not fit,
\* opt_set_ulongval the negative number.
Spoiled(d, r, number) ==
  CASE d.type = "longlong" -> {Clamped(number)} \cup (IF d.base = 1 THEN {} ELSE {d.value})
    [] d.type = "int" -> IF r.ok THEN {As("int", r.ll)} ELSE {d.value}
    [] d.type = "uint" -> IF d.base # 1 /\ r.ok /\ r.ll >= 0 THEN {As("uint", r.ll)} ELSE {d.value}
    [] OTHER -> IF d.base = 1 /\ r.ok THEN {r.ll % (2 ^ LongBits)} ELSE {d.value}

ValuesInit ==
  /\ dest \in [type : Types, base : Bases \cup {1}, value : {0}]
  /\ text = [num |-> 0, suffix |-> 0]
  /\ did = [call |-> "none", ok |-> TRUE]

Set(t) ==
  LET r == set_llong_with_suffix(t, dest.base)
      ok == Accepts(dest.type, dest.base, r)
  IN /\ text' = t
     /\ did' = [call |-> "set", ok |-> ok]
     /\ IF ok THEN dest' = [dest EXCEPT !.value = r.ll]
        ELSE \E x \in Spoiled(dest, r, t.num) :
               Fits(dest.type, x) /\ dest' = [dest EXCEPT !.value = x]

\* The option has a default: anything its type holds.
Default(x) ==
  /\ Fits(dest.type, x)
  /\ dest' = [dest EXCEPT !.value = x]
  /\ did' = [call |-> "default", ok |-> TRUE]
  /\ UNCHANGED text

\* Mutant: divides while anything is left.
Shown_Inexact(x, base) ==
  LET i == CHOOSE i \in 0 .. 6 : \A j \in i + 1 .. 6 : base = 1 \/ Quotient(x, base ^ j) = 0
  IN [num |-> Quotient(x, base ^ i), suffix |-> i]

\* show_llong_with_suffix and show_ullong_with_suffix divide by the base while
\* that is exact, six times at most; zero is special.
Shown(x, base) ==
  LET times(i) == i = 0 \/ (base # 1 /\ x # 0 /\ x % (base ^ i) = 0)
      i == CHOOSE i \in 0 .. 6 : times(i) /\ \A j \in i + 1 .. 6 : ~times(j)
  IN [num |-> Quotient(x, base ^ i), suffix |-> i]

Show ==
  /\ did.call = "default"
  /\ text' = Shown(dest.value, dest.base)
  /\ did' = [call |-> "show", ok |-> TRUE]
  /\ UNCHANGED dest

ValuesNext ==
  \/ did.call = "none" /\ \E num \in SeenNumbers, suffix \in 0 .. 6 :
       Set([num |-> num, suffix |-> suffix])
  \/ did.call = "none" /\ \E x \in SeenNumbers : Default(x)
  \/ Show
  \/ did.call = "show" /\ Set(text)

ValuesSpec == ValuesInit /\ [][ValuesNext]_vvars

-----------------------------------------------------------------------------
\* A text is refused or means exactly the number that is stored, overflow and
\* truncation notwithstanding.
RefusedOrExact ==
  did.call = "set" /\ did.ok =>
    Fits(dest.type, dest.value) /\ dest.value = text.num * dest.base ^ text.suffix

\* The help shows a default as a text that sets it again, if the type can be set
\* to it at all: unsigned ones go by way of signed ones.
ShownCanBeSet ==
  [][(did.call = "show" /\ did'.call = "set") =>
       \/ did'.ok /\ dest'.value = dest.value
       \/ dest.type = "ulonglong" /\ dest.value > LLONG_MAX
       \/ dest.type = "uint" /\ dest.base = 1 /\ dest.value > INT_MAX]_vvars
=============================================================================
