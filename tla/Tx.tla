--------------------------------- MODULE Tx ---------------------------------
(***************************************************************************)
(* struct bitcoin_tx (bitcoin_tx.cpp) written through add_tx and read back *)
(* by pull_bitcoin_tx.  add_tx hands its fields one by one to a callback:  *)
(* one appends them to a vector, one adds their lengths, one cuts them in  *)
(* slices (txslice.cpp) and one in blocks for SHA256 (ccan/crypto/sha256). *)
(* The reader gets what was written, zeroes after it (the last slice), a   *)
(* first part of it, or slices of which one is wrong.                      *)
(*                                                                         *)
(* Bytes, widths and blocks are small; a field is a kind and a value.      *)
(***************************************************************************)
EXTENDS Integers, FiniteSetsExt, SequencesExt

CONSTANTS
  Txs,        \* transactions under consideration
  ByteValues, \* 256: a varint starting with one of the last three is longer
  W32, W64, TxidLen,  \* bytes of an le32, an le64 and a txid
  SliceLen,   \* IBLT_SIZE
  BlockLen,   \* 64, what SHA256 transforms at a time
  SizeLen,    \* 8, the length at the end of its padding
  Zeroes,     \* how many zeroes may follow
  MaxNew      \* the largest array operator new has memory for

ASSUME BitcoinTxAssumption ==
  /\ ByteValues \in Nat /\ ByteValues > 3
  /\ {W32, W64, TxidLen, SliceLen} \subseteq Nat \ {0}
  /\ SizeLen \in Nat /\ BlockLen \in Nat /\ SizeLen < BlockLen
  /\ Zeroes \subseteq Nat /\ MaxNew \in Nat

VARIABLES
  btx,     \* the transaction: never changes
  adder,   \* the callback, "linearize", "length", "slice", "sha256"; or "pull"
  adds,    \* the calls of the callback that are to come
  data,    \* what is left of the data of this one; for "pull" what there is
  acc,     \* what the callback has made of the data so far
  field,   \* the next field to pull, or how the reader ended
  cursor,  \* its place in data, 0 for NULL
  rounds,  \* inputs or outputs still to come, this one included
  pulled   \* what was pulled

tvars == <<btx, adder, adds, data, acc, field, cursor, rounds, pulled>>
reader == <<field, cursor, rounds, pulled>>

-----------------------------------------------------------------------------
\* n bytes of a number, lowest first.
LittleEndian(v, n) == [k \in 1 .. n |-> (v \div ByteValues ^ (k - 1)) % ByteValues]
Number(s) == FoldFunction(+, 0, [k \in DOMAIN s |-> s[k] * ByteValues ^ (k - 1)])

\* How many bytes follow the first of a varint.
VarintTail(first) ==
  IF first < ByteValues - 3 THEN 0 ELSE 2 ^ (first - (ByteValues - 4))

\* Mutant: the largest value of one byte is one too large.
add_varint_Late(v) ==
  IF v <= ByteValues - 3 THEN <<v>>
  ELSE IF v < ByteValues ^ 2 THEN <<ByteValues - 3>> \o LittleEndian(v, 2)
  ELSE IF v < ByteValues ^ 4 THEN <<ByteValues - 2>> \o LittleEndian(v, 4)
  ELSE <<ByteValues - 1>> \o LittleEndian(v, 8)

add_varint(v) ==
  IF v < ByteValues - 3 THEN <<v>>
  ELSE IF v < ByteValues ^ 2 THEN <<ByteValues - 3>> \o LittleEndian(v, 2)
  ELSE IF v < ByteValues ^ 4 THEN <<ByteValues - 2>> \o LittleEndian(v, 4)
  ELSE <<ByteValues - 1>> \o LittleEndian(v, 8)

\* The fields of a transaction in the order of add_tx.
InputFields(in) == <<<<"txid", in.txid>>, <<"index", in.index>>,
                     <<"script_length", Len(in.script)>>, <<"script", in.script>>,
                     <<"sequence_number", in.sequence_number>>>>
OutputFields(o) == <<<<"amount", o.amount>>, <<"out_length", Len(o.script)>>,
                     <<"out_script", o.script>>>>
Fields(t) ==
  <<<<"version", t.version>>, <<"input_count", Len(t.input)>>>>
    \o FlattenSeq([n \in DOMAIN t.input |-> InputFields(t.input[n])])
    \o <<<<"output_count", Len(t.output)>>>>
    \o FlattenSeq([n \in DOMAIN t.output |-> OutputFields(t.output[n])])
    \o <<<<"lock_time", t.lock_time>>>>

Varints == {"input_count", "script_length", "output_count", "out_length"}
Width(f) == CASE f = "txid" -> TxidLen [] f = "amount" -> W64 [] OTHER -> W32

\* The argument of add for a field.
FieldBytes(f) ==
  IF f[1] \in Varints THEN add_varint(f[2])
  ELSE IF f[1] \in {"txid", "script", "out_script"} THEN f[2]
  ELSE LittleEndian(f[2], Width(f[1]))

add_tx(t) == [n \in DOMAIN Fields(t) |-> FieldBytes(Fields(t)[n])]
Stream(t) == FlattenSeq(add_tx(t))

\* Slices start with their number, which slice_tx adds first.
NumSlices(bytes) == (bytes + SliceLen - 1) \div SliceLen
VarintLen(v) == Len(add_varint(v))
slice_count(t) ==
  LET n == NumSlices(1 + Len(Stream(t)))
  IN IF VarintLen(n) > 1 THEN NumSlices(VarintLen(n) + Len(Stream(t))) ELSE n

\* The fields have what their types hold, and slice_tx asserts that the numbers of
\* slices have 16 bits.
ASSUME TxsAssumption ==
  LET script == Seq(0 .. ByteValues - 1)
  IN \A t \in Txs :
       /\ t.version \in Nat /\ t.lock_time \in Nat
       /\ t.input \in Seq([txid : script, index : Nat, script : script,
                           sequence_number : Nat])
       /\ t.output \in Seq([amount : Nat, script : script])
       /\ slice_count(t) < ByteValues ^ 2

\* A number fits in the bytes it is written in, a txid has its length, and there
\* was memory for the arrays.
ASSUME FitsAssumption ==
  LET fits(n, bytes) == n < ByteValues ^ bytes
      array(s) == Len(s) <= MaxNew
  IN /\ fits(MaxNew, 8)
     /\ \A t \in Txs :
          /\ fits(t.version, W32) /\ fits(t.lock_time, W32) /\ array(t.input) /\ array(t.output)
          /\ \A k \in DOMAIN t.input :
               /\ Len(t.input[k].txid) = TxidLen /\ fits(t.input[k].index, W32)
               /\ array(t.input[k].script) /\ fits(t.input[k].sequence_number, W32)
          /\ \A k \in DOMAIN t.output :
               fits(t.output[k].amount, W64) /\ array(t.output[k].script)

\* Powers: arithmetic, nothing about the program.
ASSUME TxPowersAssumption ==
  /\ ByteValues ^ 0 = 1
  /\ \A k \in (0 .. 7) \cup (0 .. W32 - 1) \cup (0 .. W64 - 1) :
       ByteValues ^ (k + 1) = ByteValues * ByteValues ^ k

\* What can be in front of the reader: one of the slices may be wrong.
Arrivals(t) ==
  LET s == Stream(t)
  IN {SubSeq(s, 1, n) : n \in 0 .. Len(s)}
       \cup {s \o [k \in 1 .. z |-> 0] : z \in Zeroes}
       \cup {[s EXCEPT ![n] = b] : n \in DOMAIN s, b \in 0 .. ByteValues - 1}

TxInit ==
  /\ btx \in Txs
  /\ adder \in {"linearize", "length", "slice", "sha256", "pull"}
  /\ adds = CASE adder = "pull" -> <<>>
              [] adder = "slice" -> <<add_varint(slice_count(btx))>> \o add_tx(btx)
              [] OTHER -> add_tx(btx)
  /\ data \in IF adder = "pull" THEN Arrivals(btx) ELSE {<<>>}
  /\ acc = CASE adder = "slice" -> [vec |-> [k \in 1 .. slice_count(btx) * SliceLen |-> 0],
                                    index |-> 0, off |-> 0]
             [] adder = "sha256" -> [buf |-> [k \in 1 .. BlockLen |-> 0], bytes |-> 0,
                                     blocks |-> <<>>, padded |-> FALSE]
             [] adder = "length" -> 0
             [] OTHER -> <<>>
  /\ field = "version"
  /\ cursor = 1
  /\ rounds = 0
  /\ pulled = <<>>

\* add_tx calls the callback with the next field.  A call with no data does
\* nothing at all.
CallAdd ==
  /\ adds # <<>>
  /\ data = <<>>
  /\ adds' = Tail(adds)
  /\ IF adder = "linearize" THEN acc' = acc \o Head(adds) /\ UNCHANGED data
     ELSE IF adder = "length" THEN acc' = acc + Len(Head(adds)) /\ UNCHANGED data
     ELSE data' = Head(adds) /\ UNCHANGED acc
  /\ UNCHANGED <<btx, adder, reader>>

\* memcpy to a place in a buffer.
CopyTo(buf, at, s) ==
  [k \in DOMAIN buf |-> IF k - at \in DOMAIN s THEN s[k - at] ELSE buf[k]]

\* An iteration of add_slice.
AddSlice ==
  /\ adder = "slice"
  /\ data # <<>>
  /\ LET m == Min({Len(data), SliceLen - acc.off})
         full == acc.off + m = SliceLen
     IN /\ acc' = [vec |-> CopyTo(acc.vec, acc.index * SliceLen + acc.off,
                                  SubSeq(data, 1, m)),
                   index |-> acc.index + IF full THEN 1 ELSE 0,
                   off |-> IF full THEN 0 ELSE acc.off + m]
        /\ data' = SubSeq(data, m + 1, Len(data))
  /\ UNCHANGED <<btx, adder, adds, reader>>

\* An iteration of the loops of add in sha256.c that transforms a block, from
\* the buffer or, when nothing is in it, maybe from the data directly.
ShaBlock ==
  /\ adder = "sha256"
  /\ data # <<>>
  /\ LET bufsize == acc.bytes % BlockLen
         m == BlockLen - bufsize
         filled == CopyTo(acc.buf, bufsize, SubSeq(data, 1, m))
     IN /\ bufsize + Len(data) >= BlockLen
        /\ \E buf \in {filled} \cup IF bufsize = 0 THEN {acc.buf} ELSE {} :
             acc' = [acc EXCEPT !.buf = buf, !.bytes = @ + m,
                                !.blocks = Append(@, filled)]
        /\ data' = SubSeq(data, m + 1, Len(data))
  /\ UNCHANGED <<btx, adder, adds, reader>>

\* Mutant: what remains is put at the start of the buffer.
ShaRest_AtStart ==
  /\ adder = "sha256"
  /\ data # <<>>
  /\ (acc.bytes % BlockLen) + Len(data) < BlockLen
  /\ acc' = [acc EXCEPT !.buf = CopyTo(@, 0, data), !.bytes = @ + Len(data)]
  /\ data' = <<>>
  /\ UNCHANGED <<btx, adder, adds, reader>>

\* What remains goes to the buffer.
ShaRest ==
  /\ adder = "sha256"
  /\ data # <<>>
  /\ (acc.bytes % BlockLen) + Len(data) < BlockLen
  /\ acc' = [acc EXCEPT !.buf = CopyTo(@, acc.bytes % BlockLen, data),
                        !.bytes = @ + Len(data)]
  /\ data' = <<>>
  /\ UNCHANGED <<btx, adder, adds, reader>>

SizeDesc(bytes) == Reverse(LittleEndian(8 * bytes, SizeLen))

\* sha256_done: a bit and zeroes up to the place of the size, then the size.
ShaDone ==
  /\ adder = "sha256" /\ adds = <<>> /\ data = <<>>
  /\ ~acc.padded
  /\ acc' = [acc EXCEPT !.padded = TRUE]
  /\ LET zeroes == (2 * BlockLen - SizeLen - 1 - (acc.bytes % BlockLen)) % BlockLen
     IN adds' = <<<<ByteValues \div 2>> \o [k \in 1 .. zeroes |-> 0],
                  SizeDesc(acc.bytes)>>
  /\ UNCHANGED <<btx, adder, data, reader>>

-----------------------------------------------------------------------------
\* pull: n bytes from a cursor; zeroes and a cursor of NULL when too few are left.
Left(c) == IF c = 0 THEN 0 ELSE Len(data) + 1 - c
PullTo(c, n) == IF c = 0 \/ Left(c) < n THEN 0 ELSE c + n
PullBytes(c, n) ==
  IF Left(c) < n THEN [k \in 1 .. n |-> 0] ELSE [k \in 1 .. n |-> data[c + k - 1]]

\* pull_varint: its value and the cursor after it.
pull_varint(c) ==
  IF Left(c) = 0 THEN [value |-> 0, to |-> 0]
  ELSE LET n == VarintTail(data[c])
       IN IF n = 0 THEN [value |-> data[c], to |-> c + 1]
          ELSE [value |-> Number(PullBytes(c + 1, n)), to |-> PullTo(c + 1, n)]

\* The length of the script being pulled.
ScriptLength == Last(pulled)[2]

FieldAfter ==
  [version |-> "input_count", txid |-> "index", index |-> "script_length",
   script_length |-> "script", script |-> "sequence_number",
   amount |-> "out_length", out_length |-> "out_script"]

\* The field after a count, and after the last field of an input or output.
AfterCount(more, f) ==
  IF f \in {"input_count", "sequence_number"}
  THEN IF more THEN "txid" ELSE "output_count"
  ELSE IF more THEN "amount" ELSE "lock_time"

\* A number, for which new may have to find memory.
PullVarint ==
  /\ field \in Varints
  /\ LET n == pull_varint(cursor)
     IN /\ cursor' = n.to
        /\ pulled' = Append(pulled, <<field, n.value>>)
        /\ IF n.value > MaxNew THEN field' = "bad_alloc" /\ UNCHANGED rounds
           ELSE IF field \in DOMAIN FieldAfter
           THEN field' = FieldAfter[field] /\ UNCHANGED rounds
           ELSE field' = AfterCount(n.value > 0, field) /\ rounds' = n.value
  /\ UNCHANGED <<btx, adder, adds, data, acc>>

\* Any other field.  Only the last one looks whether the data ran out.
PullField ==
  /\ field \in DOMAIN FieldAfter \cup {"sequence_number", "out_script", "lock_time"}
  /\ field \notin Varints
  /\ LET script == field \in {"script", "out_script"}
         n == IF script THEN ScriptLength ELSE Width(field)
         bytes == PullBytes(cursor, n)
     IN /\ cursor' = PullTo(cursor, n)
        /\ pulled' = Append(pulled,
             <<field, IF script \/ field = "txid" THEN bytes ELSE Number(bytes)>>)
  /\ \/ field \in DOMAIN FieldAfter /\ field' = FieldAfter[field] /\ UNCHANGED rounds
     \/ /\ field \in {"sequence_number", "out_script"}
        /\ field' = AfterCount(rounds > 1, IF field = "out_script" THEN "output_count"
                                           ELSE field)
        /\ rounds' = rounds - 1
     \/ /\ field = "lock_time"
        /\ field' = IF cursor' = 0 THEN "threw" ELSE "done"
        /\ UNCHANGED rounds
  /\ UNCHANGED <<btx, adder, adds, data, acc>>

Added == adder # "pull" /\ adds = <<>> /\ data = <<>> /\ (adder = "sha256" => acc.padded)
Finished == (Added \/ field \in {"done", "threw", "bad_alloc"}) /\ UNCHANGED tvars

TxNext ==
  \/ CallAdd \/ AddSlice \/ ShaBlock \/ ShaRest \/ ShaDone
  \/ adder = "pull" /\ (PullVarint \/ PullField)
  \/ Finished

TxSpec == TxInit /\ [][TxNext]_tvars

-----------------------------------------------------------------------------
\* The message SHA256 defines for a stream: a bit, as few zeroes as make whole
\* blocks, and the size.
ShaMessage(s) ==
  LET length(z) == Len(s) + 1 + z + SizeLen
      z == CHOOSE n \in 0 .. BlockLen - 1 : length(n) % BlockLen = 0
  IN s \o <<ByteValues \div 2>> \o [k \in 1 .. z |-> 0] \o SizeDesc(Len(s))

\* Wherever the ends of the fields fall, each callback makes the same stream of
\* them: the vector, its length, the slices with zeroes after it, and the
\* blocks SHA256 transforms, which end with the padding its definition asks for
\* (add_linearize, add_length, add_slice, sha256_update, sha256_done).
StreamsAgree ==
  LET rest == data \o FlattenSeq(adds)
      stream == Stream(btx)
  IN CASE adder = "linearize" -> acc \o rest = stream
       [] adder = "length" -> acc + Len(rest) = Len(stream)
       [] adder = "slice" ->
            LET used == acc.index * SliceLen + acc.off
            IN /\ SubSeq(acc.vec, 1, used) \o rest
                    = add_varint(slice_count(btx)) \o stream
               /\ \A k \in used + 1 .. Len(acc.vec) : acc.vec[k] = 0
       [] adder = "sha256" ->
            FlattenSeq(acc.blocks) \o SubSeq(acc.buf, 1, acc.bytes % BlockLen) \o rest
              = IF acc.padded THEN ShaMessage(stream) ELSE stream
       [] OTHER -> TRUE

\* A transaction that arrives whole is pulled as it was added, whatever follows
\* it; one that ends early is never taken for another one, although no field
\* but the last looks whether there was any data (pull_bitcoin_tx, pull).
PulledIsAdded ==
  LET stream == Stream(btx)
      whole == IsPrefix(stream, data)
  IN /\ field = "done" /\ whole =>
          pulled = Fields(btx) /\ cursor = Len(stream) + 1
     /\ field = "done" => ~IsStrictPrefix(data, stream)
     /\ field \in {"threw", "bad_alloc"} => ~whole
=============================================================================
