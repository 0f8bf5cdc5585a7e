--------------------------- MODULE MessageProofs ---------------------------
(***************************************************************************)
(* Proofs about what goes over the wire: the bytes the callbacks of add_tx *)
(* make of a transaction (module Tx), for transactions, slices and blocks  *)
(* of any length, what is pulled of them again, and the message that       *)
(* carries a block (module Wire), for any sets of bit strings and wherever *)
(* the message is cut.                                                     *)
(***************************************************************************)
EXTENDS Wire, Tx, CommonLemmas, FiniteSetTheorems

-----------------------------------------------------------------------------
(***************************************************************************)
(* The bytes of a transaction: what each callback has made of the data so  *)
(* far, followed by the data that is to come, is always the same stream.   *)
(***************************************************************************)

-----------------------------------------------------------------------------
\* What add_tx calls the callback with.

Sequence(s) == \E S : s \in Seq(S)

\* A sequence with its elements in X.
LEMMA SequenceOf ==
  ASSUME NEW s, NEW X, Sequence(s), \A k \in 1 .. Len(s) : s[k] \in X
  PROVE  s \in Seq(X)
<1>1. PICK S : s \in Seq(S)
  BY DEF Sequence
<1>2. Len(s) \in Nat /\ s \in [1 .. Len(s) -> S]
  BY <1>1, LenProperties
<1>3. s \in [1 .. Len(s) -> X]
  BY <1>2
<1> QED BY <1>2, <1>3, SeqDef

\* Two sequences one after the other.
LEMMA SequenceConcat ==
  ASSUME NEW s, NEW t, Sequence(s), Sequence(t)
  PROVE  Sequence(s \o t) /\ Len(s \o t) = Len(s) + Len(t)
<1>1. PICK S : s \in Seq(S)
  BY DEF Sequence
<1>2. PICK T : t \in Seq(T)
  BY DEF Sequence
<1>3. s \in Seq(S \cup T) /\ t \in Seq(S \cup T)
  <2>1. S \subseteq S \cup T /\ T \subseteq S \cup T
    OBVIOUS
  <2> QED BY <1>1, <1>2, <2>1, SeqMonotonic
<1>4. s \o t \in Seq(S \cup T) /\ Len(s \o t) = Len(s) + Len(t)
  BY <1>3, ConcatProperties
<1> QED BY <1>4 DEF Sequence

\* LittleEndian gives as many bytes as it is asked for.
LEMMA LittleEndianIs ==
  ASSUME NEW val, NEW n \in Nat
  PROVE  Sequence(LittleEndian(val, n)) /\ Len(LittleEndian(val, n)) = n
<1> DEFINE e(k) == (val \div ByteValues ^ (k - 1)) % ByteValues
           S == {e(k) : k \in 1 .. n}
           s == [k \in 1 .. n |-> e(k)]
<1>1. \A k \in 1 .. n : e(k) \in S
  OBVIOUS
<1>2. s \in [1 .. n -> S]
  <2> HIDE DEF e, S
  <2> QED BY <1>1
<1>3. s \in Seq(S)
  <2> HIDE DEF s, S
  <2> QED BY <1>2, SeqDef
<1>4. Len(s) = n
  <2>1. DOMAIN s = 1 .. Len(s) /\ Len(s) \in Nat
    <3> HIDE DEF s, S
    <3> QED BY <1>3, LenProperties
  <2>2. DOMAIN s = 1 .. n
    <3> HIDE DEF e
    <3> QED OBVIOUS
  <2> HIDE DEF s
  <2>3. \A k \in Nat : k \in 1 .. Len(s) <=> k \in 1 .. n
    BY <2>1, <2>2
  <2>4. Len(s) \in Nat
    BY <2>1
  <2>5. Len(s) # 0 => Len(s) <= n
    BY <2>3, <2>4
  <2>6. n # 0 => n <= Len(s)
    BY <2>3, <2>4
  <2> QED BY <2>4, <2>5, <2>6
<1>5. LittleEndian(val, n) = s
  BY DEF LittleEndian
<1> HIDE DEF s, S
<1> QED BY <1>3, <1>4, <1>5 DEF Sequence

\* A varint has 1, 3, 5 or 9 bytes; a small number takes 1 or 3.
LEMMA VarintIs ==
  ASSUME NEW val
  PROVE  /\ Sequence(add_varint(val))
         /\ Len(add_varint(val)) \in {1, 3, 5, 9}
         /\ val < ByteValues - 3 => Len(add_varint(val)) = 1
         /\ val < ByteValues ^ 2 => Len(add_varint(val)) \in {1, 3}
<1>1. \A b : Sequence(<<b>>) /\ Len(<<b>>) = 1
  <2>1. \A b : <<b>> \in Seq({b}) /\ Len(<<b>>) = 1
    OBVIOUS
  <2> QED BY <2>1 DEF Sequence
<1>2. ASSUME NEW b, NEW n \in Nat
      PROVE  /\ Sequence(<<b>> \o LittleEndian(val, n))
             /\ Len(<<b>> \o LittleEndian(val, n)) = n + 1
  BY <1>1, LittleEndianIs, SequenceConcat
<1> DEFINE long(b, n) == <<b>> \o LittleEndian(val, n)
<1>3. /\ \A b : Sequence(long(b, 2)) /\ Len(long(b, 2)) = 3
      /\ \A b : Sequence(long(b, 4)) /\ Len(long(b, 4)) = 5
      /\ \A b : Sequence(long(b, 8)) /\ Len(long(b, 8)) = 9
  BY <1>2
<1>4. add_varint(val) = IF val < ByteValues - 3 THEN <<val>>
                      ELSE IF val < ByteValues ^ 2 THEN long(ByteValues - 3, 2)
                      ELSE IF val < ByteValues ^ 4 THEN long(ByteValues - 2, 4)
                      ELSE long(ByteValues - 1, 8)
  BY DEF add_varint
<1> HIDE DEF long
<1>5. CASE val < ByteValues - 3
  BY <1>1, <1>5, <1>4
<1>6. CASE ~(val < ByteValues - 3) /\ val < ByteValues ^ 2
  BY <1>3, <1>4, <1>6
<1>7. CASE ~(val < ByteValues - 3) /\ ~(val < ByteValues ^ 2)
  BY <1>3, <1>4, <1>7
<1> QED BY <1>5, <1>6, <1>7

Script == Seq(0 .. ByteValues - 1)
TxFields ==
  ({"version", "input_count", "index", "script_length", "sequence_number",
    "output_count", "amount", "out_length", "lock_time"} \X Nat)
    \cup ({"txid", "script", "out_script"} \X Script)

\* The fields of an input.
LEMMA InputFieldsAre ==
  ASSUME NEW in \in [txid : Script, index : Nat, script : Script, sequence_number : Nat]
  PROVE  InputFields(in) \in Seq(TxFields)
<1>1. Len(in.script) \in Nat
  BY LenProperties DEF Script
<1>2. /\ <<"txid", in.txid>> \in TxFields
      /\ <<"index", in.index>> \in TxFields
      /\ <<"script_length", Len(in.script)>> \in TxFields
      /\ <<"script", in.script>> \in TxFields
      /\ <<"sequence_number", in.sequence_number>> \in TxFields
  BY <1>1 DEF TxFields
<1> HIDE DEF TxFields
<1> QED BY <1>2 DEF InputFields

\* The fields of an output.
LEMMA OutputFieldsAre ==
  ASSUME NEW o \in [amount : Nat, script : Script]
  PROVE  OutputFields(o) \in Seq(TxFields)
<1>1. Len(o.script) \in Nat
  BY LenProperties DEF Script
<1>2. /\ <<"amount", o.amount>> \in TxFields
      /\ <<"out_length", Len(o.script)>> \in TxFields
      /\ <<"out_script", o.script>> \in TxFields
  BY <1>1 DEF TxFields
<1> HIDE DEF TxFields
<1> QED BY <1>2 DEF OutputFields

\* The fields of a transaction.
LEMMA FieldsAre ==
  ASSUME NEW t \in Txs
  PROVE  Fields(t) \in Seq(TxFields)
<1> DEFINE In == [txid : Script, index : Nat, script : Script, sequence_number : Nat]
           O == [amount : Nat, script : Script]
           ins == [n \in DOMAIN t.input |-> InputFields(t.input[n])]
           outs == [n \in DOMAIN t.output |-> OutputFields(t.output[n])]
<1>1. /\ t.version \in Nat /\ t.lock_time \in Nat /\ t.input \in Seq(In) /\ t.output \in Seq(O)
  BY TxsAssumption DEF Script
<1>2. /\ Len(t.input) \in Nat /\ DOMAIN t.input = 1 .. Len(t.input)
      /\ \A n \in 1 .. Len(t.input) : t.input[n] \in In
  <2> HIDE DEF In
  <2> QED BY <1>1, LenProperties, ElementOfSeq
<1>3. /\ Len(t.output) \in Nat /\ DOMAIN t.output = 1 .. Len(t.output)
      /\ \A n \in 1 .. Len(t.output) : t.output[n] \in O
  <2> HIDE DEF O
  <2> QED BY <1>1, LenProperties, ElementOfSeq
<1>4. ins \in Seq(Seq(TxFields))
  <2>1. \A n \in 1 .. Len(t.input) : InputFields(t.input[n]) \in Seq(TxFields)
    BY <1>2, InputFieldsAre
  <2>2. ins \in [1 .. Len(t.input) -> Seq(TxFields)]
    BY <1>2, <2>1
  <2> HIDE DEF ins
  <2> QED BY <1>2, <2>2, SeqDef
<1>5. outs \in Seq(Seq(TxFields))
  <2>1. \A n \in 1 .. Len(t.output) : OutputFields(t.output[n]) \in Seq(TxFields)
    BY <1>3, OutputFieldsAre
  <2>2. outs \in [1 .. Len(t.output) -> Seq(TxFields)]
    BY <1>3, <2>1
  <2> HIDE DEF outs
  <2> QED BY <1>3, <2>2, SeqDef
<1>6. /\ <<"version", t.version>> \in TxFields
      /\ <<"input_count", Len(t.input)>> \in TxFields
      /\ <<"output_count", Len(t.output)>> \in TxFields
      /\ <<"lock_time", t.lock_time>> \in TxFields
  BY <1>1, <1>2, <1>3 DEF TxFields
<1> DEFINE a == <<<<"version", t.version>>, <<"input_count", Len(t.input)>>>>
           b == <<<<"output_count", Len(t.output)>>>>
           c == <<<<"lock_time", t.lock_time>>>>
<1>7. a \in Seq(TxFields) /\ b \in Seq(TxFields) /\ c \in Seq(TxFields)
  <2> HIDE DEF TxFields
  <2> QED BY <1>6
<1>8. FlattenSeq(ins) \in Seq(TxFields) /\ FlattenSeq(outs) \in Seq(TxFields)
  <2> HIDE DEF ins, outs, TxFields
  <2> QED BY <1>4, <1>5, FlattenType
<1>9. Fields(t) = a \o FlattenSeq(ins) \o b \o FlattenSeq(outs) \o c
  BY DEF Fields
<1>10. \A u, val \in Seq(TxFields) : u \o val \in Seq(TxFields)
  BY ConcatProperties
<1> HIDE DEF ins, outs, a, b, c, TxFields
<1> QED BY <1>7, <1>8, <1>9, <1>10

-----------------------------------------------------------------------------
\* Whatever the callbacks meet as a byte.
Symbols ==
  {FieldBytes(f)[k] : f \in TxFields, k \in Nat}
    \cup {add_varint(n)[k] : n \in Nat, k \in Nat}
    \cup {SizeDesc(n)[k] : n \in Nat, k \in Nat}
    \cup {0, ByteValues \div 2}

\* The bytes of a field.
LEMMA FieldBytesAre ==
  ASSUME NEW f \in TxFields
  PROVE  FieldBytes(f) \in Seq(Symbols)
<1>1. Sequence(FieldBytes(f))
  <2>1. CASE f[1] \in Varints
    BY <2>1, VarintIs DEF FieldBytes
  <2>2. CASE f[1] \notin Varints /\ f[1] \in {"txid", "script", "out_script"}
    <3>1. f[2] \in Script
      BY <2>2 DEF TxFields
    <3> QED BY <2>2, <3>1 DEF FieldBytes, Script, Sequence
  <2>3. CASE f[1] \notin Varints /\ f[1] \notin {"txid", "script", "out_script"}
    <3>1. Width(f[1]) \in Nat
      BY BitcoinTxAssumption DEF Width
    <3> QED BY <2>3, <3>1, LittleEndianIs DEF FieldBytes
  <2> QED BY <2>1, <2>2, <2>3
<1>2. \A k \in 1 .. Len(FieldBytes(f)) : FieldBytes(f)[k] \in Symbols
  BY DEF Symbols
<1> HIDE DEF Symbols
<1> QED BY <1>1, <1>2, SequenceOf

\* The bytes of a varint.
LEMMA VarintBytesAre ==
  ASSUME NEW n \in Nat
  PROVE  add_varint(n) \in Seq(Symbols)
<1>1. \A k \in 1 .. Len(add_varint(n)) : add_varint(n)[k] \in Symbols
  BY DEF Symbols
<1>2. Sequence(add_varint(n))
  BY VarintIs
<1> QED BY <1>1, <1>2, SequenceOf

\* The bytes of the size that ends a padding.
LEMMA SizeDescIs ==
  ASSUME NEW n \in Nat
  PROVE  SizeDesc(n) \in Seq(Symbols)
<1> DEFINE s == LittleEndian(8 * n, SizeLen)
<1>1. Sequence(s) /\ Len(s) = SizeLen /\ SizeLen \in Nat
  BY LittleEndianIs, BitcoinTxAssumption
<1>2. PICK S : s \in Seq(S)
  BY <1>1 DEF Sequence
<1>3. Reverse(s) \in Seq(S)
  <2>1. Reverse(s) = [at \in 1 .. SizeLen |-> s[(SizeLen - at) + 1]]
    BY <1>1 DEF Reverse
  <2>2. \A at \in 1 .. SizeLen : s[(SizeLen - at) + 1] \in S
    <3>1. \A at \in 1 .. SizeLen : (SizeLen - at) + 1 \in 1 .. Len(s)
      BY <1>1
    <3> HIDE DEF s
    <3> QED BY <3>1, <1>2, ElementOfSeq
  <2>3. Reverse(s) \in [1 .. SizeLen -> S]
    BY <2>1, <2>2
  <2> QED BY <1>1, <2>3, SeqDef
<1>4. Sequence(SizeDesc(n))
  BY <1>3 DEF SizeDesc, Sequence
<1>5. \A k \in 1 .. Len(SizeDesc(n)) : SizeDesc(n)[k] \in Symbols
  BY DEF Symbols
<1> QED BY <1>4, <1>5, SequenceOf

\* The calls add_tx makes, and the bytes of all of them.
LEMMA AddTxIs ==
  ASSUME NEW t \in Txs
  PROVE  /\ add_tx(t) \in Seq(Seq(Symbols))
         /\ Stream(t) \in Seq(Symbols) /\ Len(Stream(t)) \in Nat
<1> DEFINE F == Fields(t)
<1>1. /\ F \in Seq(TxFields) /\ Len(F) \in Nat /\ DOMAIN F = 1 .. Len(F)
      /\ \A n \in 1 .. Len(F) : F[n] \in TxFields
  BY FieldsAre, LenProperties, ElementOfSeq
<1> HIDE DEF F
<1>2. \A n \in 1 .. Len(F) : FieldBytes(F[n]) \in Seq(Symbols)
  BY <1>1, FieldBytesAre
<1>3. [n \in DOMAIN F |-> FieldBytes(F[n])] \in [1 .. Len(F) -> Seq(Symbols)]
  BY <1>1, <1>2
<1>4. add_tx(t) \in Seq(Seq(Symbols))
  <2>1. add_tx(t) = [n \in DOMAIN F |-> FieldBytes(F[n])]
    BY DEF add_tx, F
  <2> QED BY <1>1, <1>3, <2>1, SeqDef
<1>5. Stream(t) \in Seq(Symbols)
  BY <1>4, FlattenType DEF Stream
<1> QED BY <1>4, <1>5, LenProperties

\* memcpy of x after the first at elements of buf.
LEMMA CopyToIs ==
  ASSUME NEW S, NEW buf \in Seq(S), NEW x \in Seq(S), NEW at \in Nat,
         at + Len(x) <= Len(buf)
  PROVE  /\ CopyTo(buf, at, x) \in Seq(S) /\ Len(CopyTo(buf, at, x)) = Len(buf)
         /\ SubSeq(CopyTo(buf, at, x), 1, at + Len(x)) = SubSeq(buf, 1, at) \o x
         /\ \A k \in at + Len(x) + 1 .. Len(buf) : CopyTo(buf, at, x)[k] = buf[k]
<1> DEFINE c == CopyTo(buf, at, x)
           n == Len(buf)
           m == Len(x)
<1>1. /\ n \in Nat /\ m \in Nat /\ DOMAIN buf = 1 .. n /\ DOMAIN x = 1 .. m
      /\ \A k \in 1 .. n : buf[k] \in S
      /\ \A k \in 1 .. m : x[k] \in S
      /\ at + m <= n
  BY LenProperties, ElementOfSeq
<1>2. c = [k \in 1 .. n |-> IF k - at \in 1 .. m THEN x[k - at] ELSE buf[k]]
  BY <1>1 DEF CopyTo
<1>3. c \in [1 .. n -> S]
  BY <1>1, <1>2
<1>4. c \in Seq(S)
  BY <1>1, <1>3, SeqDef
<1>5. Len(c) = n
  <2>1. c \in [1 .. n -> S] /\ n \in Nat
    BY <1>1, <1>3
  <2> HIDE DEF c, n
  <2> QED BY <2>1
<1>6. \A k \in at + m + 1 .. n : c[k] = buf[k]
  BY <1>1, <1>2
<1>7. /\ \A k \in 1 .. at : c[k] = buf[k]
      /\ \A k \in at + 1 .. at + m : c[k] = x[k - at]
  BY <1>1, <1>2
<1> DEFINE u == SubSeq(c, 1, at + m)
           val == SubSeq(buf, 1, at)
<1>8. u \in Seq(S) /\ Len(u) = at + m /\ \A k \in 1 .. at + m : u[k] = c[k]
  <2>1. \A k \in 1 .. at + m : c[k] \in S
    BY <1>1, <1>3
  <2>2. at + m \in Nat
    BY <1>1
  <2> HIDE DEF c
  <2>3. /\ u \in Seq(S) /\ Len(u) = IF 1 <= at + m THEN (at + m) - 1 + 1 ELSE 0
        /\ \A k \in 1 .. (at + m) - 1 + 1 : u[k] = c[1 + k - 1]
    BY <2>1, <2>2, SubSeqProperties
  <2> QED BY <2>2, <2>3
<1>9. val \in Seq(S) /\ Len(val) = at /\ \A k \in 1 .. at : val[k] = buf[k]
  <2>1. \A k \in 1 .. at : buf[k] \in S
    BY <1>1
  <2>2. /\ val \in Seq(S) /\ Len(val) = IF 1 <= at THEN at - 1 + 1 ELSE 0
        /\ \A k \in 1 .. at - 1 + 1 : val[k] = buf[1 + k - 1]
    BY <2>1, SubSeqProperties
  <2> QED BY <2>2
<1> HIDE DEF c, u, val
<1>10. /\ val \o x \in Seq(S) /\ Len(val \o x) = at + m
       /\ \A k \in 1 .. at + m : (val \o x)[k] = IF k <= at THEN val[k] ELSE x[k - at]
  BY <1>9, ConcatProperties
<1>11. ASSUME NEW k \in 1 .. at + m PROVE u[k] = (val \o x)[k]
  <2>1. CASE k <= at
    <3>1. k \in 1 .. at
      BY <2>1
    <3> QED BY <2>1, <3>1, <1>7, <1>8, <1>9, <1>10
  <2>2. CASE ~(k <= at)
    <3>1. k \in at + 1 .. at + m
      BY <2>2, <1>1
    <3> QED BY <2>2, <3>1, <1>7, <1>8, <1>10
  <2> QED BY <2>1, <2>2
<1>12. u = val \o x
  BY <1>8, <1>10, <1>11, SeqEqual
<1> QED BY <1>4, <1>5, <1>6, <1>12 DEF c, u, val

\* A sequence cut in two.
LEMMA CutIs ==
  ASSUME NEW S, NEW s \in Seq(S), NEW m \in 0 .. Len(s)
  PROVE  /\ SubSeq(s, 1, m) \in Seq(S) /\ Len(SubSeq(s, 1, m)) = m
         /\ SubSeq(s, m + 1, Len(s)) \in Seq(S)
         /\ Len(SubSeq(s, m + 1, Len(s))) = Len(s) - m
         /\ s = SubSeq(s, 1, m) \o SubSeq(s, m + 1, Len(s))
<1>1. Len(s) \in Nat /\ m \in Nat /\ m <= Len(s) /\ \A k \in 1 .. Len(s) : s[k] \in S
  BY LenProperties, ElementOfSeq
<1>2. /\ \A k \in 1 .. m : s[k] \in S
      /\ \A k \in m + 1 .. Len(s) : s[k] \in S
  BY <1>1
<1>3. SubSeq(s, 1, m) \in Seq(S) /\ Len(SubSeq(s, 1, m)) = m
  <2>1. /\ SubSeq(s, 1, m) \in Seq(S)
        /\ Len(SubSeq(s, 1, m)) = IF 1 <= m THEN m - 1 + 1 ELSE 0
    BY <1>1, <1>2, SubSeqProperties
  <2> QED BY <1>1, <2>1
<1>4. SubSeq(s, m + 1, Len(s)) \in Seq(S) /\ Len(SubSeq(s, m + 1, Len(s))) = Len(s) - m
  <2>1. /\ SubSeq(s, m + 1, Len(s)) \in Seq(S)
        /\ Len(SubSeq(s, m + 1, Len(s))) = IF m + 1 <= Len(s) THEN Len(s) - (m + 1) + 1 ELSE 0
    BY <1>1, <1>2, SubSeqProperties
  <2> QED BY <1>1, <2>1
<1>5. SubSeq(s, 1, m) \o SubSeq(s, m + 1, Len(s)) = SubSeq(s, 1, Len(s))
  <2>1. 1 \in 1 .. Len(s) + 1 /\ m \in 1 - 1 .. Len(s) /\ Len(s) \in m .. Len(s)
    BY <1>1
  <2> QED BY <2>1, ConcatAdjacentSubSeq
<1>6. SubSeq(s, 1, Len(s)) = s
  BY SubSeqFull
<1> QED BY <1>3, <1>4, <1>5, <1>6

\* Concatenation, for a set of elements.
LEMMA Assoc ==
  ASSUME NEW S
  PROVE  /\ \A s, t, u \in Seq(S) : (s \o t) \o u = s \o (t \o u)
         /\ \A s, t \in Seq(S) : s \o t \in Seq(S) /\ Len(s \o t) = Len(s) + Len(t)
         /\ \A s \in Seq(S) : s \o <<>> = s /\ <<>> \o s = s /\ Len(s) \in Nat
         /\ <<>> \in Seq(S) /\ Len(<<>>) = 0
  BY Associative, ConcatProperties, ConcatEmptySeq, LenProperties, EmptySeq

-----------------------------------------------------------------------------
\* There are enough slices for their number and the transaction.
LEMMA SlicesEnough ==
  ASSUME NEW t \in Txs
  PROVE  /\ slice_count(t) \in Nat
         /\ Len(add_varint(slice_count(t))) + Len(Stream(t)) <= slice_count(t) * SliceLen
<1> DEFINE l == Len(Stream(t))
           n == NumSlices(1 + l)
<1>1. l \in Nat /\ SliceLen \in Nat \ {0}
  BY AddTxIs, BitcoinTxAssumption
<1> HIDE DEF l
<1>2. ASSUME NEW x \in Nat PROVE NumSlices(x) \in Nat /\ x <= NumSlices(x) * SliceLen
  <2> DEFINE a == x + SliceLen - 1
             q == a \div SliceLen
             r == a % SliceLen
  <2>1. a \in Nat
    BY <1>1
  <2>2. q \in Int /\ r \in 0 .. SliceLen - 1 /\ a = SliceLen * q + r
    BY <1>1, <2>1, DivMod
  <2>3. NumSlices(x) = q
    BY DEF NumSlices
  <2>4. a = x + SliceLen - 1
    OBVIOUS
  <2> HIDE DEF a, q, r
  <2>5. x <= SliceLen * q
    BY <1>1, <2>2, <2>4
  <2>6. q >= 0
    <3> SUFFICES ASSUME q <= -1 PROVE FALSE
      BY <2>2
    <3>1. SliceLen * q + SliceLen <= 0
      <4>1. q + 1 <= 0
        BY <2>2
      <4>2. \A at \in Int : at <= 0 => SliceLen * at <= 0
        BY <1>1
      <4>3. SliceLen * (q + 1) <= 0
        BY <2>2, <4>1, <4>2
      <4> QED BY <1>1, <2>2, <4>3
    <3>2. SliceLen * q \in Int
      BY <1>1, <2>2
    <3> HIDE DEF NumSlices
    <3> QED BY <1>1, <2>5, <3>1, <3>2
  <2> QED BY <1>1, <2>2, <2>3, <2>5, <2>6
<1>3. n \in Nat /\ 1 + l <= n * SliceLen
  BY <1>1, <1>2
<1> DEFINE val == VarintLen(n)
           c == slice_count(t)
<1>4. val \in {1, 3, 5, 9} /\ val \in Nat
  BY VarintIs DEF VarintLen
<1>5. c = IF val > 1 THEN NumSlices(val + l) ELSE n
  BY DEF slice_count, l
<1>6. c < ByteValues ^ 2
  BY TxsAssumption
<1>7. Len(add_varint(c)) \in {1, 3} /\ (c < ByteValues - 3 => Len(add_varint(c)) = 1)
  BY <1>6, VarintIs
<1>8. val = Len(add_varint(n))
  BY DEF VarintLen
<1> HIDE DEF n, val, c
<1>9. CASE val > 1
  <2>1. val + l \in Nat /\ c = NumSlices(val + l) /\ val >= 3
    BY <1>1, <1>4, <1>5, <1>9
  <2>2. c \in Nat /\ val + l <= c * SliceLen
    BY <1>2, <2>1
  <2>3. Len(add_varint(c)) + l <= val + l
    <3> DEFINE w == Len(add_varint(c))
    <3>1. w = 1 \/ w = 3
      BY <1>7
    <3>2. val \in Nat /\ val >= 3 /\ l \in Nat
      BY <1>1, <1>4, <2>1
    <3> HIDE DEF w
    <3>3. w + l <= val + l
      BY <3>1, <3>2
    <3> QED BY <3>3 DEF w
  <2>4. c * SliceLen \in Nat
    BY <2>2, <1>1
  <2> QED BY <1>1, <1>4, <1>7, <2>2, <2>3, <2>4 DEF c, l
<1>10. CASE ~(val > 1)
  <2>1. c = n /\ val = 1
    BY <1>4, <1>5, <1>10
  <2>2. Len(add_varint(c)) = 1
    BY <2>1, <1>8
  <2> QED BY <1>3, <2>1, <2>2 DEF c, l
<1> QED BY <1>9, <1>10

\* What the callback has yet to get, and what the slices hold so far.
Rest == data \o FlattenSeq(adds)
Used == acc.index * SliceLen + acc.off

Adding ==
  /\ btx \in Txs
  /\ adder # "pull" => adds \in Seq(Seq(Symbols)) /\ data \in Seq(Symbols)

Linearized ==
  adder = "linearize" =>
    data = <<>> /\ acc \in Seq(Symbols) /\ acc \o Rest = Stream(btx)

Measured ==
  adder = "length" => data = <<>> /\ acc \in Nat /\ acc + Len(Rest) = Len(Stream(btx))

Sliced ==
  adder = "slice" =>
    /\ acc \in [vec : Seq(Symbols), index : Nat, off : 0 .. SliceLen - 1]
    /\ Len(acc.vec) = slice_count(btx) * SliceLen
    /\ SubSeq(acc.vec, 1, Used) \o Rest = add_varint(slice_count(btx)) \o Stream(btx)
    /\ Used + Len(Rest) <= Len(acc.vec)
    /\ \A k \in Used + 1 .. Len(acc.vec) : acc.vec[k] = 0

Hashed ==
  adder = "sha256" =>
    /\ acc \in [buf : Seq(Symbols), bytes : Nat, blocks : Seq(Seq(Symbols)), padded : BOOLEAN]
    /\ Len(acc.buf) = BlockLen
    /\ FlattenSeq(acc.blocks) \o SubSeq(acc.buf, 1, acc.bytes % BlockLen) \o Rest
         = IF acc.padded THEN ShaMessage(Stream(btx)) ELSE Stream(btx)
    /\ ~acc.padded => acc.bytes + Len(Rest) = Len(Stream(btx))

StreamInv == Adding /\ Linearized /\ Measured /\ Sliced /\ Hashed

\* What is to come is a sequence of bytes, the data at hand first.
LEMMA RestIs ==
  ASSUME Adding, adder # "pull"
  PROVE  Rest \in Seq(Symbols) /\ Len(Rest) \in Nat /\ FlattenSeq(adds) \in Seq(Symbols)
         /\ Len(Rest) = Len(data) + Len(FlattenSeq(adds)) /\ data \in Seq(Symbols)
         /\ Len(data) \in Nat
<1>1. FlattenSeq(adds) \in Seq(Symbols) /\ data \in Seq(Symbols)
  BY FlattenType DEF Adding
<1> HIDE DEF Symbols
<1> QED BY <1>1, Assoc, LenProperties DEF Rest

\* A buffer of zeroes.
LEMMA ZeroesAre ==
  ASSUME NEW n \in Nat
  PROVE  /\ [k \in 1 .. n |-> 0] \in Seq(Symbols) /\ Len([k \in 1 .. n |-> 0]) = n
<1>1. 0 \in Symbols
  BY DEF Symbols
<1> HIDE DEF Symbols
<1>2. [k \in 1 .. n |-> 0] \in [1 .. n -> Symbols]
  BY <1>1
<1> QED BY <1>1, <1>2, SeqDef

\* Slices and blocks have a length.
LEMMA BlockLenIs == /\ BlockLen \in Nat \ {0} /\ SliceLen \in Nat \ {0}
                    /\ SizeLen \in Nat /\ SizeLen < BlockLen
BY BitcoinTxAssumption

\* Nothing is added yet: all of the stream is to come.
LEMMA AddInit == TxInit => StreamInv
<1> SUFFICES ASSUME TxInit PROVE StreamInv
  OBVIOUS
<1> DEFINE c == slice_count(btx)
<1>1. /\ btx \in Txs /\ adder \in {"linearize", "length", "slice", "sha256", "pull"}
      /\ adder # "pull" => data = <<>>
      /\ adder = "slice" => adds = <<add_varint(c)>> \o add_tx(btx)
      /\ adder \in {"linearize", "length", "sha256"} => adds = add_tx(btx)
      /\ adder = "slice" => acc = [vec |-> [k \in 1 .. c * SliceLen |-> 0], index |-> 0, off |-> 0]
      /\ adder = "sha256" => acc = [buf |-> [k \in 1 .. BlockLen |-> 0], bytes |-> 0,
                                    blocks |-> <<>>, padded |-> FALSE]
      /\ adder = "length" => acc = 0
      /\ adder = "linearize" => acc = <<>>
  BY DEF TxInit
<1>2. /\ add_tx(btx) \in Seq(Seq(Symbols)) /\ Stream(btx) \in Seq(Symbols)
      /\ Len(Stream(btx)) \in Nat /\ FlattenSeq(add_tx(btx)) = Stream(btx)
  BY <1>1, AddTxIs DEF Stream
<1>3. c \in Nat /\ Len(add_varint(c)) + Len(Stream(btx)) <= c * SliceLen
  BY <1>1, SlicesEnough
<1>4. add_varint(c) \in Seq(Symbols)
  BY <1>3, VarintBytesAre
<1>5. /\ <<add_varint(c)>> \o add_tx(btx) \in Seq(Seq(Symbols))
      /\ FlattenSeq(<<add_varint(c)>> \o add_tx(btx)) = add_varint(c) \o Stream(btx)
  <2> HIDE DEF c, Symbols
  <2> QED BY <1>2, <1>4, FlattenCons
<1> HIDE DEF c, Symbols
<1>6. Adding
  <2>1. <<>> \in Seq(Symbols)
    BY EmptySeq
  <2> QED BY <1>1, <1>2, <1>5, <2>1 DEF Adding
<1>7. /\ \A s \in Seq(Symbols) : s \o <<>> = s /\ <<>> \o s = s
      /\ \A s, t \in Seq(Symbols) : s \o t \in Seq(Symbols) /\ Len(s \o t) = Len(s) + Len(t)
      /\ <<>> \in Seq(Symbols)
  BY Assoc
<1>8. adder # "pull" => Rest = FlattenSeq(adds)
  BY <1>1, <1>2, <1>4, <1>5, <1>7 DEF Rest
<1>9. Linearized
  <2> SUFFICES ASSUME adder = "linearize"
               PROVE  data = <<>> /\ acc \in Seq(Symbols) /\ acc \o Rest = Stream(btx)
    BY DEF Linearized
  <2> QED BY <1>1, <1>2, <1>7, <1>8
<1>10. Measured
  <2> SUFFICES ASSUME adder = "length"
               PROVE  data = <<>> /\ acc \in Nat /\ acc + Len(Rest) = Len(Stream(btx))
    BY DEF Measured
  <2>1. acc = 0 /\ data = <<>> /\ Rest = Stream(btx)
    BY <1>1, <1>2, <1>8
  <2> QED BY <1>2, <2>1
<1>11. Sliced
  <2> SUFFICES ASSUME adder = "slice"
               PROVE  /\ acc \in [vec : Seq(Symbols), index : Nat, off : 0 .. SliceLen - 1]
                      /\ Len(acc.vec) = c * SliceLen
                      /\ SubSeq(acc.vec, 1, Used) \o Rest = add_varint(c) \o Stream(btx)
                      /\ Used + Len(Rest) <= Len(acc.vec)
                      /\ \A k \in Used + 1 .. Len(acc.vec) : acc.vec[k] = 0
    BY DEF Sliced, c
  <2> DEFINE z == [k \in 1 .. c * SliceLen |-> 0]
  <2>1. c * SliceLen \in Nat /\ 0 \in 0 .. SliceLen - 1 /\ 0 * SliceLen + 0 = 0
    BY <1>3, BlockLenIs
  <2>2. z \in Seq(Symbols) /\ Len(z) = c * SliceLen
    BY <2>1, ZeroesAre
  <2>3. \A k \in 1 .. c * SliceLen : z[k] = 0
    OBVIOUS
  <2>4. acc = [vec |-> z, index |-> 0, off |-> 0]
    BY <1>1
  <2> HIDE DEF z
  <2>5. acc.vec = z /\ acc.index = 0 /\ acc.off = 0 /\ Used = 0
    BY <2>1, <2>4 DEF Used
  <2>6. acc \in [vec : Seq(Symbols), index : Nat, off : 0 .. SliceLen - 1]
    BY <2>1, <2>2, <2>4
  <2>7. SubSeq(z, 1, 0) = <<>>
    BY SubSeqEmpty
  <2>8. /\ Rest = add_varint(c) \o Stream(btx) /\ Rest \in Seq(Symbols)
        /\ Len(Rest) = Len(add_varint(c)) + Len(Stream(btx))
    <3>1. Rest = add_varint(c) \o Stream(btx)
      BY <1>1, <1>5, <1>8
    <3> QED BY <3>1, <1>2, <1>4, <1>7
  <2>9. SubSeq(acc.vec, 1, Used) \o Rest = add_varint(c) \o Stream(btx)
    BY <2>5, <2>7, <2>8, <1>7
  <2>10. Len(Rest) \in Nat /\ Used + Len(Rest) <= Len(acc.vec)
    BY <1>3, <2>2, <2>5, <2>8, LenProperties
  <2> QED BY <2>2, <2>3, <2>5, <2>6, <2>9, <2>10
<1>12. Hashed
  <2> SUFFICES ASSUME adder = "sha256" PROVE Hashed
    BY DEF Hashed
  <2> DEFINE z == [k \in 1 .. BlockLen |-> 0]
  <2>1. z \in Seq(Symbols) /\ Len(z) = BlockLen
    BY BlockLenIs, ZeroesAre
  <2>2. acc = [buf |-> z, bytes |-> 0, blocks |-> <<>>, padded |-> FALSE]
    BY <1>1
  <2> HIDE DEF z
  <2>3. <<>> \in Seq(Seq(Symbols))
    BY EmptySeq
  <2>4. /\ acc.buf = z /\ acc.bytes = 0 /\ acc.blocks = <<>> /\ acc.padded = FALSE
        /\ acc \in [buf : Seq(Symbols), bytes : Nat, blocks : Seq(Seq(Symbols)), padded : BOOLEAN]
    BY <2>1, <2>2, <2>3
  <2>5. 0 % BlockLen = 0
    BY BlockLenIs, SmallMod
  <2>6. SubSeq(z, 1, 0) = <<>> /\ <<>> \o <<>> = <<>>
    BY SubSeqEmpty, <1>7
  <2>7. Rest = Stream(btx)
    BY <1>1, <1>2, <1>8
  <2>8. FlattenSeq(acc.blocks) \o SubSeq(acc.buf, 1, acc.bytes % BlockLen) \o Rest = Stream(btx)
    BY <2>4, <2>5, <2>6, <2>7, <1>2, <1>7, FlattenNothing
  <2>9. acc.bytes + Len(Rest) = Len(Stream(btx))
    BY <1>2, <2>4, <2>7
  <2> QED BY <2>1, <2>4, <2>8, <2>9 DEF Hashed
<1> QED BY <1>6, <1>9, <1>10, <1>11, <1>12 DEF StreamInv

\* Concatenation of bytes is associative.
LEMMA SymbolsAssoc ==
  \A s, t, u \in Seq(Symbols) : (s \o t) \o u = s \o (t \o u)
BY Associative

\* Concatenation of bytes, and nothing.
LEMMA SymbolSeqs ==
  /\ \A s, t \in Seq(Symbols) : s \o t \in Seq(Symbols) /\ Len(s \o t) = Len(s) + Len(t)
  /\ \A s \in Seq(Symbols) : s \o <<>> = s /\ <<>> \o s = s /\ Len(s) \in Nat
  /\ <<>> \in Seq(Symbols)
BY Assoc

\* What can be a byte does not change.
LEMMA SymbolsStay == Symbols' = Symbols
BY DEF Symbols

\* The callback gets its next data.
LEMMA NextData ==
  ASSUME Adding, adder # "pull", adds # <<>>, data = <<>>, adds' = Tail(adds),
         UNCHANGED <<btx, adder>>
  PROVE  /\ Head(adds) \in Seq(Symbols) /\ Len(Head(adds)) \in Nat
         /\ data' \in Seq(Symbols) => Adding'
         /\ data' = Head(adds) => Rest' = Rest
         /\ data' = <<>> => Rest = Head(adds) \o Rest' /\ Rest' \in Seq(Symbols)
<1>1. /\ Head(adds) \in Seq(Symbols) /\ Tail(adds) \in Seq(Seq(Symbols))
      /\ FlattenSeq(adds) = Head(adds) \o FlattenSeq(Tail(adds))
  BY FlattenHead DEF Adding
<1>2. FlattenSeq(Tail(adds)) \in Seq(Symbols)
  BY <1>1, FlattenType
<1>3. /\ \A s \in Seq(Symbols) : <<>> \o s = s /\ Len(s) \in Nat
      /\ \A s, t \in Seq(Symbols) : s \o t \in Seq(Symbols)
      /\ <<>> \in Seq(Symbols)
  BY Assoc
<1>4. Rest = Head(adds) \o FlattenSeq(Tail(adds))
  BY <1>1, <1>2, <1>3 DEF Rest
<1>5. FlattenSeq(adds') = FlattenSeq(Tail(adds))
  OBVIOUS
<1>6. data' \in Seq(Symbols) => Adding'
  BY <1>1 DEF Adding, Symbols
<1> HIDE DEF Symbols
<1>7. data' = Head(adds) => Rest' = Rest
  BY <1>4, <1>5 DEF Rest
<1>8. data' = <<>> => Rest' = FlattenSeq(Tail(adds))
  BY <1>2, <1>3, <1>5 DEF Rest
<1> QED BY <1>1, <1>2, <1>3, <1>4, <1>6, <1>7, <1>8

\* add_tx calls the callback with the next field.
LEMMA CallAddOK == StreamInv /\ CallAdd => StreamInv'
<1> SUFFICES ASSUME StreamInv, CallAdd PROVE StreamInv'
  OBVIOUS
<1>1. /\ adds # <<>> /\ data = <<>> /\ adds' = Tail(adds) /\ UNCHANGED <<btx, adder>>
      /\ Adding
  BY DEF CallAdd, StreamInv
<1>2. CASE adder = "pull"
  <2>1. adder' = "pull" /\ btx' = btx
    BY <1>1, <1>2
  <2> QED BY <1>1, <2>1 DEF StreamInv, Adding, Linearized, Measured, Sliced, Hashed
<1>3. CASE adder # "pull"
  <2> DEFINE h == Head(adds)
  <2>1. /\ h \in Seq(Symbols) /\ Len(h) \in Nat
        /\ data' \in Seq(Symbols) => Adding'
        /\ data' = h => Rest' = Rest
        /\ data' = <<>> => Rest = h \o Rest' /\ Rest' \in Seq(Symbols)
    BY <1>1, <1>3, NextData
  <2>2. /\ \A s, t, u \in Seq(Symbols) : (s \o t) \o u = s \o (t \o u)
        /\ \A s, t \in Seq(Symbols) : s \o t \in Seq(Symbols) /\ Len(s \o t) = Len(s) + Len(t)
        /\ <<>> \in Seq(Symbols)
        /\ \A s \in Seq(Symbols) : Len(s) \in Nat
    BY Assoc
  <2>3. Stream(btx') = Stream(btx) /\ slice_count(btx') = slice_count(btx)
    BY <1>1
  <2>4. CASE adder = "linearize"
    <3>1. acc' = acc \o h /\ data' = <<>>
      BY <1>1, <2>4 DEF CallAdd
    <3>2. acc \in Seq(Symbols) /\ acc \o Rest = Stream(btx)
      BY <2>4 DEF StreamInv, Linearized
    <3>3. acc' \in Seq(Symbols) /\ acc' \o Rest' = Stream(btx)
      <4>1. Rest = h \o Rest' /\ Rest' \in Seq(Symbols) /\ h \in Seq(Symbols)
        BY <2>1, <3>1
      <4> HIDE DEF h
      <4>2. (acc \o h) \o Rest' = acc \o (h \o Rest')
        <5>1. acc \in Seq(Symbols) /\ h \in Seq(Symbols) /\ Rest' \in Seq(Symbols)
          BY <4>1, <3>2
        <5> QED BY <5>1, SymbolsAssoc
      <4>3. acc \o h \in Seq(Symbols)
        BY <4>1, <3>2, SymbolSeqs
      <4> QED BY <3>1, <3>2, <4>1, <4>2, <4>3
    <3>4. Linearized'
      BY <1>1, <3>1, <3>3 DEF Linearized, Symbols
    <3>5. Adding' /\ adder' = "linearize"
      BY <1>1, <2>1, <2>2, <2>4, <3>1
    <3> QED BY <3>4, <3>5 DEF StreamInv, Measured, Sliced, Hashed
  <2>5. CASE adder = "length"
    <3>1. acc' = acc + Len(h) /\ data' = <<>>
      BY <1>1, <2>5 DEF CallAdd
    <3>2. acc \in Nat /\ acc + Len(Rest) = Len(Stream(btx))
      BY <2>5 DEF StreamInv, Measured
    <3>3. Len(Rest) = Len(h) + Len(Rest') /\ Len(Rest') \in Nat
      BY <2>1, <2>2, <3>1
    <3>4. acc' \in Nat /\ acc' + Len(Rest') = Len(Stream(btx))
      BY <2>1, <3>1, <3>2, <3>3
    <3>5. Measured'
      BY <1>1, <3>1, <3>4 DEF Measured
    <3>6. Adding' /\ adder' = "length"
      BY <1>1, <2>1, <2>2, <2>5, <3>1
    <3> QED BY <3>5, <3>6 DEF StreamInv, Linearized, Sliced, Hashed
  <2>6. CASE adder \notin {"linearize", "length"}
    <3>1. data' = h /\ acc' = acc
      BY <1>1, <2>6 DEF CallAdd
    <3>2. Adding' /\ Rest' = Rest /\ adder' = adder
      BY <1>1, <2>1, <3>1
    <3>3. Used' = Used
      BY <3>1 DEF Used
    <3>4. Sliced'
      BY <1>1, <3>1, <3>2, <3>3, <2>3, SymbolsStay DEF StreamInv, Sliced
    <3>5. Hashed'
      <4>1. ShaMessage(Stream(btx')) = ShaMessage(Stream(btx))
        BY <1>1
      <4> QED BY <1>1, <3>1, <3>2, <2>3, <4>1, SymbolsStay DEF StreamInv, Hashed
    <3> QED BY <2>6, <3>2, <3>4, <3>5 DEF StreamInv, Linearized, Measured
  <2> QED BY <2>4, <2>5, <2>6
<1> QED BY <1>2, <1>3

\* m of the data are taken, and x is what is left.
LEMMA Consumes ==
  ASSUME Adding, adder # "pull", NEW m \in 0 .. Len(data),
         data' = SubSeq(data, m + 1, Len(data)), UNCHANGED <<btx, adder, adds>>
  PROVE  /\ Adding' /\ SubSeq(data, 1, m) \in Seq(Symbols) /\ Len(SubSeq(data, 1, m)) = m
         /\ Rest = SubSeq(data, 1, m) \o Rest'
         /\ Rest' \in Seq(Symbols) /\ Len(Rest') \in Nat /\ Len(Rest) = m + Len(Rest')
<1> DEFINE x == SubSeq(data, 1, m)
           F == FlattenSeq(adds)
<1>1. F \in Seq(Symbols) /\ data \in Seq(Symbols)
  BY RestIs
<1>2. x \in Seq(Symbols) /\ Len(x) = m /\ data' \in Seq(Symbols) /\ data = x \o data'
  BY <1>1, CutIs
<1>3. Adding'
  BY <1>2, SymbolsStay DEF Adding
<1>5. Rest' = data' \o F /\ Rest = (x \o data') \o F
  BY <1>2 DEF Rest
<1> HIDE DEF x, F, Symbols
<1>6. Rest = x \o Rest' /\ Rest' \in Seq(Symbols)
  <2>1. (x \o data') \o F = x \o (data' \o F)
    <3>1. x \in Seq(Symbols) /\ data' \in Seq(Symbols) /\ F \in Seq(Symbols)
      BY <1>1, <1>2
    <3> QED BY <3>1, SymbolsAssoc
  <2>2. data' \o F \in Seq(Symbols)
    BY <1>1, <1>2, SymbolSeqs
  <2> QED BY <1>5, <2>1, <2>2
<1>7. Len(Rest) = m + Len(Rest') /\ Len(Rest') \in Nat
  BY <1>2, <1>6, SymbolSeqs
<1> QED BY <1>2, <1>3, <1>6, <1>7 DEF x

\* What comes before can be regrouped.
LEMMA Regroup ==
  ASSUME NEW a \in Seq(Symbols), NEW b \in Seq(Symbols), NEW c \in Seq(Symbols)
  PROVE  (a \o b) \o c = a \o (b \o c)
BY SymbolsAssoc

\* add_slice fills what is left of a slice, or as much of it as there is data.
LEMMA AddSliceOK == StreamInv /\ AddSlice => StreamInv'
<1> SUFFICES ASSUME StreamInv, AddSlice PROVE StreamInv'
  OBVIOUS
<1> DEFINE m == Min({Len(data), SliceLen - acc.off})
           x == SubSeq(data, 1, m)
           val == CopyTo(acc.vec, Used, x)
           full == acc.off + m = SliceLen
<1>1. /\ adder = "slice" /\ data # <<>> /\ Adding /\ UNCHANGED <<btx, adder, adds>>
      /\ acc' = [vec |-> val, index |-> acc.index + IF full THEN 1 ELSE 0,
                 off |-> IF full THEN 0 ELSE acc.off + m]
      /\ data' = SubSeq(data, m + 1, Len(data))
  BY DEF AddSlice, StreamInv, Used
<1>2. /\ acc \in [vec : Seq(Symbols), index : Nat, off : 0 .. SliceLen - 1]
      /\ Len(acc.vec) = slice_count(btx) * SliceLen
      /\ SubSeq(acc.vec, 1, Used) \o Rest = add_varint(slice_count(btx)) \o Stream(btx)
      /\ Used + Len(Rest) <= Len(acc.vec)
      /\ \A k \in Used + 1 .. Len(acc.vec) : acc.vec[k] = 0
  BY <1>1 DEF StreamInv, Sliced
<1>3. /\ acc.vec \in Seq(Symbols) /\ acc.index \in Nat /\ acc.off \in 0 .. SliceLen - 1
      /\ Len(acc.vec) \in Nat
  BY <1>2, LenProperties
<1>4. Used \in Nat /\ Used = acc.index * SliceLen + acc.off
  BY <1>3, BlockLenIs DEF Used
<1>5. data \in Seq(Symbols) /\ Len(data) \in Nat /\ Len(data) >= 1
  <2>1. data \in Seq(Symbols)
    BY <1>1 DEF Adding
  <2> HIDE DEF Symbols
  <2>2. Len(data) \in Nat /\ Len(data) # 0
    BY <2>1, <1>1, EmptySeq, LenProperties
  <2> QED BY <2>1, <2>2
<1>6. m \in 1 .. Len(data) /\ m <= SliceLen - acc.off
  <2>1. SliceLen - acc.off \in Int /\ SliceLen - acc.off >= 1
    BY <1>3, BlockLenIs
  <2>2. m = Len(data) \/ m = SliceLen - acc.off
    <3>1. \E y \in {Len(data), SliceLen - acc.off} :
             \A z \in {Len(data), SliceLen - acc.off} : y <= z
      <4>1. CASE Len(data) <= SliceLen - acc.off
        BY <4>1, <1>5, <2>1
      <4>2. CASE ~(Len(data) <= SliceLen - acc.off)
        BY <4>2, <1>5, <2>1
      <4> QED BY <4>1, <4>2
    <3> QED BY <3>1 DEF Min
  <2>3. m \in 1 .. m
    BY <1>5, <2>1, <2>2
  <2>4. Len(data) \in Int
    BY <1>5
  <2>5. m <= Len(data) /\ m <= SliceLen - acc.off
    BY <2>1, <2>3, <2>4, LeastOfTwo
  <2> QED BY <1>5, <2>1, <2>2, <2>5
<1>7. /\ Adding' /\ x \in Seq(Symbols) /\ Len(x) = m /\ Rest = x \o Rest'
      /\ Rest' \in Seq(Symbols) /\ Len(Rest') \in Nat /\ Len(Rest) = m + Len(Rest')
  <2>1. m \in 0 .. Len(data) /\ adder # "pull"
    BY <1>1, <1>6
  <2> QED BY <2>1, <1>1, Consumes
<1> HIDE DEF m, x
<1>8. Used + m <= Len(acc.vec) /\ Used + m + Len(Rest') <= Len(acc.vec) /\ m \in Nat
  BY <1>2, <1>3, <1>4, <1>5, <1>6, <1>7
<1>9. /\ val \in Seq(Symbols) /\ Len(val) = Len(acc.vec)
      /\ SubSeq(val, 1, Used + m) = SubSeq(acc.vec, 1, Used) \o x
      /\ \A k \in Used + m + 1 .. Len(acc.vec) : val[k] = acc.vec[k]
  <2>1. Used + Len(x) <= Len(acc.vec)
    BY <1>7, <1>8
  <2> HIDE DEF Symbols
  <2>2. /\ val \in Seq(Symbols) /\ Len(val) = Len(acc.vec)
        /\ SubSeq(val, 1, Used + Len(x)) = SubSeq(acc.vec, 1, Used) \o x
        /\ \A k \in Used + Len(x) + 1 .. Len(acc.vec) : val[k] = acc.vec[k]
    <3>1. \A buf, y \in Seq(Symbols), at \in Nat :
            at + Len(y) <= Len(buf) =>
              /\ CopyTo(buf, at, y) \in Seq(Symbols) /\ Len(CopyTo(buf, at, y)) = Len(buf)
              /\ SubSeq(CopyTo(buf, at, y), 1, at + Len(y)) = SubSeq(buf, 1, at) \o y
              /\ \A k \in at + Len(y) + 1 .. Len(buf) : CopyTo(buf, at, y)[k] = buf[k]
      BY CopyToIs
    <3>2. acc.vec \in Seq(Symbols) /\ x \in Seq(Symbols) /\ Used \in Nat
      BY <1>3, <1>4, <1>7
    <3> QED BY <2>1, <3>1, <3>2
  <2> QED BY <2>2, <1>7
<1> HIDE DEF val
<1>10. /\ acc'.vec = val /\ Used' = Used + m
       /\ acc' \in [vec : Seq(Symbols), index : Nat, off : 0 .. SliceLen - 1]
  <2> DEFINE at == acc.index + IF full THEN 1 ELSE 0
             o == IF full THEN 0 ELSE acc.off + m
  <2>1. acc' = [vec |-> val, index |-> at, off |-> o]
    BY <1>1
  <2>2. at \in Nat /\ o \in 0 .. SliceLen - 1 /\ at * SliceLen + o = Used + m
    <3> DEFINE start == acc.index * SliceLen
    <3>1. start \in Nat /\ (acc.index + 1) * SliceLen = start + SliceLen /\ Used = start + acc.off
      BY <1>3, <1>4, BlockLenIs
    <3>2. at = IF full THEN acc.index + 1 ELSE acc.index
      BY <1>3
    <3>3. at * SliceLen = IF full THEN start + SliceLen ELSE start
      BY <3>1, <3>2
    <3>4. full <=> acc.off + m = SliceLen
      OBVIOUS
    <3>5. o = IF full THEN 0 ELSE acc.off + m
      OBVIOUS
    <3>6. at \in Nat
      BY <1>3, <3>2
    <3>7. acc.off + m \in Nat /\ acc.off + m <= SliceLen /\ SliceLen \in Nat \ {0}
      BY <1>3, <1>6, <1>8, BlockLenIs
    <3>8. Used + m = start + (acc.off + m)
      BY <3>1, <1>3, <1>8
    <3> DEFINE w == acc.off + m
    <3> HIDE DEF start, at
    <3>9. CASE full
      <4>1. at * SliceLen = start + SliceLen /\ o = 0 /\ w = SliceLen
        BY <3>3, <3>9
      <4> HIDE DEF w, o
      <4> QED BY <4>1, <3>1, <3>6, <3>7, <3>8 DEF w
    <3>10. CASE ~full
      <4>1. at * SliceLen = start /\ o = w /\ w # SliceLen
        BY <3>3, <3>10
      <4>2. w \in Nat /\ w <= SliceLen /\ Used + m = start + w
        BY <3>7, <3>8
      <4> HIDE DEF w, o, full
      <4> QED BY <4>1, <4>2, <3>1, <3>6, <3>7
    <3> QED BY <3>9, <3>10
  <2> HIDE DEF at, o, full
  <2>3. acc'.vec = val /\ acc'.index = at /\ acc'.off = o
    BY <2>1
  <2>4. Used' = at * SliceLen + o
    BY <2>3 DEF Used
  <2> QED BY <2>1, <2>2, <2>3, <2>4, <1>9
<1> HIDE DEF full
<1>11. SubSeq(acc'.vec, 1, Used') \o Rest' = add_varint(slice_count(btx)) \o Stream(btx)
  <2> DEFINE u == SubSeq(acc.vec, 1, Used)
  <2>1. u \in Seq(Symbols)
    <3>1. Used \in 0 .. Len(acc.vec)
      BY <1>3, <1>4, <1>8
    <3> HIDE DEF Symbols
    <3> QED BY <3>1, <1>3, CutIs
  <2>2. SubSeq(acc'.vec, 1, Used') = u \o x
    BY <1>9, <1>10
  <2> HIDE DEF u
  <2>3. (u \o x) \o Rest' = u \o (x \o Rest')
    BY <2>1, <1>7, Regroup
  <2>4. u \o Rest = add_varint(slice_count(btx)) \o Stream(btx)
    BY <1>2 DEF u
  <2> QED BY <2>2, <2>3, <2>4, <1>7
<1>12. Used' + Len(Rest') <= Len(acc'.vec)
  BY <1>8, <1>9, <1>10
<1>13. \A k \in Used' + 1 .. Len(acc'.vec) : acc'.vec[k] = 0
  <2> SUFFICES ASSUME NEW k \in Used + m + 1 .. Len(acc.vec) PROVE val[k] = 0
    BY <1>9, <1>10
  <2>1. k \in Used + 1 .. Len(acc.vec)
    BY <1>3, <1>4, <1>8
  <2> QED BY <2>1, <1>2, <1>9
<1>14. Sliced'
  <2>1. btx' = btx /\ Len(acc'.vec) = slice_count(btx) * SliceLen
    BY <1>1, <1>2, <1>9, <1>10
  <2> QED BY <2>1, <1>10, <1>11, <1>12, <1>13, SymbolsStay DEF Sliced
<1>15. adder' = "slice"
  BY <1>1
<1> QED BY <1>7, <1>14, <1>15 DEF StreamInv, Linearized, Measured, Hashed

\* CopyToIs for bytes.
LEMMA CopyIs ==
  ASSUME NEW buf \in Seq(Symbols), NEW y \in Seq(Symbols), NEW at \in Nat,
         at + Len(y) <= Len(buf)
  PROVE  /\ CopyTo(buf, at, y) \in Seq(Symbols) /\ Len(CopyTo(buf, at, y)) = Len(buf)
         /\ SubSeq(CopyTo(buf, at, y), 1, at + Len(y)) = SubSeq(buf, 1, at) \o y
BY CopyToIs

\* What a step of sha256 finds.
LEMMA HashFacts ==
  ASSUME StreamInv, adder = "sha256"
  PROVE  /\ Adding /\ acc.buf \in Seq(Symbols) /\ acc.bytes \in Nat
         /\ acc \in [buf : Seq(Symbols), bytes : Nat, blocks : Seq(Seq(Symbols)),
                     padded : BOOLEAN]
         /\ Len(acc.buf) = BlockLen /\ acc.bytes % BlockLen \in 0 .. BlockLen - 1
         /\ acc.bytes = BlockLen * (acc.bytes \div BlockLen) + (acc.bytes % BlockLen)
         /\ acc.bytes \div BlockLen \in Int
         /\ acc.blocks \in Seq(Seq(Symbols)) /\ FlattenSeq(acc.blocks) \in Seq(Symbols)
         /\ SubSeq(acc.buf, 1, acc.bytes % BlockLen) \in Seq(Symbols)
         /\ data \in Seq(Symbols) /\ Len(data) \in Nat
<1>1. /\ acc \in [buf : Seq(Symbols), bytes : Nat, blocks : Seq(Seq(Symbols)),
                  padded : BOOLEAN]
      /\ Len(acc.buf) = BlockLen /\ Adding
  BY DEF StreamInv, Hashed
<1>2. /\ acc.buf \in Seq(Symbols) /\ acc.bytes \in Nat /\ acc.blocks \in Seq(Seq(Symbols))
  BY <1>1
<1>3. /\ acc.bytes % BlockLen \in 0 .. BlockLen - 1
      /\ acc.bytes = BlockLen * (acc.bytes \div BlockLen) + (acc.bytes % BlockLen)
      /\ acc.bytes \div BlockLen \in Int
  <2>1. acc.bytes \in Int
    BY <1>2
  <2> QED BY <2>1, BlockLenIs, DivMod
<1>4. FlattenSeq(acc.blocks) \in Seq(Symbols)
  BY <1>2, FlattenType
<1>5. SubSeq(acc.buf, 1, acc.bytes % BlockLen) \in Seq(Symbols)
  <2>1. acc.bytes % BlockLen \in 0 .. Len(acc.buf)
    BY <1>1, <1>3, BlockLenIs
  <2> HIDE DEF Symbols
  <2> QED BY <2>1, <1>2, CutIs
<1>6. data \in Seq(Symbols)
  BY <1>1 DEF Adding
<1>7. Len(data) \in Nat
  BY <1>6, LenProperties
<1> QED BY <1>1, <1>2, <1>3, <1>4, <1>5, <1>6, <1>7

\* m of the data go to the buffer, which is transformed when full.
LEMMA ShaBlockOK == StreamInv /\ ShaBlock => StreamInv'
<1> SUFFICES ASSUME StreamInv, ShaBlock PROVE StreamInv'
  OBVIOUS
<1> DEFINE r == acc.bytes % BlockLen
           m == BlockLen - r
           x == SubSeq(data, 1, m)
           u == SubSeq(acc.buf, 1, r)
           f == FlattenSeq(acc.blocks)
           filled == CopyTo(acc.buf, r, x)
<1>1. /\ adder = "sha256" /\ UNCHANGED <<btx, adder, adds>>
      /\ r + Len(data) >= BlockLen /\ data' = SubSeq(data, m + 1, Len(data))
      /\ \E buf \in {filled, acc.buf} :
           acc' = [acc EXCEPT !.buf = buf, !.bytes = @ + m, !.blocks = Append(@, filled)]
  BY DEF ShaBlock
<1>2. /\ Adding /\ acc.buf \in Seq(Symbols) /\ acc.bytes \in Nat
      /\ acc \in [buf : Seq(Symbols), bytes : Nat, blocks : Seq(Seq(Symbols)),
                  padded : BOOLEAN]
      /\ Len(acc.buf) = BlockLen /\ r \in 0 .. BlockLen - 1
      /\ acc.bytes = BlockLen * (acc.bytes \div BlockLen) + r
      /\ acc.bytes \div BlockLen \in Int
      /\ acc.blocks \in Seq(Seq(Symbols)) /\ f \in Seq(Symbols) /\ u \in Seq(Symbols)
      /\ data \in Seq(Symbols) /\ Len(data) \in Nat
  BY <1>1, HashFacts
<1>3. /\ f \o u \o Rest = IF acc.padded THEN ShaMessage(Stream(btx)) ELSE Stream(btx)
      /\ ~acc.padded => acc.bytes + Len(Rest) = Len(Stream(btx))
  BY <1>1 DEF StreamInv, Hashed
<1>4. m \in 0 .. Len(data) /\ m \in Nat /\ r + m = BlockLen /\ r \in Nat
  <2>1. /\ r \in 0 .. BlockLen - 1 /\ r + Len(data) >= BlockLen /\ Len(data) \in Nat
        /\ m = BlockLen - r
    BY <1>1, <1>2
  <2> HIDE DEF r, m
  <2> QED BY <2>1, BlockLenIs
<1>5. /\ Adding' /\ x \in Seq(Symbols) /\ Len(x) = m /\ Rest = x \o Rest'
      /\ Rest' \in Seq(Symbols) /\ Len(Rest') \in Nat /\ Len(Rest) = m + Len(Rest')
  <2>1. adder # "pull"
    BY <1>1
  <2> HIDE DEF m
  <2> QED BY <2>1, <1>1, <1>2, <1>4, Consumes
<1>6. filled \in Seq(Symbols) /\ Len(filled) = BlockLen /\ filled = u \o x
  <2> HIDE DEF r, m, x, Symbols
  <2>1. r + Len(x) <= Len(acc.buf)
    BY <1>2, <1>4, <1>5, BlockLenIs
  <2>2. /\ filled \in Seq(Symbols) /\ Len(filled) = Len(acc.buf)
        /\ SubSeq(filled, 1, r + Len(x)) = SubSeq(acc.buf, 1, r) \o x
    BY <2>1, <1>2, <1>4, <1>5, CopyIs
  <2>3. r + Len(x) = Len(filled)
    BY <2>2, <1>2, <1>4, <1>5
  <2>4. SubSeq(filled, 1, Len(filled)) = filled
    BY <2>2, SubSeqFull
  <2> QED BY <2>2, <2>3, <2>4, <1>2 DEF u
<1>7. (acc.bytes + m) % BlockLen = 0
  <2> DEFINE q == acc.bytes \div BlockLen
  <2>1. q \in Int /\ acc.bytes = BlockLen * q + r
    BY <1>2
  <2> HIDE DEF q, r, m
  <2>2. acc.bytes + m = (q + 1) * BlockLen + 0
    BY <2>1, <1>2, <1>4, BlockLenIs
  <2>3. 0 \in 0 .. BlockLen - 1 /\ q + 1 \in Int /\ acc.bytes + m \in Int
    BY <2>1, <1>2, <1>4, BlockLenIs
  <2> QED BY <2>2, <2>3, BlockLenIs, ModUnique
<1>8. FlattenSeq(Append(acc.blocks, filled)) = f \o filled
  <2> HIDE DEF filled, Symbols
  <2> QED BY <1>2, <1>6, FlattenAppend
<1> HIDE DEF r, m, x, u, f, filled
<1>9. /\ acc' \in [buf : Seq(Symbols), bytes : Nat, blocks : Seq(Seq(Symbols)),
                   padded : BOOLEAN]
      /\ Len(acc'.buf) = BlockLen /\ acc'.buf \in Seq(Symbols)
      /\ acc'.bytes = acc.bytes + m /\ acc'.blocks = Append(acc.blocks, filled)
      /\ acc'.padded = acc.padded
  <2>1. PICK buf \in {filled, acc.buf} :
          acc' = [acc EXCEPT !.buf = buf, !.bytes = @ + m, !.blocks = Append(@, filled)]
    BY <1>1
  <2>2. buf \in Seq(Symbols) /\ Len(buf) = BlockLen
    BY <1>2, <1>6
  <2>3. acc.bytes + m \in Nat /\ Append(acc.blocks, filled) \in Seq(Seq(Symbols))
    <3>1. \A t \in Seq(Seq(Symbols)), y \in Seq(Symbols) : Append(t, y) \in Seq(Seq(Symbols))
      BY AppendProperties
    <3>2. acc.blocks \in Seq(Seq(Symbols)) /\ filled \in Seq(Symbols)
      BY <1>2, <1>6
    <3>3. acc.bytes \in Nat /\ m \in Nat
      BY <1>2, <1>4
    <3>4. Append(acc.blocks, filled) \in Seq(Seq(Symbols))
      BY <3>1, <3>2
    <3> QED BY <3>3, <3>4
  <2> HIDE DEF Symbols
  <2> QED BY <2>1, <2>2, <2>3, <1>2
<1>10. FlattenSeq(acc'.blocks) \o SubSeq(acc'.buf, 1, acc'.bytes % BlockLen) \o Rest'
         = IF acc.padded THEN ShaMessage(Stream(btx)) ELSE Stream(btx)
  <2>1. SubSeq(acc'.buf, 1, acc'.bytes % BlockLen) = <<>>
    BY <1>7, <1>9, SubSeqEmpty
  <2>2. (f \o u) \o (x \o Rest') = (f \o (u \o x)) \o Rest'
    <3>1. /\ f \in Seq(Symbols) /\ u \in Seq(Symbols) /\ x \in Seq(Symbols)
          /\ Rest' \in Seq(Symbols)
      BY <1>2, <1>5
    <3>2. f \o u \in Seq(Symbols)
      BY <3>1, SymbolSeqs
    <3>3. (f \o u) \o (x \o Rest') = ((f \o u) \o x) \o Rest'
      BY <3>1, <3>2, Regroup
    <3>4. (f \o u) \o x = f \o (u \o x)
      BY <3>1, Regroup
    <3> QED BY <3>3, <3>4
  <2>3. FlattenSeq(acc'.blocks) = f \o filled /\ f \o filled \in Seq(Symbols)
    BY <1>2, <1>6, <1>8, <1>9, SymbolSeqs
  <2>4. (f \o filled) \o <<>> = f \o filled
    BY <2>3, SymbolSeqs
  <2> QED BY <1>3, <1>5, <1>6, <2>1, <2>2, <2>3, <2>4
<1>11. ~acc.padded => acc'.bytes + Len(Rest') = Len(Stream(btx))
  <2>1. /\ acc.bytes \in Nat /\ m \in Nat /\ acc'.bytes = acc.bytes + m
        /\ Len(Rest') \in Nat /\ Len(Rest) = m + Len(Rest')
        /\ ~acc.padded => acc.bytes + Len(Rest) = Len(Stream(btx))
    BY <1>2, <1>3, <1>4, <1>5, <1>9
  <2> QED BY <2>1
<1>12. Hashed'
  <2>1. btx' = btx
    BY <1>1
  <2> QED BY <2>1, <1>9, <1>10, <1>11, SymbolsStay DEF Hashed
<1>13. adder' = "sha256"
  BY <1>1
<1> QED BY <1>5, <1>12, <1>13 DEF StreamInv, Linearized, Measured, Sliced

\* sha256_update keeps the data that does not fill a block.
LEMMA ShaRestOK == StreamInv /\ ShaRest => StreamInv'
<1> SUFFICES ASSUME StreamInv, ShaRest PROVE StreamInv'
  OBVIOUS
<1> DEFINE r == acc.bytes % BlockLen
           n == Len(data)
           u == SubSeq(acc.buf, 1, r)
           f == FlattenSeq(acc.blocks)
           filled == CopyTo(acc.buf, r, data)
<1>1. /\ adder = "sha256" /\ UNCHANGED <<btx, adder, adds>>
      /\ r + n < BlockLen /\ data' = <<>>
      /\ acc' = [acc EXCEPT !.buf = filled, !.bytes = @ + n]
  BY DEF ShaRest
<1>2. /\ Adding /\ acc.buf \in Seq(Symbols) /\ acc.bytes \in Nat
      /\ acc \in [buf : Seq(Symbols), bytes : Nat, blocks : Seq(Seq(Symbols)),
                  padded : BOOLEAN]
      /\ Len(acc.buf) = BlockLen /\ r \in 0 .. BlockLen - 1
      /\ acc.bytes = BlockLen * (acc.bytes \div BlockLen) + r
      /\ acc.bytes \div BlockLen \in Int
      /\ acc.blocks \in Seq(Seq(Symbols)) /\ f \in Seq(Symbols) /\ u \in Seq(Symbols)
      /\ data \in Seq(Symbols) /\ n \in Nat
  BY <1>1, HashFacts
<1>3. /\ f \o u \o Rest = IF acc.padded THEN ShaMessage(Stream(btx)) ELSE Stream(btx)
      /\ ~acc.padded => acc.bytes + Len(Rest) = Len(Stream(btx))
  BY <1>1 DEF StreamInv, Hashed
<1>4. /\ Adding' /\ Rest = data \o Rest'
      /\ Rest' \in Seq(Symbols) /\ Len(Rest') \in Nat /\ Len(Rest) = n + Len(Rest')
  <2>1. adder # "pull" /\ n \in 0 .. n
    BY <1>1, <1>2
  <2>2. SubSeq(data, n + 1, n) = <<>> /\ SubSeq(data, 1, n) = data
    BY <1>2, SubSeqEmpty, SubSeqFull
  <2>3. data' = SubSeq(data, n + 1, Len(data))
    BY <1>1, <2>2
  <2> HIDE DEF Symbols
  <2> QED BY <2>1, <2>2, <2>3, <1>1, <1>2, Consumes
<1>5. /\ filled \in Seq(Symbols) /\ Len(filled) = BlockLen
      /\ SubSeq(filled, 1, r + n) = u \o data
  <2>1. r + n <= Len(acc.buf) /\ r \in Nat
    <3>1. /\ r + n < BlockLen /\ Len(acc.buf) = BlockLen /\ r \in 0 .. BlockLen - 1
          /\ n \in Nat
      BY <1>1, <1>2
    <3> HIDE DEF r, n
    <3> QED BY <3>1, BlockLenIs
  <2> HIDE DEF r
  <2>2. /\ filled \in Seq(Symbols) /\ Len(filled) = Len(acc.buf)
        /\ SubSeq(filled, 1, r + Len(data)) = SubSeq(acc.buf, 1, r) \o data
    BY <2>1, <1>2, CopyIs
  <2> QED BY <2>2, <1>2
<1>6. (acc.bytes + n) % BlockLen = r + n
  <2> DEFINE q == acc.bytes \div BlockLen
  <2>1. q \in Int /\ acc.bytes = BlockLen * q + r /\ r \in 0 .. BlockLen - 1
        /\ n \in Nat /\ r + n < BlockLen
    BY <1>1, <1>2
  <2> HIDE DEF q, r, n
  <2>2. acc.bytes + n = q * BlockLen + (r + n)
    BY <2>1, BlockLenIs
  <2>3. r + n \in 0 .. BlockLen - 1 /\ acc.bytes + n \in Int
    BY <2>1, <1>2, BlockLenIs
  <2> DEFINE k == r + n
             b == acc.bytes + n
  <2> HIDE DEF k, b
  <2>4. b \in Int /\ k \in 0 .. BlockLen - 1 /\ b = q * BlockLen + k
    BY <2>2, <2>3 DEF k, b
  <2>5. b % BlockLen = k
    BY <2>1, <2>4, BlockLenIs, ModUnique
  <2> QED BY <2>5 DEF k, b
<1> HIDE DEF r, n, u, f, filled
<1>7. /\ acc' \in [buf : Seq(Symbols), bytes : Nat, blocks : Seq(Seq(Symbols)),
                   padded : BOOLEAN]
      /\ acc'.buf = filled /\ acc'.bytes = acc.bytes + n /\ acc'.blocks = acc.blocks
      /\ acc'.padded = acc.padded
  <2>1. acc.bytes + n \in Nat
    <3>1. acc.bytes \in Nat /\ n \in Nat
      BY <1>2
    <3> QED BY <3>1
  <2> HIDE DEF Symbols
  <2> QED BY <1>1, <1>2, <1>5, <2>1
<1>8. FlattenSeq(acc'.blocks) \o SubSeq(acc'.buf, 1, acc'.bytes % BlockLen) \o Rest'
        = IF acc.padded THEN ShaMessage(Stream(btx)) ELSE Stream(btx)
  <2>1. SubSeq(acc'.buf, 1, acc'.bytes % BlockLen) = u \o data
    BY <1>5, <1>6, <1>7
  <2>2. (f \o u) \o (data \o Rest') = (f \o (u \o data)) \o Rest'
    <3>1. /\ f \in Seq(Symbols) /\ u \in Seq(Symbols) /\ data \in Seq(Symbols)
          /\ Rest' \in Seq(Symbols)
      BY <1>2, <1>4
    <3>2. f \o u \in Seq(Symbols)
      BY <3>1, SymbolSeqs
    <3>3. (f \o u) \o (data \o Rest') = ((f \o u) \o data) \o Rest'
      BY <3>1, <3>2, Regroup
    <3>4. (f \o u) \o data = f \o (u \o data)
      BY <3>1, Regroup
    <3> QED BY <3>3, <3>4
  <2>3. FlattenSeq(acc'.blocks) = f
    BY <1>7 DEF f
  <2> QED BY <1>3, <1>4, <2>1, <2>2, <2>3
<1>9. ~acc.padded => acc'.bytes + Len(Rest') = Len(Stream(btx))
  <2>1. /\ acc.bytes \in Nat /\ n \in Nat /\ acc'.bytes = acc.bytes + n
        /\ Len(Rest') \in Nat /\ Len(Rest) = n + Len(Rest')
        /\ ~acc.padded => acc.bytes + Len(Rest) = Len(Stream(btx))
    BY <1>2, <1>3, <1>4, <1>7
  <2> QED BY <2>1
<1>10. Hashed'
  <2>1. btx' = btx
    BY <1>1
  <2> QED BY <2>1, <1>5, <1>7, <1>8, <1>9, SymbolsStay DEF Hashed
<1>11. adder' = "sha256"
  BY <1>1
<1> QED BY <1>4, <1>10, <1>11 DEF StreamInv, Linearized, Measured, Sliced

\* sha256_done pads with as many zeroes as SHA256 asks for.
LEMMA PaddingIs ==
  ASSUME NEW n \in Nat
  PROVE  LET z == (2 * BlockLen - SizeLen - 1 - (n % BlockLen)) % BlockLen
             Even(k) == (n + 1 + k + SizeLen) % BlockLen = 0
         IN /\ z \in 0 .. BlockLen - 1 /\ Even(z)
            /\ \A k \in 0 .. BlockLen - 1 : Even(k) => k = z
<1> DEFINE r == n % BlockLen
           q == n \div BlockLen
           y == 2 * BlockLen - SizeLen - 1 - r
           z == y % BlockLen
           start == y \div BlockLen
<1>1. r \in 0 .. BlockLen - 1 /\ n = BlockLen * q + r /\ q \in Int
  BY BlockLenIs, DivMod
<1>2. y \in Int
  <2> HIDE DEF r
  <2> QED BY <1>1, BlockLenIs
<1>3. z \in 0 .. BlockLen - 1 /\ y = BlockLen * start + z /\ start \in Int
  <2> HIDE DEF y
  <2> QED BY <1>2, BlockLenIs, DivMod
<1>4. y = 2 * BlockLen - SizeLen - 1 - r
  OBVIOUS
<1> DEFINE L(k) == n + 1 + k + SizeLen
<1> HIDE DEF r, q, y, z, start
<1>5. L(z) % BlockLen = 0
  <2>1. L(z) = (q + 2 - start) * BlockLen + 0
    <3>1. (q + 2 - start) * BlockLen = BlockLen * q + 2 * BlockLen - BlockLen * start
      BY <1>1, <1>3, BlockLenIs
    <3>2. BlockLen * q \in Int /\ BlockLen * start \in Int
      BY <1>1, <1>3, BlockLenIs
    <3> DEFINE bq == BlockLen * q
               bp == BlockLen * start
    <3> HIDE DEF bq, bp
    <3>3. bq \in Int /\ bp \in Int /\ n = bq + r /\ y = bp + z
      BY <3>2, <1>1, <1>3 DEF bq, bp
    <3>4. n + 1 + z + SizeLen = bq + 2 * BlockLen - bp
      BY <3>3, <1>1, <1>3, <1>4, BlockLenIs
    <3>5. (q + 2 - start) * BlockLen = bq + 2 * BlockLen - bp
      BY <3>1 DEF bq, bp
    <3>6. bq + 2 * BlockLen - bp \in Int
      BY <3>3, BlockLenIs
    <3>7. L(z) = (q + 2 - start) * BlockLen
      BY <3>4, <3>5
    <3> DEFINE g == (q + 2 - start) * BlockLen
    <3> HIDE DEF g, L
    <3>8. g \in Int /\ L(z) = g
      BY <3>5, <3>6, <3>7 DEF g
    <3>9. L(z) = g + 0
      BY <3>8
    <3> QED BY <3>9 DEF g
  <2>2. L(z) \in Int /\ q + 2 - start \in Int /\ 0 \in 0 .. BlockLen - 1
    BY <1>1, <1>3, BlockLenIs
  <2> HIDE DEF L
  <2> QED BY <2>1, <2>2, BlockLenIs, ModUnique
<1>6. ASSUME NEW k \in 0 .. BlockLen - 1, L(k) % BlockLen = 0 PROVE k = z
  <2>1. L(k) \in Int /\ L(z) \in Int
    BY <1>3, BlockLenIs
  <2> DEFINE a == L(k) \div BlockLen
             b == L(z) \div BlockLen
  <2>2. /\ a \in Int /\ L(k) = BlockLen * a + 0
        /\ b \in Int /\ L(z) = BlockLen * b + 0
    <3> HIDE DEF L
    <3> QED BY <2>1, <1>5, <1>6, BlockLenIs, DivMod
  <2>3. L(k) - L(z) = k - z
    BY <1>3, BlockLenIs
  <2> HIDE DEF a, b, L
  <2>4. k - z = BlockLen * (a - b)
    BY <2>2, <2>3, <1>3, BlockLenIs
  <2>5. k - z \in 1 - BlockLen .. BlockLen - 1
    BY <1>3, BlockLenIs
  <2>6. \A d \in Int : (d >= 1 => BlockLen * d >= BlockLen)
                       /\ (d <= -1 => BlockLen * d <= -BlockLen)
    BY BlockLenIs
  <2>7. a - b \in Int
    BY <2>2
  <2>8. a - b = 0
    <3> DEFINE d == a - b
               g == k - z
    <3> HIDE DEF d, g
    <3>1. d \in Int /\ g = BlockLen * d /\ g \in 1 - BlockLen .. BlockLen - 1
      BY <2>4, <2>5, <2>7 DEF d, g
    <3>2. /\ d >= 1 => BlockLen * d >= BlockLen
          /\ d <= -1 => BlockLen * d <= -BlockLen
      BY <2>6, <3>1
    <3>3. ~(d >= 1) /\ ~(d <= -1)
      BY <3>1, <3>2, BlockLenIs
    <3> QED BY <3>1, <3>3 DEF d
  <2>9. k - z = 0
    BY <2>4, <2>8, BlockLenIs
  <2> QED BY <2>9, <1>3, BlockLenIs
<1>7. z = (2 * BlockLen - SizeLen - 1 - (n % BlockLen)) % BlockLen
  BY DEF z, y, r
<1> QED BY <1>3, <1>5, <1>6, <1>7

\* The padding that SHA256 asks for, as sha256_done computes it.
LEMMA MessageIs ==
  ASSUME NEW s, Len(s) \in Nat
  PROVE  LET z == (2 * BlockLen - SizeLen - 1 - (Len(s) % BlockLen)) % BlockLen
         IN ShaMessage(s) = s \o <<ByteValues \div 2>> \o [k \in 1 .. z |-> 0]
                              \o SizeDesc(Len(s))
<1> DEFINE n == Len(s)
           z == (2 * BlockLen - SizeLen - 1 - (n % BlockLen)) % BlockLen
           W(k) == (n + 1 + k + SizeLen) % BlockLen = 0
           c == CHOOSE k \in 0 .. BlockLen - 1 : W(k)
<1>1. /\ z \in 0 .. BlockLen - 1 /\ W(z)
      /\ \A k \in 0 .. BlockLen - 1 : W(k) => k = z
  BY PaddingIs
<1>2. ShaMessage(s) = s \o <<ByteValues \div 2>> \o [k \in 1 .. c |-> 0] \o SizeDesc(n)
  BY DEF ShaMessage
<1> HIDE DEF z, W
<1>3. c = z
  BY <1>1
<1> QED BY <1>2, <1>3 DEF z

\* sha256_done pads.
LEMMA ShaDoneOK == StreamInv /\ ShaDone => StreamInv'
<1> SUFFICES ASSUME StreamInv, ShaDone PROVE StreamInv'
  OBVIOUS
<1> DEFINE s == Stream(btx)
           u == SubSeq(acc.buf, 1, acc.bytes % BlockLen)
           f == FlattenSeq(acc.blocks)
           z == (2 * BlockLen - SizeLen - 1 - (acc.bytes % BlockLen)) % BlockLen
           o == [k \in 1 .. z |-> 0]
           b == <<ByteValues \div 2>>
           d == SizeDesc(acc.bytes)
<1>1. /\ adder = "sha256" /\ adds = <<>> /\ data = <<>> /\ ~acc.padded
      /\ acc' = [acc EXCEPT !.padded = TRUE] /\ UNCHANGED <<btx, adder, data>>
      /\ adds' = <<b \o o, d>>
  BY DEF ShaDone
<1>2. /\ Adding /\ acc.buf \in Seq(Symbols) /\ acc.bytes \in Nat
      /\ acc \in [buf : Seq(Symbols), bytes : Nat, blocks : Seq(Seq(Symbols)),
                  padded : BOOLEAN]
      /\ Len(acc.buf) = BlockLen
      /\ acc.blocks \in Seq(Seq(Symbols)) /\ f \in Seq(Symbols) /\ u \in Seq(Symbols)
  BY <1>1, HashFacts
<1>3. /\ f \o u \o Rest = s /\ acc.bytes + Len(Rest) = Len(s)
  BY <1>1 DEF StreamInv, Hashed
<1>4. Rest = <<>> /\ Len(Rest) = 0
  BY <1>1, FlattenNothing, SymbolSeqs DEF Rest
<1>5. f \o u = s /\ s \in Seq(Symbols) /\ Len(s) = acc.bytes
  <2>1. f \o u \in Seq(Symbols)
    BY <1>2, SymbolSeqs
  <2>2. (f \o u) \o <<>> = f \o u
    BY <2>1, SymbolSeqs
  <2> HIDE DEF f, u, s
  <2>3. Len(s) = acc.bytes
    BY <1>2, <1>3, <1>4
  <2> QED BY <2>1, <2>2, <2>3, <1>3, <1>4
<1>6. z \in Nat
  <2>1. z \in 0 .. BlockLen - 1
    BY <1>2, PaddingIs
  <2> QED BY <2>1, BlockLenIs
<1>7. o \in Seq(Symbols) /\ b \in Seq(Symbols) /\ d \in Seq(Symbols)
      /\ b \o o \in Seq(Symbols)
  <2>1. o \in Seq(Symbols)
    BY <1>6, ZeroesAre
  <2>2. ByteValues \div 2 \in Symbols
    BY DEF Symbols
  <2>3. d \in Seq(Symbols)
    BY <1>2, SizeDescIs
  <2> HIDE DEF Symbols, o, d
  <2>4. b \in Seq(Symbols)
    BY <2>2
  <2> HIDE DEF b
  <2> QED BY <2>1, <2>3, <2>4, SymbolSeqs
<1>8. ShaMessage(s) = s \o b \o o \o d
  <2>1. Len(s) \in Nat
    BY <1>2, <1>5
  <2> HIDE DEF s
  <2> QED BY <2>1, <1>5, MessageIs
<1> HIDE DEF s, u, f, z, o, b, d
<1>9. /\ adds' \in Seq(Seq(Symbols)) /\ FlattenSeq(adds') = (b \o o) \o d
  <2> HIDE DEF Symbols
  <2> DEFINE e == b \o o
             T == Seq(Symbols)
  <2>2. e \in T /\ d \in T
    BY <1>7
  <2> HIDE DEF e, T
  <2>3. /\ <<e, d>> \in Seq(T) /\ <<e, d>> # <<>> /\ Head(<<e, d>>) = e
        /\ Tail(<<e, d>>) = <<d>>
        /\ <<d>> \in Seq(T) /\ <<d>> # <<>> /\ Head(<<d>>) = d /\ Tail(<<d>>) = <<>>
    BY <2>2
  <2>4. /\ FlattenSeq(<<e, d>>) = e \o FlattenSeq(<<d>>)
        /\ FlattenSeq(<<d>>) = d \o FlattenSeq(<<>>)
    <3>1. \A t \in Seq(T) : t # <<>> => FlattenSeq(t) = Head(t) \o FlattenSeq(Tail(t))
      BY FlattenHead DEF T
    <3> QED BY <3>1, <2>3
  <2>5. d \o <<>> = d
    BY <1>7, SymbolSeqs
  <2>6. FlattenSeq(<<e, d>>) = e \o d
    BY <2>4, <2>5, FlattenNothing
  <2> QED BY <1>1, <2>3, <2>6 DEF e, T
<1>10. Adding'
  <2>1. <<>> \in Seq(Symbols)
    BY SymbolSeqs
  <2> QED BY <1>1, <1>2, <1>9, <2>1, SymbolsStay DEF Adding
<1>11. Rest' = (b \o o) \o d
  <2>1. (b \o o) \o d \in Seq(Symbols)
    BY <1>7, SymbolSeqs
  <2>2. <<>> \o ((b \o o) \o d) = (b \o o) \o d
    BY <2>1, SymbolSeqs
  <2>3. data' = <<>>
    BY <1>1
  <2> QED BY <1>9, <2>2, <2>3 DEF Rest
<1>12. acc' \in [buf : Seq(Symbols), bytes : Nat, blocks : Seq(Seq(Symbols)),
                 padded : BOOLEAN]
       /\ acc'.buf = acc.buf /\ acc'.bytes = acc.bytes /\ acc'.blocks = acc.blocks
       /\ acc'.padded = TRUE
  <2> HIDE DEF Symbols
  <2> QED BY <1>1, <1>2
<1>13. (f \o u) \o ((b \o o) \o d) = ShaMessage(s)
  <2>1. s \o b \in Seq(Symbols)
    BY <1>5, <1>7, SymbolSeqs
  <2>2. s \o (b \o o) = (s \o b) \o o
    BY <1>5, <1>7, Regroup
  <2>3. s \o ((b \o o) \o d) = (s \o (b \o o)) \o d
    BY <1>5, <1>7, Regroup
  <2> QED BY <1>5, <1>8, <2>2, <2>3
<1>14. Hashed'
  <2>1. btx' = btx /\ Stream(btx') = s /\ ShaMessage(Stream(btx')) = ShaMessage(s)
    BY <1>1 DEF s
  <2>2. FlattenSeq(acc'.blocks) = f /\ SubSeq(acc'.buf, 1, acc'.bytes % BlockLen) = u
    BY <1>12 DEF f, u
  <2>3. FlattenSeq(acc'.blocks) \o SubSeq(acc'.buf, 1, acc'.bytes % BlockLen) \o Rest'
          = ShaMessage(Stream(btx'))
    BY <2>1, <2>2, <1>11, <1>13
  <2> QED BY <2>3, <1>2, <1>12, SymbolsStay DEF Hashed
<1>15. adder' = "sha256"
  BY <1>1
<1> QED BY <1>10, <1>14, <1>15 DEF StreamInv, Linearized, Measured, Sliced

\* The reader and the end leave the data that is added alone.
LEMMA AddStays == StreamInv /\ UNCHANGED <<btx, adder, adds, data, acc>> => StreamInv'
<1> SUFFICES ASSUME StreamInv, UNCHANGED <<btx, adder, adds, data, acc>> PROVE StreamInv'
  OBVIOUS
<1>1. /\ Rest' = Rest /\ Used' = Used /\ Stream(btx') = Stream(btx)
      /\ ShaMessage(Stream(btx')) = ShaMessage(Stream(btx))
      /\ slice_count(btx') = slice_count(btx)
  BY DEF Rest, Used
<1>2. Adding' /\ Linearized' /\ Measured'
  BY <1>1, SymbolsStay DEF StreamInv, Adding, Linearized, Measured
<1>3. Sliced'
  BY <1>1, SymbolsStay DEF StreamInv, Sliced
<1>4. Hashed'
  BY <1>1, SymbolsStay DEF StreamInv, Hashed
<1> QED BY <1>2, <1>3, <1>4 DEF StreamInv

\* Each callback of add_tx has made of the data so far what it should, and what it
\* made can be told from its own state (add_slice, sha256_update, sha256_done).
THEOREM AlwaysStreamInv == TxSpec => []StreamInv
<1>1. StreamInv /\ [TxNext]_tvars => StreamInv'
  <2> SUFFICES ASSUME StreamInv, [TxNext]_tvars PROVE StreamInv'
    OBVIOUS
  <2>1. CASE CallAdd
    BY <2>1, CallAddOK
  <2>2. CASE AddSlice
    BY <2>2, AddSliceOK
  <2>3. CASE ShaBlock
    BY <2>3, ShaBlockOK
  <2>4. CASE ShaRest
    BY <2>4, ShaRestOK
  <2>5. CASE ShaDone
    BY <2>5, ShaDoneOK
  <2>6. CASE PullVarint
    BY <2>6, AddStays DEF PullVarint
  <2>7. CASE PullField
    BY <2>7, AddStays DEF PullField
  <2>8. CASE Finished \/ UNCHANGED tvars
    BY <2>8, AddStays DEF Finished, tvars
  <2> QED BY <2>1, <2>2, <2>3, <2>4, <2>5, <2>6, <2>7, <2>8 DEF TxNext
<1> QED BY <1>1, AddInit, PTL DEF TxSpec

\* Wherever the ends of the fields fall, each callback of add_tx makes the same
\* stream of them: the vector, its length, the slices with zeroes after it, and the
\* blocks SHA256 transforms with the padding its definition asks for (add_linearize,
\* add_length, add_slice, sha256_update, sha256_done).
THEOREM StreamsAlwaysAgree == TxSpec => []StreamsAgree
<1>1. StreamInv => StreamsAgree
  <2> SUFFICES ASSUME StreamInv PROVE StreamsAgree
    OBVIOUS
  <2>1. /\ adder = "linearize" => acc \o Rest = Stream(btx)
        /\ adder = "length" => acc + Len(Rest) = Len(Stream(btx))
        /\ adder = "slice" =>
             /\ SubSeq(acc.vec, 1, Used) \o Rest = add_varint(slice_count(btx)) \o Stream(btx)
             /\ \A k \in Used + 1 .. Len(acc.vec) : acc.vec[k] = 0
        /\ adder = "sha256" =>
             FlattenSeq(acc.blocks) \o SubSeq(acc.buf, 1, acc.bytes % BlockLen) \o Rest
               = IF acc.padded THEN ShaMessage(Stream(btx)) ELSE Stream(btx)
    BY DEF StreamInv, Linearized, Measured, Sliced, Hashed
  <2> QED BY <2>1 DEF StreamsAgree, Rest, Used
<1> QED BY <1>1, AlwaysStreamInv, PTL

-----------------------------------------------------------------------------
(***************************************************************************)
(* The message that carries a block: where in it each number, each byte    *)
(* and each bit of the two sets lies, and what wire_decode has made of     *)
(* those that arrived, loop by loop.                                       *)
(***************************************************************************)

\* There are finitely many strings.
LEMMA StringsFinite ==
  ASSUME WireAssumption
  PROVE  IsFiniteSet(Strings)
<1> DEFINE S(n) == [1 .. n -> BOOLEAN]
           T == {S(n) : n \in 0 .. MaxLen}
           g == [n \in 0 .. MaxLen |-> S(n)]
<1>0. MaxLen \in Nat
  BY DEF WireAssumption
<1>1. ASSUME NEW n \in 0 .. MaxLen PROVE IsFiniteSet(S(n))
  <2> DEFINE f == [s \in S(n) |-> {k \in 1 .. n : s[k]}]
  <2>1. f \in [S(n) -> SUBSET (1 .. n)]
    OBVIOUS
  <2>2. ASSUME NEW s \in S(n), NEW t \in S(n), f[s] = f[t] PROVE s = t
    <3>1. \A k \in 1 .. n : s[k] <=> t[k]
      BY <2>2, Zenon
    <3>2. \A k \in 1 .. n : s[k] \in BOOLEAN /\ t[k] \in BOOLEAN
      OBVIOUS
    <3>3. \A k \in 1 .. n : s[k] = t[k]
      BY <3>1, <3>2, Zenon
    <3> QED BY <3>3
  <2>3. f \in Injection(S(n), SUBSET (1 .. n))
    <3> HIDE DEF f, S
    <3> QED BY <2>1, <2>2 DEF Injection, IsInjective
  <2>4. IsFiniteSet(SUBSET (1 .. n))
    <3>1. IsFiniteSet(1 .. n)
      BY <1>0, FS_Interval
    <3> QED BY <3>1, FS_SUBSET
  <2> HIDE DEF f, S
  <2> QED BY <2>3, <2>4, FS_Injection
<1>2. IsFiniteSet(T)
  <2>1. g \in Surjection(0 .. MaxLen, T)
    <3> HIDE DEF S
    <3> QED BY DEF Surjection
  <2>2. IsFiniteSet(0 .. MaxLen)
    BY <1>0, FS_Interval
  <2> HIDE DEF g, T
  <2> QED BY <2>1, <2>2, FS_Surjection
<1>3. \A R \in T : IsFiniteSet(R)
  <2> HIDE DEF S
  <2> QED BY <1>1
<1>4. Strings = UNION T
  BY DEF Strings
<1> HIDE DEF T
<1> QED BY <1>2, <1>3, <1>4, FS_UNION

\* A set of strings: all are sequences of bits, and it is finite.
LEMMA BitsetIs ==
  ASSUME WireAssumption, NEW b \in Bitsets
  PROVE  /\ b \subseteq Strings /\ IsFiniteSet(b)
         /\ \A s \in b : s \in Seq(BOOLEAN) /\ Len(s) \in 0 .. MaxLen
                         /\ (s = <<>> <=> Len(s) = 0)
         /\ \A n \in Nat : IsFiniteSet(OfLength(b, n)) /\ Cardinality(OfLength(b, n)) \in Nat
<1>1. b \subseteq Strings
  BY DEF WireAssumption
<1>2. IsFiniteSet(b)
  BY <1>1, StringsFinite, FS_Subset
<1>3. ASSUME NEW s \in b
      PROVE  s \in Seq(BOOLEAN) /\ Len(s) \in 0 .. MaxLen /\ (s = <<>> <=> Len(s) = 0)
  <2>1. PICK n \in 0 .. MaxLen : s \in [1 .. n -> BOOLEAN]
    BY <1>1 DEF Strings
  <2>2. MaxLen \in Nat /\ n \in Nat
    BY <2>1 DEF WireAssumption
  <2>3. s \in Seq(BOOLEAN)
    BY <2>1, <2>2, SeqDef
  <2>4. Len(s) = n
    BY <2>1, <2>2
  <2>5. s = <<>> <=> Len(s) = 0
    BY <2>3
  <2> QED BY <2>2, <2>3, <2>4, <2>5
<1>4. ASSUME NEW n \in Nat
      PROVE  IsFiniteSet(OfLength(b, n)) /\ Cardinality(OfLength(b, n)) \in Nat
  <2>1. OfLength(b, n) \in SUBSET b
    BY DEF OfLength
  <2> QED BY <1>2, <2>1, FS_Subset, FS_CardinalityType
<1> QED BY <1>1, <1>2, <1>3, <1>4

\* How a set of bit strings is sent: the shortest length and the number of
\* lengths, the strings in their order, and the bits of the first n of them.
Encoding(e, b) ==
  /\ e.min \in 0 .. MaxLen /\ e.num \in 0 .. MaxLen
  /\ e.min + e.num <= MaxLen + 1
  /\ e.num > 0 => e.min > 0
  /\ e.order \in Seq(b) /\ \A s \in b : \E m \in 1 .. Len(e.order) : e.order[m] = s
  /\ \A m, n \in 1 .. Len(e.order) : e.order[m] = e.order[n] => m = n
  /\ \A m, n \in 1 .. Len(e.order) : m < n => Len(e.order[m]) <= Len(e.order[n])
  /\ \A s \in b : s = <<>> \/ Len(s) \in e.min .. e.min + e.num - 1
  /\ Flattens(e.flat, e.order, BOOLEAN)

Bits(e) == e.flat[Len(e.order)]
Counts(e, b) == [n \in 1 .. e.num |-> Cardinality(OfLength(b, e.min + n - 1))]
Units(e, b) == <<e.min, e.num>> \o Counts(e, b) \o Bytes(Bits(e))

\* An order of a set: each string once.
LEMMA OrderIs ==
  ASSUME WireAssumption, NEW b \in Bitsets, NEW o \in SetToSeqs(b)
  PROVE  /\ o \in Seq(b) /\ DOMAIN o = 1 .. Len(o) /\ o \in Seq(Seq(BOOLEAN))
         /\ \A s \in b : \E m \in 1 .. Len(o) : o[m] = s
         /\ \A m, n \in 1 .. Len(o) : o[m] = o[n] => m = n
<1> DEFINE c == Cardinality(b)
<1>1. IsFiniteSet(b) /\ c \in Nat
  BY BitsetIs, FS_CardinalityType
<1>2. o \in [1 .. c -> b] /\ \A m, n \in 1 .. c : m # n => o[m] # o[n]
  BY DEF SetToSeqs
<1>3. o \in Seq(b) /\ DOMAIN o = 1 .. Len(o) /\ Len(o) = c
  <2> HIDE DEF c
  <2>1. o \in Seq(b)
    BY <1>1, <1>2, SeqDef
  <2>2. Len(o) = c
    BY <1>1, <1>2
  <2> QED BY <1>2, <2>1, <2>2
<1>4. IsFiniteSet(1 .. c) /\ Cardinality(1 .. c) = c
  <2> HIDE DEF c
  <2> QED BY <1>1, FS_Interval
<1>5. o \in Injection(1 .. c, b)
  <2> HIDE DEF c
  <2> QED BY <1>2 DEF Injection, IsInjective
<1>6. o \in Surjection(1 .. c, b)
  BY <1>1, <1>4, <1>5, FS_Injection
<1>7. \A s \in b : \E m \in 1 .. c : o[m] = s
  <2> HIDE DEF c
  <2> QED BY <1>6 DEF Surjection
<1>8. o \in Seq(Seq(BOOLEAN))
  <2>1. b \subseteq Seq(BOOLEAN)
    BY BitsetIs
  <2> QED BY <1>3, <2>1, SeqMonotonic
<1> QED BY <1>2, <1>3, <1>7, <1>8

\* The smallest and the largest of finitely many numbers.
LEMMA MinMaxIs ==
  ASSUME NEW T \in SUBSET Nat, T # {}, NEW bound \in Nat, \A x \in T : x <= bound
  PROVE  /\ Min(T) \in T /\ \A x \in T : Min(T) <= x
         /\ Max(T) \in T /\ \A x \in T : x <= Max(T)
<1>1. \E x \in T : \A y \in T : x <= y
  BY LeastNumber
<1>2. \E x \in T : \A y \in T : x >= y
  <2> DEFINE U == {n \in Nat : \A y \in T : y <= n}
  <2>1. PICK n \in U : \A k \in U : n <= k
    <3>1. U \in SUBSET Nat /\ bound \in U
      OBVIOUS
    <3> HIDE DEF U
    <3> QED BY <3>1, LeastNumber
  <2>2. n \in T
    <3> SUFFICES ASSUME n \notin T PROVE FALSE
      OBVIOUS
    <3>1. \A y \in T : y < n
      BY <2>1
    <3>2. n # 0
      <4>1. PICK y \in T : y \in Nat
        OBVIOUS
      <4> QED BY <3>1, <4>1
    <3>3. n - 1 \in U
      BY <2>1, <3>1, <3>2
    <3> QED BY <2>1, <3>3
  <2> QED BY <2>1, <2>2
<1>3. Min(T) \in T /\ \A x \in T : Min(T) <= x
  BY <1>1 DEF Min
<1>4. Max(T) \in T /\ \A x \in T : Max(T) >= x
  BY <1>2 DEF Max
<1> QED BY <1>3, <1>4

\* add_bitset sends an encoding.
LEMMA AddBitsetIs ==
  ASSUME WireAssumption, NEW b \in Bitsets, NEW a \in add_bitset(b)
  PROVE  \E e : Encoding(e, b) /\ a = Units(e, b)
<1> DEFINE lens == {Len(s) : s \in b} \ {0}
<1>0. /\ MaxLen \in Nat /\ IsFiniteSet(b)
      /\ \A s \in b : s \in Seq(BOOLEAN) /\ Len(s) \in 0 .. MaxLen /\ (s = <<>> <=> Len(s) = 0)
  BY BitsetIs DEF WireAssumption
<1>1. lens \in SUBSET Nat /\ \A n \in lens : n \in 1 .. MaxLen
  BY <1>0
<1>2. CASE lens = {}
  <2>1. a = <<0, 0>>
    BY <1>2 DEF add_bitset
  <2>2. \A s \in b : s = <<>>
    BY <1>0, <1>2
  <2>3. PICK o \in Seq(b) :
          /\ \A s \in b : \E m \in 1 .. Len(o) : o[m] = s
          /\ \A m, n \in 1 .. Len(o) : o[m] = o[n] => m = n
    <3>1. CASE b = {}
      <4>1. <<>> \in Seq(b) /\ 1 .. Len(<<>>) = {}
        BY EmptySeq
      <4> QED BY <3>1, <4>1, Zenon
    <3>2. CASE b # {}
      <4>1. b = {<<>>}
        BY <2>2, <3>2
      <4> DEFINE o == <<<<>>>>
      <4>2. o \in Seq(b) /\ Len(o) = 1 /\ o[1] = <<>>
        BY <4>1
      <4> HIDE DEF o
      <4>3. 1 .. Len(o) = {1}
        BY <4>2
      <4> QED BY <4>1, <4>2, <4>3
    <3> QED BY <3>1, <3>2
  <2>4. \A m \in 1 .. Len(o) : o[m] \in b /\ o[m] = <<>> /\ Len(o[m]) = 0
    BY <2>2, <2>3, ElementOfSeq
  <2>5. o \in Seq(Seq(BOOLEAN))
    <3>1. b \subseteq Seq(BOOLEAN)
      BY <1>0
    <3> QED BY <2>3, <3>1, SeqMonotonic
  <2>6. PICK f : Flattens(f, o, BOOLEAN)
    BY <2>5, FlattenExists
  <2>7. f[Len(o)] = <<>>
    <3> DEFINE T == {k \in Nat : k <= Len(o) => f[k] = <<>>}
    <3>0. Len(o) \in Nat
      BY <2>5, LenProperties
    <3>1. 0 \in T
      BY <2>6 DEF Flattens
    <3>2. ASSUME NEW k \in Nat, k \in T PROVE k + 1 \in T
      <4> SUFFICES ASSUME k + 1 <= Len(o) PROVE f[k + 1] = <<>>
        OBVIOUS
      <4>1. f[k] = <<>> /\ o[k + 1] = <<>> /\ k + 1 \in 1 .. Len(o) /\ (k + 1) - 1 = k
        BY <2>4, <3>0, <3>2
      <4>2. f[k + 1] = f[(k + 1) - 1] \o o[k + 1]
        BY <2>6, <4>1 DEF Flattens
      <4>3. <<>> \o <<>> = <<>>
        OBVIOUS
      <4> QED BY <4>1, <4>2, <4>3
    <3>3. T = Nat
      <4>1. T \in SUBSET Nat
        OBVIOUS
      <4> HIDE DEF T
      <4> QED BY <3>1, <3>2, <4>1, Inductive
    <3> QED BY <3>0, <3>3
  <2> DEFINE e == [min |-> 0, num |-> 0, order |-> o, flat |-> f]
  <2>8. Encoding(e, b)
    BY <1>0, <2>2, <2>3, <2>4, <2>6 DEF Encoding
  <2>9. Units(e, b) = <<0, 0>>
    <3>1. Bits(e) = <<>>
      BY <2>7 DEF Bits
    <3>2. Bytes(<<>>) = <<>>
      <4>1. Len(<<>>) = 0 /\ ByteBits \in Nat \ {0}
        BY DEF WireAssumption
      <4>2. (0 + ByteBits - 1) \div ByteBits = 0
        BY <4>1
      <4>3. 1 .. (Len(<<>>) + ByteBits - 1) \div ByteBits = {}
        BY <4>1, <4>2
      <4> QED BY <4>3 DEF Bytes
    <3>3. Counts(e, b) = <<>>
      BY DEF Counts
    <3>4. <<0, 0>> \o <<>> \o <<>> = <<0, 0>>
      OBVIOUS
    <3> HIDE DEF e
    <3>5. e.min = 0 /\ e.num = 0
      BY DEF e
    <3> QED BY <3>1, <3>2, <3>3, <3>4, <3>5 DEF Units
  <2> HIDE DEF e
  <2> QED BY <2>1, <2>8, <2>9
<1>3. CASE lens # {}
  <2> DEFINE mn == Min(lens)
             mx == Max(lens)
  <2>1. mn \in lens /\ mx \in lens /\ \A n \in lens : mn <= n /\ n <= mx
    <3>1. lens \in SUBSET Nat /\ \A n \in lens : n <= MaxLen
      BY <1>0, <1>1
    <3> HIDE DEF lens
    <3> QED BY <1>0, <1>3, <3>1, MinMaxIs
  <2>2. PICK o \in SetToSeqs(b) :
          /\ \A m, n \in DOMAIN o : m < n => Len(o[m]) <= Len(o[n])
          /\ a = <<mn, mx - mn + 1>>
                   \o [n \in 1 .. mx - mn + 1 |-> Cardinality(OfLength(b, mn + n - 1))]
                   \o Bytes(FlattenSeq(o))
    <3>1. a \in {<<mn, mx - mn + 1>>
                   \o [n \in 1 .. mx - mn + 1 |-> Cardinality(OfLength(b, mn + n - 1))]
                   \o Bytes(FlattenSeq(q)) : q \in {q \in SetToSeqs(b) :
                        \A m, n \in DOMAIN q : m < n => Len(q[m]) <= Len(q[n])}}
      BY <1>3 DEF add_bitset
    <3> HIDE DEF mn, mx, lens
    <3> QED BY <3>1
  <2>3. /\ o \in Seq(b) /\ DOMAIN o = 1 .. Len(o) /\ o \in Seq(Seq(BOOLEAN))
        /\ \A s \in b : \E m \in 1 .. Len(o) : o[m] = s
        /\ \A m, n \in 1 .. Len(o) : o[m] = o[n] => m = n
    BY OrderIs
  <2>4. PICK f : Flattens(f, o, BOOLEAN)
    BY <2>3, FlattenExists
  <2>5. FlattenSeq(o) = f[Len(o)]
    BY <2>3, <2>4, FlattenIs
  <2> DEFINE e == [min |-> mn, num |-> mx - mn + 1, order |-> o, flat |-> f]
  <2>6. mn \in 1 .. MaxLen /\ mx \in 1 .. MaxLen /\ mn <= mx
    BY <1>1, <2>1
  <2>7. \A s \in b : s = <<>> \/ Len(s) \in mn .. mx
    <3> SUFFICES ASSUME NEW s \in b, s # <<>> PROVE Len(s) \in mn .. mx
      OBVIOUS
    <3>1. Len(s) \in lens /\ Len(s) \in Nat
      BY <1>0
    <3> HIDE DEF lens, mn, mx
    <3> QED BY <2>1, <2>6, <3>1
  <2> HIDE DEF mn, mx, lens
  <2>8. Encoding(e, b)
    <3>1. /\ e.min = mn /\ e.num = mx - mn + 1 /\ e.order = o /\ e.flat = f
          /\ e.min + e.num - 1 = mx
      BY <2>6
    <3> HIDE DEF e
    <3>2. /\ e.min \in 0 .. MaxLen /\ e.num \in 0 .. MaxLen
          /\ e.min + e.num <= MaxLen + 1 /\ e.min > 0
      BY <1>0, <2>6, <3>1
    <3>3. \A m, n \in 1 .. Len(o) : m < n => Len(o[m]) <= Len(o[n])
      BY <2>2, <2>3
    <3>4. \A s \in b : s = <<>> \/ Len(s) \in e.min .. e.min + e.num - 1
      BY <2>7, <3>1
    <3> QED BY <2>3, <2>4, <3>1, <3>2, <3>3, <3>4 DEF Encoding
  <2>9. a = Units(e, b)
    BY <2>2, <2>5 DEF Units, Counts, Bits
  <2> HIDE DEF e
  <2> QED BY <2>8, <2>9
<1> QED BY <1>2, <1>3

\* How many bits come before the q-th string.
Before(e, q) == Len(e.flat[q - 1])

\* Where the bits of the strings are.
LEMMA BitsAre ==
  ASSUME WireAssumption, NEW b \in Bitsets, NEW e, Encoding(e, b)
  PROVE  /\ Bits(e) \in Seq(BOOLEAN) /\ Len(Bits(e)) \in Nat /\ Len(e.order) \in Nat
         /\ Before(e, 1) = 0 /\ Before(e, Len(e.order) + 1) = Len(Bits(e))
         /\ \A q \in 1 .. Len(e.order) :
              /\ e.order[q] \in b /\ e.order[q] \in Seq(BOOLEAN) /\ Len(e.order[q]) \in 0 .. MaxLen
              /\ Before(e, q) \in Nat
              /\ Before(e, q + 1) = Before(e, q) + Len(e.order[q])
              /\ Before(e, q + 1) <= Len(Bits(e))
              /\ \A x \in 1 .. Len(e.order[q]) : Bits(e)[Before(e, q) + x] = e.order[q][x]
<1> DEFINE o == e.order
           f == e.flat
           z == Len(o)
<1>1. o \in Seq(b) /\ z \in Nat
  BY LenProperties DEF Encoding
<1>0. z \in Nat
  BY <1>1
<1>2. \A q \in 1 .. z : /\ o[q] \in b /\ o[q] \in Seq(BOOLEAN) /\ Len(o[q]) \in 0 .. MaxLen
                        /\ Len(o[q]) \in Nat
  <2>1. \A q \in 1 .. z : o[q] \in b
    BY <1>1, ElementOfSeq
  <2> HIDE DEF o, z
  <2>2. \A q \in 1 .. z : o[q] \in Seq(BOOLEAN)
    BY <2>1, BitsetIs
  <2> QED BY <2>1, <2>2, BitsetIs, LenProperties
<1>3. /\ f \in [0 .. z -> Seq(BOOLEAN)] /\ f[0] = <<>>
      /\ \A k \in 1 .. z : f[k] = f[k - 1] \o o[k]
  BY DEF Encoding, Flattens
<1> HIDE DEF f, o, z
\* One string more is put at the end.
<1>4. \A k \in 0 .. z : f[k] \in Seq(BOOLEAN) /\ Len(f[k]) \in Nat
  <2>1. \A k \in 0 .. z : f[k] \in Seq(BOOLEAN)
    BY <1>3
  <2> QED BY <2>1, LenProperties
<1>5. ASSUME NEW k \in 1 .. z
      PROVE  /\ Len(f[k]) = Len(f[k - 1]) + Len(o[k])
             /\ \A x \in 1 .. Len(f[k - 1]) : f[k][x] = f[k - 1][x]
             /\ \A x \in 1 .. Len(o[k]) : f[k][Len(f[k - 1]) + x] = o[k][x]
  <2>0. k - 1 \in 0 .. z
    BY <1>0
  <2>1. k - 1 \in 0 .. z /\ f[k] = f[k - 1] \o o[k]
    BY <1>3, <2>0
  <2> DEFINE s == f[k - 1]
             t == o[k]
  <2>2. s \in Seq(BOOLEAN) /\ t \in Seq(BOOLEAN) /\ Len(s) \in Nat /\ Len(t) \in Nat
    BY <1>2, <1>4, <2>1
  <2>3. f[k] = s \o t
    BY <2>1
  <2> HIDE DEF s, t
  <2>4. /\ Len(s \o t) = Len(s) + Len(t)
        /\ \A x \in 1 .. Len(s) + Len(t) :
             (s \o t)[x] = IF x <= Len(s) THEN s[x] ELSE t[x - Len(s)]
    BY <2>2, ConcatProperties
  <2>5. \A x \in 1 .. Len(s) : (s \o t)[x] = s[x]
    BY <2>2, <2>4
  <2>6. ASSUME NEW x \in 1 .. Len(t) PROVE (s \o t)[Len(s) + x] = t[x]
    <3>1. Len(s) + x \in 1 .. Len(s) + Len(t) /\ ~(Len(s) + x <= Len(s))
          /\ (Len(s) + x) - Len(s) = x
      BY <2>2
    <3>2. (s \o t)[Len(s) + x] = t[(Len(s) + x) - Len(s)]
      BY <2>4, <3>1
    <3> QED BY <3>1, <3>2
  <2> QED BY <2>3, <2>4, <2>5, <2>6 DEF s, t
\* What is once there stays.
<1>6. ASSUME NEW q \in 0 .. z
      PROVE  /\ Len(f[q]) <= Len(f[z])
             /\ \A x \in 1 .. Len(f[q]) : f[z][x] = f[q][x]
  <2> DEFINE Stays(k) == Len(f[q]) <= Len(f[k]) /\ \A x \in 1 .. Len(f[q]) : f[k][x] = f[q][x]
             T == {d \in Nat : q + d <= z => Stays(q + d)}
  <2>0. Len(f[q]) \in Nat
    BY <1>4
  <2>1. 0 \in T
    <3>1. q + 0 = q
      BY <1>1
    <3> QED BY <2>0, <3>1
  <2>2. ASSUME NEW d \in Nat, d \in T PROVE d + 1 \in T
    <3> SUFFICES ASSUME q + (d + 1) <= z PROVE Stays(q + (d + 1))
      OBVIOUS
    <3> DEFINE k == q + (d + 1)
    <3>1. k \in 1 .. z /\ k - 1 = q + d /\ q + d <= z /\ k - 1 \in 0 .. z
      BY <1>1
    <3>2. Stays(k - 1)
      BY <2>2, <3>1
    <3> HIDE DEF k
    <3>3. /\ Len(f[k]) = Len(f[k - 1]) + Len(o[k]) /\ Len(o[k]) \in Nat
          /\ Len(f[k - 1]) \in Nat
          /\ \A x \in 1 .. Len(f[k - 1]) : f[k][x] = f[k - 1][x]
      <4>1. Len(o[k]) \in Nat /\ Len(f[k - 1]) \in Nat
        BY <1>2, <1>4, <3>1
      <4> QED BY <1>5, <3>1, <4>1
    <3>4. Len(f[q]) <= Len(f[k])
      <4>1. Len(f[q]) <= Len(f[k - 1])
        BY <3>2
      <4>2. Len(f[k]) = Len(f[k - 1]) + Len(o[k]) /\ Len(o[k]) \in Nat /\ Len(f[k - 1]) \in Nat
        BY <3>3
      <4> DEFINE a == Len(f[q])
                 c == Len(f[k - 1])
                 y == Len(o[k])
      <4>3. a \in Nat /\ c \in Nat /\ y \in Nat /\ a <= c /\ Len(f[k]) = c + y
        BY <2>0, <4>1, <4>2
      <4> HIDE DEF a, c, y
      <4>4. a <= c + y
        BY <4>3
      <4> QED BY <4>3, <4>4 DEF a
    <3>5. \A x \in 1 .. Len(f[q]) : x \in 1 .. Len(f[k - 1])
      BY <2>0, <3>2, <3>3
    <3>6. \A x \in 1 .. Len(f[q]) : f[k][x] = f[q][x]
      BY <3>2, <3>3, <3>5
    <3>7. Stays(k)
      BY <3>4, <3>6
    <3> QED BY <3>7 DEF k
  <2>3. T = Nat
    <3>1. T \in SUBSET Nat
      OBVIOUS
    <3> HIDE DEF T
    <3> QED BY <2>1, <2>2, <3>1, Inductive
  <2>4. z - q \in Nat /\ q + (z - q) = z
    BY <1>0
  <2>5. Stays(q + (z - q))
    <3>1. z - q \in T
      <4> HIDE DEF T
      <4> QED BY <2>3, <2>4
    <3>2. q + (z - q) <= z
      BY <1>0
    <3> HIDE DEF Stays
    <3> QED BY <3>1, <3>2
  <2> QED BY <2>4, <2>5
<1>7. f[0] = <<>> /\ Len(<<>>) = 0 /\ 1 - 1 = 0 /\ (z + 1) - 1 = z
  BY <1>1, <1>3
<1>8. Bits(e) = f[z] /\ \A q \in Int : Before(e, q) = Len(f[q - 1])
  BY DEF Bits, Before, f, z, o
<1>9. ASSUME NEW q \in 1 .. z
      PROVE  /\ Before(e, q) \in Nat
             /\ Before(e, q + 1) = Before(e, q) + Len(o[q])
             /\ Before(e, q + 1) <= Len(Bits(e))
             /\ \A x \in 1 .. Len(o[q]) : Bits(e)[Before(e, q) + x] = o[q][x]
  <2>1. q \in 0 .. z /\ q - 1 \in 0 .. z /\ (q + 1) - 1 = q /\ q \in Int /\ q + 1 \in Int
    BY <1>1
  <2>2. Before(e, q) = Len(f[q - 1]) /\ Before(e, q + 1) = Len(f[q])
    BY <1>8, <2>1
  <2>3. Len(f[q - 1]) \in Nat /\ Len(f[q]) = Len(f[q - 1]) + Len(o[q]) /\ Len(o[q]) \in Nat
    <3>1. Len(f[q - 1]) \in Nat /\ Len(o[q]) \in Nat
      BY <1>2, <1>4, <2>1
    <3> QED BY <1>5, <3>1
  <2>4. \A x \in 1 .. Len(o[q]) : f[q][Len(f[q - 1]) + x] = o[q][x]
    BY <1>5
  <2>5. \A x \in 1 .. Len(o[q]) : Len(f[q - 1]) + x \in 1 .. Len(f[q])
    <3> DEFINE l == Len(f[q - 1])
               c == Len(o[q])
    <3>1. l \in Nat /\ c \in Nat /\ Len(f[q]) = l + c
      BY <2>3
    <3> HIDE DEF l, c
    <3>2. \A x \in 1 .. c : l + x \in 1 .. l + c
      BY <3>1
    <3> QED BY <3>1, <3>2 DEF l, c
  <2>6. Len(f[q]) <= Len(f[z]) /\ \A x \in 1 .. Len(f[q]) : f[z][x] = f[q][x]
    BY <1>6, <2>1
  <2>7. \A x \in 1 .. Len(o[q]) : f[z][Len(f[q - 1]) + x] = o[q][x]
    BY <2>4, <2>5, <2>6
  <2> QED BY <1>8, <2>2, <2>3, <2>6, <2>7
<1>10. /\ Bits(e) \in Seq(BOOLEAN) /\ Len(Bits(e)) \in Nat /\ z \in Nat
       /\ Before(e, 1) = 0 /\ Before(e, z + 1) = Len(Bits(e))
  <2>1. 0 \in 0 .. z /\ z \in 0 .. z /\ 1 \in Int /\ z + 1 \in Int
    BY <1>0
  <2>2. Before(e, 1) = Len(f[0]) /\ Before(e, z + 1) = Len(f[z])
    BY <1>7, <1>8, <2>1
  <2> QED BY <1>0, <1>4, <1>7, <1>8, <2>1, <2>2
<1> QED BY <1>2, <1>9, <1>10 DEF o, z

\* Where those of one string are.
LEMMA StringAt ==
  ASSUME WireAssumption, NEW b \in Bitsets, NEW e, Encoding(e, b), NEW q \in 1 .. Len(e.order)
  PROVE  /\ e.order[q] \in b /\ e.order[q] \in Seq(BOOLEAN) /\ Before(e, q) \in Nat
         /\ Before(e, q + 1) = Before(e, q) + Len(e.order[q])
         /\ Before(e, q + 1) <= Len(Bits(e))
         /\ \A x \in 1 .. Len(e.order[q]) : Bits(e)[Before(e, q) + x] = e.order[q][x]
  BY BitsAre

-----------------------------------------------------------------------------
\* The number of bytes that n bits take.
InBytes(n) == (n + ByteBits - 1) \div ByteBits

\* As many as are needed.
LEMMA InBytesIs ==
  ASSUME WireAssumption, NEW n \in Nat
  PROVE  /\ InBytes(n) \in Nat
         /\ n <= ByteBits * InBytes(n) /\ ByteBits * InBytes(n) < n + ByteBits
<1> DEFINE B == ByteBits
           q == InBytes(n)
           r == (n + B - 1) % B
<1>1. B \in Nat \ {0} /\ n + B - 1 \in Nat
  BY DEF WireAssumption
<1>2. r \in 0 .. B - 1 /\ n + B - 1 = B * q + r /\ q \in Int
  BY <1>1, DivMod DEF InBytes
<1> HIDE DEF q, r, B
<1>3. B * q \in Int
  BY <1>1, <1>2
<1>4. n <= B * q /\ B * q < n + B
  BY <1>1, <1>2, <1>3
<1>5. q >= 0
  <2> SUFFICES ASSUME q <= -1 PROVE FALSE
    BY <1>2
  <2>1. B * q <= -B
    BY <1>1, <1>2
  <2> QED BY <1>1, <1>3, <1>4, <2>1
<1> QED BY <1>2, <1>4, <1>5 DEF q, B

\* What the bytes say.
LEMMA BytesAre ==
  ASSUME WireAssumption, NEW bits, Len(bits) \in Nat
  PROVE  /\ Sequence(Bytes(bits)) /\ Len(Bytes(bits)) = InBytes(Len(bits))
         /\ \A m \in 1 .. InBytes(Len(bits)), k \in 0 .. ByteBits - 1 :
              k \in Bytes(bits)[m]
                <=> LET n == (m - 1) * ByteBits + k + 1 IN n <= Len(bits) /\ bits[n]
<1> DEFINE z == InBytes(Len(bits))
           c(m) == {k \in 0 .. ByteBits - 1 : LET n == (m - 1) * ByteBits + k + 1
                                              IN n <= Len(bits) /\ bits[n]}
           s == [m \in 1 .. z |-> c(m)]
<1>1. Bytes(bits) = s
  BY DEF Bytes, InBytes
<1>2. z \in Nat
  BY InBytesIs
<1>3. s \in [1 .. z -> {c(m) : m \in 1 .. z}]
  <2> HIDE DEF c, z
  <2> QED OBVIOUS
<1>4. Sequence(s) /\ Len(s) = z
  <2> HIDE DEF s, z, c
  <2>1. s \in Seq({c(m) : m \in 1 .. z})
    <3> DEFINE S == {c(m) : m \in 1 .. z}
    <3>1. s \in [1 .. z -> S]
      BY <1>3
    <3> HIDE DEF S
    <3>2. s \in Seq(S)
      BY <1>2, <3>1, SeqDef
    <3> QED BY <3>2 DEF S
  <2>2. Len(s) = z
    BY <1>2, <1>3
  <2> QED BY <2>1, <2>2 DEF Sequence
<1>5. \A m \in 1 .. z : s[m] = c(m)
  <2> HIDE DEF c, z
  <2> QED OBVIOUS
<1> HIDE DEF s, z
<1> QED BY <1>1, <1>4, <1>5 DEF z

\* What one sequence after another has where.
LEMMA ConcatAt ==
  ASSUME NEW s, NEW t, Sequence(s), Sequence(t)
  PROVE  /\ \A k \in 1 .. Len(s) : (s \o t)[k] = s[k]
         /\ \A k \in 1 .. Len(t) : (s \o t)[Len(s) + k] = t[k]
<1>1. PICK S : s \in Seq(S)
  BY DEF Sequence
<1>2. PICK T : t \in Seq(T)
  BY DEF Sequence
<1>3. s \in Seq(S \cup T) /\ t \in Seq(S \cup T)
  <2>1. S \subseteq S \cup T /\ T \subseteq S \cup T
    OBVIOUS
  <2> QED BY <1>1, <1>2, <2>1, SeqMonotonic
<1>4. Len(s) \in Nat /\ Len(t) \in Nat
  BY <1>3, LenProperties
<1>5. \A k \in 1 .. Len(s) + Len(t) : (s \o t)[k] = IF k <= Len(s) THEN s[k] ELSE t[k - Len(s)]
  BY <1>3, ConcatProperties
<1> DEFINE l == Len(s)
           m == Len(t)
<1>6. ASSUME NEW k \in 1 .. l PROVE (s \o t)[k] = s[k]
  <2> HIDE DEF l, m
  <2>1. k \in 1 .. l + m /\ k <= l
    BY <1>4 DEF l, m
  <2> QED BY <1>5, <2>1 DEF l, m
<1>7. ASSUME NEW k \in 1 .. m PROVE (s \o t)[l + k] = t[k]
  <2>1. l \in Nat /\ m \in Nat
    BY <1>4
  <2> HIDE DEF l, m
  <2>2. l + k \in 1 .. l + m /\ ~(l + k <= l) /\ (l + k) - l = k
    BY <2>1
  <2>3. (s \o t)[l + k] = t[(l + k) - l]
    BY <1>5, <2>2 DEF l, m
  <2> QED BY <2>2, <2>3
<1> QED BY <1>6, <1>7

\* How many units a set takes, and that those from place s on say it, as far as
\* they arrived.
Size(e) == 2 + e.num + InBytes(Len(Bits(e)))
Written(w, s, e, b) ==
  /\ s <= Len(w) => w[s] = e.min
  /\ s + 1 <= Len(w) => w[s + 1] = e.num
  /\ \A n \in 1 .. e.num : s + 1 + n <= Len(w) => w[s + 1 + n] = Counts(e, b)[n]
  /\ \A n \in 1 .. InBytes(Len(Bits(e))) :
       s + 1 + e.num + n <= Len(w) => w[s + 1 + e.num + n] = Bytes(Bits(e))[n]

Start(E, l) == IF l = "added" THEN 5 ELSE 5 + Size(E.added)
EndOf(E) == 5 + Size(E.added) + Size(E.removed)

\* What was sent, and that what arrived is its beginning.
Sending(E) ==
  /\ Encoding(E.added, sent.added) /\ Encoding(E.removed, sent.removed)
  /\ whole = EndOf(E) - 1 + sent.size * WireBucketBytes
  /\ Len(wire) \in 0 .. whole
  /\ 4 <= Len(wire) => /\ wire[1] = sent.seed /\ wire[2] = sent.min_fee_per_byte
                       /\ wire[3] = sent.size /\ wire[4] = sent.coinbase
  /\ Written(wire, 5, E.added, sent.added)
  /\ Written(wire, 5 + Size(E.added), E.removed, sent.removed)

\* The units of one set.
LEMMA UnitsAre ==
  ASSUME WireAssumption, NEW b \in Bitsets, NEW e, Encoding(e, b)
  PROVE  /\ Sequence(Units(e, b)) /\ Len(Units(e, b)) = Size(e)
         /\ e.num \in Nat /\ InBytes(Len(Bits(e))) \in Nat /\ Size(e) \in Nat
         /\ Written(Units(e, b), 1, e, b)
<1> DEFINE h == <<e.min, e.num>>
           c == Counts(e, b)
           y == Bytes(Bits(e))
           n == e.num
           m == InBytes(Len(Bits(e)))
<1>1. n \in Nat /\ m \in Nat
  <2>1. n \in 0 .. MaxLen /\ MaxLen \in Nat
    BY DEF Encoding, WireAssumption
  <2>2. Len(Bits(e)) \in Nat
    BY BitsAre
  <2>3. m \in Nat
    BY <2>2, InBytesIs
  <2>4. n \in Nat
    <3> HIDE DEF n
    <3> QED BY <2>1
  <2> QED BY <2>3, <2>4
<1>2. Sequence(h) /\ Len(h) = 2 /\ h[1] = e.min /\ h[2] = n
  <2>1. h \in Seq({e.min, e.num})
    OBVIOUS
  <2> QED BY <2>1 DEF Sequence
<1>3. Sequence(c) /\ Len(c) = n
  <2> DEFINE T == {Cardinality(OfLength(b, e.min + k - 1)) : k \in 1 .. n}
  <2>1. c \in [1 .. n -> T]
    BY DEF Counts
  <2> HIDE DEF T, c, n
  <2>2. c \in Seq(T)
    BY <1>1, <2>1, SeqDef
  <2>3. Len(c) = n
    BY <1>1, <2>1
  <2> QED BY <2>2, <2>3 DEF Sequence
<1>4. Sequence(y) /\ Len(y) = m
  BY BitsAre, BytesAre
<1> HIDE DEF h, c, y, n, m
<1>5. /\ Sequence(h \o c) /\ Len(h \o c) = 2 + n
      /\ (h \o c)[1] = e.min /\ (h \o c)[2] = n
      /\ \A k \in 1 .. n : (h \o c)[2 + k] = c[k]
  <2>1. 1 \in 1 .. Len(h) /\ 2 \in 1 .. Len(h)
    BY <1>2
  <2>2. Sequence(h \o c) /\ Len(h \o c) = Len(h) + Len(c)
    BY <1>2, <1>3, SequenceConcat
  <2>3. /\ \A k \in 1 .. Len(h) : (h \o c)[k] = h[k]
        /\ \A k \in 1 .. Len(c) : (h \o c)[Len(h) + k] = c[k]
    <3>1. Sequence(h) /\ Sequence(c)
      BY <1>2, <1>3
    <3> QED BY <3>1, ConcatAt
  <2> QED BY <1>2, <1>3, <2>1, <2>2, <2>3
<1> DEFINE hc == h \o c
           u == hc \o y
<1>6. /\ Sequence(u) /\ Len(u) = (2 + n) + m
      /\ \A k \in 1 .. 2 + n : u[k] = hc[k]
      /\ \A k \in 1 .. m : u[(2 + n) + k] = y[k]
  <2>1. Sequence(hc) /\ Len(hc) = 2 + n
    BY <1>5
  <2> HIDE DEF hc
  <2>2. Sequence(u) /\ Len(u) = Len(hc) + Len(y)
    BY <1>4, <2>1, SequenceConcat
  <2>3. /\ \A k \in 1 .. Len(hc) : u[k] = hc[k]
        /\ \A k \in 1 .. Len(y) : u[Len(hc) + k] = y[k]
    BY <1>4, <2>1, ConcatAt
  <2> HIDE DEF u
  <2> QED BY <1>4, <2>1, <2>2, <2>3
<1>7. u[1] = e.min /\ u[2] = n /\ \A k \in 1 .. n : u[2 + k] = c[k]
  <2>1. 1 \in 1 .. 2 + n /\ 2 \in 1 .. 2 + n /\ \A k \in 1 .. n : 2 + k \in 1 .. 2 + n
    BY <1>1
  <2> HIDE DEF u
  <2> QED BY <1>5, <1>6, <2>1
<1>8. Units(e, b) = u /\ Size(e) = (2 + n) + m /\ Size(e) \in Nat
  BY <1>1 DEF Units, Size, u, hc, h, c, y, n, m
<1> HIDE DEF u
<1>9. Written(u, 1, e, b)
  <2>1. 1 + 1 = 2 /\ 1 + 1 + n = 2 + n
    BY <1>1
  <2>2. u[1] = e.min /\ u[1 + 1] = e.num
    BY <1>7 DEF n
  <2>3. \A k \in 1 .. n : u[1 + 1 + k] = c[k]
    <3>1. \A k \in 1 .. n : 1 + 1 + k = 2 + k
      BY <1>1
    <3> QED BY <1>7, <3>1
  <2>4. \A k \in 1 .. m : u[1 + 1 + n + k] = y[k]
    <3>1. \A k \in 1 .. m : 1 + 1 + n + k = (2 + n) + k
      BY <1>1
    <3> QED BY <1>6, <3>1
  <2> QED BY <2>2, <2>3, <2>4 DEF Written, n, m, c, y
<1> QED BY <1>1, <1>6, <1>8, <1>9 DEF n, m

\* Where units come to lie that follow others.
LEMMA WrittenAfter ==
  ASSUME NEW h, NEW u, NEW e, NEW b, Sequence(h), Sequence(u), Written(u, 1, e, b),
         e.num \in Nat, InBytes(Len(Bits(e))) \in Nat,
         Len(u) = 2 + e.num + InBytes(Len(Bits(e)))
  PROVE  Written(h \o u, Len(h) + 1, e, b)
<1> DEFINE n == e.num
           m == InBytes(Len(Bits(e)))
           l == Len(h)
           z == h \o u
           c == Counts(e, b)
           y == Bytes(Bits(e))
<1>1. n \in Nat /\ m \in Nat /\ l \in Nat /\ Len(u) = 2 + n + m
  <2>1. Len(h) \in Nat
    BY LenProperties DEF Sequence
  <2> QED BY <2>1
<1>2. \A k \in 1 .. 2 + n + m : z[l + k] = u[k]
  BY <1>1, ConcatAt
<1>3. /\ u[1] = e.min /\ u[2] = n
      /\ \A k \in 1 .. n : u[2 + k] = c[k]
      /\ \A k \in 1 .. m : u[2 + n + k] = y[k]
  <2>1. 1 <= Len(u) => u[1] = e.min
    BY DEF Written
  <2>2. 1 + 1 <= Len(u) => u[1 + 1] = e.num
    BY DEF Written
  <2>3. \A k \in 1 .. n : 1 + 1 + k <= Len(u) => u[1 + 1 + k] = c[k]
    BY DEF Written
  <2>4. \A k \in 1 .. m : 1 + 1 + n + k <= Len(u) => u[1 + 1 + n + k] = y[k]
    BY DEF Written
  <2> HIDE DEF n, m, l, z, c, y
  <2>5. 1 <= Len(u) /\ 2 <= Len(u)
    BY <1>1
  <2>6. \A k \in 1 .. n : 1 + 1 + k = 2 + k /\ 2 + k <= Len(u)
    BY <1>1
  <2>7. \A k \in 1 .. m : 1 + 1 + n + k = 2 + n + k /\ 2 + n + k <= Len(u)
    BY <1>1
  <2>8. \A k \in 1 .. n : u[2 + k] = c[k]
    BY <2>3, <2>6
  <2>9. \A k \in 1 .. m : u[2 + n + k] = y[k]
    BY <2>4, <2>7
  <2> QED BY <2>1, <2>2, <2>5, <2>8, <2>9 DEF n
<1> HIDE DEF n, m, l, z, c, y
<1>4. z[l + 1] = e.min /\ z[l + 1 + 1] = n
  <2>1. 1 \in 1 .. 2 + n + m /\ 2 \in 1 .. 2 + n + m /\ l + 1 + 1 = l + 2
    BY <1>1
  <2> QED BY <1>2, <1>3, <2>1
<1>5. ASSUME NEW k \in 1 .. n PROVE z[l + 1 + 1 + k] = c[k]
  <2>1. l + 1 + 1 + k = l + (2 + k) /\ 2 + k \in 1 .. 2 + n + m
    BY <1>1
  <2>2. z[l + (2 + k)] = u[2 + k]
    BY <1>2, <2>1
  <2> QED BY <1>3, <2>1, <2>2
<1>6. ASSUME NEW k \in 1 .. m PROVE z[l + 1 + 1 + n + k] = y[k]
  <2>1. l + 1 + 1 + n + k = l + (2 + n + k) /\ 2 + n + k \in 1 .. 2 + n + m
    BY <1>1
  <2>2. z[l + (2 + n + k)] = u[2 + n + k]
    BY <1>2, <2>1
  <2> QED BY <1>3, <2>1, <2>2
<1> QED BY <1>4, <1>5, <1>6 DEF Written, n, m, l, z, c, y

\* What arrived of a message says what the message said.
LEMMA WrittenCut ==
  ASSUME NEW u, NEW w, NEW s \in Nat \ {0}, NEW e, NEW b, Written(u, s, e, b),
         Len(w) \in Nat, Len(u) \in Nat, Len(w) <= Len(u),
         \A k \in 1 .. Len(w) : w[k] = u[k],
         e.num \in Nat
  PROVE  Written(w, s, e, b)
<1> DEFINE n == e.num
           m == InBytes(Len(Bits(e)))
           l == Len(w)
           z == Len(u)
           c == Counts(e, b)
           y == Bytes(Bits(e))
<1>1. l \in Nat /\ z \in Nat /\ l <= z /\ n \in Nat /\ \A k \in 1 .. l : w[k] = u[k]
  OBVIOUS
<1>2. /\ s <= z => u[s] = e.min
      /\ s + 1 <= z => u[s + 1] = n
      /\ \A k \in 1 .. n : s + 1 + k <= z => u[s + 1 + k] = c[k]
      /\ \A k \in 1 .. m : s + 1 + n + k <= z => u[s + 1 + n + k] = y[k]
  BY DEF Written
<1> HIDE DEF n, m, l, z, c, y
<1>3. s <= l => w[s] = e.min
  BY <1>1, <1>2
<1>4. s + 1 <= l => w[s + 1] = n
  BY <1>1, <1>2
<1>5. ASSUME NEW k \in 1 .. n, s + 1 + k <= l PROVE w[s + 1 + k] = c[k]
  <2>1. s + 1 + k \in 1 .. l /\ s + 1 + k <= z
    BY <1>1, <1>5
  <2> QED BY <1>1, <1>2, <2>1
<1>6. ASSUME NEW k \in 1 .. m, s + 1 + n + k <= l PROVE w[s + 1 + n + k] = y[k]
  <2>1. s + 1 + n + k \in 1 .. l /\ s + 1 + n + k <= z
    BY <1>1, <1>6
  <2> QED BY <1>1, <1>2, <2>1
<1> QED BY <1>3, <1>4, <1>5, <1>6 DEF Written, n, m, l, z, c, y

\* So is what follows the units.
LEMMA WrittenBefore ==
  ASSUME NEW u, NEW t, NEW s \in Nat \ {0}, NEW e, NEW b, Written(u, s, e, b),
         Sequence(u), Sequence(t), e.num \in Nat, InBytes(Len(Bits(e))) \in Nat,
         s - 1 + 2 + e.num + InBytes(Len(Bits(e))) <= Len(u)
  PROVE  Written(u \o t, s, e, b)
<1> DEFINE n == e.num
           m == InBytes(Len(Bits(e)))
           z == Len(u)
           w == u \o t
           c == Counts(e, b)
           y == Bytes(Bits(e))
<1>1. z \in Nat /\ n \in Nat /\ m \in Nat /\ s + 1 + n + m <= z
  <2>1. Len(u) \in Nat
    BY LenProperties DEF Sequence
  <2> QED BY <2>1
<1>2. /\ s <= z => u[s] = e.min
      /\ s + 1 <= z => u[s + 1] = n
      /\ \A k \in 1 .. n : s + 1 + k <= z => u[s + 1 + k] = c[k]
      /\ \A k \in 1 .. m : s + 1 + n + k <= z => u[s + 1 + n + k] = y[k]
  BY DEF Written
<1>3. \A k \in 1 .. z : w[k] = u[k]
  BY ConcatAt
<1> HIDE DEF n, m, z, w, c, y
<1>4. w[s] = e.min /\ w[s + 1] = n
  <2>1. s \in 1 .. z /\ s + 1 \in 1 .. z
    BY <1>1
  <2> QED BY <1>2, <1>3, <2>1
<1>5. ASSUME NEW k \in 1 .. n PROVE w[s + 1 + k] = c[k]
  <2>1. s + 1 + k \in 1 .. z
    BY <1>1
  <2> QED BY <1>2, <1>3, <2>1
<1>6. ASSUME NEW k \in 1 .. m PROVE w[s + 1 + n + k] = y[k]
  <2>1. s + 1 + n + k \in 1 .. z
    BY <1>1
  <2> QED BY <1>2, <1>3, <2>1
<1> QED BY <1>4, <1>5, <1>6 DEF Written, n, m, z, w, c, y

\* A message is one of some encodings of its two sets.
LEMMA SendingExists ==
  ASSUME WireAssumption, WireInit
  PROVE  \E E : Sending(E)
<1>1. sent \in Messages /\ sent.added \in Bitsets /\ sent.removed \in Bitsets /\ sent.size \in Nat
  <2>1. sent \in Messages
    BY DEF WireInit
  <2>2. sent.size \in WireSizes /\ sent.added \in Bitsets /\ sent.removed \in Bitsets
    BY <2>1 DEF Messages
  <2>3. WireSizes \subseteq Nat
    BY DEF WireAssumption
  <2> QED BY <2>1, <2>2, <2>3
<1> DEFINE h == <<sent.seed, sent.min_fee_per_byte, sent.size, sent.coinbase>>
           t == IbltBytes(sent.size)
<1>2. PICK a, r :
        /\ a \in add_bitset(sent.added) /\ r \in add_bitset(sent.removed)
        /\ \E message :
             /\ message = h \o a \o r \o t
             /\ whole = Len(message)
             /\ \E n \in 0 .. whole : wire = SubSeq(message, 1, n)
  <2>1. PICK message \in wire_encode(sent) :
          whole = Len(message) /\ \E n \in 0 .. whole : wire = SubSeq(message, 1, n)
    BY DEF WireInit
  <2>2. PICK a \in add_bitset(sent.added), r \in add_bitset(sent.removed) :
          message = h \o a \o r \o t
    <3> DEFINE W == wire_encode(sent)
               A == add_bitset(sent.added)
               R == add_bitset(sent.removed)
    <3>1. W = {h \o a \o r \o t : a \in A, r \in R}
      BY DEF wire_encode
    <3>2. message \in W
      BY <2>1
    <3> HIDE DEF h, t, W, A, R
    <3>3. \E a \in A, r \in R : message = h \o a \o r \o t
      BY <3>1, <3>2
    <3> QED BY <3>3 DEF A, R
  <2>4. message = h \o a \o r \o t /\ whole = Len(message)
        /\ \E n \in 0 .. whole : wire = SubSeq(message, 1, n)
    BY <2>1, <2>2
  <2> HIDE DEF h, t
  <2> QED BY <2>4
<1>3. PICK e : Encoding(e, sent.added) /\ a = Units(e, sent.added)
  BY <1>1, <1>2, AddBitsetIs
<1>4. PICK d : Encoding(d, sent.removed) /\ r = Units(d, sent.removed)
  BY <1>1, <1>2, AddBitsetIs
<1>5. /\ Sequence(a) /\ Len(a) = Size(e) /\ Written(a, 1, e, sent.added)
      /\ e.num \in Nat /\ InBytes(Len(Bits(e))) \in Nat /\ Size(e) \in Nat
  BY <1>1, <1>3, UnitsAre
<1>6. /\ Sequence(r) /\ Len(r) = Size(d) /\ Written(r, 1, d, sent.removed)
      /\ d.num \in Nat /\ InBytes(Len(Bits(d))) \in Nat /\ Size(d) \in Nat
  BY <1>1, <1>4, UnitsAre
<1>7. /\ Sequence(h) /\ Len(h) = 4
      /\ h[1] = sent.seed /\ h[2] = sent.min_fee_per_byte
      /\ h[3] = sent.size /\ h[4] = sent.coinbase
  <2>1. h \in Seq({sent.seed, sent.min_fee_per_byte, sent.size, sent.coinbase})
    OBVIOUS
  <2> QED BY <2>1 DEF Sequence
<1>8. Sequence(t) /\ Len(t) = sent.size * WireBucketBytes
  <2> DEFINE n == sent.size * WireBucketBytes
  <2>1. n \in Nat
    BY <1>1 DEF WireAssumption
  <2>2. t = [k \in 1 .. n |-> 0 .. ByteBits - 1]
    BY DEF IbltBytes
  <2> HIDE DEF n, t
  <2>3. t \in [1 .. n -> {0 .. ByteBits - 1}]
    BY <2>2
  <2>4. t \in Seq({0 .. ByteBits - 1}) /\ Len(t) = n
    BY <2>1, <2>3, SeqDef
  <2> QED BY <2>4 DEF Sequence, n
<1> HIDE DEF h, t
<1> DEFINE u == h \o a
           w == u \o r
           M == w \o t
<1>9. /\ Sequence(u) /\ Len(u) = 4 + Size(e)
      /\ Written(u, 5, e, sent.added) /\ \A k \in 1 .. 4 : u[k] = h[k]
  <2>1. Sequence(u) /\ Len(u) = 4 + Size(e)
    BY <1>5, <1>7, SequenceConcat
  <2>2. Written(u, Len(h) + 1, e, sent.added)
    <3>1. Len(a) = 2 + e.num + InBytes(Len(Bits(e)))
      BY <1>5 DEF Size
    <3> QED BY <1>5, <1>7, <3>1, WrittenAfter
  <2>3. \A k \in 1 .. 4 : u[k] = h[k]
    <3>1. Sequence(h) /\ Sequence(a)
      BY <1>5, <1>7
    <3>2. /\ \A k \in 1 .. Len(h) : (h \o a)[k] = h[k]
          /\ \A k \in 1 .. Len(a) : (h \o a)[Len(h) + k] = a[k]
      BY <3>1, ConcatAt
    <3> QED BY <1>7, <3>2
  <2> HIDE DEF u
  <2>4. Len(h) + 1 = 5
    BY <1>7
  <2> QED BY <2>1, <2>2, <2>3, <2>4
<1> HIDE DEF u
<1>10. /\ Sequence(w) /\ Len(w) = 4 + Size(e) + Size(d)
       /\ Written(w, 5, e, sent.added) /\ Written(w, 5 + Size(e), d, sent.removed)
       /\ \A k \in 1 .. 4 : w[k] = u[k]
  <2>1. Sequence(w) /\ Len(w) = 4 + Size(e) + Size(d)
    BY <1>6, <1>9, SequenceConcat
  <2>2. Written(w, 5, e, sent.added)
    <3>1. 5 - 1 + 2 + e.num + InBytes(Len(Bits(e))) <= Len(u)
      BY <1>5, <1>9 DEF Size
    <3>2. 5 \in Nat \ {0}
      OBVIOUS
    <3> QED BY <1>5, <1>6, <1>9, <3>1, <3>2, WrittenBefore
  <2>3. Written(w, Len(u) + 1, d, sent.removed)
    <3>1. Len(r) = 2 + d.num + InBytes(Len(Bits(d)))
      BY <1>6 DEF Size
    <3> QED BY <1>6, <1>9, <3>1, WrittenAfter
  <2>4. \A k \in 1 .. Len(u) : w[k] = u[k]
    BY <1>6, <1>9, ConcatAt
  <2>5. Len(u) + 1 = 5 + Size(e) /\ \A k \in 1 .. 4 : k \in 1 .. Len(u)
    BY <1>5, <1>9
  <2> HIDE DEF w
  <2> QED BY <2>1, <2>2, <2>3, <2>4, <2>5
<1> HIDE DEF w
<1>11. /\ Sequence(M) /\ Len(M) = 4 + Size(e) + Size(d) + sent.size * WireBucketBytes
       /\ Written(M, 5, e, sent.added) /\ Written(M, 5 + Size(e), d, sent.removed)
       /\ \A k \in 1 .. 4 : M[k] = w[k]
  <2>1. Sequence(M) /\ Len(M) = Len(w) + Len(t)
    BY <1>8, <1>10, SequenceConcat
  <2>2. Written(M, 5, e, sent.added)
    <3>1. 5 - 1 + 2 + e.num + InBytes(Len(Bits(e))) <= Len(w)
      <4>1. 5 - 1 + 2 + e.num + InBytes(Len(Bits(e))) = 4 + Size(e)
        BY <1>5 DEF Size
      <4> QED BY <1>5, <1>6, <1>10, <4>1
    <3>2. 5 \in Nat \ {0}
      OBVIOUS
    <3> QED BY <1>5, <1>8, <1>10, <3>1, <3>2, WrittenBefore
  <2>3. Written(M, 5 + Size(e), d, sent.removed)
    <3>1. (5 + Size(e)) - 1 + 2 + d.num + InBytes(Len(Bits(d))) <= Len(w)
      <4>1. 2 + d.num + InBytes(Len(Bits(d))) = Size(d)
        BY <1>6 DEF Size
      <4> DEFINE x == Size(e)
                 y == d.num
                 z == InBytes(Len(Bits(d)))
      <4>2. x \in Nat /\ y \in Nat /\ z \in Nat /\ 2 + y + z = Size(d) /\ Len(w) = 4 + x + Size(d)
        BY <1>5, <1>6, <1>10, <4>1
      <4> HIDE DEF x, y, z
      <4>3. (5 + x) - 1 + 2 + y + z <= Len(w)
        BY <4>2
      <4> QED BY <4>3 DEF x, y, z
    <3> DEFINE s == 5 + Size(e)
    <3>2. s \in Nat \ {0}
      BY <1>5
    <3>3. Written(w, s, d, sent.removed)
      BY <1>10
    <3>4. s - 1 + 2 + d.num + InBytes(Len(Bits(d))) <= Len(w)
      BY <3>1
    <3>5. Sequence(w) /\ Sequence(t)
      BY <1>8, <1>10
    <3> HIDE DEF s
    <3>6. Written(M, s, d, sent.removed)
      BY <1>6, <3>2, <3>3, <3>4, <3>5, WrittenBefore
    <3> QED BY <3>6 DEF s
  <2>4. \A k \in 1 .. Len(w) : M[k] = w[k]
    BY <1>8, <1>10, ConcatAt
  <2>5. \A k \in 1 .. 4 : k \in 1 .. Len(w)
    BY <1>5, <1>6, <1>10
  <2> HIDE DEF M
  <2>6. Len(M) = 4 + Size(e) + Size(d) + sent.size * WireBucketBytes
    BY <1>8, <1>10, <2>1
  <2> QED BY <2>1, <2>2, <2>3, <2>4, <2>5, <2>6
<1>12. whole = Len(M) /\ \E n \in 0 .. whole : wire = SubSeq(M, 1, n)
  BY <1>2 DEF M, w, u
<1> HIDE DEF M
<1>13. PICK n \in 0 .. Len(M) : wire = SubSeq(M, 1, n)
  BY <1>12
<1>14. Len(M) \in Nat
  BY LenProperties, <1>11 DEF Sequence
<1>15. Len(wire) = n /\ \A k \in 1 .. n : wire[k] = M[k]
  <2>1. PICK S : M \in Seq(S)
    BY <1>11 DEF Sequence
  <2>2. \A k \in 1 .. n : M[k] \in S
    <3>1. \A k \in 1 .. n : k \in 1 .. Len(M)
      BY <1>14
    <3> QED BY <2>1, <3>1, ElementOfSeq
  <2>3. n \in Int /\ 1 \in Int /\ n >= 0
    BY <1>14
  <2>4. /\ Len(SubSeq(M, 1, n)) = IF 1 <= n THEN n - 1 + 1 ELSE 0
        /\ \A k \in 1 .. n - 1 + 1 : SubSeq(M, 1, n)[k] = M[1 + k - 1]
    BY <2>2, <2>3, SubSeqProperties
  <2>5. Len(wire) = n
    BY <1>13, <2>3, <2>4
  <2>6. \A k \in 1 .. n : k \in 1 .. n - 1 + 1 /\ 1 + k - 1 = k
    BY <2>3
  <2> QED BY <1>13, <2>4, <2>5, <2>6
<1> DEFINE E == [added |-> e, removed |-> d]
<1>16. Len(wire) \in Nat /\ Len(wire) <= Len(M) /\ \A k \in 1 .. Len(wire) : wire[k] = M[k]
  BY <1>14, <1>15
<1>17. Written(wire, 5, e, sent.added)
  <2>1. 5 \in Nat \ {0}
    OBVIOUS
  <2> QED BY <1>5, <1>11, <1>14, <1>16, <2>1, WrittenCut
<1>18. Written(wire, 5 + Size(e), d, sent.removed)
  <2>1. 5 + Size(e) \in Nat \ {0}
    BY <1>5
  <2> QED BY <1>6, <1>11, <1>14, <1>16, <2>1, WrittenCut
<1>19. 4 <= Len(wire) => /\ wire[1] = sent.seed /\ wire[2] = sent.min_fee_per_byte
                         /\ wire[3] = sent.size /\ wire[4] = sent.coinbase
  <2> SUFFICES ASSUME 4 <= Len(wire)
               PROVE /\ wire[1] = sent.seed /\ wire[2] = sent.min_fee_per_byte
                     /\ wire[3] = sent.size /\ wire[4] = sent.coinbase
    OBVIOUS
  <2>1. \A k \in 1 .. 4 : k \in 1 .. Len(wire)
    BY <1>16
  <2>2. \A k \in 1 .. 4 : wire[k] = h[k]
    BY <1>9, <1>10, <1>11, <1>16, <2>1
  <2>3. 1 \in 1 .. 4 /\ 2 \in 1 .. 4 /\ 3 \in 1 .. 4 /\ 4 \in 1 .. 4
    OBVIOUS
  <2> QED BY <1>7, <2>2, <2>3
<1>20. Sending(E)
  <2>1. E.added = e /\ E.removed = d
    OBVIOUS
  <2> HIDE DEF E
  <2>2. EndOf(E) = 5 + Size(e) + Size(d)
    BY <2>1 DEF EndOf
  <2>3. whole = EndOf(E) - 1 + sent.size * WireBucketBytes /\ Len(wire) \in 0 .. whole
    <3> DEFINE x == sent.size * WireBucketBytes
    <3>1. x \in Nat
      BY <1>1 DEF WireAssumption
    <3> HIDE DEF x
    <3>2. whole = 4 + Size(e) + Size(d) + x
      BY <1>11, <1>12 DEF x
    <3>3. whole = EndOf(E) - 1 + x
      BY <1>5, <1>6, <2>2, <3>1, <3>2
    <3>4. Len(wire) \in 0 .. whole
      BY <1>12, <1>14, <1>16
    <3> QED BY <3>3, <3>4 DEF x
  <2> QED BY <1>3, <1>4, <1>17, <1>18, <1>19, <2>1, <2>3 DEF Sending
<1> QED BY <1>20

FieldNames == {"seed", "min_fee_per_byte", "size", "coinbase"}
GotNames == FieldNames \cup {"added", "removed"}

\* The set under way: its encoding, the set, and the place of its first unit.
Now(E, e, b, s) == e = E[list] /\ b = sent[list] /\ s = Start(E, list)

\* What is said of it, and that it lies inside the message.
Holds(e, b, s) ==
  /\ b \in Bitsets /\ Encoding(e, b) /\ Written(wire, s, e, b)
  /\ s \in Nat /\ s >= 5 /\ s + Size(e) - 1 <= whole

\* The cursor is at bit pos of the bits from unit s on, or there was too little.
Cursor(s, pos) ==
  /\ p = NULL => bitoff = 0
  /\ p # NULL => p = s + pos \div ByteBits /\ bitoff = pos % ByteBits

\* Nothing was read from beyond the end.
Clean == p # NULL /\ (p <= Len(wire) \/ bitoff = 0)

\* The strings before the q-th one.
Read(e, q) == {e.order[m] : m \in 1 .. q - 1}

\* Those of length n.
ReadOf(e, q, n) == {t \in Read(e, q) : Len(t) = n}

AtRest == v = <<>> /\ bitoff = 0 /\ got[list] = {}
InFields == p = 1 /\ list = "added" /\ AtRest
InMin(s) == p = s /\ AtRest
InNums(e, b, s) ==
  /\ AtRest /\ i = min /\ j = 0 /\ min + num <= MaxLen + 1
  /\ p # NULL => /\ min = e.min /\ num = e.num /\ p = s + 2 + Len(nums)
                 /\ \A k \in 1 .. Len(nums) : nums[k] = Counts(e, b)[k]

\* q is the next string to complete, and i its length unless v is empty.
At(e, b, s, q) ==
  /\ q \in 1 .. Len(e.order) + 1
  /\ \A m \in 1 .. Len(e.order) : m < q => Len(e.order[m]) <= i
  /\ \A m \in 1 .. Len(e.order) : q <= m => Len(e.order[m]) >= i /\ Len(e.order[m]) > 0
  /\ i > 0 => j = Cardinality(ReadOf(e, q, i))
  /\ v # <<>> => q <= Len(e.order) /\ Len(e.order[q]) = i /\ Len(v) < i
  /\ Cursor(s + 2 + e.num, Before(e, q) + Len(v))
  /\ Clean => /\ \A x \in 1 .. Len(v) : v[x] = e.order[q][x]
              /\ got[list] = Read(e, q) \ {<<>>}
InBits(e, b, s) ==
  /\ min = e.min /\ num = e.num /\ nums = Counts(e, b)
  /\ i \in min .. min + num
  /\ \E q \in 1 .. Len(e.order) + 1 : At(e, b, s, q)
InPad(e, b, s) ==
  /\ v = <<>>
  /\ \E pos \in Len(Bits(e)) .. ByteBits * InBytes(Len(Bits(e))) : Cursor(s + 2 + e.num, pos)
  /\ Clean => got[list] = b \ {<<>>}

\* What holds whichever loop runs.
Base(E) ==
  /\ WireTypeOK /\ got = [f \in GotNames |-> got[f]]
  /\ p = NULL \/ wire_pc = "refused" => Len(wire) < whole
  /\ wire_pc \notin {"fields", "refused"} \/ list = "removed" =>
       \A f \in FieldNames : got[f] = sent[f]
  /\ list = "removed" => got.added = sent.added \ {<<>>}
  /\ list = "added" => got.removed = {}
  /\ wire_pc \in {"iblt", "done"} =>
       list = "removed" /\ got.removed = sent.removed \ {<<>>} /\ p = EndOf(E)
  /\ wire_pc = "done" => Len(wire) = whole /\ len = sent.size * WireBucketBytes

Loops(e, b, s) ==
  /\ wire_pc = "fields" => InFields
  /\ wire_pc = "min" => InMin(s)
  /\ wire_pc = "nums" => InNums(e, b, s)
  /\ wire_pc = "bits" => InBits(e, b, s)
  /\ wire_pc = "pad" => InPad(e, b, s)

Where(E) == Base(E) /\ \E e, b, s : Now(E, e, b, s) /\ Loops(e, b, s)
WireInv == \E E : Sending(E) /\ Where(E)

-----------------------------------------------------------------------------
\* What the message says of the set under way.
LEMMA NowHolds ==
  ASSUME WireAssumption, NEW E, Sending(E), WireTypeOK, NEW e, NEW b, NEW s, Now(E, e, b, s)
  PROVE  /\ Holds(e, b, s) /\ Size(e) \in Nat /\ Size(e) >= 2 /\ e.num \in Nat
         /\ InBytes(Len(Bits(e))) \in Nat /\ Size(e) = 2 + e.num + InBytes(Len(Bits(e)))
         /\ whole \in Nat /\ Len(wire) \in Nat /\ Len(wire) <= whole
         /\ sent.size * WireBucketBytes \in Nat /\ sent.size \in 1 .. MaxSize
         /\ list = "added" => s + Size(e) = Start(E, "removed")
         /\ list = "removed" => s + Size(e) = EndOf(E)
         /\ EndOf(E) \in Nat /\ EndOf(E) >= 5
<1>1. sent.added \in Bitsets /\ sent.removed \in Bitsets /\ sent.size \in 1 .. MaxSize
  BY DEF WireTypeOK, Messages, WireAssumption
<1> DEFINE x == Size(E.added)
           y == Size(E.removed)
           z == sent.size * WireBucketBytes
<1>2. Encoding(E.added, sent.added) /\ Encoding(E.removed, sent.removed)
  BY DEF Sending
<1>3. x \in Nat /\ E.added.num \in Nat /\ InBytes(Len(Bits(E.added))) \in Nat
  BY <1>1, <1>2, UnitsAre
<1>4. y \in Nat /\ E.removed.num \in Nat /\ InBytes(Len(Bits(E.removed))) \in Nat
  BY <1>1, <1>2, UnitsAre
<1>5. z \in Nat
  BY <1>1 DEF WireAssumption
<1>6. /\ whole = ((5 + x + y) - 1) + z /\ Len(wire) \in 0 .. whole /\ EndOf(E) = 5 + x + y
      /\ Written(wire, 5, E.added, sent.added) /\ Written(wire, 5 + x, E.removed, sent.removed)
  BY DEF Sending, EndOf
<1>7. whole \in Nat /\ Len(wire) \in Nat /\ Len(wire) <= whole /\ EndOf(E) \in Nat /\ EndOf(E) >= 5
  <2> HIDE DEF x, y, z
  <2> QED BY <1>3, <1>4, <1>5, <1>6
<1>8. Size(e) = 2 + e.num + InBytes(Len(Bits(e)))
  BY DEF Size
<1>9. CASE list = "added"
  <2>1. e = E.added /\ b = sent.added /\ s = 5 /\ Size(e) = x
    BY <1>9 DEF Now, Start
  <2>2. 5 + x = Start(E, "removed")
    BY DEF Start
  <2>3. s + Size(e) - 1 <= whole
    <3> HIDE DEF x, y, z
    <3> QED BY <1>3, <1>4, <1>5, <1>6, <2>1
  <2>4. Holds(e, b, s)
    BY <1>1, <1>2, <1>6, <2>1, <2>3 DEF Holds
  <2>5. e.num \in Nat /\ InBytes(Len(Bits(e))) \in Nat /\ Size(e) \in Nat /\ Size(e) >= 2
    <3>1. e.num \in Nat /\ InBytes(Len(Bits(e))) \in Nat
      BY <1>3, <2>1
    <3> QED BY <1>8, <3>1
  <2> QED BY <1>1, <1>5, <1>7, <1>8, <1>9, <2>1, <2>2, <2>4, <2>5
<1>10. CASE list = "removed"
  <2>1. e = E.removed /\ b = sent.removed /\ s = 5 + x /\ Size(e) = y
    BY <1>10 DEF Now, Start
  <2>3. s + Size(e) - 1 <= whole /\ s + Size(e) = EndOf(E) /\ s \in Nat /\ s >= 5
    <3>1. whole = ((5 + x + y) - 1) + z /\ EndOf(E) = 5 + x + y
      BY <1>6
    <3> HIDE DEF x, y, z
    <3>2. s = 5 + x /\ Size(e) = y /\ x \in Nat /\ y \in Nat /\ z \in Nat
      BY <1>3, <1>4, <1>5, <2>1
    <3>3. s + y - 1 <= whole /\ s + y = EndOf(E) /\ s \in Nat /\ s >= 5
      BY <3>1, <3>2
    <3> QED BY <3>2, <3>3
  <2>4. Holds(e, b, s)
    BY <1>1, <1>2, <1>6, <2>1, <2>3 DEF Holds
  <2>5. e.num \in Nat /\ InBytes(Len(Bits(e))) \in Nat /\ Size(e) \in Nat /\ Size(e) >= 2
    <3>1. e.num \in Nat /\ InBytes(Len(Bits(e))) \in Nat
      BY <1>4, <2>1
    <3> QED BY <1>8, <3>1
  <2> HIDE DEF x, y, z
  <2> QED BY <1>1, <1>5, <1>7, <1>8, <1>10, <2>3, <2>4, <2>5 DEF z
<1> QED BY <1>9, <1>10 DEF WireTypeOK

\* The bit at a place that arrived is the one that was sent; those behind the
\* last are 0.
LEMMA BitIs ==
  ASSUME WireAssumption, NEW e, NEW b, NEW s, Holds(e, b, s),
         NEW pos \in Nat, pos < ByteBits * InBytes(Len(Bits(e))),
         s + 2 + e.num + pos \div ByteBits <= Len(wire)
  PROVE  /\ pos \div ByteBits \in Nat /\ pos \div ByteBits < InBytes(Len(Bits(e)))
         /\ (pos % ByteBits) \in wire[s + 2 + e.num + pos \div ByteBits]
              <=> pos < Len(Bits(e)) /\ Bits(e)[pos + 1]
<1> DEFINE B == ByteBits
           d == pos \div ByteBits
           r == pos % ByteBits
           z == InBytes(Len(Bits(e)))
           n == e.num
<1>1. B \in Nat \ {0}
  BY DEF WireAssumption
<1>2. b \in Bitsets /\ Encoding(e, b) /\ Written(wire, s, e, b) /\ s \in Nat
  BY DEF Holds
<1>3. d \in Nat /\ r \in 0 .. B - 1 /\ pos = d * B + r
  BY <1>1, NextPlace
<1>4. n \in Nat /\ z \in Nat /\ Len(Bits(e)) \in Nat
  BY <1>2, UnitsAre, BitsAre
<1>5. d < z
  BY <1>1, <1>4, NextPlace
<1>6. d + 1 \in 1 .. z
  <2> HIDE DEF d, z
  <2> QED BY <1>3, <1>4, <1>5
<1>7. s + 1 + n + (d + 1) = s + 2 + n + d /\ s + 2 + n + d <= Len(wire)
  <2>1. s + 2 + n + d <= Len(wire)
    OBVIOUS
  <2> HIDE DEF d, n
  <2> QED BY <1>2, <1>3, <1>4, <2>1
<1>8. wire[s + 2 + n + d] = Bytes(Bits(e))[d + 1]
  <2>1. \A k \in 1 .. z : s + 1 + n + k <= Len(wire) => wire[s + 1 + n + k] = Bytes(Bits(e))[k]
    BY <1>2 DEF Written
  <2> HIDE DEF d, n, z
  <2> QED BY <1>6, <1>7, <2>1
<1>9. r \in Bytes(Bits(e))[d + 1]
        <=> ((d + 1) - 1) * B + r + 1 <= Len(Bits(e)) /\ Bits(e)[((d + 1) - 1) * B + r + 1]
  <2>1. \A m \in 1 .. z, k \in 0 .. B - 1 :
          k \in Bytes(Bits(e))[m]
            <=> (m - 1) * B + k + 1 <= Len(Bits(e)) /\ Bits(e)[(m - 1) * B + k + 1]
    BY <1>4, BytesAre
  <2> HIDE DEF d, z, r, B
  <2> QED BY <1>3, <1>6, <2>1
<1>10. ((d + 1) - 1) * B + r + 1 = pos + 1
  <2> HIDE DEF d, r, B
  <2>1. (d + 1) - 1 = d
    BY <1>1, <1>3
  <2> QED BY <1>1, <1>3, <2>1
<1>11. r \in wire[s + 2 + n + d] <=> pos + 1 <= Len(Bits(e)) /\ Bits(e)[pos + 1]
  <2> HIDE DEF d, r, B, n
  <2> QED BY <1>8, <1>9, <1>10
<1>12. pos + 1 <= Len(Bits(e)) <=> pos < Len(Bits(e))
  BY <1>4
<1> QED BY <1>3, <1>5, <1>11, <1>12

\* One bit further, and what pull_bit said of it if it read what arrived.
LEMMA OneBit ==
  ASSUME WireAssumption, WireTypeOK, NEW e, NEW b, NEW s, Holds(e, b, s),
         Len(wire) \in Nat,
         NEW pos \in Nat, pos < ByteBits * InBytes(Len(Bits(e))),
         Cursor(s + 2 + e.num, pos), p = NULL => Len(wire) < whole,
         NEW bit \in BOOLEAN, pull_bit(bit), UNCHANGED <<sent, whole, wire>>
  PROVE  /\ Cursor(s + 2 + e.num, pos + 1)'
         /\ p' \in 0 .. Len(wire) + 1 /\ bitoff' \in 0 .. ByteBits - 1
         /\ p' = NULL => Len(wire) < whole
         /\ Clean' => Clean /\ p <= Len(wire)
         /\ p # NULL /\ Len(wire) < p => Len(wire) < whole
         /\ p # NULL /\ p <= Len(wire) => (bit <=> pos < Len(Bits(e)) /\ Bits(e)[pos + 1])
<1> DEFINE B == ByteBits
           d == pos \div ByteBits
           r == pos % ByteBits
           n == e.num
           z == InBytes(Len(Bits(e)))
           h == s + 2 + n
           l == Len(wire)
           d1 == (pos + 1) \div ByteBits
           r1 == (pos + 1) % ByteBits
<1>1. /\ B \in Nat \ {0}
      /\ l \in Nat /\ whole \in Nat /\ l <= whole /\ p \in 0 .. l + 1 /\ bitoff \in 0 .. B - 1
  BY DEF WireTypeOK, WireAssumption
<1>2. b \in Bitsets /\ Encoding(e, b) /\ s \in Nat /\ s >= 5 /\ s + Size(e) - 1 <= whole
  BY DEF Holds
<1>3. n \in Nat /\ z \in Nat /\ Size(e) = 2 + n + z /\ h \in Nat /\ h > 0
  <2>1. n \in Nat /\ z \in Nat /\ Size(e) = 2 + n + z
    BY <1>2, UnitsAre DEF Size
  <2> HIDE DEF n, z
  <2> QED BY <1>2, <2>1
<1>4. d \in Nat /\ r \in 0 .. B - 1 /\ d < z /\ d1 \in Nat /\ r1 \in 0 .. B - 1
  <2>1. pos + 1 \in Nat
    OBVIOUS
  <2>2. d1 \in Nat /\ r1 \in 0 .. B - 1
    BY <1>1, <2>1, NextPlace
  <2> QED BY <1>1, <1>3, <2>2, NextPlace
<1>5. /\ r + 1 < B => d1 = d /\ r1 = r + 1
      /\ r + 1 = B => d1 = d + 1 /\ r1 = 0
      /\ (r + 1) % B = r1
  BY <1>1, NextPlace
<1>6. /\ p = NULL => bitoff = 0
      /\ p # NULL => p = h + d /\ bitoff = r
  BY DEF Cursor
<1>7. /\ p' = NULL => bitoff' = 0
      /\ p' # NULL => p' = h + d1 /\ bitoff' = r1
      => Cursor(h, pos + 1)'
  BY DEF Cursor
<1>8. pull_bit(bit)
  OBVIOUS
<1>9. /\ bit \in IF p = NULL THEN {FALSE} ELSE IF p <= l THEN {bitoff \in wire[p]} ELSE BOOLEAN
      /\ bitoff' = IF p = NULL THEN bitoff ELSE (bitoff + 1) % B
      /\ p' = IF p = NULL \/ bitoff + 1 # B THEN p ELSE IF l + 1 - p = 0 THEN NULL ELSE p + 1
  BY <1>8 DEF pull_bit, len
<1>10. wire' = wire
  OBVIOUS
<1>11. Clean <=> p # NULL /\ (p <= l \/ bitoff = 0)
  BY DEF Clean
<1>12. Clean' <=> p' # NULL /\ (p' <= l \/ bitoff' = 0)
  BY <1>10 DEF Clean
<1>13. p = NULL => l < whole
  OBVIOUS
<1>14. p # NULL /\ p <= l => (bit <=> pos < Len(Bits(e)) /\ Bits(e)[pos + 1])
  <2> HAVE p # NULL /\ p <= l
  <2>1. bit <=> bitoff \in wire[p]
    BY <1>9
  <2>2. h + d <= l /\ p = h + d /\ bitoff = r
    <3> HIDE DEF h, d, r, l
    <3> QED BY <1>6
  <2>3. r \in wire[h + d] <=> pos < Len(Bits(e)) /\ Bits(e)[pos + 1]
    BY <2>2, BitIs
  <2> HIDE DEF h, d, r, l
  <2> QED BY <2>1, <2>2, <2>3
<1>15. s + (1 + n + z) <= whole
  <2> HIDE DEF n, z
  <2> QED BY <1>1, <1>2, <1>3
<1>16. h = s + 2 + n
  OBVIOUS
<1> HIDE DEF h, d, r, l, n, z, d1, r1, B
<1>17. p # NULL /\ l < p => l < whole
  BY <1>1, <1>2, <1>3, <1>4, <1>6, <1>15, <1>16
<1>18. CASE p = NULL
  <2>1. p' = NULL /\ bitoff' = 0
    BY <1>6, <1>9, <1>18
  <2>2. p' \in 0 .. l + 1 /\ bitoff' \in 0 .. B - 1
    BY <1>1, <2>1 DEF NULL
  <2> QED BY <1>7, <1>12, <1>13, <1>14, <1>18, <2>1, <2>2 DEF h, l, n, B
<1>19. CASE p # NULL
  <2>1. p = h + d /\ bitoff = r /\ bitoff' = r1
    BY <1>5, <1>6, <1>9, <1>19
  <2>2. CASE r + 1 # B
    <3>1. p' = p /\ d1 = d /\ r1 = r + 1
      BY <1>1, <1>4, <1>5, <1>9, <2>1, <2>2
    <3>2. Cursor(h, pos + 1)'
      BY <1>7, <1>19, <2>1, <3>1
    <3>3. Clean' => p <= l
      BY <1>1, <1>4, <1>12, <2>1, <3>1
    <3>4. p' \in 0 .. l + 1 /\ bitoff' \in 0 .. B - 1
      BY <1>1, <1>4, <2>1, <3>1
    <3> QED BY <1>11, <1>14, <1>17, <1>19, <3>1, <3>2, <3>3, <3>4 DEF h, l, n, B
  <2>3. CASE r + 1 = B
    <3>1. d1 = d + 1 /\ bitoff' = 0
      BY <1>5, <2>1, <2>3
    <3>2. p' = IF p = l + 1 THEN NULL ELSE p + 1
      BY <1>1, <1>9, <1>19, <2>1, <2>3
    <3>3. Clean' => p <= l
      BY <1>1, <1>12, <3>2
    <3>4. Cursor(h, pos + 1)'
      BY <1>1, <1>3, <1>4, <1>7, <2>1, <3>1, <3>2
    <3>5. p' = NULL => l < whole
      BY <1>1, <1>17, <1>19, <3>2 DEF NULL
    <3>6. p' \in 0 .. l + 1 /\ bitoff' \in 0 .. B - 1
      BY <1>1, <3>1, <3>2 DEF NULL
    <3> QED BY <1>11, <1>14, <1>17, <1>19, <3>3, <3>4, <3>5, <3>6 DEF h, l, n, B
  <2> QED BY <2>2, <2>3
<1> QED BY <1>18, <1>19

\* n is a length at which the q-th string may be the next.
Between(e, q, n) ==
  \A m \in 1 .. Len(e.order) : /\ m < q => Len(e.order[m]) <= n
                               /\ q <= m => Len(e.order[m]) >= n

\* The strings read of one length tell whether the next string has it.
LEMMA StillToRead ==
  ASSUME NEW b \in Bitsets, NEW e, Encoding(e, b),
         NEW q \in 1 .. Len(e.order) + 1, NEW n \in Nat,
         Between(e, q, n)
  PROVE  /\ Cardinality(ReadOf(e, q, n)) \in Nat
         /\ Cardinality(ReadOf(e, q, n)) < Cardinality(OfLength(b, n))
              <=> q <= Len(e.order) /\ Len(e.order[q]) = n
         /\ q <= Len(e.order) /\ Len(e.order[q]) = n =>
              Cardinality(ReadOf(e, q + 1, n))
                = Cardinality(ReadOf(e, q, n)) + 1
         /\ Cardinality(ReadOf(e, q, n)) = Cardinality(OfLength(b, n)) =>
              \A m \in 1 .. Len(e.order) : q <= m => Len(e.order[m]) >= n + 1
         /\ Cardinality(ReadOf(e, q, n + 1)) = 0
<1> USE WireAssumption
<1> DEFINE o == e.order
           z == Len(o)
           R == ReadOf(e, q, n)
           R1 == ReadOf(e, q + 1, n)
           O == OfLength(b, n)
<1>1. /\ z \in Nat
      /\ \A m \in 1 .. z : o[m] \in b /\ Len(o[m]) \in Nat
      /\ \A m, k \in 1 .. z : o[m] = o[k] => m = k
      /\ \A m, k \in 1 .. z : m < k => Len(o[m]) <= Len(o[k])
      /\ \A t \in b : \E m \in 1 .. z : o[m] = t
  <2>1. z \in Nat /\ \A m \in 1 .. z : o[m] \in b /\ Len(o[m]) \in Nat
    <3>1. MaxLen \in Nat
      BY DEF WireAssumption
    <3>2. z \in Nat /\ \A m \in 1 .. z : o[m] \in b /\ Len(o[m]) \in 0 .. MaxLen
      BY BitsAre
    <3> HIDE DEF o, z
    <3> QED BY <3>1, <3>2
  <2> QED BY <2>1 DEF Encoding
<1>2. IsFiniteSet(b)
  BY BitsetIs
<1>3. O \subseteq b /\ \A t : t \in O <=> t \in b /\ Len(t) = n
  BY DEF OfLength
<1>4. \A t : t \in Read(e, q) <=> \E m \in 1 .. z : m < q /\ t = o[m]
  <2>1. 1 .. q - 1 = {m \in 1 .. z : m < q}
    BY <1>1
  <2> QED BY <2>1 DEF Read
<1>5. q <= z => \A t : t \in Read(e, q + 1) <=> t \in Read(e, q) \/ t = o[q]
  <2> HAVE q <= z
  <2>1. 1 .. (q + 1) - 1 = {m \in 1 .. z : m <= q}
    BY <1>1
  <2>2. \A t : t \in Read(e, q + 1) <=> \E m \in 1 .. z : m <= q /\ t = o[m]
    BY <2>1 DEF Read
  <2>3. q \in 1 .. z /\ \A m \in 1 .. z : m <= q <=> m < q \/ m = q
    BY <1>1
  <2> QED BY <1>4, <2>2, <2>3
<1> HIDE DEF o, z
<1>6. R \subseteq O
  BY <1>1, <1>3, <1>4 DEF ReadOf
<1>7. IsFiniteSet(O)
  BY <1>2, <1>3, FS_Subset
<1>8. /\ IsFiniteSet(R) /\ Cardinality(R) <= Cardinality(O)
      /\ Cardinality(R) = Cardinality(O) => R = O
  BY <1>6, <1>7, FS_Subset
<1>9. Cardinality(R) \in Nat /\ Cardinality(O) \in Nat
  BY <1>7, <1>8, FS_CardinalityType
<1>10. ASSUME q <= z, Len(o[q]) = n
       PROVE  o[q] \in O /\ o[q] \notin R /\ R1 = R \cup {o[q]}
  <2>1. q \in 1 .. z
    BY <1>1, <1>10 DEF o, z
  <2>2. o[q] \in O
    BY <1>1, <1>3, <1>10, <2>1
  <2>3. o[q] \notin Read(e, q)
    BY <1>1, <1>4, <2>1
  <2>4. R1 = R \cup {o[q]}
    BY <1>5, <1>10 DEF ReadOf
  <2> QED BY <2>2, <2>3, <2>4 DEF ReadOf
<1>11. ASSUME q <= z, Len(o[q]) = n
       PROVE  Cardinality(R) < Cardinality(O) /\ Cardinality(R1) = Cardinality(R) + 1
  <2>1. R # O
    BY <1>10, <1>11
  <2>2. Cardinality(R \cup {o[q]}) = Cardinality(R) + 1
    BY <1>8, <1>10, <1>11, FS_AddElement
  <2>3. Cardinality(R1) = Cardinality(R) + 1
    BY <1>10, <1>11, <2>2
  <2>4. Cardinality(R) < Cardinality(O)
    <3> HIDE DEF R, O
    <3> QED BY <1>8, <1>9, <2>1
  <2> QED BY <2>3, <2>4
<1>12. ASSUME ~(q <= z /\ Len(o[q]) = n)
       PROVE  \A m \in 1 .. z : q <= m => Len(o[m]) >= n + 1
  <2> TAKE m \in 1 .. z
  <2> HAVE q <= m
  <2>1. q \in 1 .. z
    BY <1>1
  <2>2. Len(o[q]) >= n /\ Len(o[m]) >= n
    BY <2>1 DEF o, z, Between
  <2>3. Len(o[q]) \in Nat /\ Len(o[m]) \in Nat /\ Len(o[q]) <= Len(o[m])
    BY <1>1, <2>1
  <2>4. Len(o[q]) # n
    BY <1>12, <2>1
  <2> QED BY <2>2, <2>3, <2>4
<1>13. ASSUME ~(q <= z /\ Len(o[q]) = n)
       PROVE  Cardinality(R) = Cardinality(O)
  <2>1. ASSUME NEW t \in O PROVE t \in R
    <3>1. PICK m \in 1 .. z : o[m] = t
      BY <1>1, <1>3, <2>1
    <3>2. Len(o[m]) = n
      BY <1>3, <2>1, <3>1
    <3>3. ~(q <= m)
      BY <1>1, <1>12, <1>13, <3>2
    <3>4. m < q
      BY <1>1, <3>1, <3>3
    <3> QED BY <1>4, <3>1, <3>2, <3>4 DEF ReadOf
  <2>2. R = O
    BY <1>6, <2>1
  <2> QED BY <2>2
<1>14. Cardinality(ReadOf(e, q, n + 1)) = 0
  <2>1. \A t \in Read(e, q) : Len(t) # n + 1
    <3> TAKE t \in Read(e, q)
    <3>1. PICK m \in 1 .. z : m < q /\ t = o[m]
      BY <1>4
    <3>2. Len(o[m]) <= n
      BY <3>1 DEF o, z, Between
    <3>3. Len(o[m]) \in Nat
      BY <1>1, <3>1
    <3> QED BY <3>1, <3>2, <3>3
  <2>2. ReadOf(e, q, n + 1) = {}
    BY <2>1 DEF ReadOf
  <2> QED BY <2>2, FS_EmptySet
<1> HIDE DEF R, R1, O
<1> QED BY <1>9, <1>11, <1>12, <1>13, <1>14 DEF R, R1, O, o, z

\* What was sent and what arrived of it never changes.
LEMMA SendingStays ==
  ASSUME NEW E, Sending(E), UNCHANGED <<sent, whole, wire>>
  PROVE  Sending(E)'
  BY DEF Sending, Written, EndOf

\* The message's first units.
LEMMA FieldsInv ==
  ASSUME WireAssumption, NEW E, Sending(E), Base(E), NEW e, NEW b, NEW s,
         Now(E, e, b, s), Loops(e, b, s), PullFields
  PROVE  Base(E)' /\ Now(E, e, b, s)' /\ Loops(e, b, s)'
<1>1. WireTypeOK /\ got = [f \in GotNames |-> got[f]]
  BY DEF Base
<1>2. wire_pc = "fields" /\ UNCHANGED <<sent, whole, wire, list, loopvars>>
  BY DEF PullFields
<1>3. p = 1 /\ list = "added" /\ v = <<>> /\ bitoff = 0 /\ got.added = {} /\ got.removed = {}
  BY <1>2 DEF Loops, InFields, AtRest, Base
<1>4. s = 5 /\ Now(E, e, b, s)'
  BY <1>2, <1>3 DEF Now, Start
<1>5. Len(wire) \in Nat /\ whole \in Nat /\ Len(wire) <= whole /\ s + Size(e) - 1 <= whole
      /\ Size(e) \in Nat /\ Size(e) >= 2
  BY <1>1, NowHolds DEF Holds
<1> DEFINE l == Len(wire)
           tx == After(After(After(1)))
<1>6. p' = After(tx)
  BY <1>3 DEF PullFields
<1>7. UNCHANGED <<min, num, nums, i, j, v, bitoff>>
  BY <1>2 DEF loopvars
<1>8. CASE l < 4
  <2>1. After(tx) = NULL
    BY <1>5, <1>8 DEF After, Pullable, NULL
  <2>2. p' = NULL /\ wire_pc' = "refused" /\ UNCHANGED got
    BY <1>6, <2>1 DEF PullFields, Refuse
  <2>3. l < whole
    BY <1>4, <1>5, <1>8
  <2>4. p' \in 0 .. Len(wire') + 1
    BY <1>2, <1>5, <2>2 DEF NULL
  <2>5. WireTypeOK'
    BY <1>1, <1>2, <1>7, <2>2, <2>4 DEF WireTypeOK
  <2>6. Base(E)'
    BY <1>1, <1>2, <1>3, <2>2, <2>3, <2>5 DEF Base
  <2>7. Loops(e, b, s)'
    BY <2>2 DEF Loops
  <2> QED BY <1>4, <2>6, <2>7
<1>9. CASE l >= 4
  <2>1. After(1) = 2 /\ After(2) = 3 /\ After(3) = 4 /\ After(4) = 5
    BY <1>5, <1>9 DEF After, Pullable, NULL
  <2>2. p' = 5 /\ wire_pc' = "min"
        /\ got' = [got EXCEPT !.seed = Varint(1), !.min_fee_per_byte = Varint(2),
                              !.size = Varint(3), !.coinbase = wire[4]]
    <3>1. p' = 5 /\ p' # NULL /\ tx = 4 /\ After(p) = 2 /\ After(After(p)) = 3
      BY <1>3, <1>6, <2>1 DEF NULL
    <3>2. wire_pc' = "min" /\ got' = [got EXCEPT !.seed = Varint(p),
             !.min_fee_per_byte = Varint(2), !.size = Varint(3), !.coinbase = wire[4]]
      BY <2>1, <3>1 DEF PullFields
    <3> QED BY <1>3, <3>1, <3>2
  <2>3. Varint(1) = wire[1] /\ Varint(2) = wire[2] /\ Varint(3) = wire[3]
    BY <1>5, <1>9 DEF Varint, Pullable, NULL
  <2>4. 4 <= l
    BY <1>5, <1>9
  <2>5. wire[1] = sent.seed /\ wire[2] = sent.min_fee_per_byte
        /\ wire[3] = sent.size /\ wire[4] = sent.coinbase
    BY <2>4 DEF Sending
  <2>6. got' = [got EXCEPT !.seed = sent.seed, !.min_fee_per_byte = sent.min_fee_per_byte,
                           !.size = sent.size, !.coinbase = sent.coinbase]
    BY <2>2, <2>3, <2>5
  <2>7. /\ got' = [f \in GotNames |-> got'[f]]
        /\ \A f \in FieldNames : got'[f] = sent[f]
        /\ got'.added = got.added /\ got'.removed = got.removed
    BY <1>1, <2>6 DEF GotNames, FieldNames
  <2>8. p' \in 0 .. Len(wire') + 1 /\ p' # NULL
    BY <1>2, <1>5, <2>2, <2>4 DEF NULL
  <2>9. WireTypeOK'
    BY <1>1, <1>2, <1>7, <2>2, <2>7, <2>8 DEF WireTypeOK
  <2>10. Base(E)'
    BY <1>2, <1>3, <2>2, <2>7, <2>8, <2>9 DEF Base
  <2>11. Loops(e, b, s)'
    BY <1>2, <1>3, <1>4, <1>7, <2>2, <2>7 DEF Loops, InMin, AtRest
  <2> QED BY <1>4, <2>10, <2>11
<1> QED BY <1>5, <1>8, <1>9

\* The first two numbers of a set.
LEMMA MinNumInv ==
  ASSUME WireAssumption, NEW E, Sending(E), Base(E), NEW e, NEW b, NEW s,
         Now(E, e, b, s), Loops(e, b, s), PullMinNum
  PROVE  Base(E)' /\ Now(E, e, b, s)' /\ Loops(e, b, s)'
<1>1. WireTypeOK
  BY DEF Base
<1>2. wire_pc = "min" /\ UNCHANGED <<sent, whole, wire, list, v, bitoff, got>>
  BY DEF PullMinNum
<1>3. p = s /\ AtRest
  BY <1>2 DEF Loops, InMin
<1>4. Now(E, e, b, s)'
  BY <1>2 DEF Now
<1>5. Len(wire) \in Nat /\ whole \in Nat /\ Len(wire) <= whole /\ s + Size(e) - 1 <= whole
      /\ Size(e) \in Nat /\ Size(e) >= 2 /\ s \in Nat /\ s >= 5
      /\ Encoding(e, b) /\ Written(wire, s, e, b)
  BY <1>1, NowHolds DEF Holds
<1>6. e.min \in 0 .. MaxLen /\ e.num \in 0 .. MaxLen /\ e.min + e.num <= MaxLen + 1
      /\ MaxLen \in Nat
  BY <1>5 DEF Encoding, WireAssumption
<1>7. (s <= Len(wire) => wire[s] = e.min) /\ (s + 1 <= Len(wire) => wire[s + 1] = e.num)
  BY <1>5 DEF Written
<1>8. min' = Varint(s) /\ num' = Varint(After(s)) /\ p' = After(After(s))
  BY <1>3 DEF PullMinNum
<1>9. nums' = <<>> /\ i' = min' /\ j' = 0
  BY DEF PullMinNum
<1>10. /\ min' \in 0 .. MaxLen /\ num' \in 0 .. MaxLen /\ min' + num' <= MaxLen + 1
       /\ p' \in 0 .. Len(wire) + 1
       /\ p' = NULL => Len(wire) < whole
       /\ p' # NULL => min' = e.min /\ num' = e.num /\ p' = s + 2
  <2>1. CASE s + 1 <= Len(wire)
    <3>1. After(s) = s + 1 /\ After(s + 1) = s + 2
      BY <1>5, <2>1 DEF After, Pullable, NULL
    <3>2. Varint(s) = e.min /\ Varint(s + 1) = e.num
      BY <1>5, <1>7, <2>1 DEF Varint, Pullable, NULL
    <3> QED BY <1>5, <1>6, <1>8, <2>1, <3>1, <3>2 DEF NULL
  <2>2. CASE ~(s + 1 <= Len(wire))
    <3>1. After(After(s)) = NULL /\ Varint(After(s)) = 0 /\ Varint(s) \in {0, e.min}
      BY <1>5, <1>7, <2>2 DEF After, Varint, Pullable, NULL
    <3>2. Len(wire) < whole
      BY <1>5, <2>2
    <3> QED BY <1>5, <1>6, <1>8, <3>1, <3>2 DEF NULL
  <2> QED BY <2>1, <2>2
<1>11. wire_pc' = "nums"
  BY <1>6, <1>10 DEF PullMinNum
<1>12. nums' \in Seq(Nat) /\ Len(nums') = 0 /\ i' \in 0 .. MaxLen + 1 /\ j' \in Nat
  BY <1>6, <1>9, <1>10
<1>13. WireTypeOK'
  BY <1>1, <1>2, <1>10, <1>11, <1>12 DEF WireTypeOK
<1>14. Base(E)'
  BY <1>2, <1>10, <1>11, <1>13 DEF Base
<1>15. AtRest'
  BY <1>2, <1>3 DEF AtRest
<1>16. InNums(e, b, s)'
  <2>1. \A k \in 1 .. Len(nums') : FALSE
    BY <1>12
  <2>2. p' # NULL => p' = s + 2 + Len(nums')
    BY <1>5, <1>10, <1>12
  <2> QED BY <1>9, <1>10, <1>15, <2>1, <2>2 DEF InNums
<1>17. Loops(e, b, s)'
  BY <1>11, <1>16 DEF Loops
<1> QED BY <1>4, <1>14, <1>17

\* The first string to read: a string of no bits, if there is one, is not read.
LEMMA FirstString ==
  ASSUME WireAssumption, NEW b \in Bitsets, NEW e, Encoding(e, b)
  PROVE  \E q \in 1 .. Len(e.order) + 1 :
           /\ Before(e, q) = 0 /\ Read(e, q) \subseteq {<<>>}
           /\ \A m \in 1 .. Len(e.order) : m < q => Len(e.order[m]) = 0
           /\ \A m \in 1 .. Len(e.order) : q <= m => Len(e.order[m]) > 0 /\ Len(e.order[m]) >= e.min
<1> DEFINE o == e.order
           z == Len(o)
<1>1. /\ z \in Nat /\ MaxLen \in Nat
      /\ \A m \in 1 .. z : o[m] \in b /\ Len(o[m]) \in 0 .. MaxLen
  <2>1. z \in Nat /\ \A m \in 1 .. z : o[m] \in b /\ Len(o[m]) \in 0 .. MaxLen
    BY BitsAre
  <2> QED BY <2>1 DEF WireAssumption
<1>2. /\ \A m, k \in 1 .. z : o[m] = o[k] => m = k
      /\ \A m, k \in 1 .. z : m < k => Len(o[m]) <= Len(o[k])
      /\ \A t \in b : \E m \in 1 .. z : o[m] = t
      /\ \A t \in b : t = <<>> \/ Len(t) \in e.min .. e.min + e.num - 1
      /\ e.min \in 0 .. MaxLen /\ e.num \in 0 .. MaxLen
  BY DEF Encoding
<1>3. \A t \in b : t = <<>> <=> Len(t) = 0
  BY BitsetIs
<1>4. Before(e, 1) = 0 /\ (1 <= z => Before(e, 2) = Before(e, 1) + Len(o[1]))
  <2>1. Before(e, 1) = 0
    BY BitsAre
  <2>2. ASSUME 1 <= z PROVE Before(e, 2) = Before(e, 1) + Len(o[1])
    <3>1. 1 \in 1 .. z
      BY <1>1, <2>2
    <3>2. Before(e, 1 + 1) = Before(e, 1) + Len(o[1])
      BY <3>1, BitsAre
    <3> QED BY <3>2
  <2> QED BY <2>1, <2>2
<1>5. /\ Read(e, 1) = {}
      /\ 1 <= z => Read(e, 2) = {o[1]}
  <2>1. 1 .. 1 - 1 = {} /\ 1 .. 2 - 1 = {1}
    OBVIOUS
  <2> QED BY <2>1 DEF Read
<1> HIDE DEF o, z
<1>6. ASSUME NEW m \in 1 .. z, o[m] # <<>> PROVE Len(o[m]) > 0 /\ Len(o[m]) >= e.min
  <2>1. Len(o[m]) \in e.min .. e.min + e.num - 1 /\ Len(o[m]) # 0 /\ Len(o[m]) \in 0 .. MaxLen
    BY <1>1, <1>2, <1>3, <1>6
  <2> QED BY <1>1, <1>2, <2>1
<1>7. CASE <<>> \in b
  <2>1. PICK m \in 1 .. z : o[m] = <<>>
    BY <1>2, <1>7
  <2>2. 1 \in 1 .. z
    BY <1>1, <2>1
  <2>3. Len(o[1]) = 0
    <3>1. Len(o[m]) = 0
      BY <1>3, <1>7, <2>1
    <3>2. m = 1 \/ Len(o[1]) <= Len(o[m])
      BY <1>1, <1>2, <2>1, <2>2
    <3> QED BY <1>1, <2>2, <3>1, <3>2
  <2>4. o[1] = <<>>
    BY <1>1, <1>3, <2>2, <2>3
  <2>5. Before(e, 2) = 0 /\ Read(e, 2) = {<<>>}
    BY <1>1, <1>4, <1>5, <2>2, <2>3, <2>4
  <2>6. \A k \in 1 .. z : 2 <= k => o[k] # <<>>
    BY <1>2, <2>2, <2>4
  <2>7. \A k \in 1 .. z : k < 2 => k = 1
    BY <1>1
  <2>8. 2 \in 1 .. z + 1
    BY <1>1, <2>2
  <2> QED BY <1>6, <2>3, <2>5, <2>6, <2>7, <2>8 DEF o, z
<1>8. CASE <<>> \notin b
  <2>1. \A k \in 1 .. z : o[k] # <<>> /\ ~(k < 1)
    BY <1>1, <1>8
  <2>2. 1 \in 1 .. z + 1
    BY <1>1
  <2> QED BY <1>4, <1>5, <1>6, <2>1, <2>2 DEF o, z
<1> QED BY <1>7, <1>8

\* The numbers of strings of each length.
LEMMA NumsInv ==
  ASSUME WireAssumption, NEW E, Sending(E), Base(E), NEW e, NEW b, NEW s,
         Now(E, e, b, s), Loops(e, b, s), PullNums
  PROVE  Base(E)' /\ Now(E, e, b, s)' /\ Loops(e, b, s)'
<1>1. WireTypeOK
  BY DEF Base
<1>2. wire_pc = "nums" /\ UNCHANGED <<sent, whole, wire, list, min, num, i, j, v, bitoff, got>>
  BY DEF PullNums
<1>3. InNums(e, b, s)
  BY <1>2 DEF Loops
<1>4. Now(E, e, b, s)'
  BY <1>2 DEF Now
<1>5. Len(wire) \in Nat /\ whole \in Nat /\ Len(wire) <= whole /\ s + Size(e) - 1 <= whole
      /\ s \in Nat /\ s >= 5 /\ e.num \in Nat /\ InBytes(Len(Bits(e))) \in Nat
      /\ Size(e) = 2 + e.num + InBytes(Len(Bits(e)))
      /\ b \in Bitsets /\ Encoding(e, b) /\ Written(wire, s, e, b)
  BY <1>1, NowHolds DEF Holds
<1>6. e.min \in 0 .. MaxLen /\ e.num \in 0 .. MaxLen /\ MaxLen \in Nat
  BY <1>5 DEF Encoding, WireAssumption
<1> DEFINE c == Counts(e, b)
           l == Len(nums)
<1>7. \A k \in 1 .. e.num : /\ c[k] \in Nat
                            /\ s + 1 + k <= Len(wire) => wire[s + 1 + k] = c[k]
  <2> TAKE k \in 1 .. e.num
  <2>1. e.min + k - 1 \in Nat /\ c[k] = Cardinality(OfLength(b, e.min + k - 1))
    BY <1>5, <1>6 DEF Counts
  <2>2. c[k] \in Nat
    BY <1>5, <2>1, BitsetIs
  <2> QED BY <1>5, <2>2 DEF Written
<1>8. nums \in Seq(Nat) /\ l \in Nat /\ l <= num /\ num \in Nat /\ p \in 0 .. Len(wire) + 1
  BY <1>1, <1>6 DEF WireTypeOK
<1>9. /\ AtRest /\ i = min /\ j = 0 /\ min + num <= MaxLen + 1
      /\ p # NULL => /\ min = e.min /\ num = e.num /\ p = s + 2 + l
                     /\ \A k \in 1 .. l : nums[k] = c[k]
  BY <1>3 DEF InNums
<1>10. p = NULL => Len(wire) < whole
  BY DEF Base
<1>11. AtRest'
  BY <1>2, <1>9 DEF AtRest
<1> HIDE DEF c, l
<1>12. CASE l < num
  <2>1. nums' = Append(nums, Varint(p)) /\ p' = After(p) /\ wire_pc' = "nums"
    BY <1>2, <1>12 DEF PullNums, l
  <2>2. l + 1 \in 1 .. num
    BY <1>8, <1>12
  <2>3. p # NULL /\ p <= Len(wire) => /\ p' = p + 1 /\ Varint(p) = c[l + 1] /\ Varint(p) \in Nat
    <3> HAVE p # NULL /\ p <= Len(wire)
    <3>1. p' = p + 1 /\ Varint(p) = wire[p]
      BY <2>1 DEF After, Varint, Pullable
    <3>2. num = e.num /\ p = s + 2 + l
      BY <1>9
    <3>3. l + 1 \in 1 .. e.num /\ p = s + 1 + (l + 1)
      BY <1>5, <1>8, <2>2, <3>2
    <3> QED BY <1>7, <3>1, <3>3
  <2>4. ~(p # NULL /\ p <= Len(wire)) => p' = NULL /\ Varint(p) = 0
    BY <2>1 DEF After, Varint, Pullable
  <2>5. p # NULL /\ ~(p <= Len(wire)) => Len(wire) < whole
    <3> HAVE p # NULL /\ ~(p <= Len(wire))
    <3>1. num = e.num /\ p = s + 2 + l
      BY <1>9
    <3>2. p = Len(wire) + 1
      BY <1>5, <1>8
    <3>3. s + 1 + e.num <= whole
      <4> DEFINE x == InBytes(Len(Bits(e)))
      <4>1. x \in Nat /\ Size(e) = 2 + e.num + x /\ s + Size(e) - 1 <= whole
        BY <1>5
      <4> HIDE DEF x
      <4> QED BY <1>5, <4>1
    <3>4. e.num \in Nat /\ l < e.num /\ Len(wire) + 1 = s + 2 + l
      BY <1>5, <1>12, <3>1, <3>2
    <3> HIDE DEF l
    <3> QED BY <1>5, <1>8, <3>3, <3>4
  <2>6. p' = NULL => Len(wire) < whole
    BY <1>5, <1>8, <1>10, <2>3, <2>5 DEF NULL
  <2>7. Varint(p) \in Nat
    BY <2>3, <2>4
  <2>8. nums' \in Seq(Nat) /\ Len(nums') = l + 1 /\ Len(nums') <= num
        /\ \A k \in 1 .. l + 1 : nums'[k] = IF k = l + 1 THEN Varint(p) ELSE nums[k]
    <3>1. nums' \in Seq(Nat) /\ Len(nums') = l + 1
          /\ \A k \in 1 .. l + 1 : nums'[k] = IF k = l + 1 THEN Varint(p) ELSE nums[k]
      BY <1>8, <2>1, <2>7, AppendProperties DEF l
    <3> QED BY <1>8, <2>2, <3>1
  <2>9. p' \in 0 .. Len(wire) + 1
    <3>1. CASE p # NULL /\ p <= Len(wire)
      <4>1. p' = p + 1
        BY <2>3, <3>1
      <4> QED BY <1>5, <1>8, <3>1, <4>1
    <3>2. CASE ~(p # NULL /\ p <= Len(wire))
      <4>1. p' = 0
        BY <2>4, <3>2 DEF NULL
      <4> QED BY <1>5, <4>1
    <3> QED BY <3>1, <3>2
  <2>10. WireTypeOK'
    BY <1>1, <1>2, <2>1, <2>8, <2>9 DEF WireTypeOK
  <2>11. Base(E)'
    BY <1>2, <2>1, <2>6, <2>10 DEF Base
  <2>12. ASSUME p' # NULL
         PROVE  min = e.min /\ num = e.num /\ p' = s + 2 + Len(nums')
                /\ \A k \in 1 .. Len(nums') : nums'[k] = c[k]
    <3>1. p # NULL /\ p <= Len(wire)
      BY <2>4, <2>12
    <3>2. p' = s + 2 + Len(nums')
      BY <1>5, <1>8, <1>9, <2>3, <2>8, <3>1
    <3>3. \A k \in 1 .. l + 1 : nums'[k] = c[k]
      <4> TAKE k \in 1 .. l + 1
      <4>1. k = l + 1 \/ k \in 1 .. l
        BY <1>8
      <4> QED BY <1>9, <2>3, <2>8, <3>1, <4>1
    <3> QED BY <1>9, <2>8, <3>1, <3>2, <3>3
  <2>13. InNums(e, b, s)'
    BY <1>2, <1>9, <1>11, <2>12 DEF InNums, c
  <2>14. Loops(e, b, s)'
    BY <2>1, <2>13 DEF Loops
  <2> QED BY <1>4, <2>11, <2>14
<1>13. CASE ~(l < num)
  <2>1. UNCHANGED <<nums, p>> /\ IF p = NULL THEN Refuse ELSE wire_pc' = "bits"
    BY <1>13 DEF PullNums, l
  <2>2. CASE p = NULL
    <3>1. wire_pc' = "refused"
      BY <2>1, <2>2 DEF Refuse
    <3>2. WireTypeOK'
      BY <1>1, <1>2, <2>1, <3>1 DEF WireTypeOK
    <3>3. Base(E)'
      BY <1>2, <1>10, <2>1, <2>2, <3>1, <3>2 DEF Base
    <3> QED BY <1>4, <3>1, <3>3 DEF Loops
  <2>3. CASE p # NULL
    <3>1. wire_pc' = "bits"
      BY <2>1, <2>3
    <3>2. WireTypeOK'
      BY <1>1, <1>2, <2>1, <3>1 DEF WireTypeOK
    <3>3. Base(E)'
      BY <1>2, <1>10, <2>1, <2>3, <3>1, <3>2 DEF Base
    <3>4. l = e.num /\ min = e.min /\ num = e.num /\ p = s + 2 + e.num
          /\ \A k \in 1 .. e.num : nums[k] = c[k]
      BY <1>8, <1>9, <1>13, <2>3
    <3>5. nums = c
      <4>1. nums = [k \in 1 .. e.num |-> nums[k]]
        BY <1>8, <3>4 DEF l
      <4>2. c = [k \in 1 .. e.num |-> c[k]]
        BY DEF c, Counts
      <4> QED BY <3>4, <4>1, <4>2
    <3>6. PICK q \in 1 .. Len(e.order) + 1 :
            /\ Before(e, q) = 0 /\ Read(e, q) \subseteq {<<>>}
            /\ \A m \in 1 .. Len(e.order) : m < q => Len(e.order[m]) = 0
            /\ \A m \in 1 .. Len(e.order) :
                 q <= m => Len(e.order[m]) > 0 /\ Len(e.order[m]) >= e.min
      BY <1>5, FirstString
    <3>7. i' = e.min /\ i' \in Nat /\ j' = 0 /\ v' = <<>> /\ Len(v') = 0
          /\ bitoff' = 0 /\ (got[list])' = {}
      BY <1>2, <1>6, <1>9, <1>11, <3>4 DEF AtRest
    <3>8. Cursor(s + 2 + e.num, Before(e, q) + Len(v))'
      <4>1. ByteBits \in Nat \ {0} /\ 0 \div ByteBits = 0 /\ 0 % ByteBits = 0
        BY DEF WireAssumption
      <4>2. Before(e, q) + Len(v') = 0
        BY <3>6, <3>7
      <4>3. p' = s + 2 + e.num + 0
        BY <1>5, <2>1, <3>4
      <4> QED BY <2>3, <2>1, <3>7, <4>1, <4>2, <4>3 DEF Cursor
    <3>9. i' > 0 => j' = Cardinality(ReadOf(e, q, i'))
      <4> HAVE i' > 0
      <4>1. ReadOf(e, q, i') = {}
        <5>1. \A t \in Read(e, q) : Len(t) = 0
          BY <3>6
        <5> QED BY <3>7, <5>1 DEF ReadOf
      <4> QED BY <3>7, <4>1, FS_EmptySet
    <3>10. \A m \in 1 .. Len(e.order) : m < q => Len(e.order[m]) <= i'
      BY <3>6, <3>7
    <3>11. \A x \in 1 .. Len(v') : v'[x] = e.order[q][x]
      BY <3>7
    <3>12. At(e, b, s, q)'
      BY <3>6, <3>7, <3>8, <3>9, <3>10, <3>11 DEF At
    <3>13. i' \in min' .. min' + num'
      BY <1>2, <1>6, <3>4, <3>7
    <3>14. InBits(e, b, s)'
      BY <1>2, <2>1, <3>4, <3>5, <3>12, <3>13 DEF InBits, c
    <3>15. Loops(e, b, s)'
      BY <3>1, <3>14 DEF Loops
    <3> QED BY <1>4, <3>3, <3>15
  <2> QED BY <2>2, <2>3
<1> QED BY <1>12, <1>13

\* All strings of a length are read; or all strings.
LEMMA NextLengthInv ==
  ASSUME WireAssumption, NEW E, Sending(E), Base(E), NEW e, NEW b, NEW s,
         Now(E, e, b, s), Loops(e, b, s), NextLength
  PROVE  Base(E)' /\ Now(E, e, b, s)' /\ Loops(e, b, s)'
<1>1. WireTypeOK
  BY DEF Base
<1>2. wire_pc = "bits"
      /\ UNCHANGED <<sent, whole, wire, p, list, min, num, nums, v, bitoff, got>>
  BY DEF NextLength
<1>3. InBits(e, b, s)
  BY <1>2 DEF Loops
<1>4. Now(E, e, b, s)'
  BY <1>2 DEF Now
<1>5. b \in Bitsets /\ Encoding(e, b) /\ e.num \in Nat
  BY <1>1, NowHolds DEF Holds
<1>6. e.min \in 0 .. MaxLen /\ MaxLen \in Nat /\ e.min + e.num <= MaxLen + 1
      /\ (e.num > 0 => e.min > 0)
  BY <1>5 DEF Encoding, WireAssumption
<1>7. min = e.min /\ num = e.num /\ nums = Counts(e, b) /\ i \in min .. min + num
  BY <1>3 DEF InBits
<1>8. PICK q \in 1 .. Len(e.order) + 1 : At(e, b, s, q)
  BY <1>3 DEF InBits
<1> DEFINE o == e.order
           z == Len(o)
<1>9. /\ z \in Nat
      /\ \A m \in 1 .. z : o[m] \in b /\ Len(o[m]) \in 0 .. MaxLen
      /\ Before(e, z + 1) = Len(Bits(e)) /\ Len(Bits(e)) \in Nat
  BY <1>5, BitsAre
<1>10. /\ \A m \in 1 .. z : m < q => Len(o[m]) <= i
       /\ \A m \in 1 .. z : q <= m => Len(o[m]) >= i /\ Len(o[m]) > 0
       /\ i > 0 => j = Cardinality(ReadOf(e, q, i))
       /\ v # <<>> => q <= z /\ Len(o[q]) = i /\ Len(v) < i
       /\ Cursor(s + 2 + e.num, Before(e, q) + Len(v))
       /\ Clean => /\ \A x \in 1 .. Len(v) : v[x] = o[q][x]
                   /\ got[list] = Read(e, q) \ {<<>>}
  BY <1>8 DEF At
<1>11. Cursor(s + 2 + e.num, Before(e, q) + Len(v))' /\ (Clean' <=> Clean)
  BY <1>2, <1>10 DEF Cursor, Clean
<1>12. p = NULL => Len(wire) < whole
  BY DEF Base
<1>13. q \in 1 .. z + 1 /\ i \in Nat /\ i \in e.min .. e.min + e.num
  BY <1>5, <1>6, <1>7
<1> HIDE DEF o, z
<1>14. CASE i = min + num
  <2>1. wire_pc' = "pad" /\ UNCHANGED <<i, j>>
    BY <1>14 DEF NextLength
  <2>2. WireTypeOK'
    BY <1>1, <1>2, <2>1 DEF WireTypeOK
  <2>3. Base(E)'
    BY <1>2, <1>12, <2>1, <2>2 DEF Base
  <2>4. \A m \in 1 .. z : q <= m => FALSE
    <3> TAKE m \in 1 .. z
    <3> HAVE q <= m
    <3>1. o[m] \in b /\ Len(o[m]) \in 0 .. MaxLen /\ Len(o[m]) >= i /\ Len(o[m]) > 0
      BY <1>9, <1>10
    <3>2. o[m] = <<>> \/ Len(o[m]) \in e.min .. e.min + e.num - 1
      BY <1>5, <3>1 DEF Encoding
    <3>3. o[m] # <<>>
      BY <3>1
    <3>4. e.min \in Nat /\ e.num \in Nat /\ i = e.min + e.num
      BY <1>5, <1>6, <1>7, <1>14
    <3>5. Len(o[m]) \in e.min .. e.min + e.num - 1
      BY <3>2, <3>3
    <3> DEFINE y == Len(o[m])
    <3>6. y \in e.min .. e.min + e.num - 1 /\ y >= i
      BY <3>1, <3>5
    <3> HIDE DEF y
    <3> QED BY <3>4, <3>6
  <2>5. q = z + 1
    BY <1>9, <1>13, <2>4
  <2>6. v = <<>>
    BY <1>9, <1>10, <1>13, <2>5
  <2>7. Before(e, q) + Len(v) = Len(Bits(e))
    BY <1>9, <2>5, <2>6
  <2>8. Read(e, q) = b
    <3>1. 1 .. q - 1 = 1 .. z
      BY <1>9, <2>5
    <3>2. Read(e, q) = {o[m] : m \in 1 .. z}
      BY <3>1 DEF Read, o
    <3>3. \A t \in b : \E m \in 1 .. z : o[m] = t
      BY <1>5 DEF Encoding, o, z
    <3> QED BY <1>9, <3>2, <3>3
  <2>9. Len(Bits(e)) \in Len(Bits(e)) .. ByteBits * InBytes(Len(Bits(e)))
    <3>1. InBytes(Len(Bits(e))) \in Nat /\ Len(Bits(e)) <= ByteBits * InBytes(Len(Bits(e)))
      BY <1>9, InBytesIs
    <3>2. ByteBits * InBytes(Len(Bits(e))) \in Nat
      BY <3>1 DEF WireAssumption
    <3> QED BY <1>9, <3>1, <3>2
  <2>10. Cursor(s + 2 + e.num, Len(Bits(e)))'
    BY <1>2, <1>11, <2>7 DEF Cursor
  <2>11. Clean' => (got[list])' = b \ {<<>>}
    BY <1>2, <1>10, <1>11, <2>8
  <2>12. InPad(e, b, s)'
    BY <1>2, <2>6, <2>9, <2>10, <2>11 DEF InPad
  <2>13. Loops(e, b, s)'
    BY <2>1, <2>12 DEF Loops
  <2> QED BY <1>4, <2>3, <2>13
<1>15. CASE i # min + num
  <2>1. wire_pc' = "bits" /\ j = nums[i - min + 1] /\ i' = i + 1 /\ j' = 0
    BY <1>2, <1>15 DEF NextLength
  <2>2. i + 1 \in min .. min + num /\ i - min + 1 \in 1 .. e.num /\ i > 0
        /\ e.min + (i - min + 1) - 1 = i
    BY <1>5, <1>6, <1>7, <1>13, <1>15
  <2>3. WireTypeOK'
    <3>1. i' \in 0 .. MaxLen + 1 /\ j' \in Nat
      BY <1>5, <1>6, <1>7, <1>13, <2>1, <2>2
    <3> QED BY <1>1, <1>2, <2>1, <3>1 DEF WireTypeOK
  <2>4. Base(E)'
    BY <1>2, <1>12, <2>1, <2>3 DEF Base
  <2>5. j = Cardinality(OfLength(b, i))
    BY <1>7, <2>1, <2>2 DEF Counts
  <2>6. Cardinality(ReadOf(e, q, i)) = Cardinality(OfLength(b, i))
    BY <1>10, <2>2, <2>5
  <2>7. /\ Cardinality(ReadOf(e, q, i)) \in Nat
        /\ Cardinality(ReadOf(e, q, i)) < Cardinality(OfLength(b, i))
             <=> q <= z /\ Len(o[q]) = i
        /\ Cardinality(ReadOf(e, q, i)) = Cardinality(OfLength(b, i)) =>
             \A m \in 1 .. z : q <= m => Len(o[m]) >= i + 1
        /\ Cardinality(ReadOf(e, q, i + 1)) = 0
    <3>1. Between(e, q, i)
      BY <1>10 DEF o, z, Between
    <3>2. q \in 1 .. Len(e.order) + 1 /\ i \in Nat
      BY <1>13 DEF o, z
    <3>3. Cardinality(ReadOf(e, q, i)) \in Nat
      BY <1>5, <3>1, <3>2, StillToRead
    <3>4. Cardinality(ReadOf(e, q, i + 1)) = 0
      BY <1>5, <3>1, <3>2, StillToRead
    <3>5. Cardinality(ReadOf(e, q, i)) < Cardinality(OfLength(b, i))
               <=> q <= Len(e.order) /\ Len(e.order[q]) = i
      BY <1>5, <3>1, <3>2, StillToRead
    <3>6. Cardinality(ReadOf(e, q, i)) = Cardinality(OfLength(b, i)) =>
               \A m \in 1 .. Len(e.order) : q <= m => Len(e.order[m]) >= i + 1
      BY <1>5, <3>1, <3>2, StillToRead
    <3> QED BY <3>3, <3>4, <3>5, <3>6 DEF o, z
  <2>8. v = <<>>
    <3>1. ~(q <= z /\ Len(o[q]) = i)
      BY <2>6, <2>7
    <3> QED BY <1>10, <3>1
  <2>9. \A m \in 1 .. z : m < q => Len(o[m]) <= i'
    BY <1>9, <1>10, <1>13, <2>1
  <2>10. \A m \in 1 .. z : q <= m => Len(o[m]) >= i' /\ Len(o[m]) > 0
    BY <1>10, <2>1, <2>6, <2>7
  <2>11. j' = Cardinality(ReadOf(e, q, i'))
    BY <2>1, <2>7
  <2>12. At(e, b, s, q)'
    BY <1>2, <1>8, <1>10, <1>11, <2>8, <2>9, <2>10, <2>11 DEF At, o, z
  <2>13. InBits(e, b, s)'
    BY <1>2, <1>7, <2>1, <2>2, <2>12 DEF InBits
  <2>14. Loops(e, b, s)'
    BY <2>1, <2>13 DEF Loops
  <2> QED BY <1>4, <2>4, <2>14
<1> QED BY <1>14, <1>15

\* The rest of the last byte.
LEMMA PadInv ==
  ASSUME WireAssumption, NEW E, Sending(E), Base(E), NEW e, NEW b, NEW s,
         Now(E, e, b, s), Loops(e, b, s), Pad
  PROVE  Base(E)' /\ Now(E, e, b, s)' /\ Loops(e, b, s)'
<1>1. WireTypeOK
  BY DEF Base
<1>2. wire_pc = "pad" /\ bitoff # 0
      /\ UNCHANGED <<sent, whole, wire, list, min, num, nums, i, j, v, got>>
  BY DEF Pad
<1>3. PICK bit \in BOOLEAN : pull_bit(bit) /\ IF bit THEN Refuse ELSE UNCHANGED wire_pc
  BY DEF Pad
<1>4. InPad(e, b, s)
  BY <1>2 DEF Loops
<1>5. Now(E, e, b, s)'
  BY <1>2 DEF Now
<1> DEFINE n == Len(Bits(e))
           z == InBytes(n)
           B == ByteBits
<1>6. PICK pos \in n .. B * z : Cursor(s + 2 + e.num, pos)
  BY <1>4 DEF InPad
<1>7. Holds(e, b, s) /\ Len(wire) \in Nat /\ z \in Nat
  BY <1>1, NowHolds
<1>8. n \in Nat /\ B \in Nat \ {0} /\ B * z \in Nat
  <2>1. n \in Nat
    BY <1>7, BitsAre DEF Holds
  <2>2. B \in Nat \ {0}
    BY DEF WireAssumption
  <2> HIDE DEF z, B
  <2> QED BY <1>7, <2>1, <2>2
<1>9. pos \in Nat /\ n <= pos /\ pos <= B * z
  <2> HIDE DEF z, B, n
  <2> QED BY <1>8
<1>10. pos # B * z
  <2>1. bitoff = pos % B
    BY <1>2, <1>6 DEF Cursor
  <2>2. ASSUME pos = B * z PROVE pos % B = 0
    <3> HIDE DEF z, B
    <3>1. pos \in Int /\ z \in Int /\ 0 \in 0 .. B - 1 /\ pos = z * B + 0
      BY <1>7, <1>8, <1>9, <2>2
    <3> QED BY <1>8, <3>1, ModUnique
  <2> QED BY <1>2, <2>1, <2>2
<1>11. pos < B * z
  <2> HIDE DEF z, B
  <2> QED BY <1>8, <1>9, <1>10
<1>12. p = NULL => Len(wire) < whole
  BY DEF Base
<1>13. /\ Cursor(s + 2 + e.num, pos + 1)'
       /\ p' \in 0 .. Len(wire) + 1 /\ bitoff' \in 0 .. ByteBits - 1
       /\ p' = NULL => Len(wire) < whole
       /\ Clean' => Clean /\ p <= Len(wire)
       /\ p # NULL /\ Len(wire) < p => Len(wire) < whole
       /\ p # NULL /\ p <= Len(wire) => (bit <=> pos < Len(Bits(e)) /\ Bits(e)[pos + 1])
  BY <1>1, <1>2, <1>3, <1>6, <1>7, <1>9, <1>11, <1>12, OneBit
<1>14. bit => Len(wire) < whole
  <2> HAVE bit
  <2>1. ~(pos < Len(Bits(e)))
    <3> HIDE DEF z, B
    <3> QED BY <1>8, <1>9
  <2>2. p = NULL \/ (p \in Nat /\ ~(p <= Len(wire)))
    BY <1>1, <1>7, <1>13, <2>1 DEF WireTypeOK
  <2>3. p = NULL \/ Len(wire) < p
    BY <1>7, <2>2
  <2> QED BY <1>12, <1>13, <2>3
<1>15. wire_pc' \in {"refused", "pad"} /\ (wire_pc' = "refused" => Len(wire) < whole)
  BY <1>2, <1>3, <1>14 DEF Refuse
<1>16. WireTypeOK'
  BY <1>1, <1>2, <1>13, <1>15 DEF WireTypeOK
<1>17. Base(E)'
  BY <1>2, <1>13, <1>15, <1>16 DEF Base
<1>18. pos + 1 \in n .. B * z
  <2> HIDE DEF z, B, n
  <2> QED BY <1>8, <1>9, <1>11
<1>19. Clean' => (got[list])' = b \ {<<>>}
  BY <1>2, <1>4, <1>13 DEF InPad
<1>20. v' = <<>>
  BY <1>2, <1>4 DEF InPad
<1>21. InPad(e, b, s)'
  BY <1>13, <1>18, <1>19, <1>20 DEF InPad
<1>22. Loops(e, b, s)'
  BY <1>15, <1>21 DEF Loops
<1> QED BY <1>5, <1>17, <1>22

\* A set is read; the other one or the IBLT comes next.
LEMMA EndListInv ==
  ASSUME WireAssumption, NEW E, Sending(E), Base(E), NEW e, NEW b, NEW s,
         Now(E, e, b, s), Loops(e, b, s), EndList
  PROVE  Base(E)' /\ \E e1, b1, s1 : Now(E, e1, b1, s1)' /\ Loops(e1, b1, s1)'
<1>1. WireTypeOK /\ list \in {"added", "removed"}
  BY DEF Base, WireTypeOK
<1>2. wire_pc = "pad" /\ bitoff = 0 /\ UNCHANGED <<sent, whole, wire, p, loopvars, got>>
  BY DEF EndList
<1>3. UNCHANGED <<min, num, nums, i, j, v, bitoff>>
  BY <1>2 DEF loopvars
<1>4. InPad(e, b, s)
  BY <1>2 DEF Loops
<1> DEFINE n == Len(Bits(e))
           z == InBytes(n)
           B == ByteBits
<1>5. PICK pos \in n .. B * z : Cursor(s + 2 + e.num, pos)
  BY <1>4 DEF InPad
<1>6. /\ Holds(e, b, s) /\ e.num \in Nat /\ z \in Nat /\ Size(e) = 2 + e.num + z
      /\ list = "added" => s + Size(e) = Start(E, "removed")
      /\ list = "removed" => s + Size(e) = EndOf(E)
  BY <1>1, NowHolds
<1>7. p = NULL => Len(wire) < whole
  BY DEF Base
<1>8. CASE p = NULL
  <2>1. wire_pc' = "refused" /\ UNCHANGED list
    BY <1>8 DEF EndList, Refuse
  <2>2. WireTypeOK'
    BY <1>1, <1>2, <1>3, <2>1 DEF WireTypeOK
  <2>3. Base(E)'
    BY <1>2, <1>7, <1>8, <2>1, <2>2 DEF Base
  <2>4. Now(E, e, b, s)' /\ Loops(e, b, s)'
    BY <1>2, <2>1 DEF Now, Loops
  <2> QED BY <2>3, <2>4
<1>9. CASE p # NULL
  <2>1. p = s + 2 + e.num + pos \div B /\ pos % B = 0 /\ Clean
    BY <1>2, <1>5, <1>9 DEF Cursor, Clean
  <2>2. n \in Nat /\ B \in Nat \ {0} /\ n <= B * z /\ B * z < n + B
    <3>1. n \in Nat
      BY <1>6, BitsAre DEF Holds
    <3> QED BY <3>1, InBytesIs DEF WireAssumption
  <2>3. pos \in Nat /\ n <= pos /\ pos <= B * z
    <3>1. B * z \in Int
      <4> HIDE DEF z, B
      <4> QED BY <1>6, <2>2
    <3> HIDE DEF z, B, n
    <3> QED BY <2>2, <3>1
  <2>4. pos \div B = z
    <3> DEFINE d == pos \div B
    <3>1. d \in Nat /\ pos = d * B + (pos % B)
      BY <2>2, <2>3, NextPlace
    <3>2. pos = d * B
      <4> DEFINE y == d * B
      <4>1. y \in Int
        <5> HIDE DEF d, B
        <5> QED BY <2>2, <3>1
      <4> HIDE DEF y
      <4> QED BY <2>1, <3>1, <4>1 DEF y
    <3> HIDE DEF d, z, B, n
    <3>3. ASSUME d < z PROVE FALSE
      <4>1. d * B + B <= B * z
        BY <1>6, <2>2, <3>1, <3>3
      <4> QED BY <1>6, <2>2, <2>3, <3>1, <3>2, <4>1
    <3>4. ASSUME z < d PROVE FALSE
      <4>1. B * z + B <= d * B
        BY <1>6, <2>2, <3>1, <3>4
      <4> QED BY <1>6, <2>2, <2>3, <3>1, <3>2, <4>1
    <3> QED BY <1>6, <3>1, <3>3, <3>4 DEF d
  <2>5. p = s + Size(e)
    <3>1. s \in Nat
      BY <1>6 DEF Holds
    <3>2. p = s + 2 + e.num + z
      BY <2>1, <2>4
    <3> HIDE DEF z
    <3> QED BY <1>6, <3>1, <3>2
  <2>6. got[list] = b \ {<<>>} /\ v = <<>>
    BY <1>4, <2>1 DEF InPad
  <2>7. CASE list = "added"
    <3>1. list' = "removed" /\ wire_pc' = "min"
      BY <1>9, <2>7 DEF EndList
    <3>2. got.added = sent.added \ {<<>>} /\ got.removed = {}
      BY <2>6, <2>7 DEF Now, Base
    <3>3. WireTypeOK'
      BY <1>1, <1>2, <1>3, <3>1 DEF WireTypeOK
    <3>4. Base(E)'
      BY <1>2, <1>7, <1>9, <3>1, <3>2, <3>3 DEF Base
    <3>5. Now(E, E.removed, sent.removed, Start(E, "removed"))'
      BY <3>1 DEF Now
    <3>6. p' = Start(E, "removed") /\ v' = <<>> /\ bitoff' = 0 /\ (got[list])' = {}
      BY <1>2, <1>3, <1>6, <2>5, <2>6, <2>7, <3>1, <3>2
    <3> DEFINE s1 == Start(E, "removed")
               e1 == E.removed
               b1 == sent.removed
    <3>7. InMin(s1)'
      BY <3>6 DEF InMin, AtRest
    <3>8. Loops(e1, b1, s1)'
      BY <3>1, <3>7 DEF Loops
    <3>9. b1' = b1
      BY <1>2
    <3> HIDE DEF s1, e1, b1
    <3> QED BY <3>4, <3>5, <3>8, <3>9 DEF s1, e1, b1
  <2>8. CASE list = "removed"
    <3>1. list' = list /\ wire_pc' = "iblt"
      BY <1>9, <2>8 DEF EndList
    <3>2. got.removed = sent.removed \ {<<>>} /\ p = EndOf(E)
      BY <1>6, <2>5, <2>6, <2>8 DEF Now
    <3>3. WireTypeOK'
      BY <1>1, <1>2, <1>3, <3>1 DEF WireTypeOK
    <3>4. Base(E)'
      BY <1>2, <1>7, <1>9, <2>8, <3>1, <3>2, <3>3 DEF Base
    <3>5. Now(E, e, b, s)'
      BY <1>2, <3>1 DEF Now
    <3>6. Loops(e, b, s)'
      BY <3>1 DEF Loops
    <3> QED BY <3>4, <3>5, <3>6
  <2> QED BY <1>1, <2>7, <2>8
<1> QED BY <1>8, <1>9

\* What is left must be the IBLT.
LEMMA IbltInv ==
  ASSUME WireAssumption, NEW E, Sending(E), Base(E), NEW e, NEW b, NEW s,
         Now(E, e, b, s), Loops(e, b, s), ReadIblt
  PROVE  Base(E)' /\ Now(E, e, b, s)' /\ Loops(e, b, s)'
<1>1. WireTypeOK
  BY DEF Base
<1>2. wire_pc = "iblt" /\ UNCHANGED <<sent, whole, wire, p, list, loopvars, got>>
  BY DEF ReadIblt
<1>3. UNCHANGED <<min, num, nums, i, j, v, bitoff>>
  BY <1>2 DEF loopvars
<1> DEFINE z == sent.size * WireBucketBytes
           l == Len(wire)
<1>4. /\ whole \in Nat /\ l \in Nat /\ l <= whole
      /\ z \in Nat /\ sent.size \in 1 .. MaxSize /\ EndOf(E) \in Nat
  BY <1>1, NowHolds
<1>5. whole = EndOf(E) - 1 + z
  BY DEF Sending
<1>6. p = EndOf(E) /\ got.size = sent.size
  BY <1>2 DEF Base, FieldNames
<1>7. wire_pc' \in {"refused", "done"}
  BY DEF ReadIblt, Refuse
<1>8. MaxSize \in Nat
  BY DEF WireAssumption
<1>9. len = l + 1 - EndOf(E) /\ len' = len
  BY <1>2, <1>6 DEF len
<1>10. wire_pc' = "done" <=> len = z
  BY <1>4, <1>6, <1>8 DEF ReadIblt, Refuse
<1>11. len = z <=> l = whole
  <2> HIDE DEF z, l
  <2> QED BY <1>4, <1>5, <1>9
<1>12. wire_pc' = "refused" => l < whole
  <2>1. wire_pc' = "refused" => l # whole
    BY <1>10, <1>11
  <2> QED BY <1>4, <2>1
<1>13. WireTypeOK'
  BY <1>1, <1>2, <1>3, <1>7 DEF WireTypeOK
<1>14. Base(E)'
  BY <1>2, <1>7, <1>9, <1>10, <1>11, <1>12, <1>13 DEF Base
<1>15. Now(E, e, b, s)' /\ Loops(e, b, s)'
  BY <1>2, <1>7 DEF Now, Loops
<1> QED BY <1>14, <1>15

\* A string with one bit more.
LEMMA LongerString ==
  ASSUME WireAssumption, NEW w \in Strings, Len(w) < MaxLen, NEW bit \in BOOLEAN
  PROVE  /\ Append(w, bit) \in Strings /\ Append(w, bit) # <<>>
         /\ Len(w) \in Nat /\ Len(Append(w, bit)) = Len(w) + 1
         /\ \A x \in 1 .. Len(w) + 1 :
              Append(w, bit)[x] = IF x = Len(w) + 1 THEN bit ELSE w[x]
<1>1. PICK n \in 0 .. MaxLen : w \in [1 .. n -> BOOLEAN]
  BY DEF Strings
<1>2. MaxLen \in Nat /\ n \in Nat
  BY DEF WireAssumption
<1>3. w \in Seq(BOOLEAN) /\ Len(w) = n
  BY <1>1, <1>2, SeqDef
<1>4. /\ Append(w, bit) \in Seq(BOOLEAN) /\ Append(w, bit) # <<>>
      /\ Len(Append(w, bit)) = n + 1
      /\ \A x \in 1 .. n + 1 : Append(w, bit)[x] = IF x = n + 1 THEN bit ELSE w[x]
  BY <1>3, AppendProperties
<1>5. n + 1 \in 0 .. MaxLen /\ Append(w, bit) \in [1 .. n + 1 -> BOOLEAN]
  <2>1. n + 1 \in 0 .. MaxLen
    BY <1>2, <1>3
  <2> QED BY <1>4, <2>1, LenProperties
<1>6. Append(w, bit) \in Strings
  BY <1>5 DEF Strings
<1> QED BY <1>2, <1>3, <1>4, <1>6

\* The next bit of a string.
LEMMA BitInv ==
  ASSUME WireAssumption, NEW E, Sending(E), Base(E), NEW e, NEW b, NEW s,
         Now(E, e, b, s), Loops(e, b, s), PullBit
  PROVE  Base(E)' /\ Now(E, e, b, s)' /\ Loops(e, b, s)'
<1>1. WireTypeOK /\ list \in {"added", "removed"} /\ got = [f \in GotNames |-> got[f]]
  BY DEF Base, WireTypeOK
<1>2. wire_pc = "bits" /\ i < min + num /\ j < nums[i - min + 1]
      /\ UNCHANGED <<sent, whole, wire, list, min, num, nums, i>>
  BY DEF PullBit
<1>3. InBits(e, b, s)
  BY <1>2 DEF Loops
<1>4. Now(E, e, b, s)'
  BY <1>2 DEF Now
<1>5. Holds(e, b, s) /\ b \in Bitsets /\ Encoding(e, b) /\ e.num \in Nat /\ Len(wire) \in Nat
      /\ InBytes(Len(Bits(e))) \in Nat
  BY <1>1, NowHolds DEF Holds
<1>6. e.min \in 0 .. MaxLen /\ MaxLen \in Nat /\ e.min + e.num <= MaxLen + 1
      /\ (e.num > 0 => e.min > 0)
  BY <1>5 DEF Encoding, WireAssumption
<1>7. min = e.min /\ num = e.num /\ nums = Counts(e, b) /\ i \in min .. min + num
  BY <1>3 DEF InBits
<1>8. PICK q \in 1 .. Len(e.order) + 1 : At(e, b, s, q)
  BY <1>3 DEF InBits
<1> DEFINE o == e.order
           z == Len(o)
           l == Len(v)
           place == Before(e, q) + l
<1>9. i \in Nat /\ i > 0 /\ i <= MaxLen /\ i - min + 1 \in 1 .. e.num
      /\ e.min + (i - min + 1) - 1 = i
  BY <1>2, <1>5, <1>6, <1>7
<1>10. /\ \A m \in 1 .. z : m < q => Len(o[m]) <= i
       /\ \A m \in 1 .. z : q <= m => Len(o[m]) >= i /\ Len(o[m]) > 0
       /\ j = Cardinality(ReadOf(e, q, i))
       /\ v # <<>> => q <= z /\ Len(o[q]) = i /\ l < i
       /\ Cursor(s + 2 + e.num, place)
       /\ Clean => /\ \A x \in 1 .. l : v[x] = o[q][x]
                   /\ got[list] = Read(e, q) \ {<<>>}
  BY <1>8, <1>9 DEF At
<1>11. j < Cardinality(OfLength(b, i))
  BY <1>2, <1>7, <1>9 DEF Counts
<1>12. Between(e, q, i)
  BY <1>10 DEF Between, o, z
<1>13. q <= z /\ Len(o[q]) = i
  <2>1. Cardinality(ReadOf(e, q, i)) < Cardinality(OfLength(b, i))
          <=> q <= Len(e.order) /\ Len(e.order[q]) = i
    BY <1>5, <1>8, <1>9, <1>12, StillToRead
  <2> QED BY <1>10, <1>11, <2>1
<1>14. Cardinality(ReadOf(e, q + 1, i)) = j + 1 /\ j \in Nat
  <2>1. q <= Len(e.order) /\ Len(e.order[q]) = i =>
          Cardinality(ReadOf(e, q + 1, i)) = Cardinality(ReadOf(e, q, i)) + 1
    BY <1>5, <1>8, <1>9, <1>12, StillToRead
  <2> QED BY <1>1, <1>10, <1>13, <2>1 DEF WireTypeOK
<1>15. /\ z \in Nat /\ q \in 1 .. z /\ o[q] \in Seq(BOOLEAN) /\ o[q] \in b
       /\ Before(e, q) \in Nat /\ Before(e, q + 1) = Before(e, q) + i
       /\ Before(e, q + 1) <= Len(Bits(e)) /\ Len(Bits(e)) \in Nat
       /\ \A x \in 1 .. i : Bits(e)[Before(e, q) + x] = o[q][x]
  <2>1. z \in Nat /\ Len(Bits(e)) \in Nat
    BY <1>5, BitsAre
  <2>2. q \in 1 .. z
    <3>1. q \in 1 .. z + 1
      BY <1>8
    <3> HIDE DEF z
    <3> QED BY <1>13, <2>1, <3>1
  <2>3. /\ o[q] \in b /\ o[q] \in Seq(BOOLEAN) /\ Before(e, q) \in Nat
        /\ Before(e, q + 1) = Before(e, q) + Len(o[q])
        /\ Before(e, q + 1) <= Len(Bits(e))
        /\ \A x \in 1 .. Len(o[q]) : Bits(e)[Before(e, q) + x] = o[q][x]
    <3>1. b \in Bitsets /\ Encoding(e, b) /\ q \in 1 .. Len(e.order)
      BY <1>5, <2>2
    <3> HIDE DEF o, z, l, place
    <3>2. /\ e.order[q] \in b /\ e.order[q] \in Seq(BOOLEAN) /\ Before(e, q) \in Nat
          /\ Before(e, q + 1) = Before(e, q) + Len(e.order[q])
          /\ Before(e, q + 1) <= Len(Bits(e))
          /\ \A x \in 1 .. Len(e.order[q]) : Bits(e)[Before(e, q) + x] = e.order[q][x]
      BY <3>1, StringAt
    <3> QED BY <3>2 DEF o
  <2>4. Len(o[q]) = i
    BY <1>13
  <2> HIDE DEF o, z
  <2> QED BY <2>1, <2>2, <2>3, <2>4
<1>16. v \in Strings /\ l \in Nat /\ l < i
  <2>1. v \in Strings
    BY <1>1 DEF WireTypeOK
  <2>2. l \in Nat
    <3>1. PICK n \in 0 .. MaxLen : v \in [1 .. n -> BOOLEAN]
      BY <2>1 DEF Strings
    <3>2. n \in Nat
      BY <1>6
    <3>3. v \in Seq(BOOLEAN)
      BY <3>1, <3>2, SeqDef
    <3> QED BY <3>3, LenProperties
  <2>3. v = <<>> => l = 0
    OBVIOUS
  <2> QED BY <1>9, <1>10, <2>1, <2>2, <2>3
<1>17. PICK bit \in BOOLEAN :
         /\ pull_bit(bit)
         /\ IF Len(v) + 1 < i
            THEN v' = Append(v, bit) /\ UNCHANGED <<wire_pc, j, got>>
            ELSE /\ got' = [got EXCEPT ![list] = @ \cup {Append(v, bit)}]
                 /\ v' = <<>>
                 /\ j' = j + 1
                 /\ IF p' = NULL THEN Refuse ELSE UNCHANGED wire_pc
  BY DEF PullBit
<1> DEFINE w == Append(v, bit)
<1>18. /\ w \in Strings /\ w # <<>> /\ Len(w) = l + 1
       /\ \A x \in 1 .. l + 1 : w[x] = IF x = l + 1 THEN bit ELSE v[x]
  <2>1. l < MaxLen
    <3> HIDE DEF l
    <3> QED BY <1>6, <1>9, <1>16
  <2> QED BY <1>16, <2>1, LongerString
<1> HIDE DEF o, z, l
<1>19. place \in Nat
  BY <1>15, <1>16
<1>20. PICK pos \in Nat : pos = place
  BY <1>19
<1>21. pos \in Nat /\ pos < Len(Bits(e)) /\ pos + 1 = Before(e, q) + (l + 1)
       /\ pos < ByteBits * InBytes(Len(Bits(e)))
  <2>1. pos \in Nat /\ pos < Len(Bits(e)) /\ pos + 1 = Before(e, q) + (l + 1)
    BY <1>9, <1>15, <1>16, <1>20
  <2>2. Len(Bits(e)) <= ByteBits * InBytes(Len(Bits(e)))
    BY <1>15, InBytesIs
  <2>3. ByteBits * InBytes(Len(Bits(e))) \in Nat
    BY <1>5 DEF WireAssumption
  <2> QED BY <1>15, <2>1, <2>2, <2>3
<1>22. p = NULL => Len(wire) < whole
  BY DEF Base
<1>23. Cursor(s + 2 + e.num, pos)
  BY <1>10, <1>20
<1> HIDE DEF place
<1>24. /\ Cursor(s + 2 + e.num, pos + 1)'
       /\ p' \in 0 .. Len(wire) + 1 /\ bitoff' \in 0 .. ByteBits - 1
       /\ p' = NULL => Len(wire) < whole
       /\ Clean' => Clean /\ p <= Len(wire)
       /\ p # NULL /\ Len(wire) < p => Len(wire) < whole
       /\ p # NULL /\ p <= Len(wire) => (bit <=> pos < Len(Bits(e)) /\ Bits(e)[pos + 1])
  BY <1>1, <1>2, <1>5, <1>17, <1>21, <1>22, <1>23, OneBit
<1>25. Clean' => /\ \A x \in 1 .. l + 1 : w[x] = o[q][x]
                 /\ got[list] = Read(e, q) \ {<<>>}
  <2> HAVE Clean'
  <2>1. Clean /\ p # NULL /\ p <= Len(wire)
    BY <1>24 DEF Clean
  <2>2. bit <=> Bits(e)[pos + 1]
    BY <1>21, <1>24, <2>1
  <2>3. l + 1 \in 1 .. i /\ Bits(e)[Before(e, q) + (l + 1)] = o[q][l + 1]
    BY <1>9, <1>15, <1>16
  <2>4. Len(o[q]) = i /\ o[q][l + 1] \in BOOLEAN
    <3>1. Len(o[q]) = i
      BY <1>13
    <3> QED BY <1>15, <2>3, <3>1, ElementOfSeq
  <2>5. bit = o[q][l + 1]
    BY <1>21, <2>2, <2>3, <2>4
  <2>6. \A x \in 1 .. l + 1 : x = l + 1 \/ x \in 1 .. l
    BY <1>16
  <2>7. \A x \in 1 .. l : v[x] = o[q][x]
    BY <1>10, <2>1
  <2>8. \A x \in 1 .. l + 1 : w[x] = o[q][x]
    BY <1>18, <2>5, <2>6, <2>7
  <2> QED BY <1>10, <2>1, <2>8
<1>26. CASE l + 1 < i
  <2>1. v' = w /\ UNCHANGED <<wire_pc, j, got>>
    BY <1>17, <1>26 DEF l
  <2>2. WireTypeOK'
    BY <1>1, <1>2, <1>18, <1>24, <2>1 DEF WireTypeOK
  <2>3. Base(E)'
    BY <1>2, <1>24, <2>1, <2>2 DEF Base
  <2>4. Len(v') = l + 1
    BY <1>18, <2>1
  <2>5. Cursor(s + 2 + e.num, Before(e, q) + Len(v))'
    BY <1>21, <1>24, <2>4 DEF Cursor
  <2>6. At(e, b, s, q)'
    BY <1>2, <1>8, <1>10, <1>13, <1>25, <1>26, <2>1, <2>4, <2>5 DEF At, o, z
  <2>7. InBits(e, b, s)'
    BY <1>2, <1>7, <2>6 DEF InBits
  <2>8. Loops(e, b, s)'
    BY <1>2, <2>1, <2>7 DEF Loops
  <2> QED BY <1>4, <2>3, <2>8
<1>27. CASE ~(l + 1 < i)
  <2>1. /\ got' = [got EXCEPT ![list] = @ \cup {w}] /\ v' = <<>> /\ j' = j + 1
        /\ IF p' = NULL THEN Refuse ELSE UNCHANGED wire_pc
    BY <1>17, <1>27 DEF l
  <2>2. l + 1 = i
    BY <1>9, <1>16, <1>27
  <2>3. /\ got' = [f \in GotNames |-> got'[f]]
        /\ \A f \in GotNames : got'[f] = IF f = list THEN got[f] \cup {w} ELSE got[f]
    BY <1>1, <2>1 DEF GotNames
  <2>4. /\ \A f \in FieldNames : got'[f] = got[f]
        /\ list = "removed" => got'.added = got.added
        /\ list = "added" => got'.removed = got.removed
        /\ got'.added \in SUBSET Strings /\ got'.removed \in SUBSET Strings
    <3>1. got.added \in SUBSET Strings /\ got.removed \in SUBSET Strings
      BY <1>1 DEF WireTypeOK
    <3>2. \A f \in FieldNames : f \in GotNames /\ f # list
      BY <1>1 DEF GotNames, FieldNames
    <3>3. got'.added = IF list = "added" THEN got.added \cup {w} ELSE got.added
      BY <2>3 DEF GotNames
    <3>4. got'.removed = IF list = "removed" THEN got.removed \cup {w} ELSE got.removed
      BY <2>3 DEF GotNames
    <3>5. \A f \in FieldNames : got'[f] = got[f]
      BY <2>3, <3>2
    <3> QED BY <1>18, <3>1, <3>3, <3>4, <3>5
  <2>5. wire_pc' \in {"refused", "bits"} /\ (wire_pc' = "refused" => p' = NULL)
    BY <1>2, <2>1 DEF Refuse
  <2>6. v' \in Strings /\ j' \in Nat
    <3>1. <<>> \in [1 .. 0 -> BOOLEAN] /\ 0 \in 0 .. MaxLen
      BY <1>6
    <3>2. <<>> \in Strings
      BY <3>1 DEF Strings
    <3> QED BY <1>14, <2>1, <3>2
  <2>7. WireTypeOK'
    BY <1>1, <1>2, <1>24, <2>4, <2>5, <2>6 DEF WireTypeOK
  <2>8. Base(E)'
    BY <1>2, <1>24, <2>3, <2>4, <2>5, <2>7 DEF Base
  <2>9. q + 1 \in 1 .. Len(e.order) + 1
    BY <1>15 DEF z, o
  <2>10. \A m \in 1 .. z : m < q + 1 => Len(o[m]) <= i
    <3> TAKE m \in 1 .. z
    <3> HAVE m < q + 1
    <3>1. m < q \/ m = q
      BY <1>15
    <3> QED BY <1>9, <1>10, <1>13, <3>1
  <2>11. \A m \in 1 .. z : q + 1 <= m => Len(o[m]) >= i /\ Len(o[m]) > 0
    <3> TAKE m \in 1 .. z
    <3> HAVE q + 1 <= m
    <3>1. q <= m
      BY <1>15
    <3> QED BY <1>10, <3>1
  <2>12. Cursor(s + 2 + e.num, Before(e, q + 1) + Len(v))'
    <3>1. Before(e, q + 1) + Len(v') = pos + 1
      BY <1>15, <1>21, <2>1, <2>2
    <3> QED BY <1>24, <3>1 DEF Cursor
  <2>13. Clean' => (got[list])' = Read(e, q + 1) \ {<<>>}
    <3> HAVE Clean'
    <3>1. \A x \in 1 .. i : w[x] = o[q][x]
      BY <1>25, <2>2
    <3>2. w = o[q]
      <4>1. w = [x \in 1 .. i |-> w[x]]
        <5>1. PICK n \in 0 .. MaxLen : w \in [1 .. n -> BOOLEAN]
          BY <1>18 DEF Strings
        <5>2. n = i
          BY <1>6, <1>18, <2>2, <5>1
        <5> QED BY <5>1, <5>2
      <4>2. o[q] = [x \in 1 .. i |-> o[q][x]]
        BY <1>13, <1>15
      <4> QED BY <3>1, <4>1, <4>2
    <3>3. Read(e, q + 1) = Read(e, q) \cup {o[q]}
      <4>1. 1 .. (q + 1) - 1 = (1 .. q - 1) \cup {q}
        BY <1>15
      <4> QED BY <4>1 DEF Read, o
    <3>4. got[list] = Read(e, q) \ {<<>>}
      BY <1>25
    <3>5. list \in GotNames /\ (got[list])' = got[list] \cup {w}
      BY <1>1, <1>2, <2>3 DEF GotNames
    <3> QED BY <1>18, <3>2, <3>3, <3>4, <3>5
  <2>14. At(e, b, s, q + 1)'
    <3>1. Len(v') = 0
      BY <2>1
    <3>2. Clean' => \A x \in 1 .. Len(v') : v'[x] = e.order[q + 1][x]
      BY <3>1
    <3>3. j' = Cardinality(ReadOf(e, q + 1, i'))
      BY <1>2, <1>14, <2>1
    <3> QED BY <1>2, <2>1, <2>9, <2>10, <2>11, <2>12, <2>13, <3>2, <3>3 DEF At, o, z
  <2>15. InBits(e, b, s)'
    BY <1>2, <1>7, <2>9, <2>14 DEF InBits
  <2>16. Loops(e, b, s)'
    BY <2>5, <2>15 DEF Loops
  <2> QED BY <1>4, <2>8, <2>16
<1> QED BY <1>26, <1>27

\* The inductive invariant holds before the first field is pulled.
LEMMA WireInitInv ==
  ASSUME WireAssumption, WireInit
  PROVE  WireInv
<1>1. PICK E : Sending(E)
  BY SendingExists
<1>2. /\ sent \in Messages /\ wire_pc = "fields" /\ p = 1 /\ list = "added"
      /\ min = 0 /\ num = 0 /\ nums = <<>>
      /\ i = 0 /\ j = 0 /\ v = <<>> /\ bitoff = 0
      /\ got = [seed |-> 0, min_fee_per_byte |-> 0, size |-> 0, coinbase |-> NULL,
                added |-> {}, removed |-> {}]
  BY DEF WireInit
<1>3. /\ MaxLen \in Nat /\ ByteBits \in Nat \ {0} /\ Bitsets \subseteq SUBSET Strings
      /\ WireBucketBytes \in Nat \ {0} /\ WireSizes \subseteq 1 .. MaxSize /\ MaxSize \in Nat
  BY DEF WireAssumption
<1>4. whole \in Nat /\ Len(wire) \in Nat /\ Len(wire) <= whole
  <2>1. sent.added \in Bitsets /\ sent.removed \in Bitsets /\ sent.size \in 1 .. MaxSize
    BY <1>2, <1>3 DEF Messages
  <2>2. Size(E.added) \in Nat /\ Size(E.removed) \in Nat
    BY <1>1, <2>1, UnitsAre DEF Sending
  <2>3. sent.size * WireBucketBytes \in Nat
    BY <1>3, <2>1
  <2>4. whole = EndOf(E) - 1 + sent.size * WireBucketBytes /\ Len(wire) \in 0 .. whole
    BY <1>1 DEF Sending
  <2> DEFINE x == Size(E.added)
             y == Size(E.removed)
             z == sent.size * WireBucketBytes
  <2>5. whole = (5 + x + y) - 1 + z /\ x \in Nat /\ y \in Nat /\ z \in Nat
    BY <2>2, <2>3, <2>4 DEF EndOf
  <2> HIDE DEF x, y, z
  <2> QED BY <2>4, <2>5
<1>5. <<>> \in Strings
  <2>1. <<>> \in [1 .. 0 -> BOOLEAN] /\ 0 \in 0 .. MaxLen
    BY <1>3
  <2> QED BY <2>1 DEF Strings
<1>6. got.added = {} /\ got.removed = {} /\ got = [f \in GotNames |-> got[f]]
  BY <1>2 DEF GotNames, FieldNames
<1>7. WireTypeOK
  <2>1. p \in 0 .. Len(wire) + 1
    BY <1>2, <1>4
  <2>2. min \in 0 .. MaxLen /\ num \in 0 .. MaxLen /\ i \in 0 .. MaxLen + 1 /\ j \in Nat
        /\ bitoff \in 0 .. ByteBits - 1
    BY <1>2, <1>3
  <2>3. nums \in Seq(Nat) /\ Len(nums) <= num
    BY <1>2
  <2> QED BY <1>2, <1>4, <1>5, <1>6, <2>1, <2>2, <2>3 DEF WireTypeOK
<1>8. Base(E)
  BY <1>2, <1>6, <1>7 DEF Base, NULL
<1>9. InFields
  BY <1>2, <1>6 DEF InFields, AtRest
<1>10. Now(E, E[list], sent[list], Start(E, list)) /\ Loops(E[list], sent[list], Start(E, list))
  BY <1>2, <1>9 DEF Now, Loops
<1> QED BY <1>1, <1>8, <1>10 DEF WireInv, Where

\* Every step of wire_decode keeps it.
LEMMA WireNextInv ==
  ASSUME WireAssumption, WireInv, [WireNext]_wvars
  PROVE  WireInv'
<1>1. PICK E : Sending(E) /\ Where(E)
  BY DEF WireInv
<1>2. Base(E)
  BY <1>1 DEF Where
<1>3. PICK e, b, s : Now(E, e, b, s) /\ Loops(e, b, s)
  BY <1>1 DEF Where
<1>4. UNCHANGED <<sent, whole, wire>>
  BY DEF WireNext, WireStep, wvars, Ended, PullFields, PullMinNum, PullNums, PullBit, NextLength,
         Pad, EndList, ReadIblt
<1>5. Sending(E)'
  BY <1>1, <1>4, SendingStays
<1>6. CASE PullFields
  BY <1>1, <1>2, <1>3, <1>5, <1>6, FieldsInv DEF WireInv, Where
<1>7. CASE PullMinNum
  BY <1>1, <1>2, <1>3, <1>5, <1>7, MinNumInv DEF WireInv, Where
<1>8. CASE PullNums
  BY <1>1, <1>2, <1>3, <1>5, <1>8, NumsInv DEF WireInv, Where
<1>9. CASE PullBit
  BY <1>1, <1>2, <1>3, <1>5, <1>9, BitInv DEF WireInv, Where
<1>10. CASE NextLength
  BY <1>1, <1>2, <1>3, <1>5, <1>10, NextLengthInv DEF WireInv, Where
<1>11. CASE Pad
  BY <1>1, <1>2, <1>3, <1>5, <1>11, PadInv DEF WireInv, Where
<1>12. CASE EndList
  BY <1>1, <1>2, <1>3, <1>5, <1>12, EndListInv DEF WireInv, Where
<1>13. CASE ReadIblt
  BY <1>1, <1>2, <1>3, <1>5, <1>13, IbltInv DEF WireInv, Where
<1>14. CASE UNCHANGED wvars
  <2>1. UNCHANGED <<sent, whole, wire, wire_pc, p, list, min, num, nums, i, j, v, bitoff, got>>
    BY <1>14 DEF wvars
  <2>2. Base(E)'
    BY <1>2, <2>1 DEF Base, WireTypeOK, len
  <2>3. Now(E, e, b, s)'
    BY <1>3, <2>1 DEF Now
  <2>4. Loops(e, b, s)'
    BY <1>3, <2>1 DEF Loops, InFields, InMin, InNums, InBits, InPad, AtRest, At, Clean, Cursor
  <2> QED BY <1>5, <2>2, <2>3, <2>4 DEF WireInv, Where
<1> QED BY <1>6, <1>7, <1>8, <1>9, <1>10, <1>11, <1>12, <1>13, <1>14
        DEF WireNext, WireStep, Ended

\* What is accepted is what was sent.
LEMMA WireInvGives ==
  ASSUME WireAssumption, WireInv
  PROVE  WireTypeOK /\ WholeOrNothing
<1>1. PICK E : Sending(E) /\ Base(E)
  BY DEF WireInv, Where
<1>2. AcceptedIsSent
  BY <1>1 DEF Base, AcceptedIsSent, FieldNames, WireTypeOK
<1> QED BY <1>1, <1>2 DEF Base, WholeOrNothing

\* Wherever a message is cut and whatever lies in memory behind it: each set that
\* decode_bitset accepts is the one that was sent, apart from a string of no bits,
\* and so are the fields; wire_decode ends with a block only when all of the message
\* arrived, and refuses only when it did not (wire_decode, decode_bitset, pull_bit,
\* raw_iblt::read).
THEOREM AlwaysWholeOrNothing ==
  WireSpec => [](WireTypeOK /\ WholeOrNothing)
<1>1. WireInit => WireInv
  BY WireAssumption, WireInitInv
<1>2. WireInv /\ [WireNext]_wvars => WireInv'
  BY WireAssumption, WireNextInv
<1>3. WireInv => WireTypeOK /\ WholeOrNothing
  BY WireAssumption, WireInvGives
<1> QED BY <1>1, <1>2, <1>3, PTL DEF WireSpec


-----------------------------------------------------------------------------
(***************************************************************************)
(* A transaction that is pulled.                                           *)
(***************************************************************************)

\* The digit at a place, and what is below the next.
LEMMA DigitIs ==
  ASSUME NEW m \in Nat \ {0}, NEW b \in Nat \ {0}, NEW x \in Nat
  PROVE  /\ m * b \in Nat \ {0} /\ (x \div b) % m \in 0 .. m - 1
         /\ x % (m * b) = (x % b) + ((x \div b) % m) * b
<1>1. PICK q \in Int, r \in 0 .. b - 1 : x = b * q + r /\ q = x \div b /\ r = x % b
  <2>1. x \in Int
    OBVIOUS
  <2> QED BY <2>1, DivMod
<1>2. PICK h \in Int, d \in 0 .. m - 1 : q = m * h + d /\ d = q % m
  BY <1>1, DivMod
<1>3. m * b \in Nat \ {0}
  <2>1. m * b >= b
    OBVIOUS
  <2>2. m * b \in Int
    OBVIOUS
  <2> DEFINE z == m * b
  <2> HIDE DEF z
  <2>3. z >= b /\ z \in Int
    BY <2>1, <2>2 DEF z
  <2>4. z \in Nat \ {0}
    BY <2>3
  <2> QED BY <2>4 DEF z
<1>4. b * q = h * (m * b) + d * b
  <2>1. b * (m * h + d) = b * (m * h) + b * d
    BY <1>2
  <2>2. b * (m * h) = h * (m * b) /\ b * d = d * b
    BY <1>2
  <2> QED BY <1>2, <2>1, <2>2
<1>5. r + d * b \in 0 .. m * b - 1
  <2>1. d * b <= (m - 1) * b /\ (m - 1) * b = m * b - b /\ d * b >= 0
    BY <1>2
  <2> DEFINE y == d * b
             z == m * b
             w == (m - 1) * b
  <2>2. y \in Int /\ z \in Int /\ y <= w /\ w = z - b /\ y >= 0
    BY <1>2, <1>3, <2>1
  <2> HIDE DEF y, z, w
  <2>3. r + y \in 0 .. z - 1
    BY <1>1, <2>2
  <2> QED BY <2>3 DEF y, z
<1>6. x = h * (m * b) + (r + d * b)
  <2> DEFINE y == d * b
             z == h * (m * b)
             w == b * q
  <2>1. x = w + r /\ w = z + y /\ y \in Int /\ z \in Int
    BY <1>1, <1>2, <1>3, <1>4
  <2> HIDE DEF y, z, w
  <2>2. x = z + (r + y)
    BY <1>1, <2>1
  <2> QED BY <2>2 DEF y, z
<1>7. x % (m * b) = r + d * b
  <2>1. x \in Int
    OBVIOUS
  <2> QED BY <1>2, <1>3, <1>5, <1>6, <2>1, ModUnique
<1> QED BY <1>1, <1>2, <1>3, <1>7

\* The numbers of bytes that a number may have.
NumberLens == {2, 4, 8, W32, W64}

LEMMA PlacesAre ==
  ASSUME NEW n \in NumberLens
  PROVE  /\ n \in Nat /\ \A k \in 0 .. n : ByteValues ^ k \in Nat \ {0}
         /\ ByteValues ^ 0 = 1
         /\ \A k \in 1 .. n : ByteValues ^ k = ByteValues * ByteValues ^ (k - 1)
<1> DEFINE T == {k \in Nat : k <= n => ByteValues ^ k \in Nat \ {0}}
<1>1. n \in Nat /\ ByteValues \in Nat \ {0}
  BY BitcoinTxAssumption DEF NumberLens
<1>2. ASSUME NEW k \in 0 .. n - 1 PROVE ByteValues ^ (k + 1) = ByteValues * ByteValues ^ k
  <2>1. k \in (0 .. 7) \cup (0 .. W32 - 1) \cup (0 .. W64 - 1)
    BY <1>1, BitcoinTxAssumption DEF NumberLens
  <2> QED BY <2>1, TxPowersAssumption
<1>3. 0 \in T
  BY TxPowersAssumption
<1>4. ASSUME NEW k \in Nat, k \in T PROVE k + 1 \in T
  <2> SUFFICES ASSUME k + 1 <= n PROVE ByteValues ^ (k + 1) \in Nat \ {0}
    OBVIOUS
  <2>1. k \in 0 .. n - 1 /\ ByteValues ^ k \in Nat \ {0}
    BY <1>1, <1>4
  <2> DEFINE b == ByteValues
             d == ByteValues ^ k
  <2>2. b \in Nat \ {0} /\ d \in Nat \ {0}
    BY <1>1, <2>1
  <2>3. ByteValues ^ (k + 1) = b * d
    BY <1>2, <2>1
  <2> HIDE DEF b, d
  <2>4. b * d \in Nat \ {0}
    BY <2>2, DigitIs
  <2> QED BY <2>3, <2>4
<1>5. T = Nat
  <2>1. T \in SUBSET Nat
    OBVIOUS
  <2> HIDE DEF T
  <2> QED BY <1>3, <1>4, <2>1, Inductive
<1>6. \A k \in 0 .. n : k \in Nat /\ k <= n
  BY <1>1
<1>7. ASSUME NEW k \in 1 .. n PROVE ByteValues ^ k = ByteValues * ByteValues ^ (k - 1)
  <2>1. k - 1 \in 0 .. n - 1 /\ (k - 1) + 1 = k
    BY <1>1
  <2>2. ByteValues ^ ((k - 1) + 1) = ByteValues * ByteValues ^ (k - 1)
    BY <1>2, <2>1
  <2> QED BY <2>1, <2>2
<1> QED BY <1>1, <1>5, <1>6, <1>7, TxPowersAssumption

\* LittleEndian and Number undo each other.
LEMMA NumberIs ==
  ASSUME NEW n \in NumberLens, NEW x \in Nat, x < ByteValues ^ n
  PROVE  Number(LittleEndian(x, n)) = x
<1> DEFINE B(k) == ByteValues ^ k
           s == LittleEndian(x, n)
           f == [k \in 1 .. n |-> s[k] * B(k - 1)]
           P == [k \in 0 .. n |-> x % B(k)]
<1>1. /\ n \in Nat /\ \A k \in 0 .. n : B(k) \in Nat \ {0}
      /\ B(0) = 1 /\ \A k \in 1 .. n : B(k) = ByteValues * B(k - 1)
  BY PlacesAre
<1>2. s = [k \in 1 .. n |-> (x \div B(k - 1)) % ByteValues]
  BY DEF LittleEndian
<1>3. Number(s) = FoldSum(1 .. n, f)
  <2>1. DOMAIN s = 1 .. n /\ DOMAIN f = 1 .. n /\ f = [k \in DOMAIN s |-> s[k] * B(k - 1)]
    BY <1>2
  <2> QED BY <2>1 DEF Number, FoldFunction, FoldFunctionOnSet, MapThenFoldSet,
                    FoldSum, AllSums
<1> HIDE DEF B, s
<1>4. ASSUME NEW k \in 1 .. n
      PROVE  /\ s[k] * B(k - 1) \in Nat
             /\ x % B(k) = (x % B(k - 1)) + s[k] * B(k - 1)
  <2> DEFINE b == B(k - 1)
  <2>1. b \in Nat \ {0} /\ B(k) = ByteValues * b /\ ByteValues \in Nat \ {0}
    <3>1. k - 1 \in 0 .. n
      BY <1>1
    <3> QED BY <1>1, <3>1, BitcoinTxAssumption
  <2>2. s[k] = (x \div b) % ByteValues
    BY <1>2
  <2> HIDE DEF b
  <2>3. /\ (x \div b) % ByteValues \in 0 .. ByteValues - 1
        /\ x % (ByteValues * b) = (x % b) + ((x \div b) % ByteValues) * b
    BY <2>1, DigitIs
  <2>4. s[k] \in Nat
    BY <2>1, <2>2, <2>3
  <2>5. s[k] * b \in Nat
    <3> DEFINE d == s[k]
    <3>1. d \in Nat
      BY <2>4
    <3> HIDE DEF d
    <3>2. d * b \in Nat
      BY <2>1, <3>1
    <3> QED BY <3>2 DEF d
  <2> QED BY <2>1, <2>2, <2>3, <2>5 DEF b
<1>5. \A k \in 1 .. n : f[k] \in Nat
  BY <1>4
<1>6. P[0] = 0
  <2>1. 0 \in 0 .. n
    BY <1>1
  <2>2. x % 1 = 0
    OBVIOUS
  <2> QED BY <1>1, <2>1, <2>2
<1>7. \A k \in 1 .. n : P[k] = P[k - 1] + f[k]
  <2> TAKE k \in 1 .. n
  <2>1. k \in 0 .. n /\ k - 1 \in 0 .. n
    BY <1>1
  <2>2. P[k] = x % B(k) /\ P[k - 1] = x % B(k - 1) /\ f[k] = s[k] * B(k - 1)
    BY <2>1
  <2> QED BY <1>4, <2>2
<1>8. P[n] = x % B(n)
  BY <1>1
<1> HIDE DEF f, P
<1>9. Number(s) = x % B(n)
  BY <1>1, <1>3, <1>5, <1>6, <1>7, <1>8, SumIs
<1>10. B(n) \in Nat \ {0} /\ x \in 0 .. B(n) - 1
  <2>1. B(n) \in Nat \ {0} /\ x < B(n)
    BY <1>1 DEF B
  <2> QED BY <2>1
<1> QED BY <1>9, <1>10, SmallMod DEF s

\* What follows the first byte of a varint, and what the bytes say.
LEMMA VarintTailIs ==
  ASSUME NEW x \in Nat, x < ByteValues ^ 8
  PROVE  LET s == add_varint(x)
             n == VarintTail(s[1])
         IN /\ n \in {0, 2, 4, 8} /\ Len(s) = n + 1
            /\ n = 0 => s[1] = x
            /\ n # 0 => Number([k \in 1 .. n |-> s[k + 1]]) = x
<1> DEFINE B == ByteValues
<1>1. B \in Nat /\ B > 3
  BY BitcoinTxAssumption
<1>2. ASSUME NEW n \in {2, 4, 8}, NEW h, x < B ^ n
      PROVE  /\ Len(<<h>> \o LittleEndian(x, n)) = n + 1
             /\ (<<h>> \o LittleEndian(x, n))[1] = h
             /\ Number([k \in 1 .. n |-> (<<h>> \o LittleEndian(x, n))[k + 1]]) = x
  <2> DEFINE t == <<h>> \o LittleEndian(x, n)
             l == LittleEndian(x, n)
  <2>1. Sequence(l) /\ Len(l) = n /\ n \in Nat
    BY LittleEndianIs
  <2>2. Sequence(<<h>>) /\ Len(<<h>>) = 1
    <3>1. <<h>> \in Seq({h}) /\ Len(<<h>>) = 1
      OBVIOUS
    <3> QED BY <3>1 DEF Sequence
  <2> HIDE DEF l
  <2>3. Len(t) = n + 1
    BY <2>1, <2>2, SequenceConcat DEF l
  <2>4. \A k \in 1 .. 1 : t[k] = <<h>>[k]
    BY <2>1, <2>2, ConcatAt DEF l
  <2>5. \A k \in 1 .. n : t[1 + k] = l[k]
    BY <2>1, <2>2, ConcatAt DEF l
  <2> HIDE DEF t
  <2>6. [k \in 1 .. n |-> t[k + 1]] = [k \in 1 .. n |-> l[k]]
    <3>1. \A k \in 1 .. n : t[k + 1] = l[k]
      <4>1. \A k \in 1 .. n : k + 1 = 1 + k
        BY <2>1
      <4> QED BY <2>5, <4>1
    <3> QED BY <3>1
  <2>7. [k \in 1 .. n |-> l[k]] = l
    BY DEF l, LittleEndian
  <2>8. Number(l) = x
    <3>1. n \in NumberLens
      BY DEF NumberLens
    <3> QED BY <1>2, <3>1, NumberIs DEF l
  <2>9. t[1] = h
    BY <2>4
  <2> QED BY <2>3, <2>6, <2>7, <2>8, <2>9 DEF t
<1>3. /\ \A f \in Nat : f < B - 3 => VarintTail(f) = 0
      /\ VarintTail(B - 3) = 2 /\ VarintTail(B - 2) = 4 /\ VarintTail(B - 1) = 8
  <2>1. 2 ^ 1 = 2 /\ 2 ^ 2 = 4 /\ 2 ^ 3 = 8
    OBVIOUS
  <2>2. /\ (B - 3) - (B - 4) = 1 /\ (B - 2) - (B - 4) = 2 /\ (B - 1) - (B - 4) = 3
        /\ ~(B - 3 < B - 3) /\ ~(B - 2 < B - 3) /\ ~(B - 1 < B - 3)
    BY <1>1
  <2>3. VarintTail(B - 3) = 2
    BY <2>1, <2>2 DEF VarintTail
  <2>4. VarintTail(B - 2) = 4
    BY <2>1, <2>2 DEF VarintTail
  <2>5. VarintTail(B - 1) = 8
    BY <2>1, <2>2 DEF VarintTail
  <2>6. \A f \in Nat : f < B - 3 => VarintTail(f) = 0
    BY DEF VarintTail
  <2> QED BY <2>3, <2>4, <2>5, <2>6
<1> DEFINE s == add_varint(x)
           Says(n) == /\ n \in {0, 2, 4, 8} /\ Len(s) = n + 1
                      /\ n = 0 => s[1] = x
                      /\ n # 0 => Number([k \in 1 .. n |-> s[k + 1]]) = x
<1> SUFFICES Says(VarintTail(s[1]))
  OBVIOUS
<1> HIDE DEF s, B
<1>4. CASE x < B - 3
  <2>1. s = <<x>>
    BY <1>4 DEF add_varint, s, B
  <2>2. s[1] = x /\ Len(s) = 1 /\ VarintTail(s[1]) = 0
    BY <1>3, <1>4, <2>1
  <2> QED BY <2>2
<1>5. CASE ~(x < B - 3) /\ x < B ^ 2
  <2>1. s = <<B - 3>> \o LittleEndian(x, 2)
    BY <1>5 DEF add_varint, s, B
  <2>3. /\ Len(s) = 2 + 1 /\ s[1] = B - 3
        /\ Number([k \in 1 .. 2 |-> s[k + 1]]) = x
    BY <1>2, <2>1, <1>5
  <2>4. VarintTail(s[1]) = 2
    BY <1>3, <2>3
  <2>5. Says(2)
    BY <2>3
  <2> HIDE DEF Says
  <2> QED BY <2>4, <2>5
<1>6. CASE ~(x < B - 3) /\ ~(x < B ^ 2) /\ x < B ^ 4
  <2>1. s = <<B - 2>> \o LittleEndian(x, 4)
    BY <1>6 DEF add_varint, s, B
  <2>3. /\ Len(s) = 4 + 1 /\ s[1] = B - 2
        /\ Number([k \in 1 .. 4 |-> s[k + 1]]) = x
    BY <1>2, <2>1, <1>6
  <2>4. VarintTail(s[1]) = 4
    BY <1>3, <2>3
  <2>5. Says(4)
    BY <2>3
  <2> HIDE DEF Says
  <2> QED BY <2>4, <2>5
<1>7. CASE ~(x < B - 3) /\ ~(x < B ^ 2) /\ ~(x < B ^ 4)
  <2>1. s = <<B - 1>> \o LittleEndian(x, 8)
    BY <1>7 DEF add_varint, s, B
  <2>2. x < B ^ 8
    BY DEF B
  <2>3. /\ Len(s) = 8 + 1 /\ s[1] = B - 1
        /\ Number([k \in 1 .. 8 |-> s[k + 1]]) = x
    BY <1>2, <2>1, <2>2
  <2>4. VarintTail(s[1]) = 8
    BY <1>3, <2>3
  <2>5. Says(8)
    BY <2>3
  <2> HIDE DEF Says
  <2> QED BY <2>4, <2>5
<1> QED BY <1>4, <1>5, <1>6, <1>7

\* f tells where the sequences are that are put after one another.
Places(f, s) ==
  /\ FlattenSeq(s) = f[Len(s)] /\ Len(f[0]) = 0 /\ Len(s) \in Nat
  /\ \A k \in 0 .. Len(s) : Len(f[k]) \in Nat /\ Len(f[k]) <= Len(FlattenSeq(s))
  /\ \A k \in 1 .. Len(s) : Len(f[k]) = Len(f[k - 1]) + Len(s[k]) /\ Len(s[k]) \in Nat
  /\ \A k \in 1 .. Len(s) : \A b \in 1 .. Len(s[k]) :
       FlattenSeq(s)[Len(f[k - 1]) + b] = s[k][b]

\* The concatenations of the first of them do.
LEMMA FlattenPlaces ==
  ASSUME NEW S, NEW s \in Seq(Seq(S)), NEW f, Flattens(f, s, S)
  PROVE  Places(f, s)
<1> DEFINE n == Len(s)
           l(k) == Len(f[k])
<1>1. /\ n \in Nat /\ f[0] = <<>> /\ \A k \in 0 .. n : f[k] \in Seq(S)
      /\ \A k \in 1 .. n : s[k] \in Seq(S) /\ f[k] = f[k - 1] \o s[k]
  BY LenProperties, ElementOfSeq DEF Flattens
<1>2. FlattenSeq(s) = f[n]
  BY FlattenIs
<1>3. l(0) = 0 /\ \A k \in 0 .. n : l(k) \in Nat
  <2>1. \A u \in Seq(S) : Len(u) \in Nat
    BY LenProperties
  <2>2. Len(<<>>) = 0
    OBVIOUS
  <2> QED BY <1>1, <2>1, <2>2
<1>4. ASSUME NEW k \in 1 .. n
      PROVE  /\ l(k) = l(k - 1) + Len(s[k]) /\ Len(s[k]) \in Nat /\ l(k - 1) \in Nat
             /\ \A q \in 1 .. l(k - 1) : f[k][q] = f[k - 1][q]
             /\ \A b \in 1 .. Len(s[k]) : f[k][l(k - 1) + b] = s[k][b]
  <2> DEFINE u == f[k - 1]
             t == s[k]
  <2>1. u \in Seq(S) /\ t \in Seq(S) /\ f[k] = u \o t
    <3>1. k - 1 \in 0 .. n
      BY <1>1
    <3> QED BY <1>1, <3>1
  <2>2. Sequence(u) /\ Sequence(t) /\ Len(u) \in Nat /\ Len(t) \in Nat
    BY <2>1, LenProperties DEF Sequence
  <2> HIDE DEF u, t
  <2>3. Len(u \o t) = Len(u) + Len(t)
    BY <2>2, SequenceConcat
  <2>4. /\ \A q \in 1 .. Len(u) : (u \o t)[q] = u[q]
        /\ \A b \in 1 .. Len(t) : (u \o t)[Len(u) + b] = t[b]
    BY <2>2, ConcatAt
  <2>5. /\ Len(f[k]) = Len(u) + Len(t)
        /\ \A q \in 1 .. Len(u) : f[k][q] = u[q]
        /\ \A b \in 1 .. Len(t) : f[k][Len(u) + b] = t[b]
    BY <2>1, <2>3, <2>4
  <2> QED BY <2>2, <2>5 DEF u, t
<1> HIDE DEF l
<1>5. ASSUME NEW k \in 0 .. n
      PROVE  l(k) <= l(n) /\ \A q \in 1 .. l(k) : f[n][q] = f[k][q]
  <2> DEFINE T == {d \in Nat : k + d <= n =>
                      l(k) <= l(k + d) /\ \A q \in 1 .. l(k) : f[k + d][q] = f[k][q]}
  <2>1. 0 \in T
    <3>1. k + 0 = k /\ l(k) \in Nat
      BY <1>1, <1>3
    <3> QED BY <3>1
  <2>2. ASSUME NEW d \in Nat, d \in T PROVE d + 1 \in T
    <3> SUFFICES ASSUME k + (d + 1) <= n
                 PROVE  /\ l(k) <= l(k + (d + 1))
                        /\ \A q \in 1 .. l(k) : f[k + (d + 1)][q] = f[k][q]
      OBVIOUS
    <3>1. k + d <= n /\ k + (d + 1) \in 1 .. n /\ (k + (d + 1)) - 1 = k + d
      BY <1>1
    <3>2. l(k) <= l(k + d) /\ \A q \in 1 .. l(k) : f[k + d][q] = f[k][q]
      BY <2>2, <3>1
    <3>3. /\ l(k + (d + 1)) = l(k + d) + Len(s[k + (d + 1)])
          /\ Len(s[k + (d + 1)]) \in Nat /\ l(k + d) \in Nat
          /\ \A q \in 1 .. l(k + d) : f[k + (d + 1)][q] = f[k + d][q]
      BY <1>4, <3>1
    <3>4. l(k) \in Nat
      BY <1>3
    <3>5. \A q \in 1 .. l(k) : q \in 1 .. l(k + d)
      BY <3>2, <3>3, <3>4
    <3> QED BY <3>2, <3>3, <3>4, <3>5
  <2>3. T = Nat
    <3>1. T \in SUBSET Nat
      OBVIOUS
    <3> HIDE DEF T
    <3> QED BY <2>1, <2>2, <3>1, Inductive
  <2>4. n - k \in Nat /\ k + (n - k) = n
    BY <1>1
  <2>5. n - k \in T
    BY <2>3, <2>4
  <2> QED BY <2>4, <2>5
<1>6. ASSUME NEW k \in 1 .. n, NEW b \in 1 .. Len(s[k])
      PROVE  f[n][l(k - 1) + b] = s[k][b]
  <2>1. /\ l(k) = l(k - 1) + Len(s[k]) /\ Len(s[k]) \in Nat /\ l(k - 1) \in Nat
        /\ f[k][l(k - 1) + b] = s[k][b]
    BY <1>4
  <2>2. l(k - 1) + b \in 1 .. l(k)
    <3> DEFINE c == l(k - 1)
               e == l(k)
               d == Len(s[k])
    <3>1. c \in Nat /\ d \in Nat /\ e = c + d /\ b \in 1 .. d
      BY <2>1
    <3> HIDE DEF c, d, e
    <3>2. c + b \in 1 .. e
      BY <3>1
    <3> QED BY <3>2 DEF c, e
  <2>3. k \in 0 .. n
    BY <1>1
  <2>4. f[n][l(k - 1) + b] = f[k][l(k - 1) + b]
    BY <1>5, <2>2, <2>3
  <2> QED BY <2>1, <2>4
<1> QED BY <1>1, <1>2, <1>3, <1>4, <1>5, <1>6 DEF l, Places

\* Where they are when they have the same length.
LEMMA EqualPlaces ==
  ASSUME NEW S, NEW s \in Seq(Seq(S)), NEW w \in Nat,
         \A k \in 1 .. Len(s) : Len(s[k]) = w
  PROVE  /\ Len(FlattenSeq(s)) = w * Len(s)
         /\ \A k \in 1 .. Len(s), b \in 1 .. w : FlattenSeq(s)[w * (k - 1) + b] = s[k][b]
<1>1. PICK f : Flattens(f, s, S)
  BY FlattenExists
<1> DEFINE n == Len(s)
           T == {k \in Nat : k <= n => Len(f[k]) = w * k}
<1>2. /\ FlattenSeq(s) = f[n] /\ Len(f[0]) = 0 /\ n \in Nat
      /\ \A k \in 1 .. n :
           /\ Len(f[k]) = Len(f[k - 1]) + Len(s[k])
           /\ \A b \in 1 .. Len(s[k]) : FlattenSeq(s)[Len(f[k - 1]) + b] = s[k][b]
  <2>1. Places(f, s)
    BY <1>1, FlattenPlaces
  <2> QED BY <2>1 DEF Places
<1>3. 0 \in T
  BY <1>2
<1>4. ASSUME NEW k \in Nat, k \in T PROVE k + 1 \in T
  <2> SUFFICES ASSUME k + 1 <= n PROVE Len(f[k + 1]) = w * (k + 1)
    OBVIOUS
  <2>1. k + 1 \in 1 .. n /\ (k + 1) - 1 = k /\ Len(f[k]) = w * k
    BY <1>2, <1>4
  <2>2. Len(f[k + 1]) = w * k + w
    BY <1>2, <2>1
  <2>3. w * (k + 1) = w * k + w
    OBVIOUS
  <2> QED BY <2>2, <2>3
<1>5. T = Nat
  <2>1. T \in SUBSET Nat
    OBVIOUS
  <2> HIDE DEF T
  <2> QED BY <1>3, <1>4, <2>1, Inductive
<1>6. ASSUME NEW k \in 1 .. n, NEW b \in 1 .. w
      PROVE  FlattenSeq(s)[w * (k - 1) + b] = s[k][b]
  <2>1. k - 1 \in Nat /\ k - 1 <= n
    BY <1>2
  <2>2. Len(f[k - 1]) = w * (k - 1)
    BY <1>5, <2>1
  <2> QED BY <1>2, <2>2
<1>7. Len(FlattenSeq(s)) = w * n
  <2>1. n \in T
    BY <1>2, <1>5
  <2> QED BY <1>2, <2>1
<1> HIDE DEF T
<1> QED BY <1>6, <1>7

-----------------------------------------------------------------------------
\* f is field number m of t, and with it c inputs or outputs are still to come.
FieldAt(t, m, f, c) ==
  LET a == Len(t.input)
      b == Len(t.output)
  IN \/ m = 1 /\ f = <<"version", t.version>>
     \/ m = 2 /\ f = <<"input_count", a>>
     \/ \E k \in 1 .. a : /\ c = (a - k) + 1
                          /\ \E r \in 1 .. 5 : m = 5 * k - 3 + r /\ f = InputFields(t.input[k])[r]
     \/ m = 5 * a + 3 /\ f = <<"output_count", b>>
     \/ \E k \in 1 .. b : /\ c = (b - k) + 1
                          /\ \E r \in 1 .. 3 : m = 5 * a + 3 * k + r
                                               /\ f = OutputFields(t.output[k])[r]
     \/ m = 5 * a + 3 * b + 4 /\ f = <<"lock_time", t.lock_time>>

\* The types of the parts of a transaction.
LEMMA TxIs ==
  ASSUME NEW t \in Txs
  PROVE  /\ Len(t.input) \in Nat /\ Len(t.output) \in Nat
         /\ t.version \in Nat /\ t.lock_time \in Nat
         /\ DOMAIN t.input = 1 .. Len(t.input) /\ DOMAIN t.output = 1 .. Len(t.output)
         /\ \A k \in 1 .. Len(t.input) :
              t.input[k] \in [txid : Script, index : Nat, script : Script, sequence_number : Nat]
         /\ \A k \in 1 .. Len(t.output) : t.output[k] \in [amount : Nat, script : Script]
<1> DEFINE In == [txid : Script, index : Nat, script : Script, sequence_number : Nat]
           O == [amount : Nat, script : Script]
<1>1. t.version \in Nat /\ t.lock_time \in Nat /\ t.input \in Seq(In) /\ t.output \in Seq(O)
  BY TxsAssumption DEF Script
<1> HIDE DEF In, O
<1>2. /\ Len(t.input) \in Nat /\ DOMAIN t.input = 1 .. Len(t.input)
      /\ \A k \in 1 .. Len(t.input) : t.input[k] \in In
  BY <1>1, LenProperties, ElementOfSeq
<1>3. /\ Len(t.output) \in Nat /\ DOMAIN t.output = 1 .. Len(t.output)
      /\ \A k \in 1 .. Len(t.output) : t.output[k] \in O
  BY <1>1, LenProperties, ElementOfSeq
<1> QED BY <1>1, <1>2, <1>3 DEF In, O

\* Where the fields are.
LEMMA LayoutIs ==
  ASSUME NEW t \in Txs
  PROVE  /\ Len(Fields(t)) = 5 * Len(t.input) + 3 * Len(t.output) + 4
         /\ \A m, f, c : FieldAt(t, m, f, c) => m \in 1 .. Len(Fields(t)) /\ Fields(t)[m] = f
<1> DEFINE a == Len(t.input)
           b == Len(t.output)
           ins == [n \in DOMAIN t.input |-> InputFields(t.input[n])]
           outs == [n \in DOMAIN t.output |-> OutputFields(t.output[n])]
           front == <<<<"version", t.version>>, <<"input_count", a>>>>
           middle == <<<<"output_count", b>>>>
           last == <<<<"lock_time", t.lock_time>>>>
           X == FlattenSeq(ins)
           Y == FlattenSeq(outs)
<1>1. a \in Nat /\ b \in Nat /\ DOMAIN t.input = 1 .. a /\ DOMAIN t.output = 1 .. b
  BY TxIs
<1>2. /\ \A k \in 1 .. a : InputFields(t.input[k]) \in Seq(TxFields)
      /\ \A k \in 1 .. b : OutputFields(t.output[k]) \in Seq(TxFields)
  <2>1. ASSUME NEW k \in 1 .. a PROVE InputFields(t.input[k]) \in Seq(TxFields)
    <3>1. t.input[k] \in [txid : Script, index : Nat, script : Script, sequence_number : Nat]
      BY TxIs
    <3> QED BY <3>1, InputFieldsAre
  <2>2. ASSUME NEW k \in 1 .. b PROVE OutputFields(t.output[k]) \in Seq(TxFields)
    <3>1. t.output[k] \in [amount : Nat, script : Script]
      BY TxIs
    <3> QED BY <3>1, OutputFieldsAre
  <2> QED BY <2>1, <2>2
<1>3. /\ \A x : Len(InputFields(x)) = 5
      /\ \A x : Len(OutputFields(x)) = 3
  BY DEF InputFields, OutputFields
<1>4. /\ Sequence(X) /\ Len(X) = 5 * a
      /\ \A k \in 1 .. a, r \in 1 .. 5 : X[5 * (k - 1) + r] = InputFields(t.input[k])[r]
  <2>1. ins \in [1 .. a -> Seq(TxFields)] /\ \A k \in 1 .. a : ins[k] = InputFields(t.input[k])
    BY <1>1, <1>2
  <2> HIDE DEF ins
  <2>2. ins \in Seq(Seq(TxFields)) /\ Len(ins) = a
    BY <1>1, <2>1, SeqDef
  <2>3. \A k \in 1 .. Len(ins) : Len(ins[k]) = 5
    BY <1>3, <2>1, <2>2
  <2>4. /\ Len(X) = 5 * Len(ins)
        /\ \A k \in 1 .. Len(ins), r \in 1 .. 5 : X[5 * (k - 1) + r] = ins[k][r]
    <3>1. 5 \in Nat
      OBVIOUS
    <3> HIDE DEF a
    <3> QED BY <2>2, <2>3, <3>1, EqualPlaces
  <2>5. Sequence(X)
    BY <2>2, FlattenType DEF Sequence
  <2> QED BY <2>1, <2>2, <2>4, <2>5
<1>5. /\ Sequence(Y) /\ Len(Y) = 3 * b
      /\ \A k \in 1 .. b, r \in 1 .. 3 : Y[3 * (k - 1) + r] = OutputFields(t.output[k])[r]
  <2>1. outs \in [1 .. b -> Seq(TxFields)]
        /\ \A k \in 1 .. b : outs[k] = OutputFields(t.output[k])
    BY <1>1, <1>2
  <2> HIDE DEF outs
  <2>2. outs \in Seq(Seq(TxFields)) /\ Len(outs) = b
    BY <1>1, <2>1, SeqDef
  <2>3. \A k \in 1 .. Len(outs) : Len(outs[k]) = 3
    BY <1>3, <2>1, <2>2
  <2>4. /\ Len(Y) = 3 * Len(outs)
        /\ \A k \in 1 .. Len(outs), r \in 1 .. 3 : Y[3 * (k - 1) + r] = outs[k][r]
    <3>1. 3 \in Nat
      OBVIOUS
    <3> HIDE DEF b
    <3> QED BY <2>2, <2>3, <3>1, EqualPlaces
  <2>5. Sequence(Y)
    BY <2>2, FlattenType DEF Sequence
  <2> QED BY <2>1, <2>2, <2>4, <2>5
<1>6. Fields(t) = (((front \o X) \o middle) \o Y) \o last
  BY DEF Fields
<1>7. /\ Sequence(front) /\ Len(front) = 2
      /\ front[1] = <<"version", t.version>> /\ front[2] = <<"input_count", a>>
  <2>1. front \in Seq({<<"version", t.version>>, <<"input_count", a>>})
    OBVIOUS
  <2> QED BY <2>1 DEF Sequence
<1>8. Sequence(middle) /\ Len(middle) = 1 /\ middle[1] = <<"output_count", b>>
  <2>1. middle \in Seq({<<"output_count", b>>})
    OBVIOUS
  <2> QED BY <2>1 DEF Sequence
<1>9. Sequence(last) /\ Len(last) = 1 /\ last[1] = <<"lock_time", t.lock_time>>
  <2>1. last \in Seq({<<"lock_time", t.lock_time>>})
    OBVIOUS
  <2> QED BY <2>1 DEF Sequence
<1> HIDE DEF X, Y, front, middle, last
<1>10. /\ Sequence(front \o X) /\ Len(front \o X) = 5 * a + 2
       /\ \A k \in 1 .. 2 : (front \o X)[k] = front[k]
       /\ \A k \in 1 .. 5 * a : (front \o X)[2 + k] = X[k]
  <2>1. Sequence(front \o X) /\ Len(front \o X) = Len(front) + Len(X)
    BY <1>4, <1>7, SequenceConcat
  <2>2. /\ \A k \in 1 .. Len(front) : (front \o X)[k] = front[k]
        /\ \A k \in 1 .. Len(X) : (front \o X)[Len(front) + k] = X[k]
    <3>1. Sequence(front)
      BY <1>7
    <3>2. Sequence(X)
      BY <1>4
    <3> QED BY <3>1, <3>2, ConcatAt
  <2> HIDE DEF a
  <2> QED BY <1>1, <1>4, <1>7, <2>1, <2>2
<1> DEFINE M == front \o X
           N == M \o middle
           O == N \o Y
<1> HIDE DEF M
<1>11. /\ Sequence(N) /\ Len(N) = 5 * a + 3
       /\ \A k \in 1 .. 5 * a + 2 : N[k] = M[k]
       /\ N[5 * a + 3] = <<"output_count", b>>
  <2>1. Sequence(N) /\ Len(N) = Len(M) + Len(middle)
    BY <1>8, <1>10, SequenceConcat DEF M
  <2>2. /\ \A k \in 1 .. Len(M) : N[k] = M[k]
        /\ \A k \in 1 .. Len(middle) : N[Len(M) + k] = middle[k]
    <3>1. Sequence(M)
      BY <1>10 DEF M
    <3>2. Sequence(middle)
      BY <1>8
    <3> QED BY <3>1, <3>2, ConcatAt
  <2>3. Len(M) = 5 * a + 2 /\ 1 \in 1 .. Len(middle)
    BY <1>8, <1>10 DEF M
  <2> HIDE DEF N, a
  <2>4. N[(5 * a + 2) + 1] = middle[1] /\ (5 * a + 2) + 1 = 5 * a + 3
    BY <1>1, <2>2, <2>3
  <2> QED BY <1>1, <1>8, <2>1, <2>2, <2>3, <2>4
<1> HIDE DEF N
<1>12. /\ Sequence(O) /\ Len(O) = 5 * a + 3 * b + 3
       /\ \A k \in 1 .. 5 * a + 3 : O[k] = N[k]
       /\ \A k \in 1 .. 3 * b : O[5 * a + 3 + k] = Y[k]
  <2>1. Sequence(O) /\ Len(O) = Len(N) + Len(Y)
    BY <1>5, <1>11, SequenceConcat
  <2>2. /\ \A k \in 1 .. Len(N) : O[k] = N[k]
        /\ \A k \in 1 .. Len(Y) : O[Len(N) + k] = Y[k]
    BY <1>5, <1>11, ConcatAt
  <2> HIDE DEF O, a, b
  <2> QED BY <1>1, <1>5, <1>11, <2>1, <2>2
<1> HIDE DEF O
<1>13. /\ Len(Fields(t)) = 5 * a + 3 * b + 4
       /\ \A k \in 1 .. 5 * a + 3 * b + 3 : Fields(t)[k] = O[k]
       /\ Fields(t)[5 * a + 3 * b + 4] = <<"lock_time", t.lock_time>>
  <2>0. Fields(t) = O \o last
    BY <1>6 DEF O, N, M
  <2>1. Len(Fields(t)) = Len(O) + Len(last)
    BY <2>0, <1>9, <1>12, SequenceConcat
  <2>2. /\ \A k \in 1 .. Len(O) : Fields(t)[k] = O[k]
        /\ \A k \in 1 .. Len(last) : Fields(t)[Len(O) + k] = last[k]
    <3>1. Sequence(O)
      BY <1>12
    <3>2. Sequence(last)
      BY <1>9
    <3>3. /\ \A k \in 1 .. Len(O) : (O \o last)[k] = O[k]
          /\ \A k \in 1 .. Len(last) : (O \o last)[Len(O) + k] = last[k]
      BY <3>1, <3>2, ConcatAt
    <3> QED BY <2>0, <3>3
  <2> HIDE DEF a, b
  <2>3. Fields(t)[(5 * a + 3 * b + 3) + 1] = last[1]
        /\ (5 * a + 3 * b + 3) + 1 = 5 * a + 3 * b + 4
    BY <1>1, <1>9, <1>12, <2>2
  <2> QED BY <1>1, <1>9, <1>12, <2>1, <2>2, <2>3
<1>14. ASSUME NEW m, NEW f, NEW c, FieldAt(t, m, f, c)
       PROVE  m \in 1 .. Len(Fields(t)) /\ Fields(t)[m] = f
  <2> DEFINE A(k, r) == 5 * k - 3 + r
             C(k, r) == 5 * a + 3 * k + r
  <2>1. /\ 1 \in 1 .. 5 * a + 2 /\ 2 \in 1 .. 5 * a + 2
        /\ \A k \in 1 .. 5 * a + 2 : k \in 1 .. 5 * a + 3 /\ k \in 1 .. 5 * a + 3 * b + 3
        /\ \A k \in 1 .. 5 * a + 3 : k \in 1 .. 5 * a + 3 * b + 3
        /\ \A k \in 1 .. 5 * a + 3 * b + 3 : k \in 1 .. 5 * a + 3 * b + 4
        /\ 5 * a + 3 \in 1 .. 5 * a + 3 /\ 5 * a + 3 * b + 4 \in 1 .. 5 * a + 3 * b + 4
    <3> HIDE DEF a, b
    <3> QED BY <1>1
  <2>2. \A k \in 1 .. 5 * a + 2 : k \in 1 .. Len(Fields(t)) /\ Fields(t)[k] = M[k]
    BY <1>11, <1>12, <1>13, <2>1
  <2>3. CASE m = 1 /\ f = <<"version", t.version>>
    BY <2>3, <2>1, <2>2, <1>7, <1>10 DEF M
  <2>4. CASE m = 2 /\ f = <<"input_count", a>>
    BY <2>4, <2>1, <2>2, <1>7, <1>10 DEF M
  <2>5. ASSUME NEW k \in 1 .. a, NEW r \in 1 .. 5, m = 5 * k - 3 + r,
               f = InputFields(t.input[k])[r]
        PROVE  m \in 1 .. Len(Fields(t)) /\ Fields(t)[m] = f
    <3>1. m = 2 + (5 * (k - 1) + r) /\ 5 * (k - 1) + r \in 1 .. 5 * a /\ m \in 1 .. 5 * a + 2
      <4> HIDE DEF a
      <4> QED BY <1>1, <2>5
    <3>2. M[m] = X[5 * (k - 1) + r]
      BY <3>1, <1>10 DEF M
    <3> QED BY <2>5, <3>1, <3>2, <2>2, <1>4
  <2>6. CASE m = 5 * a + 3 /\ f = <<"output_count", b>>
    BY <2>6, <2>1, <1>11, <1>12, <1>13
  <2>7. ASSUME NEW k \in 1 .. b, NEW r \in 1 .. 3, m = 5 * a + 3 * k + r,
               f = OutputFields(t.output[k])[r]
        PROVE  m \in 1 .. Len(Fields(t)) /\ Fields(t)[m] = f
    <3>1. /\ m = 5 * a + 3 + (3 * (k - 1) + r) /\ 3 * (k - 1) + r \in 1 .. 3 * b
          /\ m \in 1 .. 5 * a + 3 * b + 3
      <4> HIDE DEF a, b
      <4> QED BY <1>1, <2>7
    <3>2. O[m] = Y[3 * (k - 1) + r]
      BY <3>1, <1>12
    <3> QED BY <2>7, <3>1, <3>2, <2>1, <1>5, <1>13
  <2>8. CASE m = 5 * a + 3 * b + 4 /\ f = <<"lock_time", t.lock_time>>
    BY <2>8, <2>1, <1>13
  <2> QED BY <1>14, <2>3, <2>4, <2>5, <2>6, <2>7, <2>8 DEF FieldAt
<1> QED BY <1>13, <1>14

-----------------------------------------------------------------------------
\* As far as both go, the data is the stream.
Agrees == \A q \in 1 .. Len(data) : q <= Len(Stream(btx)) => data[q] = Stream(btx)[q]

\* The reader has pulled the fields before number m, and is where their bytes end.
OnTrack(f, m) ==
  LET F == Fields(btx)
  IN /\ Places(f, add_tx(btx))
     /\ m \in 1 .. Len(F) + 1
     /\ cursor = Len(f[m - 1]) + 1 /\ cursor <= Len(data) + 1
     /\ pulled = SubSeq(F, 1, m - 1)
     /\ IF m = Len(F) + 1 THEN field = "done"
        ELSE field = F[m][1] /\ FieldAt(btx, m, F[m], rounds)

\* It ran out of data, and cannot take this for a transaction any more.
Astray == cursor = 0 /\ Len(data) < Len(Stream(btx)) /\ field # "done"

PullInv ==
  /\ btx \in Txs
  /\ adder # "pull" => field = "version"
  /\ adder = "pull" =>
       /\ adds = <<>> /\ Sequence(data)
       /\ Agrees => Astray \/ \E f : \E m \in Nat : OnTrack(f, m)

\* What add_tx does with the fields, one for one.
LEMMA FieldsAdded ==
  ASSUME NEW t \in Txs
  PROVE  /\ Len(add_tx(t)) = Len(Fields(t)) /\ Len(Fields(t)) \in Nat
         /\ \A m \in 1 .. Len(Fields(t)) : add_tx(t)[m] = FieldBytes(Fields(t)[m])
<1> DEFINE F == Fields(t)
<1>1. F \in Seq(TxFields) /\ Len(F) \in Nat /\ DOMAIN F = 1 .. Len(F)
  BY FieldsAre, LenProperties
<1>2. add_tx(t) = [n \in 1 .. Len(F) |-> FieldBytes(F[n])]
  BY <1>1 DEF add_tx
<1>3. add_tx(t) \in Seq(Seq(Symbols))
  BY AddTxIs
<1>4. DOMAIN add_tx(t) = 1 .. Len(add_tx(t)) /\ Len(add_tx(t)) \in Nat
  BY <1>3, LenProperties
<1> HIDE DEF F
<1>5. DOMAIN add_tx(t) = 1 .. Len(F)
  BY <1>2
<1> DEFINE lf == Len(F)
           la == Len(add_tx(t))
<1>6. lf \in Nat /\ la \in Nat /\ 1 .. lf = 1 .. la
  BY <1>1, <1>4, <1>5
<1> HIDE DEF lf, la
<1>7. lf = la
  <2>1. \A k \in Nat : k \in 1 .. lf <=> k \in 1 .. la
    BY <1>6
  <2>2. lf # 0 => lf <= la
    BY <1>6, <2>1
  <2>3. la # 0 => la <= lf
    BY <1>6, <2>1
  <2> QED BY <1>6, <2>2, <2>3
<1> QED BY <1>1, <1>2, <1>7 DEF F, lf, la

\* The bytes of the next field, as far as the data goes.
LEMMA BytesThere ==
  ASSUME NEW f, NEW m \in Nat, btx \in Txs, Len(data) \in Nat, Agrees, OnTrack(f, m),
         m <= Len(Fields(btx))
  PROVE  LET x == FieldBytes(Fields(btx)[m])
         IN /\ Len(x) \in Nat /\ Len(f[m]) = cursor - 1 + Len(x)
            /\ cursor \in Nat \ {0} /\ cursor <= Len(data) + 1
            /\ Len(f[m]) \in Nat /\ Len(f[m]) <= Len(Stream(btx))
            /\ \A b \in 1 .. Len(x) : cursor + b - 1 <= Len(data) => data[cursor + b - 1] = x[b]
<1> DEFINE F == Fields(btx)
           n == Len(F)
           s == add_tx(btx)
           x == FieldBytes(F[m])
           c == Len(f[m - 1])
<1>1. Len(s) = n /\ n \in Nat /\ m \in 1 .. n /\ s[m] = x
  <2>1. n \in Nat /\ Len(s) = n /\ \A k \in 1 .. n : s[k] = FieldBytes(F[k])
    BY FieldsAdded
  <2>2. m \in 1 .. n
    <3>1. m \in 1 .. n + 1 /\ m <= n
      BY DEF OnTrack
    <3> HIDE DEF n
    <3> QED BY <2>1, <3>1
  <2> HIDE DEF n, s
  <2> QED BY <2>1, <2>2
<1>2. Places(f, s) /\ cursor = c + 1 /\ c + 1 <= Len(data) + 1
  BY DEF OnTrack
<1>3. Stream(btx) = FlattenSeq(s)
  BY DEF Stream
<1> HIDE DEF s, n
<1>4. m \in 0 .. Len(s) /\ m - 1 \in 0 .. Len(s) /\ m \in 1 .. Len(s)
  BY <1>1
<1>5. /\ Len(f[m]) \in Nat /\ Len(f[m]) <= Len(Stream(btx)) /\ c \in Nat
      /\ Len(f[m]) = c + Len(s[m]) /\ Len(s[m]) \in Nat
      /\ \A b \in 1 .. Len(s[m]) : Stream(btx)[c + b] = s[m][b]
  BY <1>2, <1>3, <1>4 DEF Places
<1> HIDE DEF c
<1>6. Len(x) \in Nat /\ Len(f[m]) = c + Len(x) /\ \A b \in 1 .. Len(x) : Stream(btx)[c + b] = x[b]
  BY <1>1, <1>5
<1> HIDE DEF x
<1>7. ASSUME NEW b \in 1 .. Len(x), cursor + b - 1 <= Len(data)
      PROVE  data[cursor + b - 1] = x[b]
  <2>1. cursor + b - 1 = c + b /\ c + b \in 1 .. Len(data) /\ c + b <= Len(f[m])
    BY <1>2, <1>5, <1>6, <1>7
  <2>2. Len(Stream(btx)) \in Nat
    BY AddTxIs
  <2>3. c + b <= Len(Stream(btx))
    BY <1>5, <2>1, <2>2
  <2>4. data[c + b] = Stream(btx)[c + b]
    BY <2>1, <2>3 DEF Agrees
  <2> QED BY <1>6, <2>1, <2>4
<1>8. /\ Len(f[m]) = cursor - 1 + Len(x) /\ cursor \in Nat \ {0} /\ cursor <= Len(data) + 1
  BY <1>2, <1>5, <1>6
<1> QED BY <1>5, <1>6, <1>7, <1>8 DEF x

\* pull: the bytes of a field are pulled, or there are too few of them.
LEMMA BytesPulled ==
  ASSUME NEW f, NEW m \in Nat, btx \in Txs, Len(data) \in Nat, Agrees, OnTrack(f, m),
         m <= Len(Fields(btx)), NEW w, Len(FieldBytes(Fields(btx)[m])) = w
  PROVE  \/ PullTo(cursor, w) = 0 /\ Len(data) < Len(Stream(btx))
         \/ /\ PullTo(cursor, w) = Len(f[m]) + 1 /\ Len(f[m]) \in Nat
            /\ Len(f[m]) <= Len(data)
            /\ PullBytes(cursor, w) = [k \in 1 .. w |-> FieldBytes(Fields(btx)[m])[k]]
<1> DEFINE x == FieldBytes(Fields(btx)[m])
           c == cursor
<1>1. /\ w \in Nat /\ Len(f[m]) = c - 1 + w
      /\ c \in Nat \ {0} /\ c <= Len(data) + 1
      /\ Len(f[m]) \in Nat /\ Len(f[m]) <= Len(Stream(btx))
      /\ \A b \in 1 .. w : c + b - 1 <= Len(data) => data[c + b - 1] = x[b]
  BY BytesThere
<1>2. Left(c) = Len(data) + 1 - c
  BY <1>1 DEF Left
<1>3. Len(Stream(btx)) \in Nat
  BY AddTxIs
<1> HIDE DEF x, c
<1>4. CASE Left(c) < w
  <2>1. PullTo(c, w) = 0
    BY <1>4 DEF PullTo
  <2>2. Len(data) < Len(Stream(btx))
    BY <1>1, <1>2, <1>3, <1>4
  <2> QED BY <2>1, <2>2 DEF c
<1>5. CASE ~(Left(c) < w)
  <2>1. PullTo(c, w) = c + w
    BY <1>1, <1>5 DEF PullTo
  <2>2. c + w = Len(f[m]) + 1 /\ Len(f[m]) <= Len(data)
    BY <1>1, <1>2, <1>5
  <2>3. \A b \in 1 .. w : data[c + b - 1] = x[b]
    <3> TAKE b \in 1 .. w
    <3>1. c + b - 1 <= Len(data)
      BY <1>1, <1>2, <1>5
    <3> QED BY <1>1, <3>1
  <2>4. PullBytes(c, w) = [k \in 1 .. w |-> data[c + k - 1]]
    BY <1>5 DEF PullBytes
  <2>5. PullBytes(c, w) = [k \in 1 .. w |-> x[k]]
    BY <2>3, <2>4
  <2> QED BY <1>1, <2>1, <2>2, <2>5 DEF c, x
<1> QED BY <1>4, <1>5

\* pull_varint: a number is pulled, or its end is missing.
LEMMA VarintPulled ==
  ASSUME NEW f, NEW m \in Nat, btx \in Txs, Len(data) \in Nat, Agrees, OnTrack(f, m),
         m <= Len(Fields(btx)),
         NEW x \in Nat, x < ByteValues ^ 8, FieldBytes(Fields(btx)[m]) = add_varint(x)
  PROVE  LET n == pull_varint(cursor)
         IN \/ n.to = 0 /\ Len(data) < Len(Stream(btx))
            \/ /\ n.to = Len(f[m]) + 1 /\ Len(f[m]) \in Nat /\ Len(f[m]) <= Len(data)
               /\ n.value = x
<1> DEFINE s == add_varint(x)
           t == VarintTail(s[1])
           c == cursor
           n == pull_varint(c)
<1>0. /\ t \in {0, 2, 4, 8} /\ Len(s) = t + 1
      /\ t = 0 => s[1] = x
      /\ t # 0 => Number([k \in 1 .. t |-> s[k + 1]]) = x
  BY VarintTailIs
<1>1. /\ Len(s) \in Nat /\ Len(f[m]) = c - 1 + Len(s)
      /\ c \in Nat \ {0} /\ c <= Len(data) + 1
      /\ Len(f[m]) \in Nat /\ Len(f[m]) <= Len(Stream(btx))
      /\ \A b \in 1 .. Len(s) : c + b - 1 <= Len(data) => data[c + b - 1] = s[b]
  BY BytesThere
<1>2. Left(c) = Len(data) + 1 - c /\ Left(c + 1) = Len(data) - c
  <2>1. c # 0 /\ c + 1 # 0 /\ Len(data) + 1 - (c + 1) = Len(data) - c
    BY <1>1
  <2> QED BY <2>1 DEF Left
<1>3. Len(Stream(btx)) \in Nat
  BY AddTxIs
<1> HIDE DEF s, t, c
<1>4. CASE Left(c) = 0
  <2>1. n.to = 0
    BY <1>4 DEF pull_varint
  <2>2. Len(data) < Len(Stream(btx))
    BY <1>0, <1>1, <1>2, <1>3, <1>4
  <2> QED BY <2>1, <2>2 DEF c
<1>5. CASE Left(c) # 0
  <2>1. 1 \in 1 .. Len(s) /\ c + 1 - 1 <= Len(data) /\ c + 1 - 1 = c
    BY <1>0, <1>1, <1>2, <1>5
  <2>2. data[c] = s[1]
    BY <1>1, <2>1
  <2>3. VarintTail(data[c]) = t
    BY <2>2 DEF t
  <2>4. CASE t = 0
    <3>1. n = [value |-> data[c], to |-> c + 1]
      BY <1>5, <2>3, <2>4 DEF pull_varint
    <3>2. n.value = x /\ n.to = c + 1
      BY <1>0, <2>2, <2>4, <3>1
    <3>3. c + 1 = Len(f[m]) + 1 /\ Len(f[m]) <= Len(data)
      BY <1>0, <1>1, <1>2, <1>5, <2>4
    <3> HIDE DEF n
    <3> QED BY <1>1, <3>2, <3>3 DEF n, c
  <2>5. CASE t # 0 /\ Left(c + 1) < t
    <3>1. n.to = PullTo(c + 1, t)
      BY <1>5, <2>3, <2>5 DEF pull_varint
    <3>2. PullTo(c + 1, t) = 0
      BY <2>5 DEF PullTo
    <3>3. Len(data) < Len(Stream(btx))
      BY <1>0, <1>1, <1>2, <1>3, <2>5
    <3> HIDE DEF n
    <3> QED BY <3>1, <3>2, <3>3 DEF n, c
  <2>6. CASE t # 0 /\ ~(Left(c + 1) < t)
    <3>1. n = [value |-> Number(PullBytes(c + 1, t)), to |-> PullTo(c + 1, t)]
      BY <1>5, <2>3, <2>6 DEF pull_varint
    <3>2. PullTo(c + 1, t) = c + 1 + t
      <4>1. c + 1 # 0
        BY <1>1
      <4> QED BY <2>6, <4>1 DEF PullTo
    <3>3. c + 1 + t = Len(f[m]) + 1 /\ Len(f[m]) <= Len(data)
      BY <1>0, <1>1, <1>2, <2>6
    <3>4. \A k \in 1 .. t : data[(c + 1) + k - 1] = s[k + 1]
      <4> TAKE k \in 1 .. t
      <4>1. /\ k + 1 \in 1 .. Len(s) /\ c + (k + 1) - 1 <= Len(data)
            /\ c + (k + 1) - 1 = (c + 1) + k - 1
        BY <1>0, <1>1, <1>2, <2>6
      <4>2. data[c + (k + 1) - 1] = s[k + 1]
        BY <1>1, <4>1
      <4> QED BY <4>1, <4>2
    <3>5. PullBytes(c + 1, t) = [k \in 1 .. t |-> data[(c + 1) + k - 1]]
      BY <2>6 DEF PullBytes
    <3>6. PullBytes(c + 1, t) = [k \in 1 .. t |-> s[k + 1]]
      BY <3>4, <3>5
    <3>7. n.value = x /\ n.to = Len(f[m]) + 1
      BY <1>0, <2>6, <3>1, <3>2, <3>3, <3>6
    <3> HIDE DEF n
    <3> QED BY <1>1, <3>3, <3>7 DEF n, c
  <2> QED BY <2>4, <2>5, <2>6
<1> QED BY <1>4, <1>5

Numbers == {"version", "index", "sequence_number", "amount", "lock_time"}

\* What every field is, and what was pulled just before a script.
LEMMA FieldIs ==
  ASSUME NEW t \in Txs, NEW m, NEW f, NEW c, FieldAt(t, m, f, c)
  PROVE  /\ m \in 1 .. Len(Fields(t)) /\ Fields(t)[m] = f /\ f = <<f[1], f[2]>>
         /\ \/ f[1] \in Varints /\ f[2] \in Nat /\ f[2] <= MaxNew
            \/ f[1] = "txid" /\ f[2] \in Script /\ Len(f[2]) = TxidLen
            \/ /\ f[1] \in {"script", "out_script"} /\ f[2] \in Script
               /\ m - 1 \in 1 .. Len(Fields(t)) /\ Fields(t)[m - 1][2] = Len(f[2])
            \/ f[1] \in Numbers /\ f[2] \in Nat /\ f[2] < ByteValues ^ Width(f[1])
<1> DEFINE a == Len(t.input)
           b == Len(t.output)
           Says(g) == /\ g = <<g[1], g[2]>>
                      /\ \/ g[1] \in Varints /\ g[2] \in Nat /\ g[2] <= MaxNew
                         \/ g[1] = "txid" /\ g[2] \in Script /\ Len(g[2]) = TxidLen
                         \/ /\ g[1] \in {"script", "out_script"} /\ g[2] \in Script
                            /\ m - 1 \in 1 .. Len(Fields(t)) /\ Fields(t)[m - 1][2] = Len(g[2])
                         \/ g[1] \in Numbers /\ g[2] \in Nat /\ g[2] < ByteValues ^ Width(g[1])
<1>1. m \in 1 .. Len(Fields(t)) /\ Fields(t)[m] = f
  BY LayoutIs
<1>2. /\ a \in Nat /\ b \in Nat /\ t.version \in Nat /\ t.lock_time \in Nat
      /\ \A k \in 1 .. a :
           t.input[k] \in [txid : Script, index : Nat, script : Script, sequence_number : Nat]
      /\ \A k \in 1 .. b : t.output[k] \in [amount : Nat, script : Script]
  BY TxIs
<1>3. /\ t.version < ByteValues ^ W32 /\ t.lock_time < ByteValues ^ W32
      /\ a <= MaxNew /\ b <= MaxNew
      /\ \A k \in 1 .. a :
           /\ Len(t.input[k].txid) = TxidLen /\ t.input[k].index < ByteValues ^ W32
           /\ Len(t.input[k].script) <= MaxNew
           /\ t.input[k].sequence_number < ByteValues ^ W32
      /\ \A k \in 1 .. b :
           t.output[k].amount < ByteValues ^ W64 /\ Len(t.output[k].script) <= MaxNew
  <2>1. DOMAIN t.input = 1 .. a /\ DOMAIN t.output = 1 .. b
    BY TxIs
  <2> QED BY <2>1, FitsAssumption
<1>4. /\ Width("version") = W32 /\ Width("lock_time") = W32 /\ Width("index") = W32
      /\ Width("sequence_number") = W32 /\ Width("amount") = W64
  BY DEF Width
<1>5. \A u \in Script : Len(u) \in Nat
  BY LenProperties DEF Script
<1> SUFFICES Says(f)
  BY <1>1
<1> HIDE DEF a, b
<1>6. CASE m = 1 /\ f = <<"version", t.version>>
  BY <1>6, <1>2, <1>3, <1>4 DEF Numbers
<1>7. CASE m = 2 /\ f = <<"input_count", a>>
  BY <1>7, <1>2, <1>3 DEF Varints
<1>8. ASSUME NEW k \in 1 .. a, NEW r \in 1 .. 5, c = (a - k) + 1, m = 5 * k - 3 + r,
             f = InputFields(t.input[k])[r]
      PROVE  Says(f)
  <2> DEFINE x == t.input[k]
  <2>1. x \in [txid : Script, index : Nat, script : Script, sequence_number : Nat]
    BY <1>2
  <2>2. /\ Len(x.txid) = TxidLen /\ x.index < ByteValues ^ W32
        /\ Len(x.script) <= MaxNew /\ x.sequence_number < ByteValues ^ W32
    BY <1>3
  <2>3. Len(x.script) \in Nat
    BY <2>1, <1>5
  <2> HIDE DEF x
  <2>4. CASE r = 1
    <3>1. f = <<"txid", x.txid>>
      BY <1>8, <2>4 DEF InputFields, x
    <3> QED BY <3>1, <2>1, <2>2
  <2>5. CASE r = 2
    <3>1. f = <<"index", x.index>>
      BY <1>8, <2>5 DEF InputFields, x
    <3> QED BY <3>1, <2>1, <2>2, <1>4 DEF Numbers
  <2>6. CASE r = 3
    <3>1. f = <<"script_length", Len(x.script)>>
      BY <1>8, <2>6 DEF InputFields, x
    <3> QED BY <3>1, <2>2, <2>3 DEF Varints
  <2>7. CASE r = 4
    <3>1. f = <<"script", x.script>>
      BY <1>8, <2>7 DEF InputFields, x
    <3>2. FieldAt(t, m - 1, <<"script_length", Len(x.script)>>, c)
      <4>1. m - 1 = 5 * k - 3 + 3
        BY <1>8, <2>7
      <4>2. <<"script_length", Len(x.script)>> = InputFields(t.input[k])[3]
        BY DEF InputFields, x
      <4>3. 3 \in 1 .. 5
        OBVIOUS
      <4> QED BY <1>8, <4>1, <4>2, <4>3 DEF FieldAt, a
    <3>3. m - 1 \in 1 .. Len(Fields(t)) /\ Fields(t)[m - 1] = <<"script_length", Len(x.script)>>
      BY <3>2, LayoutIs
    <3> QED BY <3>1, <3>3, <2>1
  <2>8. CASE r = 5
    <3>1. f = <<"sequence_number", x.sequence_number>>
      BY <1>8, <2>8 DEF InputFields, x
    <3> QED BY <3>1, <2>1, <2>2, <1>4 DEF Numbers
  <2> QED BY <2>4, <2>5, <2>6, <2>7, <2>8
<1>9. CASE m = 5 * a + 3 /\ f = <<"output_count", b>>
  BY <1>9, <1>2, <1>3 DEF Varints
<1>10. ASSUME NEW k \in 1 .. b, NEW r \in 1 .. 3, c = (b - k) + 1, m = 5 * a + 3 * k + r,
              f = OutputFields(t.output[k])[r]
       PROVE  Says(f)
  <2> DEFINE x == t.output[k]
  <2>1. x \in [amount : Nat, script : Script]
    BY <1>2
  <2>2. x.amount < ByteValues ^ W64 /\ Len(x.script) <= MaxNew
    BY <1>3
  <2>3. Len(x.script) \in Nat
    BY <2>1, <1>5
  <2> HIDE DEF x
  <2>4. CASE r = 1
    <3>1. f = <<"amount", x.amount>>
      BY <1>10, <2>4 DEF OutputFields, x
    <3> QED BY <3>1, <2>1, <2>2, <1>4 DEF Numbers
  <2>5. CASE r = 2
    <3>1. f = <<"out_length", Len(x.script)>>
      BY <1>10, <2>5 DEF OutputFields, x
    <3> QED BY <3>1, <2>2, <2>3 DEF Varints
  <2>6. CASE r = 3
    <3>1. f = <<"out_script", x.script>>
      BY <1>10, <2>6 DEF OutputFields, x
    <3>2. FieldAt(t, m - 1, <<"out_length", Len(x.script)>>, c)
      <4>1. m - 1 = 5 * a + 3 * k + 2
        BY <1>10, <2>6, <1>2
      <4>2. <<"out_length", Len(x.script)>> = OutputFields(t.output[k])[2]
        BY DEF OutputFields, x
      <4>3. 2 \in 1 .. 3
        OBVIOUS
      <4> QED BY <1>10, <4>1, <4>2, <4>3 DEF FieldAt, a, b
    <3>3. m - 1 \in 1 .. Len(Fields(t)) /\ Fields(t)[m - 1] = <<"out_length", Len(x.script)>>
      BY <3>2, LayoutIs
    <3> QED BY <3>1, <3>3, <2>1
  <2> QED BY <2>4, <2>5, <2>6
<1>11. CASE m = 5 * a + 3 * b + 4 /\ f = <<"lock_time", t.lock_time>>
  BY <1>11, <1>2, <1>3, <1>4 DEF Numbers
<1> HIDE DEF Says
<1> QED BY <1>6, <1>7, <1>8, <1>9, <1>10, <1>11 DEF FieldAt, a, b

\* Which field follows which.
LEMMA FieldAfterIs ==
  /\ DOMAIN FieldAfter = {"version", "txid", "index", "script_length", "script", "amount",
                          "out_length"}
  /\ FieldAfter["version"] = "input_count" /\ FieldAfter["txid"] = "index"
  /\ FieldAfter["index"] = "script_length" /\ FieldAfter["script_length"] = "script"
  /\ FieldAfter["script"] = "sequence_number" /\ FieldAfter["amount"] = "out_length"
  /\ FieldAfter["out_length"] = "out_script"
BY DEF FieldAfter

\* Without its last byte no transaction is taken.
LEMMA NotDone ==
  ASSUME PullVarint \/ PullField, cursor' = 0
  PROVE  field' # "done"
<1>1. \A g \in DOMAIN FieldAfter : FieldAfter[g] # "done"
  BY FieldAfterIs
<1>2. \A more, g : AfterCount(more, g) # "done"
  BY DEF AfterCount
<1>3. CASE PullVarint
  BY <1>1, <1>2, <1>3 DEF PullVarint
<1>4. CASE PullField
  BY <1>1, <1>2, <1>4 DEF PullField
<1> QED BY <1>3, <1>4

\* The next field is pulled as it was added, or there is too little data for it.
LEMMA FieldPulled ==
  ASSUME NEW f, NEW m \in Nat, btx \in Txs, Len(data) \in Nat, Agrees, OnTrack(f, m),
         m <= Len(Fields(btx)), PullVarint \/ PullField
  PROVE  LET x == Fields(btx)[m]
         IN \/ cursor' = 0 /\ Len(data) < Len(Stream(btx))
            \/ /\ cursor' = Len(f[m]) + 1 /\ Len(f[m]) \in Nat /\ Len(f[m]) <= Len(data)
               /\ pulled' = Append(pulled, x)
               /\ \/ PullField
                  \/ PullVarint /\ pull_varint(cursor).value = x[2] /\ x[2] \in 0 .. MaxNew
<1> DEFINE F == Fields(btx)
           x == F[m]
           c == cursor
<1>1. m # Len(F) + 1 /\ field = x[1] /\ FieldAt(btx, m, x, rounds)
      /\ pulled = SubSeq(F, 1, m - 1)
  <2>1. Len(F) \in Nat
    BY FieldsAdded
  <2> HIDE DEF F
  <2>2. m # Len(F) + 1
    BY <2>1 DEF F
  <2> QED BY <2>2 DEF OnTrack, F
<1>2. /\ m \in 1 .. Len(F) /\ x = <<x[1], x[2]>>
      /\ \/ x[1] \in Varints /\ x[2] \in Nat /\ x[2] <= MaxNew
         \/ x[1] = "txid" /\ x[2] \in Script /\ Len(x[2]) = TxidLen
         \/ /\ x[1] \in {"script", "out_script"} /\ x[2] \in Script
            /\ m - 1 \in 1 .. Len(F) /\ F[m - 1][2] = Len(x[2])
         \/ x[1] \in Numbers /\ x[2] \in Nat /\ x[2] < ByteValues ^ Width(x[1])
  <2> HIDE DEF F
  <2> QED BY <1>1, FieldIs DEF F
<1>3. \A w : Len(FieldBytes(x)) = w =>
        \/ PullTo(c, w) = 0 /\ Len(data) < Len(Stream(btx))
        \/ /\ PullTo(c, w) = Len(f[m]) + 1 /\ Len(f[m]) \in Nat /\ Len(f[m]) <= Len(data)
           /\ PullBytes(c, w) = [k \in 1 .. w |-> FieldBytes(x)[k]]
  BY BytesPulled
<1> HIDE DEF x, c
<1>4. \A u \in Script : [k \in 1 .. Len(u) |-> u[k]] = u
  BY DEF Script
<1>5. CASE x[1] \in Varints /\ x[2] \in Nat /\ x[2] <= MaxNew
  <2>1. PullVarint
    <3>1. ~PullField
      BY <1>1, <1>5 DEF PullField
    <3> QED BY <3>1
  <2>2. x[2] < ByteValues ^ 8 /\ x[2] \in 0 .. MaxNew
    <3>1. MaxNew < ByteValues ^ 8
      BY FitsAssumption
    <3>2. ByteValues ^ 8 \in Nat /\ MaxNew \in Nat
      <4>1. 8 \in NumberLens /\ 8 \in 0 .. 8
        BY DEF NumberLens
      <4> QED BY <4>1, PlacesAre, BitcoinTxAssumption
    <3> QED BY <1>5, <3>1, <3>2
  <2>3. FieldBytes(x) = add_varint(x[2])
    BY <1>5 DEF FieldBytes
  <2> DEFINE n == pull_varint(c)
  <2>4. \/ n.to = 0 /\ Len(data) < Len(Stream(btx))
        \/ /\ n.to = Len(f[m]) + 1 /\ Len(f[m]) \in Nat /\ Len(f[m]) <= Len(data)
           /\ n.value = x[2]
    <3> DEFINE val == x[2]
    <3>1. val \in Nat /\ val < ByteValues ^ 8 /\ FieldBytes(F[m]) = add_varint(val)
      BY <1>5, <2>2, <2>3 DEF x
    <3> HIDE DEF val, F
    <3>2. \/ n.to = 0 /\ Len(data) < Len(Stream(btx))
          \/ /\ n.to = Len(f[m]) + 1 /\ Len(f[m]) \in Nat /\ Len(f[m]) <= Len(data)
             /\ n.value = val
      BY <3>1, VarintPulled DEF F, c
    <3> QED BY <3>2 DEF val
  <2>5. cursor' = n.to /\ pulled' = Append(pulled, <<x[1], n.value>>)
    BY <2>1, <1>1 DEF PullVarint, c
  <2> HIDE DEF n
  <2>6. CASE n.to = 0 /\ Len(data) < Len(Stream(btx))
    BY <2>5, <2>6
  <2>7. CASE /\ n.to = Len(f[m]) + 1 /\ Len(f[m]) \in Nat /\ Len(f[m]) <= Len(data)
             /\ n.value = x[2]
    <3>1. pulled' = Append(pulled, x)
      BY <1>2, <2>5, <2>7
    <3>2. pull_varint(cursor).value = x[2]
      BY <2>7 DEF n, c
    <3> QED BY <2>1, <2>2, <2>5, <2>7, <3>1, <3>2 DEF x
  <2> QED BY <2>4, <2>6, <2>7
<1> DEFINE isScript == field \in {"script", "out_script"}
           width == IF isScript THEN ScriptLength ELSE Width(field)
<1>6. ASSUME x[1] \notin Varints, Len(FieldBytes(x)) = width,
             (IF isScript \/ field = "txid" THEN [k \in 1 .. width |-> FieldBytes(x)[k]]
              ELSE Number([k \in 1 .. width |-> FieldBytes(x)[k]])) = x[2]
      PROVE  \/ cursor' = 0 /\ Len(data) < Len(Stream(btx))
             \/ /\ cursor' = Len(f[m]) + 1 /\ Len(f[m]) \in Nat /\ Len(f[m]) <= Len(data)
                /\ pulled' = Append(pulled, x) /\ PullField
  <2>1. PullField
    BY <1>1, <1>6 DEF PullVarint
  <2> DEFINE bytes == PullBytes(c, width)
  <2>2. /\ cursor' = PullTo(c, width)
        /\ pulled' = Append(pulled,
             <<field, IF isScript \/ field = "txid" THEN bytes ELSE Number(bytes)>>)
    BY <2>1 DEF PullField, c
  <2> HIDE DEF width
  <2>3. \/ PullTo(c, width) = 0 /\ Len(data) < Len(Stream(btx))
        \/ /\ PullTo(c, width) = Len(f[m]) + 1 /\ Len(f[m]) \in Nat /\ Len(f[m]) <= Len(data)
           /\ bytes = [k \in 1 .. width |-> FieldBytes(x)[k]]
    BY <1>3, <1>6
  <2> HIDE DEF bytes, isScript
  <2>4. CASE PullTo(c, width) = 0 /\ Len(data) < Len(Stream(btx))
    BY <2>2, <2>4
  <2>5. CASE /\ PullTo(c, width) = Len(f[m]) + 1 /\ Len(f[m]) \in Nat /\ Len(f[m]) <= Len(data)
             /\ bytes = [k \in 1 .. width |-> FieldBytes(x)[k]]
    <3>1. (IF isScript \/ field = "txid" THEN bytes ELSE Number(bytes)) = x[2]
      BY <1>6, <2>5
    <3>2. pulled' = Append(pulled, <<field, x[2]>>)
      BY <2>2, <3>1
    <3>3. pulled' = Append(pulled, x)
      BY <1>1, <1>2, <3>2
    <3> QED BY <2>1, <2>2, <2>5, <3>3
  <2> QED BY <2>3, <2>4, <2>5
<1>7. CASE x[1] = "txid" /\ x[2] \in Script /\ Len(x[2]) = TxidLen
  <2>1. x[1] \notin Varints /\ FieldBytes(x) = x[2]
    BY <1>7 DEF FieldBytes, Varints
  <2>2. width = TxidLen
    BY <1>1, <1>7 DEF Width
  <2>3. [k \in 1 .. width |-> FieldBytes(x)[k]] = x[2]
    BY <1>4, <1>7, <2>1, <2>2
  <2> QED BY <1>1, <1>6, <1>7, <2>1, <2>2, <2>3 DEF x
<1>8. CASE /\ x[1] \in {"script", "out_script"} /\ x[2] \in Script
           /\ m - 1 \in 1 .. Len(F) /\ F[m - 1][2] = Len(x[2])
  <2>1. x[1] \notin Varints /\ FieldBytes(x) = x[2]
    BY <1>8 DEF FieldBytes, Varints
  <2>2. ScriptLength = Len(x[2])
    <3>1. F \in Seq(TxFields) /\ Len(F) \in Nat
      BY FieldsAre, FieldsAdded
    <3>2. \A k \in 1 .. m - 1 : F[k] \in TxFields
      <4> HIDE DEF F
      <4>1. \A k \in 1 .. m - 1 : k \in 1 .. Len(F)
        BY <1>8, <3>1
      <4> QED BY <3>1, <4>1, ElementOfSeq
    <3> HIDE DEF F
    <3>3. m - 1 \in Int /\ 1 \in Int /\ 1 <= m - 1 /\ (m - 1) - 1 + 1 = m - 1
      BY <1>8
    <3>4. /\ Len(pulled) = m - 1
          /\ \A k \in 1 .. m - 1 : pulled[k] = F[1 + k - 1]
      <4>1. /\ Len(SubSeq(F, 1, m - 1)) = IF 1 <= m - 1 THEN m - 1 - 1 + 1 ELSE 0
            /\ \A k \in 1 .. m - 1 - 1 + 1 : SubSeq(F, 1, m - 1)[k] = F[1 + k - 1]
        BY <3>2, <3>3, SubSeqProperties
      <4> QED BY <1>1, <3>3, <4>1
    <3>5. pulled[m - 1] = F[m - 1]
      <4>1. m - 1 \in 1 .. m - 1 /\ 1 + (m - 1) - 1 = m - 1
        BY <3>3
      <4> QED BY <3>4, <4>1
    <3> QED BY <1>8, <3>4, <3>5 DEF ScriptLength, Last
  <2>3. isScript /\ width = Len(x[2])
    BY <1>1, <1>8, <2>2
  <2>4. [k \in 1 .. width |-> FieldBytes(x)[k]] = x[2]
    BY <1>4, <1>8, <2>1, <2>3
  <2> QED BY <1>6, <1>8, <2>1, <2>3, <2>4 DEF x
<1>9. CASE x[1] \in Numbers /\ x[2] \in Nat /\ x[2] < ByteValues ^ Width(x[1])
  <2>1. /\ x[1] \notin Varints /\ x[1] \notin {"txid", "script", "out_script"}
    BY <1>9 DEF Varints, Numbers
  <2>2. FieldBytes(x) = LittleEndian(x[2], Width(x[1]))
    BY <2>1 DEF FieldBytes
  <2>3. width = Width(x[1]) /\ ~isScript /\ field # "txid"
    BY <1>1, <2>1
  <2>4. width \in NumberLens /\ width \in Nat
    <3>1. width \in {W32, W64}
      BY <1>9, <2>3 DEF Width, Numbers
    <3> QED BY <3>1, BitcoinTxAssumption DEF NumberLens
  <2> DEFINE l == LittleEndian(x[2], width)
  <2> HIDE DEF width
  <2>5. Len(l) = width
    BY <2>4, LittleEndianIs
  <2>6. [k \in 1 .. width |-> l[k]] = l
    BY DEF LittleEndian
  <2>7. Number(l) = x[2]
    <3> DEFINE val == x[2]
    <3>1. val \in Nat /\ val < ByteValues ^ width
      BY <1>9, <2>3
    <3> HIDE DEF val
    <3>2. Number(LittleEndian(val, width)) = val
      BY <2>4, <3>1, NumberIs
    <3> QED BY <3>2 DEF val
  <2> HIDE DEF l, isScript
  <2>8. FieldBytes(x) = l
    BY <2>2, <2>3 DEF l
  <2> QED BY <1>6, <2>1, <2>3, <2>5, <2>6, <2>7, <2>8 DEF x
<1> HIDE DEF F
<1> QED BY <1>2, <1>5, <1>7, <1>8, <1>9 DEF x, F

\* Where a step of the reader leads that pulled a field.
LEMMA Moves ==
  ASSUME NEW x, field = x[1], rounds \in Nat \/ x[1] \notin {"sequence_number", "out_script"},
         \/ PullField /\ cursor' # 0
         \/ PullVarint /\ pull_varint(cursor).value = x[2] /\ x[2] \in 0 .. MaxNew
  PROVE  /\ x[1] \in DOMAIN FieldAfter => field' = FieldAfter[x[1]] /\ rounds' = rounds
         /\ x[1] \in {"input_count", "output_count"} =>
              field' = AfterCount(x[2] > 0, x[1]) /\ rounds' = x[2]
         /\ x[1] = "sequence_number" =>
              field' = AfterCount(rounds > 1, "sequence_number") /\ rounds' = rounds - 1
         /\ x[1] = "out_script" =>
              field' = AfterCount(rounds > 1, "output_count") /\ rounds' = rounds - 1
         /\ x[1] = "lock_time" => field' = "done"
<1>1. DOMAIN FieldAfter = {"version", "txid", "index", "script_length", "script", "amount",
                           "out_length"}
  BY FieldAfterIs
<1>2. CASE PullField /\ cursor' # 0
  <2>1. x[1] \notin Varints
    BY <1>2 DEF PullField
  <2>2. x[1] \notin {"input_count", "output_count"}
    BY <2>1 DEF Varints
  <2>3. \/ x[1] \in DOMAIN FieldAfter /\ field' = FieldAfter[x[1]] /\ rounds' = rounds
        \/ /\ x[1] \in {"sequence_number", "out_script"}
           /\ field' = AfterCount(rounds > 1, IF x[1] = "out_script" THEN "output_count"
                                              ELSE x[1])
           /\ rounds' = rounds - 1
        \/ x[1] = "lock_time" /\ field' = "done"
    BY <1>2 DEF PullField
  <2> QED BY <1>1, <2>2, <2>3
<1>3. CASE PullVarint /\ pull_varint(cursor).value = x[2] /\ x[2] \in 0 .. MaxNew
  <2>1. x[1] \in Varints
    BY <1>3 DEF PullVarint
  <2>2. x[1] \in {"input_count", "script_length", "output_count", "out_length"}
    BY <2>1 DEF Varints
  <2>3. ~(x[2] > MaxNew)
    BY <1>3, BitcoinTxAssumption
  <2>4. IF x[1] \in DOMAIN FieldAfter
        THEN field' = FieldAfter[x[1]] /\ rounds' = rounds
        ELSE field' = AfterCount(x[2] > 0, x[1]) /\ rounds' = x[2]
    BY <1>3, <2>3 DEF PullVarint
  <2> QED BY <1>1, <2>2, <2>4
<1> QED BY <1>2, <1>3

\* It leads to the next field, or past the last one.
LEMMA NextField ==
  ASSUME btx \in Txs, NEW m \in Nat, NEW x, FieldAt(btx, m, x, rounds), field = x[1],
         \/ PullField /\ cursor' # 0
         \/ PullVarint /\ pull_varint(cursor).value = x[2] /\ x[2] \in 0 .. MaxNew
  PROVE  \/ m = Len(Fields(btx)) /\ field' = "done"
         \/ \E g : FieldAt(btx, m + 1, g, rounds') /\ field' = g[1]
<1> DEFINE a == Len(btx.input)
           b == Len(btx.output)
           In(k) == InputFields(btx.input[k])
           Out(k) == OutputFields(btx.output[k])
           Then(g) == FieldAt(btx, m + 1, g, rounds') /\ field' = g[1]
<1>1. a \in Nat /\ b \in Nat /\ Len(Fields(btx)) = 5 * a + 3 * b + 4
  BY TxIs, LayoutIs
<1>2. /\ \A k : /\ In(k)[1][1] = "txid" /\ In(k)[2][1] = "index" /\ In(k)[3][1] = "script_length"
                /\ In(k)[4][1] = "script" /\ In(k)[5][1] = "sequence_number"
      /\ \A k : /\ Out(k)[1][1] = "amount" /\ Out(k)[2][1] = "out_length"
                /\ Out(k)[3][1] = "out_script"
  BY DEF InputFields, OutputFields
<1> HIDE DEF a, b, In, Out
<1>3. ASSUME NEW k \in 1 .. a, NEW r \in 1 .. 5, rounds' = (a - k) + 1, m + 1 = 5 * k - 3 + r,
             field' = In(k)[r][1]
      PROVE  Then(In(k)[r])
  BY <1>3 DEF FieldAt, a, In
<1>4. ASSUME NEW k \in 1 .. b, NEW r \in 1 .. 3, rounds' = (b - k) + 1,
             m + 1 = 5 * a + 3 * k + r, field' = Out(k)[r][1]
      PROVE  Then(Out(k)[r])
  BY <1>4 DEF FieldAt, a, b, Out
<1>5. ASSUME m + 1 = 5 * a + 3, field' = "output_count"
      PROVE  Then(<<"output_count", b>>)
  BY <1>5 DEF FieldAt, a, b
<1>6. ASSUME m + 1 = 5 * a + 3 * b + 4, field' = "lock_time"
      PROVE  Then(<<"lock_time", btx.lock_time>>)
  BY <1>6 DEF FieldAt, a, b
<1>7. /\ \A more, g : g \in {"input_count", "sequence_number"} =>
           AfterCount(more, g) = IF more THEN "txid" ELSE "output_count"
      /\ \A more : AfterCount(more, "output_count") = IF more THEN "amount" ELSE "lock_time"
  BY DEF AfterCount
<1> SUFFICES (m = 5 * a + 3 * b + 4 /\ field' = "done") \/ \E g : Then(g)
  BY <1>1
<1>8. CASE m = 1 /\ x = <<"version", btx.version>>
  <2>1. x[1] = "version"
    BY <1>8
  <2>2. field' = "input_count"
    BY <2>1, Moves, FieldAfterIs
  <2>3. Then(<<"input_count", a>>)
    BY <1>8, <2>2 DEF FieldAt, a
  <2> HIDE DEF Then
  <2> QED BY <2>3
<1>9. CASE m = 2 /\ x = <<"input_count", a>>
  <2>1. x[1] = "input_count" /\ x[2] = a
    BY <1>9
  <2>2. field' = AfterCount(a > 0, "input_count") /\ rounds' = a
    BY <2>1, Moves
  <2> HIDE DEF Then
  <2>3. CASE a > 0
    <3>1. /\ 1 \in 1 .. a /\ rounds' = (a - 1) + 1 /\ m + 1 = 5 * 1 - 3 + 1 /\ 1 \in 1 .. 5
      BY <1>1, <1>9, <2>2, <2>3
    <3>2. field' = In(1)[1][1]
      BY <1>2, <1>7, <2>2, <2>3
    <3> QED BY <1>3, <3>1, <3>2
  <2>4. CASE ~(a > 0)
    <3>1. m + 1 = 5 * a + 3
      BY <1>1, <1>9, <2>4
    <3>2. field' = "output_count"
      BY <1>7, <2>2, <2>4
    <3> QED BY <1>5, <3>1, <3>2
  <2> QED BY <2>3, <2>4
<1>10. ASSUME NEW k \in 1 .. a, NEW r \in 1 .. 5, rounds = (a - k) + 1, m = 5 * k - 3 + r,
              x = In(k)[r]
       PROVE  \E g : Then(g)
  <2>0. rounds \in Nat
    BY <1>1, <1>10
  <2> HIDE DEF Then
  <2>1. CASE r \in 1 .. 4
    <3>1. x[1] \in DOMAIN FieldAfter /\ FieldAfter[x[1]] = In(k)[r + 1][1]
      <4>1. CASE r = 1
        BY <1>2, <1>10, <4>1, FieldAfterIs
      <4>2. CASE r = 2
        BY <1>2, <1>10, <4>2, FieldAfterIs
      <4>3. CASE r = 3
        BY <1>2, <1>10, <4>3, FieldAfterIs
      <4>4. CASE r = 4
        BY <1>2, <1>10, <4>4, FieldAfterIs
      <4> QED BY <2>1, <4>1, <4>2, <4>3, <4>4
    <3>2. field' = In(k)[r + 1][1] /\ rounds' = rounds
      BY <2>0, <3>1, Moves
    <3>3. r + 1 \in 1 .. 5 /\ m + 1 = 5 * k - 3 + (r + 1)
      <4>1. k \in Int /\ r \in 1 .. 4 /\ m = 5 * k - 3 + r
        BY <1>1, <1>10, <2>1
      <4> QED BY <4>1
    <3> QED BY <1>3, <1>10, <3>2, <3>3
  <2>2. CASE r = 5
    <3>1. x[1] = "sequence_number"
      BY <1>2, <1>10, <2>2
    <3>2. field' = AfterCount(rounds > 1, "sequence_number") /\ rounds' = rounds - 1
      BY <2>0, <3>1, Moves
    <3>3. CASE rounds > 1
      <4>1. /\ k + 1 \in 1 .. a /\ rounds' = (a - (k + 1)) + 1 /\ 1 \in 1 .. 5
            /\ m + 1 = 5 * (k + 1) - 3 + 1
        BY <1>1, <1>10, <2>2, <3>2, <3>3
      <4>2. field' = In(k + 1)[1][1]
        BY <1>2, <1>7, <3>2, <3>3
      <4> QED BY <1>3, <4>1, <4>2
    <3>4. CASE ~(rounds > 1)
      <4>1. m + 1 = 5 * a + 3
        BY <1>1, <1>10, <2>2, <3>4
      <4>2. field' = "output_count"
        BY <1>7, <3>2, <3>4
      <4> QED BY <1>5, <4>1, <4>2
    <3> QED BY <3>3, <3>4
  <2> QED BY <2>1, <2>2
<1>11. CASE m = 5 * a + 3 /\ x = <<"output_count", b>>
  <2>1. x[1] = "output_count" /\ x[2] = b
    BY <1>11
  <2>2. field' = AfterCount(b > 0, "output_count") /\ rounds' = b
    BY <2>1, Moves
  <2> HIDE DEF Then
  <2>3. CASE b > 0
    <3>1. 1 \in 1 .. b /\ rounds' = (b - 1) + 1 /\ m + 1 = 5 * a + 3 * 1 + 1 /\ 1 \in 1 .. 3
      BY <1>1, <1>11, <2>2, <2>3
    <3>2. field' = Out(1)[1][1]
      BY <1>2, <1>7, <2>2, <2>3
    <3> QED BY <1>4, <3>1, <3>2
  <2>4. CASE ~(b > 0)
    <3>1. m + 1 = 5 * a + 3 * b + 4
      BY <1>1, <1>11, <2>4
    <3>2. field' = "lock_time"
      BY <1>7, <2>2, <2>4
    <3> QED BY <1>6, <3>1, <3>2
  <2> QED BY <2>3, <2>4
<1>12. ASSUME NEW k \in 1 .. b, NEW r \in 1 .. 3, rounds = (b - k) + 1, m = 5 * a + 3 * k + r,
              x = Out(k)[r]
       PROVE  \E g : Then(g)
  <2>0. rounds \in Nat
    BY <1>1, <1>12
  <2> HIDE DEF Then
  <2>1. CASE r \in 1 .. 2
    <3>1. x[1] \in DOMAIN FieldAfter /\ FieldAfter[x[1]] = Out(k)[r + 1][1]
      <4>1. CASE r = 1
        BY <1>2, <1>12, <4>1, FieldAfterIs
      <4>2. CASE r = 2
        BY <1>2, <1>12, <4>2, FieldAfterIs
      <4> QED BY <2>1, <4>1, <4>2
    <3>2. field' = Out(k)[r + 1][1] /\ rounds' = rounds
      BY <2>0, <3>1, Moves
    <3>3. r + 1 \in 1 .. 3 /\ m + 1 = 5 * a + 3 * k + (r + 1)
      BY <1>1, <1>12, <2>1
    <3> QED BY <1>4, <1>12, <3>2, <3>3
  <2>2. CASE r = 3
    <3>1. x[1] = "out_script"
      BY <1>2, <1>12, <2>2
    <3>2. field' = AfterCount(rounds > 1, "output_count") /\ rounds' = rounds - 1
      BY <2>0, <3>1, Moves
    <3>3. CASE rounds > 1
      <4>1. /\ k + 1 \in 1 .. b /\ rounds' = (b - (k + 1)) + 1 /\ 1 \in 1 .. 3
            /\ m + 1 = 5 * a + 3 * (k + 1) + 1
        BY <1>1, <1>12, <2>2, <3>2, <3>3
      <4>2. field' = Out(k + 1)[1][1]
        BY <1>2, <1>7, <3>2, <3>3
      <4> QED BY <1>4, <4>1, <4>2
    <3>4. CASE ~(rounds > 1)
      <4>1. m + 1 = 5 * a + 3 * b + 4
        BY <1>1, <1>12, <2>2, <3>4
      <4>2. field' = "lock_time"
        BY <1>7, <3>2, <3>4
      <4> QED BY <1>6, <4>1, <4>2
    <3> QED BY <3>3, <3>4
  <2> QED BY <2>1, <2>2
<1>13. CASE m = 5 * a + 3 * b + 4 /\ x = <<"lock_time", btx.lock_time>>
  <2>1. x[1] = "lock_time"
    BY <1>13
  <2> QED BY <1>13, <2>1, Moves
<1> HIDE DEF Then
<1> QED BY <1>8, <1>9, <1>10, <1>11, <1>12, <1>13 DEF FieldAt, a, b, In, Out

\* A sequence has a length.
LEMMA LenIs ==
  ASSUME NEW s, Sequence(s)
  PROVE  Len(s) \in Nat
BY LenProperties DEF Sequence

\* Whatever arrives is a sequence.
LEMMA ArrivalsAre ==
  ASSUME NEW t \in Txs, NEW d \in Arrivals(t)
  PROVE  Sequence(d)
<1> DEFINE s == Stream(t)
<1>1. s \in Seq(Symbols) /\ Len(s) \in Nat
  BY AddTxIs
<1> HIDE DEF s
<1> DEFINE A == {SubSeq(s, 1, n) : n \in 0 .. Len(s)}
           B == {s \o [k \in 1 .. z |-> 0] : z \in Zeroes}
           C == {[s EXCEPT ![n] = b] : n \in DOMAIN s, b \in 0 .. ByteValues - 1}
<1>2. d \in A \cup B \cup C
  <2>1. Arrivals(t) = A \cup B \cup C
    BY DEF Arrivals, s
  <2> HIDE DEF A, B, C
  <2> QED BY <2>1
<1>3. ASSUME NEW n \in 0 .. Len(s) PROVE Sequence(SubSeq(s, 1, n))
  <2>1. \A k \in 1 .. n : s[k] \in Symbols
    <3>1. \A k \in 1 .. n : k \in 1 .. Len(s)
      BY <1>1
    <3> QED BY <1>1, <3>1, ElementOfSeq
  <2>2. 1 \in Int /\ n \in Int
    OBVIOUS
  <2>3. SubSeq(s, 1, n) \in Seq(Symbols)
    BY <2>1, <2>2, SubSeqProperties
  <2> QED BY <2>3 DEF Sequence
<1>4. ASSUME NEW z \in Zeroes PROVE Sequence(s \o [k \in 1 .. z |-> 0])
  <2>1. [k \in 1 .. z |-> 0] \in Seq(Symbols)
    BY ZeroesAre, BitcoinTxAssumption
  <2>2. Sequence(s) /\ Sequence([k \in 1 .. z |-> 0])
    BY <1>1, <2>1 DEF Sequence
  <2> QED BY <2>2, SequenceConcat
<1>5. ASSUME NEW n \in DOMAIN s, NEW b \in 0 .. ByteValues - 1
      PROVE  Sequence([s EXCEPT ![n] = b])
  <2> DEFINE S == Symbols \cup {b}
  <2>1. n \in 1 .. Len(s)
    BY <1>1, LenProperties
  <2>2. s \in Seq(S) /\ b \in S
    <3>1. Symbols \subseteq S
      OBVIOUS
    <3> HIDE DEF S
    <3>2. s \in Seq(S)
      BY <1>1, <3>1, SeqMonotonic
    <3> QED BY <3>2 DEF S
  <2> HIDE DEF S
  <2>3. [s EXCEPT ![n] = b] \in Seq(S)
    BY <2>1, <2>2, ExceptSeq
  <2> QED BY <2>3 DEF Sequence
<1>6. CASE d \in A
  BY <1>3, <1>6
<1>7. CASE d \in B
  BY <1>4, <1>7
<1>8. CASE d \in C
  BY <1>5, <1>8
<1> HIDE DEF A, B, C
<1> QED BY <1>2, <1>6, <1>7, <1>8

\* The reader starts at the first field.
LEMMA PullInit == TxInit => PullInv
<1> SUFFICES ASSUME TxInit PROVE PullInv
  OBVIOUS
<1>1. /\ btx \in Txs /\ field = "version" /\ cursor = 1 /\ pulled = <<>>
      /\ adder = "pull" => adds = <<>> /\ data \in Arrivals(btx)
  BY DEF TxInit
<1>2. adder = "pull" => Sequence(data)
  BY <1>1, ArrivalsAre
<1>3. ASSUME adder = "pull" PROVE \E f : \E m \in Nat : OnTrack(f, m)
  <2> DEFINE F == Fields(btx)
             s == add_tx(btx)
  <2>1. s \in Seq(Seq(Symbols))
    BY <1>1, AddTxIs
  <2>2. PICK f : Flattens(f, s, Symbols)
    <3> HIDE DEF s
    <3> QED BY <2>1, FlattenExists
  <2>3. Places(f, s)
    <3> HIDE DEF s
    <3> QED BY <2>1, <2>2, FlattenPlaces
  <2>4. Len(F) \in Nat /\ Len(F) >= 4
    <3> DEFINE a == Len(btx.input)
               b == Len(btx.output)
    <3>1. a \in Nat /\ b \in Nat /\ Len(F) = 5 * a + 3 * b + 4
      BY <1>1, TxIs, LayoutIs
    <3> HIDE DEF a, b, F
    <3> QED BY <3>1
  <2>5. FieldAt(btx, 1, <<"version", btx.version>>, rounds)
    BY DEF FieldAt
  <2>6. F[1] = <<"version", btx.version>>
    BY <1>1, <2>5, LayoutIs
  <2>7. field = F[1][1] /\ FieldAt(btx, 1, F[1], rounds)
    BY <1>1, <2>5, <2>6
  <2>8. Len(f[0]) = 0
    BY <2>3 DEF Places
  <2>9. Len(data) \in Nat
    BY <1>2, <1>3, LenIs
  <2>10. SubSeq(F, 1, 0) = <<>>
    BY SubSeqEmpty
  <2> HIDE DEF F, s
  <2>11. /\ 1 \in 1 .. Len(F) + 1 /\ 1 - 1 = 0 /\ 1 # Len(F) + 1
         /\ cursor = Len(f[0]) + 1 /\ cursor <= Len(data) + 1
    BY <1>1, <2>4, <2>8, <2>9
  <2>12. OnTrack(f, 1)
    BY <1>1, <2>3, <2>7, <2>10, <2>11 DEF OnTrack, F, s
  <2> QED BY <2>12
<1> QED BY <1>1, <1>2, <1>3 DEF PullInv

\* A step of the reader.
LEMMA PullStep ==
  ASSUME PullInv, adder = "pull", PullVarint \/ PullField
  PROVE  PullInv'
<1>1. /\ btx \in Txs /\ adds = <<>> /\ Sequence(data) /\ Len(data) \in Nat
      /\ Agrees => Astray \/ \E f : \E m \in Nat : OnTrack(f, m)
  BY LenIs DEF PullInv
<1>2. btx' = btx /\ adder' = adder /\ adds' = adds /\ data' = data
  BY DEF PullVarint, PullField
<1>3. Agrees' = Agrees
  BY <1>2 DEF Agrees
<1>4. ASSUME Agrees, Astray PROVE Astray'
  <2>1. cursor = 0 /\ Len(data) < Len(Stream(btx))
    BY <1>4 DEF Astray
  <2>2. pull_varint(0).to = 0
    BY DEF pull_varint, Left
  <2>3. \A n : PullTo(0, n) = 0
    BY DEF PullTo
  <2>4. cursor' = 0
    <3>1. CASE PullVarint
      BY <2>1, <2>2, <3>1 DEF PullVarint
    <3>2. CASE PullField
      BY <2>1, <2>3, <3>2 DEF PullField
    <3> QED BY <3>1, <3>2
  <2>5. field' # "done"
    BY <2>4, NotDone
  <2> QED BY <1>2, <2>1, <2>4, <2>5 DEF Astray
<1>5. ASSUME Agrees, NEW f, NEW m \in Nat, OnTrack(f, m)
      PROVE  Astray' \/ \E n \in Nat : OnTrack(f, n)'
  <2> DEFINE F == Fields(btx)
             x == F[m]
  <2>1. F \in Seq(TxFields) /\ Len(F) \in Nat
    BY <1>1, FieldsAre, FieldsAdded
  <2>2. field # "done"
    BY FieldAfterIs DEF PullVarint, PullField, Varints
  <2>3. /\ m \in 1 .. Len(F) /\ Places(f, add_tx(btx)) /\ pulled = SubSeq(F, 1, m - 1)
        /\ field = x[1] /\ FieldAt(btx, m, x, rounds)
    <3>1. /\ m \in 1 .. Len(F) + 1 /\ Places(f, add_tx(btx)) /\ pulled = SubSeq(F, 1, m - 1)
          /\ IF m = Len(F) + 1 THEN field = "done"
             ELSE field = F[m][1] /\ FieldAt(btx, m, F[m], rounds)
      BY <1>5 DEF OnTrack
    <3> HIDE DEF F
    <3>2. m # Len(F) + 1
      BY <2>2, <3>1
    <3>3. m \in 1 .. Len(F)
      BY <2>1, <3>1, <3>2
    <3> QED BY <3>1, <3>2, <3>3
  <2>4. \/ cursor' = 0 /\ Len(data) < Len(Stream(btx))
        \/ /\ cursor' = Len(f[m]) + 1 /\ Len(f[m]) \in Nat /\ Len(f[m]) <= Len(data)
           /\ pulled' = Append(pulled, x)
           /\ \/ PullField
              \/ PullVarint /\ pull_varint(cursor).value = x[2] /\ x[2] \in 0 .. MaxNew
    <3>1. m <= Len(Fields(btx))
      BY <2>3
    <3> QED BY <1>1, <1>5, <3>1, FieldPulled
  <2> HIDE DEF F, x
  <2>5. CASE cursor' = 0 /\ Len(data) < Len(Stream(btx))
    <3>1. field' # "done"
      BY <2>5, NotDone
    <3> QED BY <1>2, <2>5, <3>1 DEF Astray
  <2>6. CASE /\ cursor' = Len(f[m]) + 1 /\ Len(f[m]) \in Nat /\ Len(f[m]) <= Len(data)
             /\ pulled' = Append(pulled, x)
             /\ \/ PullField
                \/ PullVarint /\ pull_varint(cursor).value = x[2] /\ x[2] \in 0 .. MaxNew
    <3>1. \/ PullField /\ cursor' # 0
          \/ PullVarint /\ pull_varint(cursor).value = x[2] /\ x[2] \in 0 .. MaxNew
      <4>1. cursor' # 0
        BY <2>6
      <4> QED BY <2>6, <4>1
    <3>2. \/ m = Len(F) /\ field' = "done"
          \/ \E g : FieldAt(btx, m + 1, g, rounds') /\ field' = g[1]
      BY <1>1, <2>3, <3>1, NextField DEF F
    <3>3. /\ m \in Nat /\ m + 1 \in 1 .. Len(F) + 1 /\ (m + 1) - 1 = m /\ 1 \in 1 .. Len(F)
          /\ m = Len(F) <=> m + 1 = Len(F) + 1
      BY <2>1, <2>3
    <3>4. IF m + 1 = Len(F) + 1 THEN field' = "done"
          ELSE field' = F[m + 1][1] /\ FieldAt(btx, m + 1, F[m + 1], rounds')
      <4>1. CASE m = Len(F) /\ field' = "done"
        BY <3>3, <4>1
      <4>2. ASSUME NEW g, FieldAt(btx, m + 1, g, rounds'), field' = g[1]
            PROVE  /\ m + 1 # Len(F) + 1 /\ field' = F[m + 1][1]
                   /\ FieldAt(btx, m + 1, F[m + 1], rounds')
        <5>1. m + 1 \in 1 .. Len(F) /\ F[m + 1] = g
          BY <1>1, <4>2, LayoutIs DEF F
        <5>2. m + 1 # Len(F) + 1
          BY <2>1, <5>1
        <5> QED BY <4>2, <5>1, <5>2
      <4> QED BY <3>2, <4>1, <4>2
    <3>5. pulled' = SubSeq(F, 1, m)
      <4>1. SubSeq(F, 1, m) = SubSeq(F, 1, m - 1) \o <<F[m]>>
        BY <2>1, <2>3, <3>3, SubSeqRecursiveSecond
      <4>2. SubSeq(F, 1, m - 1) \in Seq(TxFields)
        <5>1. \A k \in 1 .. m - 1 : F[k] \in TxFields
          <6>1. \A k \in 1 .. m - 1 : k \in 1 .. Len(F)
            BY <2>1, <2>3
          <6> QED BY <2>1, <6>1, ElementOfSeq
        <5>2. 1 \in Int /\ m - 1 \in Int
          OBVIOUS
        <5> QED BY <5>1, <5>2, SubSeqProperties
      <4>3. F[m] \in TxFields
        BY <2>1, <2>3, ElementOfSeq
      <4>4. Append(SubSeq(F, 1, m - 1), F[m]) = SubSeq(F, 1, m - 1) \o <<F[m]>>
        BY <4>2, <4>3, AppendIsConcat
      <4> QED BY <2>3, <2>6, <4>1, <4>4 DEF x
    <3>6. cursor' = Len(f[(m + 1) - 1]) + 1 /\ cursor' <= Len(data) + 1
      BY <1>1, <2>6, <3>3
    <3>7. Fields(btx)' = F /\ add_tx(btx)' = add_tx(btx)
      BY <1>2 DEF F
    <3>8. Places(f, add_tx(btx))'
      BY <2>3, <1>2
    <3>9. FieldAt(btx', m + 1, F[m + 1], rounds') = FieldAt(btx, m + 1, F[m + 1], rounds')
      BY <1>2
    <3>10. OnTrack(f, m + 1)'
      BY <1>2, <3>3, <3>4, <3>5, <3>6, <3>7, <3>8, <3>9 DEF OnTrack
    <3> QED BY <3>3, <3>10
  <2> QED BY <2>4, <2>5, <2>6
<1>6. Agrees' => Astray' \/ \E f : \E m \in Nat : OnTrack(f, m)'
  BY <1>1, <1>3, <1>4, <1>5
<1> QED BY <1>1, <1>2, <1>6 DEF PullInv

\* Two sequences of which one is the first part of the other agree.
LEMMA PrefixIs ==
  ASSUME NEW s, NEW t, Sequence(s), Sequence(t), IsPrefix(s, t)
  PROVE  /\ Len(s) <= Len(t) /\ \A q \in 1 .. Len(s) : s[q] = t[q]
         /\ Len(s) = Len(t) => s = t
<1>1. /\ Len(s) \in Nat /\ Len(t) \in Nat /\ Len(s) <= Len(t)
      /\ SubSeq(s, 1, Len(s)) = SubSeq(t, 1, Len(s))
  BY LenIs DEF IsPrefix
<1> DEFINE n == Len(s)
<1>2. ASSUME NEW u, Sequence(u), n <= Len(u), NEW q \in 1 .. n
      PROVE  SubSeq(u, 1, n)[q] = u[q]
  <2>1. PICK S : u \in Seq(S)
    BY <1>2 DEF Sequence
  <2>2. \A k \in 1 .. n : u[k] \in S
    <3>1. Len(u) \in Nat
      BY <1>2, LenIs
    <3>2. \A k \in 1 .. n : k \in 1 .. Len(u)
      BY <1>1, <1>2, <3>1
    <3> QED BY <2>1, <3>2, ElementOfSeq
  <2>3. 1 \in Int /\ n \in Int /\ n - 1 + 1 = n
    BY <1>1
  <2> HIDE DEF n
  <2>4. \A k \in 1 .. n - 1 + 1 : SubSeq(u, 1, n)[k] = u[1 + k - 1]
    BY <2>2, <2>3, SubSeqProperties
  <2>5. q \in 1 .. n - 1 + 1 /\ 1 + q - 1 = q
    BY <2>3
  <2>6. SubSeq(u, 1, n)[q] = u[1 + q - 1]
    BY <2>4, <2>5
  <2> QED BY <2>5, <2>6
<1>3. n <= Len(s) /\ n <= Len(t)
  BY <1>1
<1>4. \A q \in 1 .. n : s[q] = t[q]
  <2> TAKE q \in 1 .. n
  <2>1. SubSeq(s, 1, n)[q] = s[q] /\ SubSeq(t, 1, n)[q] = t[q]
    <3> HIDE DEF n
    <3> QED BY <1>2, <1>3
  <2> QED BY <1>1, <2>1
<1>5. ASSUME n = Len(t) PROVE s = t
  <2>1. \A u : Sequence(u) => SubSeq(u, 1, Len(u)) = u
    BY SubSeqFull DEF Sequence
  <2>2. SubSeq(s, 1, Len(s)) = s /\ SubSeq(t, 1, Len(t)) = t
    BY <2>1
  <2> QED BY <1>1, <1>5, <2>2
<1> QED BY <1>1, <1>4, <1>5

\* The reader is where the fields it pulled end, or has run out of data that is not
\* a whole transaction (pull_bitcoin_tx, pull, pull_varint).
THEOREM AlwaysPullInv == TxSpec => []PullInv
<1>1. PullInv /\ [TxNext]_tvars => PullInv'
  <2> SUFFICES ASSUME PullInv, [TxNext]_tvars PROVE PullInv'
    OBVIOUS
  <2>1. CASE adder = "pull"
    <3>1. adds = <<>>
      BY <2>1 DEF PullInv
    <3>2. ~CallAdd
      BY <3>1 DEF CallAdd
    <3>3. ~AddSlice /\ ~ShaBlock /\ ~ShaRest /\ ~ShaDone
      BY <2>1 DEF AddSlice, ShaBlock, ShaRest, ShaDone
    <3>4. CASE PullVarint \/ PullField
      BY <2>1, <3>4, PullStep
    <3>5. CASE UNCHANGED tvars
      BY <3>5 DEF PullInv, tvars, Agrees, Astray, OnTrack
    <3> QED BY <3>2, <3>3, <3>4, <3>5 DEF TxNext, Finished
  <2>2. CASE adder # "pull"
    <3>1. btx' = btx /\ adder' = adder /\ field' = field
      BY <2>2 DEF TxNext, CallAdd, AddSlice, ShaBlock, ShaRest, ShaDone, Finished, tvars, reader
    <3> QED BY <2>2, <3>1 DEF PullInv
  <2> QED BY <2>1, <2>2
<1> QED BY <1>1, PullInit, PTL DEF TxSpec

\* A transaction that arrives whole is pulled as it was added, whatever follows it;
\* one that ends early is never taken for another one, although no field but the last
\* looks whether there was any data (pull_bitcoin_tx, pull).
THEOREM PulledAlwaysAdded == TxSpec => []PulledIsAdded
<1>1. PullInv => PulledIsAdded
  <2> SUFFICES ASSUME PullInv PROVE PulledIsAdded
    OBVIOUS
  <2> DEFINE F == Fields(btx)
             s == Stream(btx)
  <2>1. btx \in Txs /\ F \in Seq(TxFields) /\ Len(F) \in Nat /\ Sequence(s) /\ Len(s) \in Nat
    <3>1. btx \in Txs
      BY DEF PullInv
    <3> QED BY <3>1, FieldsAre, FieldsAdded, AddTxIs DEF Sequence
  <2>2. CASE adder # "pull"
    <3>1. field = "version"
      BY <2>2 DEF PullInv
    <3> QED BY <3>1 DEF PulledIsAdded
  <2>3. CASE adder = "pull"
    <3>1. Sequence(data) /\ Len(data) \in Nat
      BY <2>3, LenIs DEF PullInv
    <3>2. IsPrefix(s, data) => Agrees /\ Len(s) <= Len(data)
      <4> SUFFICES ASSUME IsPrefix(s, data) PROVE Agrees /\ Len(s) <= Len(data)
        OBVIOUS
      <4> HIDE DEF s
      <4>1. Len(s) <= Len(data) /\ \A q \in 1 .. Len(s) : s[q] = data[q]
        BY <2>1, <3>1, PrefixIs
      <4>2. \A q \in 1 .. Len(data) : q <= Len(s) => data[q] = s[q]
        BY <2>1, <3>1, <4>1
      <4> QED BY <4>1, <4>2 DEF Agrees, s
    <3>3. IsPrefix(data, s) => Agrees /\ Len(data) <= Len(s) /\ (Len(data) = Len(s) => data = s)
      <4> SUFFICES ASSUME IsPrefix(data, s)
                   PROVE  Agrees /\ Len(data) <= Len(s) /\ (Len(data) = Len(s) => data = s)
        OBVIOUS
      <4> HIDE DEF s
      <4>1. /\ Len(data) <= Len(s) /\ \A q \in 1 .. Len(data) : data[q] = s[q]
            /\ Len(data) = Len(s) => data = s
        BY <2>1, <3>1, PrefixIs
      <4> QED BY <4>1 DEF Agrees, s
    <3>4. ASSUME Agrees, NEW f, NEW m \in Nat, OnTrack(f, m)
          PROVE  /\ field \notin {"threw", "bad_alloc"}
                 /\ field = "done" => /\ pulled = F /\ cursor = Len(s) + 1
                                      /\ Len(s) <= Len(data)
      <4>1. /\ m \in 1 .. Len(F) + 1 /\ Places(f, add_tx(btx)) /\ pulled = SubSeq(F, 1, m - 1)
            /\ cursor = Len(f[m - 1]) + 1 /\ cursor <= Len(data) + 1
            /\ IF m = Len(F) + 1 THEN field = "done"
               ELSE field = F[m][1] /\ FieldAt(btx, m, F[m], rounds)
        BY <3>4 DEF OnTrack
      <4> HIDE DEF F
      <4>2. CASE m = Len(F) + 1
        <5>1. m - 1 = Len(F)
          BY <2>1, <4>2
        <5>2. pulled = F
          BY <2>1, <4>1, <5>1, SubSeqFull
        <5>3. FlattenSeq(add_tx(btx)) = f[Len(add_tx(btx))] /\ Len(add_tx(btx)) = Len(F)
          BY <2>1, <4>1, FieldsAdded DEF Places, F
        <5>4. cursor = Len(s) + 1
          BY <4>1, <5>1, <5>3 DEF Stream
        <5>5. Len(s) <= Len(data)
          <6> HIDE DEF s
          <6> QED BY <2>1, <3>1, <4>1, <5>4
        <5> QED BY <4>1, <4>2, <5>2, <5>4, <5>5
      <4>3. CASE m # Len(F) + 1
        <5>1. field = F[m][1] /\ FieldAt(btx, m, F[m], rounds)
          BY <4>1, <4>3
        <5>2. F[m][1] \in Varints \cup {"txid", "script", "out_script"} \cup Numbers
          BY <2>1, <5>1, FieldIs
        <5> QED BY <5>1, <5>2 DEF Varints, Numbers
      <4> QED BY <4>2, <4>3
    <3>5. Agrees => Astray \/ \E f : \E m \in Nat : OnTrack(f, m)
      BY <2>3 DEF PullInv
    <3>6. Astray => Len(data) < Len(s) /\ field # "done"
      BY DEF Astray
    <3> HIDE DEF F, s
    <3>7. field = "done" /\ IsPrefix(s, data) => pulled = F /\ cursor = Len(s) + 1
      BY <3>2, <3>4, <3>5, <3>6
    <3>8. field = "done" => ~IsStrictPrefix(data, s)
      <4> SUFFICES ASSUME field = "done", IsPrefix(data, s) PROVE data = s
        BY DEF IsStrictPrefix
      <4>1. Len(s) <= Len(data) /\ Len(data) <= Len(s)
        BY <3>3, <3>4, <3>5, <3>6
      <4>2. Len(s) = Len(data)
        BY <2>1, <3>1, <4>1
      <4> QED BY <3>3, <4>2
    <3>9. field \in {"threw", "bad_alloc"} => ~IsPrefix(s, data)
      <4> SUFFICES ASSUME IsPrefix(s, data) PROVE field \notin {"threw", "bad_alloc"}
        OBVIOUS
      <4>1. Agrees /\ Len(s) <= Len(data)
        BY <3>2
      <4>2. ~Astray
        BY <2>1, <3>1, <3>6, <4>1
      <4> QED BY <3>4, <3>5, <4>1, <4>2
    <3> QED BY <3>7, <3>8, <3>9 DEF PulledIsAdded, F, s
  <2> QED BY <2>2, <2>3
<1> QED BY <1>1, AlwaysPullInv, PTL
=============================================================================
