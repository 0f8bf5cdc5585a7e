-------------------------------- MODULE Wire --------------------------------
(***************************************************************************)
(* The message that carries a block: wire_encode and wire_decode           *)
(* (iblt-test.cpp) with the two sets of bit strings (wire_encode.cpp).     *)
(* The sender's side is an operator, the receiver's side goes loop by loop *)
(* over what arrived, which may end early.                                 *)
(*                                                                         *)
(* A message is a sequence of units, each pulled whole or not at all: a    *)
(* varint is a number, the coinbase one unit, a byte of bits or of the     *)
(* IBLT the set of its bits that are 1.  pull sets the cursor to NULL when *)
(* too little is left, so a cut inside a unit acts like one before it.     *)
(***************************************************************************)
EXTENDS Integers, FiniteSetsExt, SequencesExt

CONSTANTS
  MaxLen,       \* the longest bit string a txbitsSet has a place for, 48
  ByteBits,     \* bits of a byte, 8
  Bitsets,      \* the sets of bit strings under consideration
  Seeds, Fees,  \* values of seed and min_fee_per_byte
  Coinbase,     \* the coinbase transaction
  WireSizes,        \* numbers of buckets the sender may use
  MaxSize,      \* what wire_decode takes for sane: 100M / IBLT_SIZE
  WireBucketBytes   \* what raw_iblt::write needs for a bucket and its counter

VARIABLES
  sent,    \* the arguments of wire_encode: never changes
  whole,   \* the length of the message sent: never changes
  wire,    \* what arrived of it: never changes
  wire_pc,      \* which loop of wire_decode or decode_bitset runs
  p,       \* the cursor: a place in wire, one past its end, or NULL
  list,    \* the set of strings being decoded
  min, num, nums,  \* shortest length, number of lengths, strings of each length
  i, j,    \* strings of length i that were read
  v,       \* the bits read of the next string
  bitoff,  \* bits used up of the byte at p
  got      \* the results so far

wvars == <<sent, whole, wire, wire_pc, p, list, min, num, nums, i, j, v, bitoff, got>>
loopvars == <<min, num, nums, i, j, v, bitoff>>

NULL == 0
Strings == UNION {[1 .. n -> BOOLEAN] : n \in 0 .. MaxLen}

ASSUME WireAssumption ==
  /\ MaxLen \in Nat \ {0}
  /\ ByteBits \in Nat \ {0}
  /\ Bitsets \subseteq SUBSET Strings
  /\ Seeds \cup Fees \subseteq Nat
  /\ MaxSize \in Nat
  /\ WireSizes \subseteq 1 .. MaxSize
  /\ WireBucketBytes \in Nat \ {0}

-----------------------------------------------------------------------------
OfLength(bset, n) == {s \in bset : Len(s) = n}

\* Bits fill bytes from the lowest place up, and zeroes the last of them.
Bytes(bits) ==
  [b \in 1 .. (Len(bits) + ByteBits - 1) \div ByteBits |->
     {k \in 0 .. ByteBits - 1 : LET n == (b - 1) * ByteBits + k + 1
                                IN n <= Len(bits) /\ bits[n]}]

\* add_bitset: what it may append, one result for each order of iteration of
\* the unordered sets.  Strings of no bits are skipped.
add_bitset(bset) ==
  LET lens == {Len(s) : s \in bset} \ {0}
      min_ == Min(lens)
      max_ == Max(lens)
      orders == {o \in SetToSeqs(bset) :
                   \A m, n \in DOMAIN o : m < n => Len(o[m]) <= Len(o[n])}
  IN IF lens = {} THEN {<<0, 0>>}
     ELSE {<<min_, max_ - min_ + 1>>
             \o [n \in 1 .. max_ - min_ + 1 |->
                   Cardinality(OfLength(bset, min_ + n - 1))]
             \o Bytes(FlattenSeq(o)) : o \in orders}

\* The bytes of the IBLT; module RawIblt is about what they say.
IbltBytes(size) == [n \in 1 .. size * WireBucketBytes |-> 0 .. ByteBits - 1]

\* wire_encode.
wire_encode(m) ==
  {<<m.seed, m.min_fee_per_byte, m.size, m.coinbase>> \o a \o r \o IbltBytes(m.size) :
     a \in add_bitset(m.added), r \in add_bitset(m.removed)}

Messages == [seed : Seeds, min_fee_per_byte : Fees, size : WireSizes,
             coinbase : {Coinbase}, added : Bitsets, removed : Bitsets]

-----------------------------------------------------------------------------
\* len: what is left from the cursor on.
len == Len(wire) + 1 - p

\* pull_varint at q: its value, and the cursor after it.
Pullable(q) == q # NULL /\ q <= Len(wire)
Varint(q) == IF Pullable(q) THEN wire[q] ELSE 0
After(q) == IF Pullable(q) THEN q + 1 ELSE NULL

\* Mutant: the offset goes back to 0 only when there is another byte.
pull_bit_ResetLate(b) ==
  /\ b \in IF p = NULL THEN {FALSE}
           ELSE IF p <= Len(wire) THEN {bitoff \in wire[p]} ELSE BOOLEAN
  /\ LET last == bitoff + 1 = ByteBits
     IN /\ bitoff' = IF p = NULL \/ (last /\ len = 0) THEN bitoff
                     ELSE (bitoff + 1) % ByteBits
        /\ p' = IF p = NULL \/ ~last THEN p ELSE IF len = 0 THEN NULL ELSE p + 1

\* pull_bit gives b.  With nothing left but the cursor not yet NULL it reads
\* one byte past the end, whatever is there; using that byte up makes it NULL.
pull_bit(b) ==
  /\ b \in IF p = NULL THEN {FALSE}
           ELSE IF p <= Len(wire) THEN {bitoff \in wire[p]} ELSE BOOLEAN
  /\ LET last == bitoff + 1 = ByteBits
     IN /\ bitoff' = IF p = NULL THEN bitoff ELSE (bitoff + 1) % ByteBits
        /\ p' = IF p = NULL \/ ~last THEN p ELSE IF len = 0 THEN NULL ELSE p + 1

Refuse == wire_pc' = "refused"

-----------------------------------------------------------------------------
\* The message is written, and all of it or a first part arrives.
WireInit ==
  /\ sent \in Messages
  /\ \E message \in wire_encode(sent) :
       /\ whole = Len(message)
       /\ \E n \in 0 .. whole : wire = SubSeq(message, 1, n)
  /\ wire_pc = "fields"
  /\ p = 1
  /\ list = "added"
  /\ min = 0 /\ num = 0 /\ nums = <<>>
  /\ i = 0 /\ j = 0 /\ v = <<>> /\ bitoff = 0
  /\ got = [seed |-> 0, min_fee_per_byte |-> 0, size |-> 0, coinbase |-> NULL,
            added |-> {}, removed |-> {}]

\* The three numbers, and the transaction, which throws when the data ran out.
PullFields ==
  /\ wire_pc = "fields"
  /\ LET second == After(p)
         third == After(second)
         tx == After(third)
     IN /\ p' = After(tx)
        /\ IF p' = NULL
           THEN Refuse /\ UNCHANGED got
           ELSE /\ wire_pc' = "min"
                /\ got' = [got EXCEPT !.seed = Varint(p),
                                      !.min_fee_per_byte = Varint(second),
                                      !.size = Varint(third),
                                      !.coinbase = wire[tx]]
  /\ UNCHANGED <<sent, whole, wire, list, loopvars>>

\* decode_bitset: its first two numbers.
PullMinNum ==
  /\ wire_pc = "min"
  /\ min' = Varint(p)
  /\ num' = Varint(After(p))
  /\ p' = After(After(p))
  /\ IF num' > MaxLen + 1 THEN Refuse ELSE wire_pc' = "nums"
  /\ nums' = <<>>
  /\ i' = min'
  /\ j' = 0
  /\ UNCHANGED <<sent, whole, wire, list, v, bitoff, got>>

\* Mutant: the loop runs up to min + num.
PullNums_OneMore ==
  /\ wire_pc = "nums"
  /\ IF Len(nums) <= num
     THEN nums' = Append(nums, Varint(p)) /\ p' = After(p) /\ UNCHANGED wire_pc
     ELSE /\ IF p = NULL THEN Refuse ELSE wire_pc' = "bits"
          /\ UNCHANGED <<nums, p>>
  /\ UNCHANGED <<sent, whole, wire, list, min, num, i, j, v, bitoff, got>>

\* An iteration of the loop over the lengths, or what follows it.
PullNums ==
  /\ wire_pc = "nums"
  /\ IF Len(nums) < num
     THEN nums' = Append(nums, Varint(p)) /\ p' = After(p) /\ UNCHANGED wire_pc
     ELSE /\ IF p = NULL THEN Refuse ELSE wire_pc' = "bits"
          /\ UNCHANGED <<nums, p>>
  /\ UNCHANGED <<sent, whole, wire, list, min, num, i, j, v, bitoff, got>>

\* The next bit of a string; the last one completes it.
PullBit ==
  /\ wire_pc = "bits"
  /\ i < min + num
  /\ j < nums[i - min + 1]
  /\ \E b \in BOOLEAN :
       /\ pull_bit(b)
       /\ IF Len(v) + 1 < i
          THEN v' = Append(v, b) /\ UNCHANGED <<wire_pc, j, got>>
          ELSE /\ got' = [got EXCEPT ![list] = @ \cup {Append(v, b)}]
               /\ v' = <<>>
               /\ j' = j + 1
               /\ IF p' = NULL THEN Refuse ELSE UNCHANGED wire_pc
  /\ UNCHANGED <<sent, whole, wire, list, min, num, nums, i>>

\* All strings of one length are read; after the last length comes the padding.
NextLength ==
  /\ wire_pc = "bits"
  /\ IF i = min + num
     THEN wire_pc' = "pad" /\ UNCHANGED <<i, j>>
     ELSE j = nums[i - min + 1] /\ i' = i + 1 /\ j' = 0 /\ UNCHANGED wire_pc
  /\ UNCHANGED <<sent, whole, wire, p, list, min, num, nums, v, bitoff, got>>

\* The rest of the byte must be zero.
Pad ==
  /\ wire_pc = "pad"
  /\ bitoff # 0
  /\ \E b \in BOOLEAN : pull_bit(b) /\ IF b THEN Refuse ELSE UNCHANGED wire_pc
  /\ UNCHANGED <<sent, whole, wire, list, min, num, nums, i, j, v, got>>

\* Mutant: decode_bitset returns true whatever the cursor is.
EndList_NoCheck ==
  /\ wire_pc = "pad"
  /\ bitoff = 0
  /\ IF list = "added" THEN list' = "removed" /\ wire_pc' = "min"
     ELSE wire_pc' = "iblt" /\ UNCHANGED list
  /\ UNCHANGED <<sent, whole, wire, p, loopvars, got>>

\* decode_bitset returns; the second set follows the first.
EndList ==
  /\ wire_pc = "pad"
  /\ bitoff = 0
  /\ \/ p = NULL /\ Refuse /\ UNCHANGED list
     \/ p # NULL /\ list = "added" /\ list' = "removed" /\ wire_pc' = "min"
     \/ p # NULL /\ list = "removed" /\ wire_pc' = "iblt" /\ UNCHANGED list
  /\ UNCHANGED <<sent, whole, wire, p, loopvars, got>>

\* Mutant: a line that is too short is read as far as it goes.
ReadIblt_AnyLength ==
  /\ wire_pc = "iblt"
  /\ IF got.size > MaxSize \/ len > got.size * WireBucketBytes
     THEN Refuse ELSE wire_pc' = "done"
  /\ UNCHANGED <<sent, whole, wire, p, list, loopvars, got>>

\* The size is checked only now; raw_iblt::read wants exactly what is left.
ReadIblt ==
  /\ wire_pc = "iblt"
  /\ IF got.size > MaxSize \/ len # got.size * WireBucketBytes
     THEN Refuse ELSE wire_pc' = "done"
  /\ UNCHANGED <<sent, whole, wire, p, list, loopvars, got>>

Ended == wire_pc \in {"refused", "done"} /\ UNCHANGED wvars

WireStep == PullFields \/ PullMinNum \/ PullNums \/ PullBit \/ NextLength
              \/ Pad \/ EndList \/ ReadIblt

WireNext == WireStep \/ Ended

\* wire_decode is one thread that does nothing else.
WireSpec == WireInit /\ [][WireNext]_wvars /\ WF_wvars(WireStep)

-----------------------------------------------------------------------------
WireTypeOK ==
  /\ sent \in Messages
  /\ whole \in Nat
  /\ Len(wire) <= whole
  /\ wire_pc \in {"fields", "min", "nums", "bits", "pad", "iblt", "refused", "done"}
  /\ p \in 0 .. Len(wire) + 1
  /\ list \in {"added", "removed"}
  /\ min \in 0 .. MaxLen
  /\ num \in 0 .. MaxLen
  /\ nums \in Seq(Nat) /\ Len(nums) <= num
  /\ i \in 0 .. MaxLen + 1
  /\ j \in Nat
  /\ v \in Strings
  /\ bitoff \in 0 .. ByteBits - 1
  /\ got.added \in SUBSET Strings /\ got.removed \in SUBSET Strings

\* A set that decode_bitset accepts is the one that was sent, apart from a
\* string of no bits, and the fields in front of it are, wherever the message
\* was cut and whatever lies in memory behind it (decode_bitset, pull_bit).
AcceptedIsSent ==
  LET same(f) == got[f] = sent[f] \ {<<>>}
      accepted == IF wire_pc \in {"iblt", "done"} THEN {"added", "removed"}
                  ELSE IF list = "removed" THEN {"added"} ELSE {}
  IN /\ \A f \in accepted : same(f)
     /\ accepted # {} =>
          \A f \in {"seed", "min_fee_per_byte", "size", "coinbase"} : got[f] = sent[f]

\* A message is decoded, as it was sent, when all of it arrived, and refused
\* otherwise (wire_decode, raw_iblt::read): no whole message trips one of the
\* checks.
WholeOrNothing ==
  /\ AcceptedIsSent
  /\ wire_pc = "done" => Len(wire) = whole /\ len = sent.size * WireBucketBytes
  /\ wire_pc = "refused" => Len(wire) < whole

\* wire_decode returns or throws: the loop over the padding never waits for a
\* byte that does not come (decode_bitset).
DecodeEnds == <>(wire_pc \in {"refused", "done"})
=============================================================================
