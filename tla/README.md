# TLA+ models of bitcoin-iblt

The repository proposes a compact way of sending a block: an invertible Bloom
lookup table (IBLT) of the block's transactions, cut into slices, from which a
receiver subtracts the transactions it already has. These modules model the
programs and the support libraries they are linked with, check them with TLC on
small instances, and prove the central properties with TLAPS for every value of
the constants.

Paths without a directory are files of the repository, `*.tla` files of this
directory; `ccan/` stands for `ccan/ccan/`.

## 1. Inventory

The programs are filters, each a single thread: `iblt-selection-heuristic`,
then `iblt-encode`, then `iblt-decode`; `iblt-test` is a simulator with all of
it in one process. Only `utils/add-to-txcache` writes a file. Nothing runs
concurrently but the processes of a pipe and, within one thread, a library and
the functions of its caller that it calls back. What is hard is elsewhere: long
sequences of calls on structures that keep two views of one state, results that
must not depend on the iteration order of unordered containers, data that came
from somebody else or was cut off, functions that fail half way, and machine
integers.

| Component | State | Operations | Talks to | Correct when |
|---|---|---|---|---|
| slices, ids: `txslice.*`, `txid48.h` | none (values) | `slice_tx`, `rebuild_tx`, `slices_expected`, `operator<`, `frag_base` | `bitcoin_tx` for bytes | rebuilding undoes slicing; the order of slices is the order of fragments |
| `raw_iblt`: `rawiblt.*` | counters, buckets | construct, `insert`, `write`, `read` | MurmurHash3, `slice_tx` | the table depends on the set of transactions only; it arrives unchanged or is refused |
| `iblt`, `iblt_todo`: `iblt.*` | the difference, two arrays of todo lists, two flags | construct, `next`, `remove_our_tx`, `remove_their_slice`, `remove_todo`, `empty` | `raw_iblt` (a friend) | todo lists name exactly the singleton buckets; no exception |
| recovery: `iblt-decode.cpp` | difference, pool, set of slices, transaction being assembled | `recover_block`, the loop of `main` | all of the above, `ibltpool`, line formats | terminates; succeeds exactly when the difference can be peeled |
| `tx_tree`, `ibltpool`: `txtree.h`, `ibltpool.*` | bit tree, map by id | `add`, `insert`, `get_unique_bitid`, `get_txs` | used by the heuristic, recovery, simulator | tree depends on the set only; prefixes unique; searches exact |
| heuristic: `iblt-selection-heuristic.cpp`, `tx.h` | fee walk, two lists of prefixes, selection | `estimate_fees`, encode lists, select | `ibltpool`, line formats | the selection agrees with the block on what sender and receiver share |
| encoder: `iblt-encode.cpp` | the block, its mempool, the size | size the table, fall back to the plain block, copy lines | `raw_iblt`, line formats | every peer gets an answer, an IBLT only when it is smaller than the block |
| block message: `wire_encode.*`, `wire_encode` and `wire_decode` in `iblt-test.cpp` | none | `add_bitset`, `decode_bitset`, the fields around them | varints, `raw_iblt` | decoding undoes encoding, and a message that was cut is refused |
| simulator: `iblt-test.cpp`, `mempool.*` | a mempool and a corpus position per peer | `next_block`, `forward_to_block`, `generate_block`, `decode_block`, `min_decode` | everything | mempools in step with the corpus; the selection is the block; the search finds a smallest size |
| transactions: `bitcoin_tx.*` | none | `add_tx` with its callbacks, `pull_bitcoin_tx` | SHA256, slices | every callback sees one stream; pulling undoes adding |
| line formats, cache: `io.*`, `txcache.*` | none | parse, format | files | round trip |
| `utils/add-to-txcache.c` | the file it writes | read lines, fetch, write | `ccan/rbuf` and files | an entry is the transaction, whole |
| `ccan/list` | next and prev of every node | add, del, move, append, loops | `ccan/tal`, `ccan/opt` | lists are rings that hold what was put there |
| `ccan/tal` | a tree of blocks, each with a chain of properties | alloc, free, steal, resize, destructors, notifiers, names, lengths, first/next | `ccan/list`; calls destructors, which call it | the blocks are a tree, whatever destructors do between the steps of a destruction |
| `ccan/take`, `ccan/tal/str` | the array of taken pointers | `take`, `tal_strdup`, `tal_fmt`, `tal_strcat`, ... | `ccan/tal` | a taken argument is consumed, fail what may |
| `ccan/rbuf`, `grab_file`, `read_write_all` | a buffer over a file | fill, read up to a terminator, read all, write all | the kernel | what is kept of a file is the file, and a failure is noticed |
| `ccan/hash`, `ccan/crypto/sha256` | none, a context | `hash`, `hash_stable`, `hash_any`; update, done | | the same bytes give the same hash on any machine, in any pieces |
| `ccan/opt` | the table of options | register, early and full parse, integers, usage | callbacks of the program | both passes read the line alike; a number is exact or refused |
| `ccan/endian`, `err`, `str`, other macros, `htable` | none | | | |
| experiments: `iblt-space.cpp`, `buckets-for-txs.c`, `utils/monte-carlo.c` | none | statistics | | |

The filters communicate by text lines: a block line, optionally an IBLT line,
then one mempool line per peer, the sender's first. The heuristic replaces each
receiver's mempool by its selection; the encoder drops the sender's mempool and
adds the IBLT; the decoder recovers the block once for each mempool left.

The hazards, each at its line and with the properties aimed at it, are in
`PROJECT.json`.

## 2. Modules

    Slices ─► Iblt ─► Decode ─► MCDecode
      │         └─────────────────┐
      │  List ─► Tal ─────────────┤
      │    │   Reading, TalStr,   ├─► MCObjects
      │    │   Hash, OptValues,   │
      │    │   Usage ─────────────┘
      │    └───────────────┐
      └─► RawIblt ─────────┤
          Wire, Corpus,    ├─► MCTools
          MinDecode,       │
          Encode, Tx ──────┘
    BitTree ─► TxTree, Heuristic, Selection ─┐
    Opt ─────────────────────────────────────┴─► MCGenerator
    List implements ListOrder

    CommonLemmas ─► SlicesProofs ─► DecodeProofs (of Iblt, Decode)
      │  │             └─► ToolsProofs (of RawIblt, Corpus, MinDecode, Encode, TalStr)
      │  ├─► MessageProofs (of Tx, Wire)
      │  └─► GeneratorProofs (of BitTree, TxTree, Selection, Heuristic, OptValues)
      └─► SupportProofs (of Tal, Reading, Hash), with an instance of
    ListProofs (of List)
    (arrows: is extended by; proofs extend the modules they are about)

An `MC` module gives constants their values. `MCDecode` runs one module.
`MCObjects`, `MCGenerator` and `MCTools` run several whose
programs or calls share no state: the variable `part` says which of them a
behaviour is of, the others stay in one initial state, so that the state spaces
add up and do not multiply. Where components do share state they are composed:
Decode extends Iblt and calls it step by step, Tal extends List, Encode has the
encoder and the decoder on the two ends of one pipe, Heuristic and Selection use
the trees of BitTree, Wire the bytes of an IBLT.

### The IBLT

**Slices** — the data. A `txslice` is plain old data that the code XORs byte by
byte, so a slice is the set of its 1 bits and XOR is symmetric difference; each
field is the part of the set inside the field's bits. This keeps what a bucket
with several slices really contains, garbage fields included: the false
singletons of the peeling loop come out of the arithmetic, not out of a choice.
`Sketch` says what table a set of slices has without building it. SHA-256,
MurmurHash3 and the bytes of transactions are constants.

**RawIblt** — the constructor of `raw_iblt`, one iteration of `frob_buckets` a
step, over transactions in any order; `write`; the line that arrives whole or
cut short; `read_iblt`.

**Iblt** — class `iblt` with its `iblt_todo`s, for two raw IBLTs of any content
and any sequence of calls. A step is one iteration of a loop (of the
constructor, of `frob_buckets`, of `remove_our_tx`), because any iteration may
throw and because a slice can meet the same bucket in two iterations. `todo` is
the two arrays of sets, `manually_removed` the two uninitialised flags (any
value initially), `pc = "desync"` the state after either exception of
`iblt_todo`. `cancelled` is a history variable: the buckets that `remove_todo`
took off their list.

**Decode** — `recover_block`, extending Iblt: its steps are the steps of the
object inside a call (`DiffStep`) and the turns of its own three loops. `block`
and `mempool` are inputs; `pool`, `slices`, `transaction`, `recovered` are the
locals. `rebuild_tx` is the constant `Rebuild`, assumed to give back a
transaction from its own contents; what it gives for other contents is open,
and something nobody has when it fails.

**Encode** — `main` of `iblt-encode` and of `iblt-decode` on the two ends of a
pipe, over any file of a few lines, the last of which may be cut off. The
encoder's steps are its reads and writes, the decoder's those of `main` and
`read_iblt`, with the end of the file when the encoder is gone. Which result
`recover_block` has is Decode's; the size of the table is computed as in the
code, from a table of sizes that is scaled down.

**Tx** — `add_tx` hands the fields of a transaction one by one to a callback:
into a vector, into a length, into slices, into SHA256, whose update and padding
are modelled. Then `pull_bitcoin_tx` reads what was written, or that with zeroes
after it, a first part of it, or slices of which one is another's. The number of
slices with the length of its own varint is here too.

**BitTree**, **TxTree** — the tree as a function from paths to `Node` or a
transaction. BitTree has the searches and `TreeOf`, the tree a set has by
definition; TxTree has the constructor of `ibltpool` with one step per call of
the recursive `insert`, and the depth at which the stack overflows.

**Heuristic** — the main program of the heuristic: per block the sender's line
(`ReadSender`), the rounds of `estimate_fees`, the lists, then any number of
receivers. Pools are `TreeOf(mempool)`, which `TreeIsCanonical` justifies.

### The simulator

**Selection** — the exceptions that `generate_block` lists by their prefixes in
the generator's mempool, and the candidates that `decode_block` picks by looking
them up in the receiver's, where they may match others.

**Wire** — `wire_encode` as an operator, whose results are the messages for
every order of iteration of the unordered sets; `wire_decode` with
`decode_bitset` as steps, one per number, bit or check, over a message cut
anywhere. `p` is the cursor: a place, one past the end, or `NULL`. In that
middle case `pull_bit` reads a byte that is not part of the message, and its
bits are any bits. Only what `wire_encode` wrote, whole or cut, is decoded here.

**Corpus** — `struct peer` and the functions that follow a corpus:
`forward_to_block`, `generate_block` and `next_block`, one action per kind of
entry. The file is the environment (`next_entry`), with the node's true mempool
in `real`; its format is not in the repository and is taken from what the code
expects of it. `skipped` is a history variable. Each way for the program to stop
is a value of `corpus_pc`.

**MinDecode** — the search of `min_decode`, with the results of `decode_block`
as an arbitrary function of the number of buckets.

### The support libraries

**List** — nodes and heads are cells with `next` and `prev`; each function is an
operator on the pointers, with the assignments of the code in their order, and
an action. A node that was deleted keeps its pointers. A loop is open across
steps: its body may delete the entry it was given, and in the safe form the next
entry was read before. **ListOrder** is what the library promises: each head
names a sequence.

**Tal** — every block is an address with a chain of properties (its children, a
name, a length, notifiers, destructors), every list of children a cell of List;
a freed address is used again. `del_tree` is a stack of steps, and between them
destructors run, which call `tal` in turn. The other notifiers are called before
the first change of a function or after its last, so that what they do is steps
of their own; those called in between are left out. Allocations may fail, and
resizing may move. `TalNext` has the caller's part in it: nothing is stolen into
itself, and a block that is being destroyed is not stolen or resized and keeps its
notifiers. It may be freed again: `tal_free` then takes it off its list once more
with the pointers it had, and returns. `MayFree` allows that while it disturbs
nothing; `TalAgainNext` allows it always.

**TalStr** — the heap as a value, the functions of `ccan/tal/str` and the
copying ones of `tal` as operators to their outcomes, one for each allocation
that may fail, `take()` itself included, which may also leak its argument. Two
loops go step by step: `do_vfmt` doubles its buffer, and `tal_strreg` copies one
subexpression after another, with the copy of the very beginning using up a
string that was taken.

**Reading** — `rbuf`, `grab_fd` and `write_all` against a kernel that gives less
than was asked, nothing, `EINTR` or an error; `add-to-txcache` on top of them,
which takes an error for the end of its input.

**Hash** — which bytes of a key each of the functions adds to which register
between two mixes, for both byte orders and each alignment. Mixing is a function
of that and is left out.

**Opt**, **OptValues**, **Usage** — the table, the early pass and the full pass
with the offset into a bundle of letters; setting and showing an integer with a
suffix; the lines of an entry of the help and the buffer they are added to.

Definitions with a suffix after the name of another (`Xor_Or`,
`Fixup_NoWrap`, ...) are wrong versions of it, each commented as the bug it
stands for. They are used by nothing: substituted for the original they show
that a property can be violated.

## 3. What TLC checks

| Run | States | Shows |
|---|---|---|
| `objects` | 1 015 119 | the IBLT: todo lists exact in every intermediate state (`TodoExact`), no exception (`NoDesync`), `next` returns a best singleton (`NextIsBest`); blocks stay a tree under destructors that call back (`TalIsTree`), which first and next walk completely (`TraversalSeesAll`); files are kept whole up to a failure (`CacheIsFile`); taken arguments are consumed (`TakenIsConsumed`); hashes agree between machines (`SameOnAllMachines`); numbers are exact or refused (`RefusedOrExact`), and defaults shown can be set (`ShownCanBeSet`); descriptions are shown whole (`DescriptionIsShown`) |
| `decode` | 197 327 | conservation through false singletons (`Conservation`); nothing garbled when one side has all the other has (`OneSidedIsGenuine`); success exactly when the difference can be peeled in some order (`SucceedsIffPeelable`); all missing slices and no more are enough (`GenuineIsEnough`); `recover_block` returns (`Terminates`) |
| `generator` | 569 007 | tree canonical (`TreeIsCanonical`), prefixes unique and minimal and searches exact (`PrefixesFind`), the pool gets built when no two ids clash (`PoolOfTreeIsBuilt`); the hint has the fewest exceptions (`HintIsBestOfFees`), which are listed once each (`ListedAsEstimated`), and sender and receiver agree on what they share (`SharedAgree`); in the simulator the receiver selects, of what is shared, the block and all below the minimum fee (`SelectionIsBlock`); the two passes read a command line alike (`BothPassesRead`) |
| `tools` | 427 116 | the table depends on the set only and arrives whole or is refused (`SketchArrives`); so does the message (`WholeOrNothing`), and decoding it ends (`MessageEnds`); mempools in step with the corpus (`Synced`), no stop without a reason (`StopsWithReason`); a size reported is a local minimum (`LocalMinimum`); over the pipe every peer gets one result (`PeersAnswered`); a transaction is one stream to all callbacks (`StreamsAgree`) and is pulled as it was added or refused (`PulledIsAdded`); lists are rings of what was put there (`ListsAreRings`), loops see each entry once (`LoopSeesAll`), and lists implement sequences (`ListIsOrder`) |
| `decode_wrap`, `heuristic_rate`, `corpus_orphan`, `cache_truncated`, `min_fee`, `collision`, `tal_free_again`, `fmt_empty` | violated | the eight findings below |

### Bounds, and why they are enough

* Widths are cut down so that wrapping is reached at once: `U16 = 4` (offsets
  and `fragid`s wrap), `S16 = 2` in `objects` and `tools` (two more hits and a
  counter overflows), `S16 = 8` in `decode`, where twelve hits of one bucket
  overflow it. `SOON = 1` leaves todo indices on both sides of the switch from
  one list per offset to one per power of two.
* `objects`, the IBLT: two tables of two buckets, three counter values and two slices in
  theirs, equal or different size; two hash behaviours that place slices in one,
  two or three distinct buckets. All sequences of calls, without a bound on
  their number: the state space is finite because counters and XORs are.
* `decode`: every block and every mempool out of three transactions, one of
  them two slices, with every assignment of four placements to the four slices:
  three buckets, overlapping ones, and one bucket three times. A slice that is
  nobody's hashes to somewhere else again. A fourth transaction has the id of
  the first, so that keys of slices clash. `manually_removed` is `FALSE`, the
  value that can make `del` throw (`objects` and the proofs cover both).
* `generator`: all subsets of six or five transactions with ids of three bits
  which share prefixes of every length; for the tree two of the ids clash. Fees
  of zero, a tie, lengths transactions have, rates below, at and above the
  minimum. For the command line, tables of two options and lines of up to
  `MaxLine` arguments.
* `tools`: for the sketch, three transactions of which two share an id and a
  slice, and every cut of the line. For the message, bytes of two bits and strings
  of up to three, so that a string is shorter than a byte, fills one or goes over
  its end; sets of at most `MaxStrings` of five, every order and every cut. For
  the corpus, four transactions, one not in the cache, every mempool to start
  from, every corpus over the block before, two blocks and the coinbase after; a
  transaction is in one block at most, so the number of entries is bounded. For
  the search, every function on ten sizes, not only monotone ones. For the pipe,
  every file of at most `MaxLines` lines. For the transaction, lists of none to
  two inputs and outputs, scripts of none to three bytes, slices of three bytes and
  blocks of four, so that fields end before, at and after every edge. For the lists,
  two heads and three nodes.
* `objects`, the rest: three blocks and three lists of children, with at most `MaxDecor`
  names and lengths and `MaxNotifiers` notifiers at a time: enough for a
  grandchild to be freed, stolen or resized by a destructor of its parent. Regexes of
  up to `MaxGroups` subexpressions. Files
  of up to `MaxFile` bytes and buffers of none, one and three; keys of up to
  `MaxKey` bytes, which is two blocks and every length of the last; a long long of
  fourteen bits and an int of six with bases 3 and 4, whose sixth powers fit as
  those of 1000 and 1024 do; descriptions of up to `MaxDesc` characters in a width of three.

`CHECK_DEADLOCK FALSE` is in `MCObjects.cfg` and `MCObjectsAgain.cfg`, because two
tables of different sizes make the constructor of `iblt` throw, and then there is no
object, and because the other behaviours are calls that return or fail; and in
`Reading.cfg` and `TalStr.cfg` for this last reason.

### Fairness

Weak fairness is assumed of the program's own steps together, no more: one
thread runs, and it takes a step while it has one. So `decode` (`FairMCSpec`),
the part `TreePart` of `generator` and `MessagePart` of `tools`. `FmtSpec` is
fair to those steps of `tal_fmt` whose allocation succeeds: the finding is not
that memory runs out.

### Findings

1. *A transaction whose `fragid`s wrap is never recovered* (`decode_wrap`).
   `slice_tx` truncates `i + frag_base` to a `u16` (`txslice.cpp:76`). The set
   of slices is sorted by the truncated number and each is compared with
   `fragid + 1` as an `int` (`iblt-decode.cpp:113`, `:129`). With n slices this
   happens for n - 1 of 65536 values of `frag_base`. The same loop is in
   `iblt-test.cpp` and `iblt-space.cpp`. The run `decode` has a `frag_base` from
   which nothing wraps and `GenuineIsEnough` holds there.
2. *The fee per byte is the fee* (`heuristic_rate`). `fee << 13 / length` shifts
   by `13 / length` (`tx.h:18`).
3. *A coinbase is read past* (`corpus_orphan`). `generate_block` ends its loop
   with the entry after the block in hand, `next_block` begins by reading
   another. When the generator's mempool is empty after a block, the entry lost
   is a coinbase or a new transaction, and an assertion fails later that the
   source takes for a sign of an orphan. `Synced` and `StopsWithReason` show
   that nothing else goes wrong: an entry `MEMPOOL_ONLY` may be lost.
4. *A failed read is taken for the end* (`cache_truncated`). `add-to-txcache`
   leaves its loop at any `NULL` of `rbuf_read_str` (`utils/add-to-txcache.c:24`)
   and returns 0, also when a read or `realloc` failed: the cache lacks
   transactions and nothing says so. What it does have is right, by
   `CacheIsFile`. In the same call `get_more` keeps the result of `read` in a
   `size_t` (`ccan/rbuf/rbuf.c:63`), so that an error is not `<= 0` and takes one
   byte off `rbuf->len`; nothing in the repository reads on after that.
5. *The minimum fee is not looked at* (`min_fee`). The candidates of `decode_block`
   begin with all of the mempool, where the comment above the loop and README.md
   speak of those that exceed the minimum fee (`iblt-test.cpp:208`). A transaction
   below it that both have stays selected though nobody asked for it;
   `SelectionIsBlock` says exactly that, and that the prefixes do the rest.
6. *A collision is not tried again* (`collision`). Two transactions with one
   txid48 make `tx_tree::insert` call itself without end (`txtree.h:62`), where
   README.md speaks of another seed. `PoolOfTreeIsBuilt` has the case without.
7. *Freeing twice takes off the list twice* (`tal_free_again`). `tal_free` of a
   block that is being destroyed returns from `del_tree` at once, but before that
   it does `list_del` again (`ccan/tal/tal.c:469`), with the neighbours the block
   had: if those have others by now, blocks are lost from their list. While
   the neighbours are still each other's, or the block is alone, it does no harm, and
   `TalIsTree` holds.
8. *An empty format never ends* (`fmt_empty`). `do_vfmt` doubles a buffer of
   zero bytes (`ccan/tal/str/str.c:57`).

Limits that the source knows of or that are plain to see, and that no run is
spent on: `estimate_fees` tries no threshold above the highest fee;
`hash64_stable_64`, `_32` and `_16` leave out the last block of an array that is a
whole number of blocks (`ccan/hash/hash.c:577`; `Cases` has it, and nothing in the
repository calls them); `tal_strreg` leaves the strings it has stored when a later
one fails, and reads on in a string that it has resized, when the string was
taken and its first subexpression starts with it (`ccan/tal/str/str.c:291`, the
FIXME at `:295`).

## 4. What is proved

Eight modules hold proofs, checked by `tlapm` for all values of the constants:
any number of buckets and bits, any width of `u16` up to 30 bits and of `s16`,
any hash function, transactions, fees, corpora, lists, blocks, files, buffers
and keys.

| Theorem | Module | States |
|---|---|---|
| `TypeCorrect` | DecodeProofs | `IbltSpec => []IbltTypeOK` |
| `TodoInSync` | DecodeProofs | `IbltSpec => []TodoExact` |
| `FlagsExcuseOnlyCancelled` | DecodeProofs | `IbltSpec => []CancelledIsFlagged` |
| `NeverDesync` | DecodeProofs | `IbltSpec => []NoDesync` |
| `NextReturnsBest` | DecodeProofs | `IbltSpec => []NextIsBest` |
| `DecodeTypeCorrect` | DecodeProofs | `DecodeSpec => []DecodeTypeOK` |
| `DecodeNeverDesync` | DecodeProofs | `DecodeSpec => []NoDesync` |
| `PeelingConserves` | DecodeProofs | `DecodeSpec => []Conservation` |
| `OneSidedAlwaysGenuine` | DecodeProofs | `DecodeSpec => [](Roomy => OneSidedIsGenuine)` |
| `GenuineAlwaysEnough` | DecodeProofs | `DecodeSpec => [](Unwrapped => GenuineIsEnough)` |
| `AlwaysSucceedsIffPeelable` | DecodeProofs | `DecodeSpec => [](Roomy /\ Unwrapped => SucceedsIffPeelable)` |
| `SketchIsSent` | ToolsProofs | `RawSpec => []SketchArrives` |
| `BracketHolds` | ToolsProofs | `MinDecodeSpec => [](MinDecodeTypeOK /\ Bracket)` |
| `ReportsLocalMinimum` | ToolsProofs | `MinDecodeSpec => []LocalMinimum` |
| `ReportsThreshold` | ToolsProofs | `MinDecodeSpec => []FindsThreshold` |
| `PeersStaySynced` | ToolsProofs | `CorpusSpec => []Synced` |
| `CorpusStopsWithReason` | ToolsProofs | `CorpusSpec => []StopsWithReason` |
| `PeersAlwaysAnswered` | ToolsProofs | `EncodeSpec => [](EncodeTypeOK /\ PeersAnswered)` |
| `TreeAlwaysCanonical` | GeneratorProofs | `TreeSpec => []TreeIsCanonical` |
| `PrefixesAlwaysFind` | GeneratorProofs | `TreeSpec => []PrefixesFind` |
| `TreeTypes` | GeneratorProofs | `TreeSpec => []TreeTypeOK` |
| `SelectionAlwaysIsBlock` | GeneratorProofs | `SelectionSpec => []SelectionIsBlock` |
| `HintIsBest` | GeneratorProofs | `HeuristicSpec => []HintIsBestOfFees` |
| `AlwaysListedAsEstimated` | GeneratorProofs | `HeuristicSpec => []ListedAsEstimated` |
| `SharedAlwaysAgree` | GeneratorProofs | `HeuristicSpec => []SharedAgree` |
| `SelectionTypes` | GeneratorProofs | `SelectionSpec => []SelectionTypeOK` |
| `HeuristicTypes` | GeneratorProofs | `HeuristicSpec => []HeuristicTypeOK` |
| `ListsAlwaysRings` | ListProofs | `ListSpec => []ListsAreRings` |
| `ListImplementsOrder` | ListProofs | `ListSpec => ListIsOrder` |
| `LoopsSeeAll` | ListProofs | `ListSpec => []LoopSeesAll` |
| `BlocksAlwaysTree` | SupportProofs | `TalSpec => []TalIsTree` |
| `TraversalsSeeAll` | SupportProofs | `TalSpec => []TraversalSeesAll` |
| `CacheAlwaysIsFile` | SupportProofs | `ReadSpec => []CacheIsFile` |
| `StreamsAlwaysAgree` | MessageProofs | `TxSpec => []StreamsAgree` |
| `PulledAlwaysAdded` | MessageProofs | `TxSpec => []PulledIsAdded` |
| `AlwaysWholeOrNothing` | MessageProofs | `WireSpec => [](WireTypeOK /\ WholeOrNothing)` |
| `TakenAlwaysConsumed` | ToolsProofs | `StrSpec => []TakenIsConsumed` |
| `AlwaysSameOnAllMachines` | SupportProofs | `HashSpec => []SameOnAllMachines` |
| `AlwaysRefusedOrExact` | GeneratorProofs | `ValuesSpec => []RefusedOrExact` |
| `ShownCanAlwaysBeSet` | GeneratorProofs | `ValuesSpec => ShownCanBeSet` |

**The IBLT.** `NoDesync` alone is not inductive: whether `del`
finds its entry depends on where `add` put it, possibly long ago. `IbltInv`
joins the type invariant, `TodoExact`, `CancelledIsFlagged`, `NoDesync` and
`ControlOK`. `TodoExact` carries the argument. It determines the lists from the
counters, the slices, how far the constructor has come (`fixed`) and
`cancelled`, so that an iteration of `frob_buckets` can be followed in two
halves: the entry taken out is the only one there was, by `TodoExact` before
the step, and the entry put in is the one the new counter and slice ask for,
which gives `TodoExact` after it. The case of a bucket met for the second time
needs nothing of its own, because the invariant holds between iterations.
`CancelledIsFlagged` settles the one exception, an entry that `remove_todo`
took: del then reads a flag that was set by `remove_todo`, never its
uninitialised value. `ControlOK` ties `pc` to the other control variables
(sizes equal after the constructor's check, work left while in a loop).
`NextIsBest` follows from the invariant and the definition of the lists.

**Recovery uses the class.** Decode is written with Iblt's actions, so each of its
steps is a step of class Iblt or leaves its variables alone (`DecodeStepsAreIblt`, a
lemma); what has to be shown is that it starts in one of Iblt's states, because a
`Sketch` is a raw IBLT (`SketchType`, which needs the set of transactions to be
finite). The theorems of Iblt therefore hold in recovery.

**Sketches.** SlicesProofs has the algebra: a *hit* is an item under one of its
three hash seeds, and a table is determined by the sets of hits inserted and
removed (`HitSketch`). One call of `frob_bucket` is one hit more on one side
(`FrobInserts`, `FrobRemoves`), or, as a counter is a number modulo 2^16 and a bit
a number modulo 2, one less on the other (`FrobCancels`); XORing two tables
joins their sets (`DifferenceIsSketch`). So what a loop over slices and seeds
leaves is the table of a set, and `SketchArrives` needs only that the hits still
to come (`ToCome`) become the empty set, whatever order they come in.

**Conservation.** The invariant `Conserved` says which hits the table has inside
a call as well: while the constructor XORs and fixes up (`Subtracting`), and while
`frob_buckets` runs for a transaction or a slice (`Cancelling`), where the hits to
come are the difference between the table at hand and the one the loop will have.
It does not matter what is peeled: a false singleton is inserted on the other
side like anything else.

**Recovery.** With transactions missing on one side only, `BehindHolds` and
`AheadHolds` turn `Conserved` into: the table is that of what is still missing
(`Rest`), or of what is still too much, and of nothing else. Where a counter cannot
come back to where it was, a counter of 1 or -1 is then one hit, and the bucket
holds the slice that hit it (`NextIsAlone`). So `next` gives only what is genuine
(`OneSidedInv`), and when it gives nothing, what is left is a set of items
which no bucket holds one hit of: a witness that peeling was impossible in any
order (`StuckForGood`). What was peeled before never stands in
the way: a set that can be peeled has, for each item already peeled, the bucket
which gave that item away (`PeeledMissing`, `PeeledExtra`, which carry the history
of the peeling in the invariant). `AssembleInv` follows the loop over the sorted
slices: the least id left is under way (`Partway`), its next slice comes first
(`TakesNext`), and the last ends a transaction. `RecoverInv` is the conjunction.

Two conditions are in the statements.
`Roomy`: the items of one side only hit no bucket `2 * S16 - 1` times or more,
so that its counter is not the wrapped one of another number; in the code this is
65535 hits of one bucket. `Unwrapped`: no transaction of the block has `fragid`s
that start again from 0, which is the first finding; the run `decode_wrap` shows
that `GenuineIsEnough` needs it. In the run `decode` both hold in every state.

**The search.** `LocalMinimum` is about the end of `min_decode`; what every
round keeps is `Bracket`: the upper end of the interval is the size last decoded,
below `max_possible`, and the size under the lower end failed. `HalfInside`, that
half of a sum lies below the larger part, keeps the interval in order. The early
exit at `max_possible - 1` then comes with no result or with an empty interval.

**The corpus.** `Synced` speaks of the beginnings of blocks. `CorpusInv` adds
what holds in between: what the file may still say of the block at hand
(`FileOK`), what `mp` lacks while `forward_to_block` waits for a block
(`Forwarding`), and what it still has while `generate_block` collects one
(`Generating`). `EntryOK` and `EntrySays`, about every entry the environment may
write, are shared by the proofs of the actions, one for each kind of entry.

**The tree.** GeneratorProofs begins with `TreeOf`: a transaction whose id nobody
shares has a leaf on its path (`HasLeaf`, by the shortest prefix that is not
shared: a set of numbers has a least one, `Least`), so its prefix is its own
(`UniqueBitId`) and searches are exact (`GetTxsFinds`). Then it shows that
`insert` arrives at that tree. While it goes down, the tree is neither that of
the transactions before it nor that with it: `Growing(tree, S, l, d)` says that it
is the tree of `S` in which the first `d` bits of `l` have been made nodes. Each
way through `insert` keeps it: the slot is empty and with the leaf in it the tree
is that of `S \cup {l}` (`PutLeaf`); a leaf in the way moves down one bit
(`PushDown`); a node is entered (`GoDown`). That nobody has all bits of `l`
bounds the depth: the stack overflows only when ids clash.

**The selection.** `SelectionInv` says for each of the loops which prefixes are
listed and which candidates were dropped or put back. A prefix that is unique in
the generator's mempool selects, of what both have, the transaction it was made
for and no other (`PrefixFinds`): whatever else it matches at the receiver is not
among the transactions the property is about.

**The heuristic.** `estimate_fees` walks two vectors sorted by fee and keeps a
running count. `EstimateInv` says what it counts: the vectors' entries before
`bi` and `mi` are those below the fee at hand, so the count is that of
`Exceptions(fee)` by sums over two disjoint sets of entries; and `best_fee` has as
few as any fee the walk has passed. `ListsInv` then says which prefixes are listed
at each turn of `encode`, each the image of one exception under an injective
function (`PrefixesOf`), which gives the number of them, and what they select
of the transactions both have.

**The pipe.** `PeersAnswered` is about the end, when the pipe is empty. `PipeInv` says
for every state how far the decoder has come in all that was ever written: each line
the encoder writes is due to one mempool of its input (`Places`, `At`), so what is
written is known from what was read, and a number `c` says where the decoder is in it.
What is in the pipe are the places after `c` (`Queued`), what is printed are the
peers up to it (`Printed`), and what the decoder remembers of the block and its IBLT is
what the encoder announced with the first of its mempools (`AtIblt`, `AtPeers`).
`Listed(s, K, f)` and `Leads` relate a sequence to a set of numbers taken in order, so that
a line more or less is an element more or less. The sums over transactions in the
sizes are folds; that they are natural numbers is shown by way of a sequence of their
partial sums (`SumsExist`).

**Lists.** `Rings` says that each list is one ring: that next and prev are
inverse on its cells and that no proper part of it is closed under next, which
needs no induction to state or to use. Each function keeps it (`AfterRings`,
`DelRings`, `SwapRings`, `JoinRings`); a loop's saved entry stays on its list
(`LoopInside`).

That lists implement sequences needs to know which sequence a list is. The
refinement mapping reads it by a walk (`Walk`), a recursive function; its proof
avoids induction over the walk. `Threads(f, h, s)` says that following `f` from `h`
gives exactly the entries of `s`, by a statement of each index. `Ordered(l, o, w)`
says that for each head `w[h]` is such a sequence of the nodes on it, and each
function keeps it, with `w` changed the way `ListOrder` changes its sequences
(`AfterOrdered`, `BeforeOrdered`, `DelOrdered`, `SwapOrdered`, `AppendOrdered`).
Only then does `WalkIs` say that the walk of such a ring is `w[h]`, by the least
index at which they could differ. The invariant `WalksOrdered` puts the two
together, and `ListRefines` is the simulation, one case for each call. For loops,
`LoopStands` says where a loop is: what it has given and what is left make up the
entries it began with, in the pointers' order; a loop that goes backwards is one
over the reversed sequence (`ReverseThreads`).

**Blocks.** `TalIsTree` has to survive destructors that call back, so `TalInv`
holds between any two steps of `del_tree`. Its part `Forest` is about the blocks
alone: their lists are rings (the lemmas of ListProofs, in an instance with the
children's lists for heads), each chain has one property of a kind at most, and a
list of children and the block that has it name each other. That no block is its own
ancestor is `Grounded`: a set of blocks whose parents are all in it is empty, which
needs no walk upwards. `Calls` says that the blocks taken off their lists and
not yet freed are those that a call of `del_tree` has in hand, each one once. An
operation is one or two of five changes of a forest: a block joins a list (`LinkForest`, after
`GroupForest` when the list has to be made), leaves it (`UnlinkForest`), gets
another chain (`ChainForest`), moves (`MoveForest`) or is freed (`FreeForest`).
Stealing needs that the new parent is not under the block that is stolen;
freeing again what is being destroyed changes nothing under `MayFree` (`FreeOK`).
`UnderIs` says what `Under`, a recursive function, computes: the least set with the
block that is closed under children. Then that all blocks are under
`null_parent` or under one that is being destroyed follows from `Grounded`, for those
that are not would be each other's parents (`AllUnder`).

**Walks over trees.** `TraversalSeesAll` looks at a heap in which nothing is being
destroyed, and `TalInv` makes that a forest (`AtRest`). `tal_next` climbs from a
block without children until a parent has a next sibling; how often, a minimum over
a recursive function says, and `Climbs` says the same one index at a time (`ClimbsTo`,
`TalNextIs`). What the walk gives last of a subtree, `OnEnd`, is followed by the next
sibling of its root (`AfterEnd`). So a set of blocks with the first child that
`tal_next` leads nowhere out of has all of the blocks below (`Covers`): where it had
not, take a block with the fewest below it. Such a set is what the walk gives before
it ends, or what it goes round in if it does not; `FollowsAll` counts: as many
steps as there are blocks give each one once, and then nothing.

**Files.** `CacheIsFile` speaks of the flattened strings, and `FlattenSeq` is a
recursive function. What it computes is characterised without recursion:
`Flattens(f, s, S)` says that `f[k]` is the concatenation of the first `k` of `s`,
one index at a time; such an `f` exists (`FlattenExists`, because a set of naturals
with 0 and all successors is all of them, `Inductive`, from `LeastNumber`) and
`FlattenSeq` is its last value (`FlattenIs`, by the least index at which they could
differ). `FlattenAppend` and `FlattenCons` follow; all this is in CommonLemmas. `ReadInv` then says what a buffer
holds between two reads: the bytes lie inside it (`Placed`), the part already
searched has no terminator (`Searched`), strings and bytes together are what was
read (`FileKept`), and entries keep up with lines (`Entered`). After a failure a byte
held may be gone, and what stays is that the strings are the file's beginning (`Begun`,
from `FileKept` by `BeginningOf`).

**Bytes of transactions.** `StreamInv` says for each callback what it has made of
the data so far, with what it needs of its own state to go on: that the slices
have room for what is still to come (`Sliced`, at the start by `SlicesEnough`, which
has to look at how long the number of slices itself is), that the place in the
block is the count of bytes modulo `BlockLen`, and that the count is what the
padding needs to be told (`Hashed`). `CopyToIs` says what memcpy leaves, `Consumes` what a
step takes of the data, and `PaddingIs` that the number of zeroes `sha256_done`
computes is the only one that makes whole blocks.

**Pulling a transaction.** The reader knows neither which transaction it reads nor where
a field ends, and only some fields look whether there was any data. `PullInv` says that,
as long as the data is the stream as far as both go (`Agrees`), it is either on track or
astray. `OnTrack(f, m)`: `Places` says with `f` where each field's bytes end, the cursor is at the
end of field `m - 1`, `pulled` holds the fields up to there, and `field` and `rounds`
are those of field `m` (`FieldAt`). `Astray`: it ran out of data, the data is shorter than the
stream, and it has not finished. That is inductive because an array whose length is
missing has length 0 and the last field throws without data. A step on track rests on what the bytes of a field are:
the digits of a number are those it is put together from (`NumberIs`), a varint's first byte
tells the width that `add_varint` chose (`VarintTailIs`), and the fields lie one behind the other,
five for an input and three for an output (`LayoutIs`).

**The message.** What a set was sent as is an `Encoding`: the set of strings for each
length, the order they are written in, and the bits that makes of them. `Sending(E)` says
where in the message each unit of it lies as far as the message arrived
(`SendingExists`). `WireInv` then follows the decoder: `Base` holds whatever loop runs (too
little data has been met only if units are missing), and each loop has a part of its own:
`InFields`, `InMin`, `InNums`, `InBits` and `InPad`. Among the bits, the cursor is at bit
`Before(e, q) + Len(v)`, counting the strings read before and the bits of the one at hand
(`Cursor`); what was read is what was sent as long as nothing was read beyond the end
(`Clean`); and `j` is the number of strings of that length already read. That the next
string has the length the decoder expects is a matter of cardinalities: the strings of a
length not read yet are a finite set with as many elements as are announced
(`StillToRead`). `OneBit` is one call of `pull_bit`, and `NextPlace` is what adding 1 does to
a quotient and a remainder.

**Taken arguments.** Every heap that occurs in a call is one of a family:
`HeapOf(K, T, n, X)` has the caller's blocks `K` that are kept, those that `take()`
could not mark among them, and `T` that wait on the take list, `n` failed take()s,
and the blocks `X` of the call. `GiveIs` says which of them `take()` makes of an
argument, the lemmas about `taken`, `tal_free` and the allocations how they move
within the family, and the functions are followed with two facts about the arguments
not yet consumed: one is pending (`Pending1`), or two (`Pending2`). What each function
leaves has nothing pending (`Settled`), whichever allocation failed. In the loop of
`tal_strreg` both arguments are pending until a copy uses up the string; `StrInv` says
which strings are stored by then, that each is a block of its own or the string
itself (`RegHeap`), and that whoever ends the loop leaves nothing else (`RegSettled`).

**Hashes.** `SameOnAllMachines` looks at a hash that is computed; `HashInv` is about
one that is under way. What is done is a whole number of blocks (`num - length`),
each mixed as often as `MixesOf` says, and what is added are the elements of those
blocks, each where it belongs. From the number of blocks follows that an element's
place in its block is its place in the key (`AddsIs`), and `ByteShiftIs` says
that a wide load leaves a byte where byte loads put it, for the widths
`LoadBytes` allows; `AddedByMore` adds a block to those before it.

**Values of options.** What `ValuesInv` adds to `RefusedOrExact` is what is shown between two
calls: a number that fits its type, as the text `Shown` makes of it. The guard of the
multiplication compares with quotients, which C rounds towards zero: it passes exactly the
numbers whose product fits (`BelowQuotient`, `Narrow` for the conversions that
follow). What `show` divides off as a suffix is multiplied back, because it takes only
suffixes that leave no remainder.

**Assumptions.** The named ASSUMEs of the modules: fields do not overlap,
`FragNum` and `FragPattern` are inverse, hashes are natural numbers, the files of
the pipe are sequences of lines and `txcache/` has finitely many transactions, a
transaction has between 1 and `U16 - 1` slices and announces how many, the set
of transactions is finite, `rebuild_tx` recovers a transaction from its own
slices, `operator<` on ids is that of distinct numbers; ids have at least one bit,
and `MaxDepth` calls of `insert` fit on the stack, at least one for each bit; fees
are numbers and lengths positive ones; heads are not nodes,
and there are finitely many of both, and of the addresses that blocks may have; the fields of a transaction are numbers and
byte strings, and the numbers of its slices fit in 16 bits, as `slice_tx` asserts; a message's
strings are no longer than `MaxLen` and its sizes are within `MaxSize`.
`FitsAssumption` says that a number of a transaction fits the type it has in `bitcoin_tx.h`,
a txid has its 32 bytes, and an array is one there was memory for.
`PowersAssumption`, `ValuePowersAssumption` and `TxPowersAssumption` say that powers of two
up to 2^30 are monotone and that a power is the base times the one before: arithmetic
the provers do not have, nothing about the program, evaluated by TLC.

**Only model-checked.** `BothPassesRead`, that the two passes over argv read what
the caller gave; and `DescriptionIsShown`, whose words and columns are
computed by recursive functions. The conjunctions `TypesOK` of the MC modules are
not stated as one theorem; their parts are, with the components'.
Liveness under fairness stays with TLC: the prover has no rule for it.

## 5. Not modelled

* The characters of lines (hex, numbers, labels), what a printed number of bytes
  is, and the text of errors.
* Messages that `wire_encode` did not write, and an IBLT of no buckets, for which
  `select_buckets` divides by zero: the encoder's table has no such size.
* Corpora with an orphaned block, for which the repository does not say what
  they contain.
* The rounds of SHA-256, MurmurHash3, and the mixing of lookup3: any functions.
* `raw_iblt::remove`, which nothing calls. `try_iblt` in `iblt-space.cpp` and
  `decode_block` repeat the loops of `recover_block` without its comparison.
* Random experiments: `iblt-space.cpp`, `buckets-for-txs.c`,
  `utils/monte-carlo.c`. `utils/create-txcache.sh` asks a bitcoin node.
* Of `ccan/tal`: `tal_cleanup`, the checks of pointers against the range of
  addresses seen, `tal_dump`, overflow of sizes in `adjust_size`, and the talloc
  back end, which is not compiled. Of `ccan/tal/str`: what strings contain, and the
  parsing of `tal_strsplit` and `tal_strreg`.
* Of `ccan/opt`: options that are floats, and how wide the help is.
* `rbuf_fill` and `rbuf_fill_all`, which nothing calls.
* Notifiers that are called in the middle of a change of the tree of blocks.
* `ccan/htable` and the functions of `ccan/ilog`, which are not linked (the macro
  `ilog32` is); `ccan/endian`, `short_types` and the macros that check types, which
  have no state.
