------------------------------- MODULE Corpus -------------------------------
(***************************************************************************)
(* The corpus simulator (iblt-test.cpp): each peer has a file of entries   *)
(* that say what a real node's mempool did, and the simulator follows it   *)
(* with struct peer: forward_to_block up to the first block, then for each *)
(* block generate_block, for the peer whose block it is, and next_block.   *)
(*                                                                         *)
(* The file is the environment, as far as the code that reads it tells:    *)
(* after a coinbase come the other transactions of the block, KNOWN or     *)
(* UNKNOWN to the node; then everything that stayed in its mempool,        *)
(* MEMPOOL_ONLY; then what it hears of, INCOMING_TX, up to the next        *)
(* coinbase.  It has no orphaned block, and it goes on past the last block.*)
(***************************************************************************)
EXTENDS Integers, FiniteSets

CONSTANTS
  CorpusTx,          \* ids of the transactions in the corpus
  Cache,       \* those of them in the directory txcache
  First, End,  \* blocks First .. End - 1 are simulated
  Roles        \* "generator", peer 0, and "receiver"

VARIABLES
  role,                      \* what the peer does with a block: never changes
  real, listed, mined, top,  \* the file: the mempool of the node, how much of
                             \* it was listed since the last block, what was in
                             \* blocks, and the number of the last block
  content,                   \* the file: block contents may still follow
  e,                         \* peer::e
  mp, unknown,               \* peer::mp and peer::unknown
  prev_block,                \* local of forward_to_block
  blocknum, block,           \* locals of main and generate_block
  corpus_pc,
  skipped                    \* history: generate_block read past an entry that
                             \* says more than what is in the mempool already

file == <<real, listed, mined, top, content, e>>
cvars == <<role, file, mp, unknown, prev_block, blocknum, block, corpus_pc, skipped>>

Types == {"COINBASE", "KNOWN", "UNKNOWN", "MEMPOOL_ONLY", "INCOMING_TX"}

ASSUME CorpusAssumption ==
  /\ Cache \subseteq CorpusTx
  /\ First \in Nat \ {0}
  /\ End \in Nat /\ End > First
  /\ Roles \subseteq {"generator", "receiver"}

Stopped == {"abort", "not an orphan", "no coinbase", "errx", "crash"}

-----------------------------------------------------------------------------
(***************************************************************************)
(* peer::next_entry.                                                       *)
(***************************************************************************)
ReadCoinbase ==
  /\ listed = real
  /\ top' = top + 1
  /\ e' = [type |-> "COINBASE", blocknum |-> top']
  /\ listed' = {}
  /\ content' = TRUE
  /\ UNCHANGED <<real, mined>>

ReadBlockTx(t) ==
  /\ content
  /\ t \notin mined
  /\ e' = [type |-> IF t \in real THEN "KNOWN" ELSE "UNKNOWN", txid |-> t]
  /\ real' = real \ {t}
  /\ mined' = mined \cup {t}
  /\ UNCHANGED <<listed, top, content>>

ReadMempoolOnly(t) ==
  /\ t \in real \ listed
  /\ e' = [type |-> "MEMPOOL_ONLY", txid |-> t]
  /\ listed' = listed \cup {t}
  /\ content' = FALSE
  /\ UNCHANGED <<real, mined, top>>

ReadIncoming(t) ==
  /\ listed = real
  /\ t \notin real \cup mined
  /\ e' = [type |-> "INCOMING_TX", txid |-> t]
  /\ real' = real \cup {t}
  /\ listed' = real'
  /\ content' = FALSE
  /\ UNCHANGED <<mined, top>>

next_entry ==
  \/ ReadCoinbase
  \/ \E t \in CorpusTx : ReadBlockTx(t) \/ ReadMempoolOnly(t) \/ ReadIncoming(t)

-----------------------------------------------------------------------------
\* open: the first entry is the coinbase of an earlier block.
CorpusInit ==
  /\ role \in Roles
  /\ real \in SUBSET CorpusTx
  /\ listed = {} /\ mined = {} /\ content = TRUE
  /\ top \in {First - 2, First - 1} \cap Nat
  /\ e = [type |-> "COINBASE", blocknum |-> top]
  /\ mp = {} /\ unknown = {}
  /\ prev_block = FALSE
  /\ blocknum = First
  /\ block = {}
  /\ corpus_pc = "forward"
  /\ skipped = FALSE

\* Mutant: a transaction that the cache does not have is forgotten.
Hear_Forgets(t) ==
  /\ mp' = mp \cup ({t} \cap Cache)
  /\ UNCHANGED unknown

\* Mutant: a transaction that the cache does not have is added all the same.
Hear_AddsAll(t) ==
  /\ mp' = mp \cup {t}
  /\ UNCHANGED unknown

\* "Add this to the mempool; ignore a few unknowns."
Hear(t) ==
  /\ mp' = mp \cup ({t} \cap Cache)
  /\ unknown' = unknown \cup ({t} \ Cache)

\* forward_to_block meets a coinbase: the last one is where main begins.
ForwardCoinbase ==
  /\ corpus_pc = "forward"
  /\ e.type = "COINBASE"
  /\ IF e.blocknum = blocknum
     THEN /\ corpus_pc' = IF prev_block THEN "main" ELSE "abort"
          /\ UNCHANGED <<file, prev_block>>
     ELSE IF prev_block
     THEN corpus_pc' = "abort" /\ UNCHANGED <<file, prev_block>>
     ELSE /\ prev_block' = (e.blocknum = blocknum - 1)
          /\ next_entry
          /\ UNCHANGED corpus_pc
  /\ UNCHANGED <<role, mp, unknown, blocknum, block, skipped>>

\* Mutant: what comes in after the block before the first is not heard of.
ForwardTx_ListedOnly ==
  /\ corpus_pc = "forward"
  /\ e.type \in Types \ {"COINBASE"}
  /\ IF prev_block /\ e.type = "MEMPOOL_ONLY"
     THEN Hear(e.txid) ELSE UNCHANGED <<mp, unknown>>
  /\ next_entry
  /\ UNCHANGED <<role, prev_block, blocknum, block, corpus_pc, skipped>>

\* It meets a transaction: only those after the block before the first count.
ForwardTx ==
  /\ corpus_pc = "forward"
  /\ e.type \in Types \ {"COINBASE"}
  /\ IF prev_block /\ e.type \in {"INCOMING_TX", "MEMPOOL_ONLY"}
     THEN Hear(e.txid) ELSE UNCHANGED <<mp, unknown>>
  /\ next_entry
  /\ UNCHANGED <<role, prev_block, blocknum, block, corpus_pc, skipped>>

-----------------------------------------------------------------------------
\* main's loop: peer 0 generates the block, for which get_tx has to find the
\* coinbase in the cache; for the others decode_block only reads the mempool.
BeginBlock ==
  /\ corpus_pc = "main"
  /\ block' = {}
  /\ \/ /\ role = "generator"
        /\ \E cached \in BOOLEAN :
             corpus_pc' = IF e.type # "COINBASE" THEN "errx"
                          ELSE IF cached THEN "generate" ELSE "no coinbase"
        /\ UNCHANGED blocknum
     \/ /\ role = "receiver"
        /\ corpus_pc' = "next"
        /\ blocknum' = blocknum + 1
  /\ UNCHANGED <<role, file, mp, unknown, prev_block, skipped>>

\* A transaction of the block.  One that the node did not know is fetched from
\* the cache, where it has to be; one that it knew is taken from the mempool, and
\* used whether find found it or not.
GenerateTx ==
  /\ corpus_pc = "generate"
  /\ next_entry
  /\ \/ /\ e'.type = "UNKNOWN"
        /\ IF e'.txid \in mp THEN corpus_pc' = "abort" /\ UNCHANGED <<mp, block>>
           ELSE IF e'.txid \notin Cache THEN corpus_pc' = "errx" /\ UNCHANGED <<mp, block>>
           ELSE /\ mp' = mp \cup {e'.txid}
                /\ block' = block \cup {e'.txid}
                /\ UNCHANGED corpus_pc
     \/ /\ e'.type = "KNOWN"
        /\ UNCHANGED mp
        /\ IF e'.txid \notin mp THEN corpus_pc' = "crash" /\ UNCHANGED block
           ELSE block' = block \cup {e'.txid} /\ UNCHANGED corpus_pc
  /\ UNCHANGED <<role, unknown, prev_block, blocknum, skipped>>

\* The entry after the block ends the loop, and has been read.
GenerateEnd ==
  /\ corpus_pc = "generate"
  /\ next_entry
  /\ e'.type \notin {"UNKNOWN", "KNOWN"}
  /\ mp' = mp \ block
  /\ corpus_pc' = "next"
  /\ blocknum' = blocknum + 1
  /\ skipped' = (skipped \/ e'.type # "MEMPOOL_ONLY")
  /\ UNCHANGED <<role, unknown, prev_block, block>>

-----------------------------------------------------------------------------
\* next_block goes on to the entry after the one at hand, whatever that was.
NextCoinbase ==
  /\ corpus_pc = "next"
  /\ next_entry
  /\ e'.type = "COINBASE"
  /\ corpus_pc' = IF e'.blocknum # blocknum THEN "not an orphan"
           ELSE IF blocknum = End THEN "done" ELSE "main"
  /\ UNCHANGED <<role, mp, unknown, prev_block, blocknum, block, skipped>>

NextIncoming ==
  /\ corpus_pc = "next"
  /\ next_entry
  /\ e'.type = "INCOMING_TX"
  /\ Hear(e'.txid)
  /\ UNCHANGED <<role, prev_block, blocknum, block, corpus_pc, skipped>>

\* It was in the block: out of the mempool, or of the unknown ones.
NextKnown ==
  /\ corpus_pc = "next"
  /\ next_entry
  /\ e'.type = "KNOWN"
  /\ mp' = mp \ {e'.txid}
  /\ unknown' = IF e'.txid \in mp THEN unknown ELSE unknown \ {e'.txid}
  /\ corpus_pc' = IF e'.txid \in mp \cup unknown THEN corpus_pc ELSE "errx"
  /\ UNCHANGED <<role, prev_block, blocknum, block, skipped>>

\* Mutant: what stays in the mempool is taken out of it.
NextMempoolOnly_Removes ==
  /\ corpus_pc = "next"
  /\ next_entry
  /\ e'.type = "MEMPOOL_ONLY"
  /\ mp' = mp \ {e'.txid}
  /\ corpus_pc' = IF e'.txid \in mp \cup unknown THEN corpus_pc ELSE "abort"
  /\ UNCHANGED <<role, unknown, prev_block, blocknum, block, skipped>>

\* Two entries that only assertions look at.
NextMempoolOnly ==
  /\ corpus_pc = "next"
  /\ next_entry
  /\ e'.type = "MEMPOOL_ONLY"
  /\ corpus_pc' = IF e'.txid \in mp \cup unknown THEN corpus_pc ELSE "abort"
  /\ UNCHANGED <<role, mp, unknown, prev_block, blocknum, block, skipped>>

NextUnknown ==
  /\ corpus_pc = "next"
  /\ next_entry
  /\ e'.type = "UNKNOWN"
  /\ corpus_pc' = IF e'.txid \in mp THEN "abort" ELSE corpus_pc
  /\ UNCHANGED <<role, mp, unknown, prev_block, blocknum, block, skipped>>

Exited == corpus_pc \in Stopped \cup {"done"} /\ UNCHANGED cvars

CorpusNext ==
  \/ ForwardCoinbase \/ ForwardTx
  \/ BeginBlock \/ GenerateTx \/ GenerateEnd
  \/ NextCoinbase \/ NextIncoming \/ NextKnown \/ NextMempoolOnly \/ NextUnknown
  \/ Exited

CorpusSpec == CorpusInit /\ [][CorpusNext]_cvars

-----------------------------------------------------------------------------
CorpusTypeOK ==
  /\ role \in Roles
  /\ real \in SUBSET CorpusTx /\ listed \in SUBSET real /\ mined \in SUBSET CorpusTx
  /\ top \in Nat /\ content \in BOOLEAN
  /\ e \in [type : {"COINBASE"}, blocknum : {top}]
             \cup [type : Types \ {"COINBASE"}, txid : CorpusTx]
  /\ mp \in SUBSET Cache /\ unknown \in SUBSET (CorpusTx \ Cache)
  /\ prev_block \in BOOLEAN
  /\ blocknum \in First .. End
  /\ block \in SUBSET Cache
  /\ corpus_pc \in Stopped \cup {"forward", "main", "generate", "next", "done"}
  /\ skipped \in BOOLEAN

\* Where main starts on a block the peer has the node's mempool: what the cache
\* has of it in mp and the rest in unknown ("We sync the mempool at the block
\* before", "Sync up mempool based on next block").  It holds of a generator as
\* long as the entry that generate_block reads past adds nothing.
Synced ==
  corpus_pc \in {"main", "done"} /\ ~skipped =>
    mp = real \cap Cache /\ unknown = real \ Cache

\* No assertion, errx or NULL pointer stops the program at a regular corpus, apart
\* from what generate_block reads past and what its block needs of the cache.
StopsWithReason ==
  corpus_pc \in Stopped =>
    \/ skipped
    \/ corpus_pc = "no coinbase"
    \/ role = "generator" /\ e.type \in {"KNOWN", "UNKNOWN"} /\ e.txid \notin Cache

\* "If this fails, we hit an orphan!" (iblt-test.cpp:356): the corpus has none.
AssertMeansOrphan == corpus_pc # "not an orphan"
=============================================================================
