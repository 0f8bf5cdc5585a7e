SPECIFICATION ToolsSpec
CONSTANTS
  IdBits <- MCIdBits
  FragBits <- MCFragBits
  ContentBits <- MCContentBits
  FragNum <- MCFragNum
  FragPattern <- MCFragPattern
  FragBase <- MCFragBase
  U16 = 4
  S16 = 2
  Tx <- MCTx
  TxId48 <- MCTxId48
  TxContents <- MCTxContents
  Expected <- MCExpected
  HashFns <- MCHashFns
  MurmurHash3 <- MCMurmurHash3
  Sizes = {1, 2, 3}
  CountBytes = 2
  BucketBytes = 3
  MaxLen = 3
  ByteBits = 2
  Bitsets <- MCBitsets
  Seeds = {5}
  Fees = {6}
  Coinbase = "coinbase"
  WireSizes = {1}
  MaxSize = 2
  WireBucketBytes = 2
  CorpusTx <- MCCorpusTx
  Cache <- MCCache
  First = 2
  End = 4
  Roles = {"generator", "receiver"}
  max_possible = 10
  Inputs <- MCInputs
  TxIds <- MCTxIds
  Known <- MCKnown
  TxLength <- MCTxLength
  IBLT_SIZE = 64
  FixedBuckets = {0, 4}
  Txs <- MCTxs
  ByteValues = 4
  W32 = 1
  W64 = 2
  TxidLen = 2
  SliceLen = 3
  BlockLen = 4
  SizeLen = 2
  Zeroes = {0, 2}
  MaxNew = 3
  ListHeads = {a, b}
  ListNodes = {x, y, z}
  NoHead = NoHead
INVARIANTS
  AssertMeansOrphan
