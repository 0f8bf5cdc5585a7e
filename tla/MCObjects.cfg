SPECIFICATION ObjectsSpec
CONSTANTS
  IdBits <- MCIdBits
  FragBits <- MCFragBits
  ContentBits <- MCContentBits
  FragNum <- MCFragNum
  FragPattern <- MCFragPattern
  FragBase <- MCFragBase
  U16 = 4
  S16 = 2
  Tx <- MCTx
  TxId48 <- MCTxId48
  TxContents <- MCTxContents
  Expected <- MCExpected
  HashFns <- MCHashFns
  MurmurHash3 <- MCMurmurHash3
  SOON = 1
  FragWidth = 2
  TalAddrs <- MCTalAddrs
  TalGroups <- MCTalGroups
  NullGroup <- MCNullGroup
  MaxDecor = 1
  MaxNotifiers = 1
  TERM = TERM
  Other = Other
  MaxFile = 4
  BufSizes = {0, 1, 3}
  GoodSize = 2
  Blocks = {3, 4, 5, 6}
  MaxFmt = 2
  MaxText = 5
  MaxGroups = 3
  MaxKey = 26
  LongBits = 14
  IntBits = 6
  Bases = {3, 4}
  SeenNumbers <- MCNumbers
  MaxDesc = 7
  DescWidth = 3
  NameLens = {2, 5}
  Indents = {4}
INVARIANTS
  IbltTypeOK
  TodoExact
  NoDesync
  NextIsBest
  TalIsTree
  TraversalSeesAll
  CacheIsFile
  TakenIsConsumed
  SameOnAllMachines
  RefusedOrExact
  DescriptionIsShown
PROPERTIES
  ShownCanBeSet
CHECK_DEADLOCK FALSE
