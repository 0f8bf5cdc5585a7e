SPECIFICATION FairMCSpec
CONSTANTS
  IdBits <- MCIdBits
  FragBits <- MCFragBits
  ContentBits <- MCContentBits
  FragNum <- MCFragNum
  FragPattern <- MCFragPattern
  FragBase <- MCFragBase
  U16 = 4
  S16 = 8
  Tx <- MCTx
  TxId48 <- MCTxId48
  TxContents <- MCTxContents
  Expected <- MCExpected
  HashFns <- MCHashFns
  MurmurHash3 <- MCMurmurHash3
  SOON = 1
  FragWidth = 2
  Sizes <- MCSizes
  IdNum <- MCIdNum
  Rebuild <- MCRebuild
INVARIANTS
  Conservation
  OneSidedIsGenuine
  SucceedsIffPeelable
  GenuineIsEnough
PROPERTIES
  Terminates
