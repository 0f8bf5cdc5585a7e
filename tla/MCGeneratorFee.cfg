SPECIFICATION GeneratorSpec
CONSTANTS
  Tx <- MCTx
  IdBitLen = 3
  IdBits <- MCIdBits
  MaxDepth = 6
  Fee <- MCFee
  Length <- MCLength
  Rate <- MCRate
  min_fee_per_byte = 2
  OptEntries <- MCOptEntries
  Tokens <- MCTokens
  MaxTable = 2
  MaxLine = 3
INVARIANTS
  CandidatesPayTheFee
