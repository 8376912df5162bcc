SPECIFICATION FairSpec
CONSTANTS
  t1 = t1
  t2 = t2
  NoTx = NoTx
  Chunks = 3
  AddressChunks = 1
  Transmissions <- const_Transmissions
  Blocks <- const_Blocks
  Ours <- const_Ours
INVARIANTS TypeOK CallerIsReceived TextIsWhole OnlyOursIsPlayed
PROPERTIES LateEntry
CHECK_DEADLOCK FALSE
