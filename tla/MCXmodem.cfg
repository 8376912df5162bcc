SPECIFICATION FairSpec
CONSTANTS
  Small = 2
  Large = 4
  BlockNums = 3
  Sector = 8
  FlashSize = 16
  Sizes <- const_Sizes
  MaxDamaged = 3
  MaxLost = 2
  MaxRepeated = 3
INVARIANTS TypeOK
PROPERTIES Transfers TransferEnds
CHECK_DEADLOCK FALSE
