SPECIFICATION Spec
CONSTANTS
  a = a
  b = b
  c = c
  Default = Default
  Erased = Erased
  Garbage = Garbage
  Values <- const_Values
  FirstWord <- const_FirstWord
  WordBits = 2
  NBlocks = 4
  Capacity = 5
  Limit = 4
  MaxSaves = 6
  Cuts <- const_CutAny
INVARIANTS TypeOK IntactSavedIsRead NothingStale
PROPERTIES SwitchesAtTheFlag
CHECK_DEADLOCK FALSE
