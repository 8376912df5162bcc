SPECIFICATION Spec
CONSTANTS
  a = a
  b = b
  c = c
  Default = Default
  Erased = Erased
  Garbage = Garbage
  Values <- const_Values
  FirstWord <- const_FirstWord
  WordBits = 2
  NBlocks = 4
  Capacity = 5
  Limit = 4
  MaxSaves = 4
  Cuts <- const_CutSave
INVARIANTS LastSavedIsRead
CHECK_DEADLOCK FALSE
