SPECIFICATION Spec
CONSTANTS
  vfo = vfo
  settings = settings
  spare = spare
  v1 = v1
  v2 = v2
  NoValue = NoValue
  NPages = 2
  PageCells = 7
  MaxCells = 2
  Keys <- const_Keys
  Values <- const_Values
  DataCells <- const_DataCells
  MaxEntries = 2
  MaxWrites = 5
  MayFail <- const_MayFail
SYMMETRY const_Symmetry
INVARIANTS TypeOK PagesHold 
 

CHECK_DEADLOCK FALSE
