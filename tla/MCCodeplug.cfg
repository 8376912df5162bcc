SPECIFICATION Spec
CONSTANTS
  Names = {a, b}
  MaxContacts = 2
  MaxChannels = 2
  MaxBanks = 2
  MaxEntries = 3
  MaxLength = 8
SYMMETRY Symmetry
INVARIANTS LaidOut
PROPERTIES ActsAsTables
