SPECIFICATION Spec
CONSTANTS
  c1 = c1
  c2 = c2
  i1 = i1
  mine = mine
  None = None
  Consoles <- MCConsoles
  Ids = {i1}
  Identity <- SameModel
  Older <- MCOlder
  MaxTurns = 2
  OldRevision = 2
  MaxSaves = 2
INVARIANTS
  TypeOK
  RevisionNamesContent
PROPERTIES
  StoreIsARegister
  TurnsAreKept
SYMMETRY ConsoleSymmetry
CHECK_DEADLOCK FALSE
