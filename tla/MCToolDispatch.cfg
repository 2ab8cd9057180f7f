SPECIFICATION Spec
CONSTANTS
  c1 = c1
  c2 = c2
  c3 = c3
  read = read
  invalid = invalid
  page = page
  None = None
  Calls <- MCCalls
  Signatures <- MCSignatures
  NavSignatures <- MCNavSignatures
  InvalidSignatures <- MCInvalidSignatures
  MaxToolCalls = 2
  MaxNavigationCalls = 1
  Deadline = 1
INVARIANTS
  ReadingsMetered
  QuietBetweenBatches
  CachedAnswersAgree
PROPERTIES
  CellIsMetered
SYMMETRY CallSymmetry
