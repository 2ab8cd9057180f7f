SPECIFICATION Spec
CONSTANTS
  w1 = w1
  w2 = w2
  w3 = w3
  Workers = {w1, w2, w3}
  Size = 5
  Reach = 4
  MaxResults = 2
  MaxViews = 5
  None = None
INVARIANTS
  DocumentsSkipNothing
  PagesAreServedOnce
  WithheldIsReachable
SYMMETRY PagesSymmetry
CHECK_DEADLOCK FALSE
