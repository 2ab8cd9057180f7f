SPECIFICATION Spec
CONSTANTS
  c1 = c1
  c2 = c2
  opening = opening
  process = process
  Calls = {c1, c2}
  Hives = Hives
  Scans = Scans
  Kinds = {Hives, Scans}
  Runtime = Runtime
  Run = Run
  None = None
  Publishers = {Run, opening, process}
INVARIANTS
  ReadersSeeWholeOutputs
  PublishedIsComplete
  CloseIsAccountedFor
SYMMETRY OutputsSymmetry
CHECK_DEADLOCK FALSE
