SPECIFICATION Spec
CONSTANTS
  Calls = {c1, c2}
  Signatures = {extract, reread, lookup}
  DeniedSigs = {}
  InvalidSigs = {lookup}
  ProducingSigs = {extract}
  ReadingSigs = {reread}
  DerivingSigs = {extract, reread}
  ReferenceSigs = {lookup}
  WriteFaults = {"torn", "lost"}
  MaxWriteFaults = 1
  c1 = c1
  c2 = c2
  extract = extract
  reread = reread
  lookup = lookup
  None = None
SYMMETRY CallSymmetry
INVARIANTS
  OneTrueEntry
  GuardedAnswersShowNoTrace
  AdmittedRestsOnTheLog
  ServedFromARecordedCall
  ChainVerifies
PROPERTIES
  TraceOnlyGrows
  StableFailuresAreNotRetried
