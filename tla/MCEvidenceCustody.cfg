SPECIFICATION Spec
CONSTANTS
  c1 = c1
  c2 = c2
  None = None
  Consoles = {c1}
  VerifyEveryOpen = {}
  N = 2
  B = 2
  MaxChanges = 2
INVARIANTS
  IdentityNamesContent
  OpenedAsAttested
  AcceptedAsAttested
PROPERTIES
  MatchesMeanUnchanged
CHECK_DEADLOCK FALSE
