SPECIFICATION Spec
CONSTANTS
  r1 = r1
  r2 = r2
  s1 = s1
  None = None
  Calls = {r1, r2, s1}
  Streamed = {s1}
PROPERTIES
  ToolsKeepThePromise
CHECK_DEADLOCK FALSE
