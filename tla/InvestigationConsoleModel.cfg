SPECIFICATION ConsoleSpec
CONSTANTS
  o1 = o1
  m1 = m1
  m2 = m2
  Absent = Absent
  Configured = m1
  Questions = {1, 2}
  Operations = {o1}
  Selectable = {m2}
  MaxDeferred = 1
PROPERTIES
  TurnsKeepTheirModel
CHECK_DEADLOCK FALSE
