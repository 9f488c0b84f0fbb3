SPECIFICATION Spec
CONSTANTS
  None = None
  Callers = {c1, c2}
  Reconnectors = {}
  Switchers = {}
  Stoppers = {}
  Autos = {a1}
  Terminators = {}
  Impatient = {c1}
  KeyPresent = TRUE
  MaxAttempts = 2
  TimeoutLimit = 2
  MaxGen = 4
  MaxFaults = 0
INVARIANTS
  NoOrphanRequest
CHECK_DEADLOCK FALSE
