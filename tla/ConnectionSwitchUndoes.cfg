SPECIFICATION Spec
CONSTANTS
  None = None
  Callers = {}
  Reconnectors = {}
  Switchers = {w1}
  Stoppers = {s1}
  Autos = {a1, a2}
  Terminators = {}
  Impatient = {}
  KeyPresent = TRUE
  MaxAttempts = 2
  TimeoutLimit = 2
  MaxGen = 4
  MaxFaults = 1
INVARIANTS
  DisconnectSticks
CHECK_DEADLOCK FALSE
