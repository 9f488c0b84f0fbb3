SPECIFICATION MtprotoSpec
CONSTANTS
  None = None
  Callers = {c1, c2}
  Reconnectors = {r1}
  Switchers = {w1}
  Stoppers = {s1, s2}
  Autos = {a1, a2}
  Terminators = {s1}
  Impatient = {c2, r1}
  KeyPresent = FALSE
  MaxAttempts = 2
  TimeoutLimit = 1
  MaxGen = 4
  MaxFaults = 1
  Casts = {{c1, c2, a1}, {c1, w1, a1, a2}, {c1, s1, a1}, {c1, s2, a1}, {r1, s1, a1}, {r1, s2, a1}, {c1, r1, a1}}
  Requests = {q1, q2}
  Nobody = nobody
  Attempts = 3
  Skews = {0, 1, 6}
  Window = 2
  MaxEvents = 2
  Perms = {p1, p2}
  Temps = {k1, k2}
  NoKey = nokey
  p1 = p1
  MaxImports = 2
INVARIANTS
  MtprotoTypeOK
  OneReader
  SomebodyCares
  DisconnectSticks
  StrandedOnlyByFailure
  SentForCause
  RefusedForCauseOrStuck
  KeysBelong
CHECK_DEADLOCK FALSE
