SPECIFICATION OutboxSpec
CONSTANTS
  Requests = {r1, r2}
  Nobody = nobody
  Attempts = 3
  Skews = {0, 1, 6}
  Window = 2
  MaxEvents = 2
INVARIANTS
  RefusedForCause
CHECK_DEADLOCK FALSE
