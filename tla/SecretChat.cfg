SPECIFICATION MCSpec
CONSTANTS
  o1 = o1
  u1 = u1
  u2 = u2
  v1 = v1
  h1 = h1
  h2 = h2
  a1 = a1
  a2 = a2
  Origin = o1
  OriginUsers = {u1, u2}
  PartnerUsers = {v1}
  OriginHandler = h1
  PartnerHandler = h2
  Acceptors = {a1, a2}
  MaxSay = 2
  MaxFaults = 1
  MaxReplays = 1
  None = None
CHECK_DEADLOCK FALSE
INVARIANTS
  TypeOK
  OneSender
PROPERTIES
  IsLine
  Arrives
