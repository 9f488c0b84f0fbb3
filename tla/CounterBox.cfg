SPECIFICATION MCSpec
CONSTANTS
  N = 3
  Cnt <- MCCnt
  End <- MCEnd
  Reader = reader
  Slots = {s1}
  NoSlot = none
  Messages = {1}
  Edits = {}
  MaxPerKey = 2
  MaxPending = 3
  MaxFaults = 1
  MaxStops = 1
INVARIANTS
  TypeOK
  BoxSafe
PROPERTIES
  IsFeed
  GapCloses
  PaysDebts
CHECK_DEADLOCK FALSE
