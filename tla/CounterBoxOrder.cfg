SPECIFICATION MCSpec
CONSTANTS
  N = 3
  Cnt <- MCCntPlain
  End <- MCEndPlain
  Reader = reader
  Slots = {s1}
  NoSlot = none
  Messages = {}
  Edits = {}
  MaxPerKey = 1
  MaxPending = 2
  MaxFaults = 0
  MaxStops = 0
PROPERTIES
  AppliedInOrder
CHECK_DEADLOCK FALSE
