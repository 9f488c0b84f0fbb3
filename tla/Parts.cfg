SPECIFICATION PartsSpec
CONSTANTS
  Tasks = {t1, t2, t3, t4}
  Patient = {t3, t4}
  Limits = {1, 2}
  Capacities = {1, 2}
  MaxStops = 1
  Waiters = {w1, w2}
  MaxChan = 4
  Updaters = {u1, u2}
  Savers = {s1, s2}
  Closers = {c1}
  Alarm = alarm
  Helper = helper
  NoOne = noone
  MaxBreaks = 1
  Pieces = {m1, m2, m3}
  Groups = {g1, g2, g3}
  BoxLimit = 2
  PieceLimit = 2
  MaxEnds = 1
  m1 = m1
  m2 = m2
  m3 = m3
  g1 = g1
  g2 = g2
  g3 = g3
  Transfers = {x1, x2}
  MediaFirst = {x1}
  Edits = {e1}
  x1 = x1
  x2 = x2
  u2 = u2
  e1 = e1
  NoTransfer = notransfer
  Conns = 2
  MaxSenders = 3
  MaxCloses = 1
INVARIANTS
  PartsTypeOK
  PoolSafe
  GateSafe
  OneCollector
  CacheIsBounded
PROPERTIES
  QuietWhileClosed
  MovesOn
  WaitersReleased
  CacheKeepsWord
  PieceLeaves
  SendersSettle
CHECK_DEADLOCK FALSE
