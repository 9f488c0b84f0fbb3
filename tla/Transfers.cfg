SPECIFICATION MediaSpec
CONSTANTS
  None = None
  Callers = {c1}
  Reconnectors = {}
  Switchers = {}
  Stoppers = {}
  Autos = {a1}
  Terminators = {}
  Impatient = {}
  KeyPresent = FALSE
  MaxAttempts = 2
  TimeoutLimit = 2
  MaxGen = 5
  MaxFaults = 2
  UploadCount = 4
  Uploaders = {y1, y2}
  UploadRoom = 1
  UploadTries = 2
  Files = {f1}
  PartCount = 2
  Fetchers = {z1, z2}
  WorkRoom = 1
  MaxDownloads = 2
  NoFile = nofile
  Lengths = {1, 2, 4, 8}
  FetchTries = 3
  MaxLeft = 10
  Getters = {d1, d2}
  Dcs = {dc1, dc2}
  NoDc = nodc
  GetTries = 2
  MaxMoves = 1
  MaxPools = 4
  Askers = {b1, b2, b3}
  AskerLimit = 3
  MaxWindow = 3
  MaxAsks = 4
INVARIANTS
  MediaTypeOK
  BitsHaveData
  TransfersWhole
  SharedIsKept
PROPERTIES
  LostIsNoticed
  RequestEnds
  TransfersEnd
CHECK_DEADLOCK FALSE
