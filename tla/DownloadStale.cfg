SPECIFICATION DownloadSpec
CONSTANTS
  Files = {f1}
  PartCount = 2
  Fetchers = {z1, z2}
  WorkRoom = 1
  MaxDownloads = 3
  NoFile = nofile
INVARIANTS
  SuccessIsWhole
CHECK_DEADLOCK FALSE
