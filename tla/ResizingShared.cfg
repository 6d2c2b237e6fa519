CONSTANTS
  h1 = h1 h2 = h2
  d1 = d1 d2 = d2
  None = None
  Checker = Checker
  NumShards = 2
  First = 2
  Handlers = {h1, h2}
  Databases = {d1}
  Adds = {1, 2}
  InitialGB = 2
  InitialCU = 1
  MaxVolumeSizeGB = 5
  MaxTotalStorageGB = 4
  MaxTotalCU = 2
  Increment = 50
  Faulty = {"volumes", "shards", "settings", "crash"}
  MaxFaults = 1
  MaxRequests = 3
SPECIFICATION Spec
SYMMETRY Symmetry
INVARIANT WithinVolumeLimit
INVARIANT NeverMoreThanAsked
PROPERTY OtherFieldKept
PROPERTY SettingsAreTheUsers
CHECK_DEADLOCK FALSE
