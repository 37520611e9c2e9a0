CONSTANTS
  Parts = {"volume"}
  f1 = f1
  f2 = f2
  top = top
  sub = sub
  Cards = {c}
  NoCard = none
  Files = {f1, f2}
  Folders = {top, sub}
  FolderOf <- Where
  Contents = {1, 2}
  Batch = 1
  StampsFolders = TRUE
  WritesFail = TRUE
  MaxChanges = 1
  MaxMounts = 2
  MaxAsks = 1
  MaxStarts = 5
  MaxDamages = 2
  DiskFails = TRUE
  Peers = {p}
  OwnVolume = {}
  Levels = {"low"}
  Safe <- SafeLevels
  Full = 3
  AvrcpFull = 4
  Room = 1
  MaxActs = 6
  Controls = {"Power", "Next"}
  DarkModes = {"Locked"}
  Boards = {"none", "search"}
  WakeFails = FALSE
  Long = 1
  Ring = 1
  MaxTime = 3
  MaxPresses = 2
  MaxLosses = 1
  MaxSleeps = 1
  MaxTurns = 1
CHECK_DEADLOCK FALSE
SPECIFICATION Spec
INVARIANT
  LoudOnlyIfAgreed
