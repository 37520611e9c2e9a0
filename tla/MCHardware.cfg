CONSTANTS
  Parts = {"scan", "quarantine", "volume", "buttons"}
  f1 = f1
  f2 = f2
  top = top
  sub = sub
  Cards = {c}
  NoCard = none
  Files = {f1, f2}
  Folders = {top, sub}
  FolderOf <- Where
  Contents = {1, 2}
  Batch = 1
  StampsFolders = TRUE
  WritesFail = TRUE
  MaxChanges = 1
  MaxMounts = 2
  MaxAsks = 1
  MaxStarts = 5
  MaxDamages = 2
  DiskFails = TRUE
  Peers = {p, q}
  OwnVolume = {p}
  Levels = {"low", "high"}
  Safe <- SafeLevels
  Full = 3
  AvrcpFull = 4
  Room = 1
  MaxActs = 4
  Controls = {"Power", "Next"}
  DarkModes = {"Locked"}
  Boards = {"none", "search"}
  WakeFails = FALSE
  Long = 1
  Ring = 1
  MaxTime = 3
  MaxPresses = 2
  MaxLosses = 1
  MaxSleeps = 1
  MaxTurns = 1
CHECK_DEADLOCK FALSE
SPECIFICATION Spec
INVARIANTS
  DatabasesAreSafe
  OneMeaning
  NothingSticks
PROPERTIES
  LibraryIsTrue
  SleepIsQuiet
  VolumeIsAgreed
