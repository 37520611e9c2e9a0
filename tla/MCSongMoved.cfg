CONSTANTS
  Parts = {"playlists"}
  Peers = {p}
  SpeakerOn = TRUE
  Window = 2
  Wait = 2
  Channel = 2
  MaxChanges = 5
  Ssids = {"office"}
  Saved0 <- OneSaved
  Restarts = 1
  MaxWishes = 2
  StatusRoom = 1
  CommandRoom = 2
  OnBattery = TRUE
  OffInTheDark = FALSE
  MaxAsks = 5
  Operations = {"Export"}
  MaxSources = 2
  MaxGeneration = 7
  Accounts = {a, b}
  NoAccount = nobody
  QueueMax = 2
  Batch = 2
  MaxPlays = 3
  MaxSignIns = 2
  MaxCrashes = 1
  WritesFail = TRUE
  LogToo = TRUE
  Tries = 6
  Hops = 3
  PipeRoom = 1
  MaxStreams = 2
  Files = {"fav", "a", "b", "mix"}
  Folder = {"fav", "a", "b"}
  Favorites = "fav"
  Songs = {"y"}
  CardRefuses = TRUE
  Content0 <- TwiceX
  MaxEvents = 3
CHECK_DEADLOCK FALSE
SPECIFICATION LinksSpec
INVARIANT
  EditsHitTheChosen
