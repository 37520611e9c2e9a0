CONSTANTS
  Parts = {"books"}
  Tracks = {1, 2, 3}
  AlbumOf <- TwoAlbums
  Sources <- OneSource
  MaxQueue = 4
  Unplayable = {3}
  UpcomingLen = 2
  MaxAhead = 1
  MaxEdits = 4
  MaxId = 5
  Songs = {x, y}
  NoSong = none
  Entries = {1, 2}
  Length = 10
  Restart = 2
  Slack = 1
  Jump = 4
  MaxFrames = 14
  Books = {"long", "short"}
  PartsOf <- LongAndShort
  PartLength = 2
  Rewinds = {1}
  Song = song
  NoBook = nobook
  MarksCurrent = TRUE
  MaxMoves = 5
  MaxRenames = 1
  Keys = {2, 3, 4}
  Own = {4}
  Lists = {"Popular", "Country"}
  Content <- Directory
  Starred0 = {2}
  SavesFail = TRUE
  MaxTurns = 4
  MaxRequests = 2
  MaxRestarts = 1
SYMMETRY Symmetry
CHECK_DEADLOCK FALSE
SPECIFICATION Spec
INVARIANT
  MarkHolds
