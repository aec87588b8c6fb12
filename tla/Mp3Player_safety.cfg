CONSTANTS
  Name = {"song", ""}
  NoName = ""
  Files = {"song"}
  SongList = {"song"}
  CliNames = {""}
  NoBlock = 0
  NameLength = 2
  HistoryLength = 1
  DataLength = 1
  DiskFaults = TRUE
  Block <- MCBlock
  Content <- MCContent
SPECIFICATION Spec
INVARIANTS
  TypeOK
  PausedMeansSuspended
  StreamingMeansPlaying
  BreakMeansPlaying
