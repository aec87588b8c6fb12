CONSTANTS
  Name = {"song", ""}
  NoName = ""
  Files = {"song"}
  SongList = {"song"}
  CliNames = {}
  NoBlock = 0
  NameLength = 1
  HistoryLength = 1
  DataLength = 1
  DiskFaults = FALSE
  Block <- MCBlock
  Content <- MCContent
SPECIFICATION FairSpec
PROPERTIES
  StopIsHonoured
  QueueMoves
  AudioInOrder
