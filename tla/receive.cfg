CONSTANTS
  Families = {"AX88178", "RTL8153", "AX88179", "AX179A", "AX279"}
  Lengths = {0, 17, 46}
  MaxPackets = 2
  DamagedLengths = {3, 72, 128}
  Trailers <- MCTrailers
  StaleTrailer <- MCStale
  BufferSize = 128
  Requests = 2
  StaleStreak = 2
  EscalationStreak = 3
  MaxCalls = 2
SPECIFICATION FairSpec
INVARIANTS
  FramesApart
  ReadsInTransfer
  DrainJustified
PROPERTIES
  IntactDelivered
  ParseEnds
  StallEnds
CHECK_DEADLOCK FALSE
