CONSTANTS
  Chipset = "AX88178"
  TransmitMaxPacketSize = 512
  XmitBufferSize = 1200
  MaximumAggregateSize = 1196
  NULL = NULL
  Users = {title, debug}
  DebugUsers = {debug}
  LowLatencyUsers = {debug}
  Lengths = {60, 508}
  Frames = {f1, f2, f3, f4}
  XMIT_PACKET_COUNT = 3
  XMIT_TRACKER_COUNT = 3
  MaximumFramesPerXmit = 3
  MaximumDebugFramesPerXmit = 3
  MaximumPendingXmitCount = 2
  MaximumTitlePendingXmitCount = 1
  DebugImmediateFrameSize = 256
  EnableDispatchLevelDirectXmit = TRUE
  XmitSubmitThreshold = 1024
SPECIFICATION Spec
SYMMETRY FrameSymmetry
INVARIANTS
  ScheduledOnce
  PendingBounded
  NoStrandedTracker
  WalkMatchesBuffer
  UsersKeptApart
PROPERTIES
  EachFrameSentOnce
CHECK_DEADLOCK FALSE
