CONSTANTS
  Chipset = "AX179A"
  TransmitMaxPacketSize = 512
  XmitBufferSize = 1024
  MaximumAggregateSize = 1020
  NULL = NULL
  Users = {title, debug}
  DebugUsers = {debug}
  LowLatencyUsers = {title, debug}
  Lengths = {60, 504}
  Frames = {f1, f2, f3}
  XMIT_PACKET_COUNT = 2
  XMIT_TRACKER_COUNT = 3
  MaximumFramesPerXmit = 3
  MaximumDebugFramesPerXmit = 3
  MaximumPendingXmitCount = 2
  MaximumTitlePendingXmitCount = 1
  DebugImmediateFrameSize = 256
  EnableDispatchLevelDirectXmit = TRUE
  XmitSubmitThreshold = 1024
SPECIFICATION FairSpec
INVARIANTS
  AppendFits
PROPERTIES
  Drains
CHECK_DEADLOCK FALSE
