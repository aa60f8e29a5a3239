CONSTANTS
  RecvPackets <- MCPackets
  NoPacket = NoPacket
  ReinitializeErrors = 2
  ResetDeviceErrors = 3
  MaxFaults = 3
  MaxCalls = 1
SPECIFICATION FairSpec
INVARIANTS
  RingAccounted
  InterruptAlive
  ReplayQuiescent
PROPERTIES
  Settles
CHECK_DEADLOCK FALSE
