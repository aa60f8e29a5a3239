CONSTANTS
  Threads = {}
  Registers = {2, 17}
  NoRequest = NoRequest
  Generations <- MCBoth
  Addresses = {a1}
  NoAddress = NoAddress
  Filters = {broadcast}
  Speeds = {"100"}
  PhyReadyMaximumRetries = 1
  MaximumLinkResetRetries = 1
  ReinitializeErrors = 2
  ResetDeviceErrors = 3
  MaxFaults = 1
  MaxCalls = 1
SPECIFICATION FairSpec
INVARIANTS
  PhyFlagsOwnRequest
  ReplayQuiescent
  InitNeverStalls
PROPERTIES
  Settles
CHECK_DEADLOCK FALSE
