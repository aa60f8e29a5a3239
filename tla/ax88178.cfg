CONSTANTS
  Threads = {}
  Registers = {1}
  NoRequest = NoRequest
  Addresses = {a1}
  NoAddress = NoAddress
  Devkit = FALSE
  Filters <- MCFilters
  Eeproms <- MCEeproms
  PatchCount = 2
  LastPhyRegister = 2
  PhyReadyRetryLimit = 1
  MaxEvents = 2
SPECIFICATION FairSpec
INVARIANTS
  RequestsOwned
  InitNeverStalls
  PageRestored
PROPERTIES
  Settles
CHECK_DEADLOCK FALSE
