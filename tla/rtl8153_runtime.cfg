CONSTANTS
  Threads = {t1}
  Registers = {0, 1}
  NoRequest = NoRequest
  Addresses = {a1, a2}
  NoAddress = NoAddress
  Filters <- MCFilters
  LinkStates = {down, up}
  LinkDown = down
  MaxPolls = 1
  MaxChanges = 2
  MaxFaults = 1
SPECIFICATION FairSpec
INVARIANTS
  OperationOwnsRequest
  AddressWrittenInConfigMode
PROPERTIES
  CallReturns
  Settles
CHECK_DEADLOCK FALSE
