CONSTANTS
  Threads = {t1, t2}
  Registers = {0, 1}
  NoRequest = NoRequest
  Addresses = {a1}
  NoAddress = NoAddress
  Filters <- MCFilters
  LinkStates = {down, up}
  LinkDown = down
  MaxPolls = 0
  MaxChanges = 0
  MaxFaults = 0
SPECIFICATION Spec
INVARIANTS
  PhyResultIsOwn
CHECK_DEADLOCK FALSE
