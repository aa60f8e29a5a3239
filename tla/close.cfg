CONSTANTS
  Nodes = {n1, n2}
  NoNode = NoNode
  OpenOrder <- MCOpenOrder
  Threads = {"shutdown", "unload"}
  MaxFailures = 1
SPECIFICATION FairSpec
INVARIANTS
  OneChain
  AnswersOwnNode
PROPERTIES
  BuffersOutliveEndpoints
  RemoveCompletes
  PowerDownCompletes
CHECK_DEADLOCK FALSE
