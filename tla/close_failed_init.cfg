CONSTANTS
  Nodes = {n1, n2}
  NoNode = NoNode
  OpenOrder <- MCOpenOrder
  Threads = {}
  MaxFailures = 1
SPECIFICATION Spec
INVARIANT PreviousAttachedIsOne
CHECK_DEADLOCK FALSE
