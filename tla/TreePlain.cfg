SPECIFICATION FairSpec
CONSTANTS
  n1 = n1
  n2 = n2
  n3 = n3
  n4 = n4
  Nodes <- MCNodes4
  Root = n1
  NoNode = NoNode
  Ops = {}
CHECK_DEADLOCK FALSE
INVARIANTS
  ForkAfterParent
PROPERTIES
  FifoProgress
