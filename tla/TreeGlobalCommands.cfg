SPECIFICATION Spec
CONSTANTS
  n1 = n1
  n2 = n2
  n3 = n3
  n4 = n4
  Nodes <- MCNodes3
  Root = n1
  NoNode = NoNode
  Ops = {"stop_all", "clear_all"}
CHECK_DEADLOCK FALSE
SYMMETRY Replies
INVARIANTS
  NothingForgotten
PROPERTIES
  NeverRestarted
