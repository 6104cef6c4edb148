SPECIFICATION Spec
CONSTANTS
  None = None
  Turns = {"root", "a", "b", "note"}
  Ended = {"root"}
  Notes = {"note"}
  Parent <- MCParent
  Tree <- MCTree
  Stoppable = {"a"}
  MaxStopAlls = 2
CHECK_DEADLOCK FALSE
INVARIANTS
  CancelledNoteUnheard
  
  
