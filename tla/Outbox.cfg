SPECIFICATION Spec
CONSTANTS
  Edits = {1, 2}
  Sends = {4}
  Clears = {5}
  Posts = {7}
  Undeletable = {7}
  MaxRetries = 1
  PlatformTries = 2
CHECK_DEADLOCK FALSE
INVARIANTS
  NoCallerForgotten
  LastEditShown
  ClearForgetsDeleted
PROPERTIES
  EveryCallEnds
