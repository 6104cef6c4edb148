SPECIFICATION TranscriptSpec
CONSTANTS
  Blocks = {0, 1}
  TaskIds <- MCTaskIds
  Suffix <- MCSuffix
  Foreign <- MCForeign
  ToolId <- MCToolId
  ShowResults = FALSE
  MaxSegments = 3
  MaxSize = 3
  Marker = 1
  MinTail = 1
  Limits = {3, 6}
  Status = {0, 1}
CHECK_DEADLOCK FALSE
INVARIANTS
  AllTasksClosed
  StackIsRunning
  NoStaleBlock
  RenderFits
