SPECIFICATION RequestSpec
CONSTANTS
  MaxBlocks = 5
  MaxSpecial = 1
  Unsafe = "type"
  Aliases <- MCAliases
  ParameterNames = {"type", "_fcc_arg_type", "_fcc_arg_type_2", "path"}
  MaxNames = 4
CHECK_DEADLOCK FALSE
INVARIANTS
  ResultsFollowCalls
  SentOnce
  NativeConsistent
  NamesRestored
