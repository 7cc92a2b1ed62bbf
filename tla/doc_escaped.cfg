SPECIFICATION Spec
CONSTANTS
  Said = {"a", "data", "line"}
  MaxTokens = 3
INVARIANT EscapedIsData
CHECK_DEADLOCK FALSE
