SPECIFICATION Spec
CONSTANTS
  Names = {"x", "~"}
  MaxDepth = 1
  Others = FALSE
  Arguments <- Strings
PROPERTY ListFailureAnswered
CHECK_DEADLOCK FALSE
