SPECIFICATION Spec
CONSTANTS
  Said = {"a", "line", "will", "do"}
  MaxTokens = 2
INVARIANT NegotiationsRefused
CHECK_DEADLOCK FALSE
