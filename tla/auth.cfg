SPECIFICATION Spec
CONSTANTS
  s1 = s1
  s2 = s2
  Null = Null
  Sessions = {s1, s2}
  MaxTokens = 3
  MaxSeconds = 1
INVARIANTS TypeOK CastSafe ShownTokenWorks TextUsedOnce
PROPERTY OneTimeTokens
CHECK_DEADLOCK FALSE
