SPECIFICATION FairSpec
CONSTANTS
  Said = {"a", "space", "line", "ec", "ayt", "data", "nop", "will", "wont", "do0", "el"}
  MaxTokens = 3
INVARIANTS TypeOK CommandsAreSaid AnswersInOrder FailureExcused
PROPERTY FirstLineHandled
CHECK_DEADLOCK FALSE
