SPECIFICATION FairSpec
CONSTANTS
  s1 = s1
  s2 = s2
  Sessions = {s1}
  MaxFd = 8
  MaxLines = 2
  MaxChunks = 1
  SigPipe = FALSE
  Commands <- LoginVerbs
  Faults <- NoInterrupt
PROPERTY EveryCommandHandled
