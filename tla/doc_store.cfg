SPECIFICATION Spec
CONSTANTS
  s1 = s1
  s2 = s2
  Sessions = {s1}
  MaxFd = 8
  MaxLines = 1
  MaxChunks = 2
  SigPipe = FALSE
  Commands <- MixedVerbs
  Faults <- LostPeers
PROPERTY StoreSupported
