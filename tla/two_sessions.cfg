SPECIFICATION Spec
CONSTANTS
  s1 = s1
  s2 = s2
  Sessions = {s1, s2}
  MaxFd = 7
  MaxLines = 1
  MaxChunks = 1
  SigPipe = TRUE
  Commands <- TransferVerbs
  Faults <- LostPeers
SYMMETRY Symmetry
INVARIANTS DescriptorOwnership SelectableDescriptors TransferBacked RemovalsRegistered
  OutcomeOwed
PROPERTY NoSilentEnd
