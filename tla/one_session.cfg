SPECIFICATION CooperativeSpec
CONSTANTS
  s1 = s1
  s2 = s2
  Sessions = {s1}
  MaxFd = 8
  MaxLines = 2
  MaxChunks = 2
  SigPipe = TRUE
  Commands <- AllVerbs
  Faults <- AllFaults
INVARIANTS TypeOK DescriptorOwnership SelectableDescriptors RemovalsRegistered
  CommandAnswered TransferBacked
PROPERTIES KeepsDialogue RoundsContinue SessionReclaimed TransferConcludes InterruptEnds
