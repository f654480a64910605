SPECIFICATION Spec
CONSTANTS
  PhoneA = PhoneA
  PhoneB = PhoneB
  None = None
  Endpoints <- TwoPhones
  AckEnabled <- OnePhone
  KnownSize = FALSE
  Chunks = 0
  MaxSends = 2
  MaxTasks = 2
  MaxFaults = 1
  FaultKinds <- OneTransfer
CHECK_DEADLOCK FALSE
INVARIANT SuccessMeansReceived
INVARIANT PeerFinalOnce
