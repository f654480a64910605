SPECIFICATION FairSpec
CONSTANTS
  PhoneA = PhoneA
  PhoneB = PhoneB
  None = None
  Endpoints <- OnePhone
  AckEnabled <- OnePhone
  KnownSize = TRUE
  Chunks = 1
  MaxSends = 1
  MaxTasks = 3
  MaxFaults = 0
  FaultKinds <- Anything
PROPERTY EveryoneToldRegardless
CHECK_DEADLOCK FALSE
