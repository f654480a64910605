SPECIFICATION FairSpec
CONSTANTS
  PhoneA = PhoneA
  PhoneB = PhoneB
  None = None
  Endpoints <- OnePhone
  AckEnabled <- OnePhone
  KnownSize = TRUE
  Chunks = 1
  MaxSends = 1
  MaxTasks = 3
  MaxFaults = 2
  FaultKinds <- Anything
CHECK_DEADLOCK FALSE
INVARIANT TypeOK
INVARIANT HostFinalOnce
INVARIANT PeerSuccessWhole
INVARIANT OutcomeAgreement
PROPERTY EveryoneTold
PROPERTY IncomingEnds
PROPERTY TeardownEnds
