SPECIFICATION Spec
CONSTANTS
  Alice = Alice
  Bob = Bob
  Devices <- Both
  Callers <- Each
  Nonces <- EqualOrLarger
  MaxFaults = 1
  Kinds <- Anything
INVARIANT TypeOK
 
INVARIANT ResultAgreement
INVARIANT ResultTold
INVARIANT CallsReturn
INVARIANT PendingEnds
INVARIANT TieResolved
INVARIANT NoOrphan
CHECK_DEADLOCK FALSE
