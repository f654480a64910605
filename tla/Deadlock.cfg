SPECIFICATION Spec
CONSTANTS
  Alice = Alice
  Bob = Bob
  Devices <- Both
  Callers <- Each
  Nonces <- OneOrder
  MaxFaults = 1
  Kinds <- Rejecting
INVARIANT RegistrationEnds
CHECK_DEADLOCK FALSE
