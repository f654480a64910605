SPECIFICATION Spec
CONSTANTS
  Payload = Payload
  KeepAlive = KeepAlive
  Writers <- Both
  Oversized <- Both
  Reader = Reader
  Manager = Manager
  Remover = Remover
  MaxWrites = 1
  MaxIncoming = 1
INVARIANT TypeOK
INVARIANT WireInOrder
INVARIANT NoLostWakeup
INVARIANT HeldBack
 
 
 
INVARIANT DecodingEnds
CHECK_DEADLOCK FALSE
SYMMETRY Alike
