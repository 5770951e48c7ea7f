CONSTANTS
  Radix = 3
  Closing = {2}
  kMaxInboundSoupPacket = 4
  MaxBytes = 9
SPECIFICATION Spec
INVARIANTS StreamKept ClosedForCause BufferFits
CHECK_DEADLOCK FALSE
