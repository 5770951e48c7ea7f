CONSTANTS
  RingCapacity = 2
  MaxEvents = 3
  MaxBurst = 2
  kOutboundBatch = 2
SPECIFICATION Spec
PROPERTIES EngineStops
CHECK_DEADLOCK FALSE
