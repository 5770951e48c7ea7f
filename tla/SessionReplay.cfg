CONSTANTS
  capacity_ = 8
  kBytesPerIndexEntry = 2
  Lengths = {1, 2, 3}
  MaxPackets = 7
  None = None
SPECIFICATION Spec
INVARIANTS HoldsWhatFits UnsentIsIntact
