CONSTANTS
  Slots = {s1, s2}
  Usernames = {u1}
  MAX_CLIENTS = 1
  capacity_ = 4
  kBytesPerIndexEntry = 2
  PacketLen = 3
  ControlLen = 2
  Windows = {1, 8}
  NotesCapacity = 2
  MaxConnections = 3
  MaxPackets = 2
  None = None
SPECIFICATION Spec
SYMMETRY Symmetry
CONSTRAINT StopBound
INVARIANTS OneConnectionPerSession ClosedOnce StreamIntact UnsentIsDirty LogIsThere NobodyIsForgotten
CHECK_DEADLOCK FALSE
