CONSTANTS
  Items = {a, b}
  NoItem = NoItem
  N = 4
SPECIFICATION FairSpec
INVARIANTS
  NoSlotRace
  RingInv
PROPERTIES
  FifoSpec
  ItemsAreTaken
