SPECIFICATION FairSpec
CONSTANTS
  MAX_CONNS = 3
  MAX_CLIENTS = 2
  MAX_LINES = 1
  BACKLOG = 1
INVARIANTS OwnSlot NoSlotLost
PROPERTIES Freed Stops
CHECK_DEADLOCK FALSE
