SPECIFICATION Spec
SYMMETRY Symmetry
CONSTANTS
  u1 = u1
  u2 = u2
  Users = {u1, u2}
  Rooms = {1}
  Limit = 2
  Window = 2
  TableSize = 1
  MaxTime = 2
  MaxPlayers = 2
  MaxSlots = 2
CHECK_DEADLOCK FALSE
INVARIANTS
  BurstsBounded
  RefusalsAreEarned
  SeatsInv
