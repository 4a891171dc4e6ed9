SPECIFICATION Spec
CONSTANTS
  u1 = u1
  u2 = u2
  c1 = c1
  c2 = c2
  Users = {u1, u2}
  Conns = {c1, c2}
  MaxSlots = 2
  MaxTokens = 2
  DbMayFail = FALSE
  LargePackets = FALSE
SYMMETRY Symmetry
INVARIANTS
  MessagesFindTheUser
