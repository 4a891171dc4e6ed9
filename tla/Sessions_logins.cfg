SPECIFICATION FairSpec
CONSTANTS
  u1 = u1
  u2 = u2
  c1 = c1
  c2 = c2
  c3 = c3
  Users = {u1, u2}
  Conns = {c1, c2, c3}
  MaxSlots = 2
  MaxTokens = 2
  DbMayFail = TRUE
  LargePackets = TRUE
INVARIANTS
  LoginInv
  OneActiveToken
  NoTwoActors
PROPERTIES
  ExpiredStaysExpired
  NobodyLockedOut
