SPECIFICATION ClientSpec
SYMMETRY Symmetry
CONSTANTS
  u1 = u1
  u2 = u2
  Users = {u1, u2}
  MaxFailures = 1
  MaxOnTheWay = 2
CHECK_DEADLOCK FALSE
INVARIANTS
  FriendsInv
  RequestsAreShown
PROPERTIES
  FriendshipNeedsConsent
  FriendshipEndsOnPurpose
