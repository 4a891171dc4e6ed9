SPECIFICATION FairClientSpec
CONSTANTS
  u1 = u1
  c1 = c1
  Users = {u1}
  Conns = {c1}
  Rounds = 3
  MaxLifelines = 2
  MaxStarts = 2
  Options = {"A", "B", "C", "D"}
  RightOption = "B"
  MaxQueue = 4
CHECK_DEADLOCK FALSE
INVARIANTS
  RoundsInTurn
  LifelinesAgree
PROPERTIES
  WinnersAnsweredAll
  GameEndsUnlessLost
