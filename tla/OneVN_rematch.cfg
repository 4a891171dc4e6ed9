SPECIFICATION Spec
CONSTANTS
  Users = {1, 2}
  Rooms = {1, 2}
  Configs <- OnlyOneRound
  DefaultConfig <- TwoRounds
  TimePercents = {100}
  MaxPlayers = 32
  MaxLifelines = 0
  MaxGames = 1
  MaxTimers = 1
  MaxSessions = 2
  MayFail = {"join_of_owner", "delete_room"}
INVARIANTS
  DatabaseInv
  WinsMatchSessions
PROPERTIES
  ImplementsMatch
