SPECIFICATION Spec
CONSTANTS
  Users = {1, 2}
  Rooms = {1}
  Configs <- ManyConfigs
  DefaultConfig <- TwoRounds
  TimePercents = {0, 100}
  MaxPlayers = 32
  MaxLifelines = 1
  MaxGames = 1
  MaxTimers = 1
  MaxSessions = 1
  MayFail = {}
INVARIANTS
  TypeOK
  ReplayMatchesScore
  RoundsCounted
