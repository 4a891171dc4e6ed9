SPECIFICATION FairAnswersSpec
CONSTANTS
  Users = {1, 2}
  Rooms = {1}
  Configs <- OnlyTwoRounds
  DefaultConfig <- TwoRounds
  TimePercents = {0}
  MaxPlayers = 32
  MaxLifelines = 0
  MaxGames = 1
  MaxTimers = 1
  MaxSessions = 1
  MayFail = {}
  MaxPending = 1
PROPERTIES
  NobodyWaitsForever
