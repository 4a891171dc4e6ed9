SPECIFICATION Spec
CONSTANTS
  Users = {1, 2}
  Rooms = {1, 2}
  Configs <- OnlyOneRound
  DefaultConfig <- TwoRounds
  TimePercents = {100}
  MaxPlayers = 32
  MaxLifelines = 0
  MaxGames = 2
  MaxTimers = 1
  MaxSessions = 2
  MayFail = {"mark_eliminated"}
INVARIANTS
  TimerInv
  TimersOwned
  GamesMatchDatabase
  MembersTellTheGame
