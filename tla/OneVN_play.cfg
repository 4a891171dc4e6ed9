SPECIFICATION FairSpec
CONSTANTS
  Users = {1, 2, 3}
  Rooms = {1}
  Configs <- OnlyTwoRounds
  DefaultConfig <- TwoRounds
  TimePercents = {100}
  MaxPlayers = 32
  MaxLifelines = 0
  MaxGames = 1
  MaxTimers = 1
  MaxSessions = 1
  MayFail = {"create_round", "end_round"}
INVARIANTS
  PauseIsQuiet
  LateHaveAClock
  RoundRowsClosed
  ClockUnlessSomeoneLeft
PROPERTIES
  OneAnswerPerRound
  NoRoundCutShort
  NoWinnerEarly
  GamesEndUnlessLeft
