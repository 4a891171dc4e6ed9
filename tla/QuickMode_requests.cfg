SPECIFICATION Spec
CONSTANTS
  u1 = u1
  u2 = u2
  c1 = c1
  c2 = c2
  Users = {u1, u2}
  Conns = {c1, c2}
  Rounds = 3
  MaxLifelines = 2
  MaxStarts = 3
SYMMETRY Symmetry
INVARIANTS
  GamesInv
  OneGameEach
  ScoreIsRight
  CountedOnce
PROPERTIES
  OnlyItsPlayer
