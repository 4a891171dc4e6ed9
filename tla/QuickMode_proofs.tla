------------------------ MODULE QuickMode_proofs ------------------------
(***************************************************************************)
(* For any number of users, connections, rounds, lifelines and starts: the *)
(* games of the solo mode stay in order (GamesInv), so that nobody has two *)
(* games, no round counts twice, each game is counted once, and a game is  *)
(* touched only while its user is on a connection.  Then the server with   *)
(* its clients: for any number of messages on their way, the requests, the *)
(* replies, the screen and the game of a connection agree (PlayInv), so    *)
(* that rounds follow each other, lifelines agree, and who wins has        *)
(* answered all rounds.                                                    *)
(***************************************************************************)
EXTENDS QuickModeClient, SumsAndQueues, FiniteSetTheorems, TLAPS

-----------------------------------------------------------------------------
(* Sessions *)

LEMMA NewSessionType ==
  ASSUME TypeOK, started < MaxStarts, NEW u \in Users, NEW id \in 1..MaxStarts
  PROVE  NewSession(u, id) \in QuickModeSession
BY QuickModeAssumption DEF TypeOK, NewSession, QuickModeSession

\* The answers of a game are finitely many, so that a new one counts one more.
LEMMA OneMoreAnswer ==
  ASSUME NEW g \in QuickModeSession, NEW round \in 1..Rounds, CanAnswer(g, round)
  PROVE  Cardinality(g.answered \cup {round}) = Cardinality(g.answered) + 1
<1>1. IsFiniteSet(1..Rounds)
  BY FS_Interval, QuickModeAssumption
<1>2. g.answered \in SUBSET (1..Rounds)
  BY DEF QuickModeSession
<1>3. IsFiniteSet(g.answered)
  BY <1>1, <1>2, FS_Subset
<1> QED  BY <1>3, FS_AddElement DEF CanAnswer

\* A game that goes on after an answer: its answer was right.
LEMMA AnsweredInOrder ==
  ASSUME NEW g \in QuickModeSession, NEW round \in 1..Rounds, CanAnswer(g, round),
         g.score = Cardinality(g.answered),
         NEW h, h = Answered(g, round, TRUE)
  PROVE  /\ h \in QuickModeSession
         /\ h.user = g.user
         /\ h.score = Cardinality(h.answered)
<1>1. h = [g EXCEPT !.answered = @ \cup {round}, !.score = @ + 1, !.round = round]
  BY DEF Answered
<1>2. h \in QuickModeSession /\ h.user = g.user
  <2>1. g.answered \cup {round} \in SUBSET (1..Rounds) /\ g.score + 1 \in Nat
    BY DEF QuickModeSession
  <2>2. round \in 0..Rounds
    BY QuickModeAssumption
  <2> QED  BY <1>1, <2>1, <2>2 DEF QuickModeSession
<1>3. h.answered = g.answered \cup {round} /\ h.score = g.score + 1
  BY <1>1 DEF QuickModeSession
<1> QED  BY <1>2, <1>3, OneMoreAnswer

LEMMA LifelineInOrder ==
  ASSUME NEW g \in QuickModeSession, g.used < MaxLifelines,
         g.score = Cardinality(g.answered),
         NEW h, h = [g EXCEPT !.used = @ + 1]
  PROVE  /\ h \in QuickModeSession
         /\ h.user = g.user
         /\ h.score = Cardinality(h.answered)
BY QuickModeAssumption DEF QuickModeSession

-----------------------------------------------------------------------------
(* What happens to the list *)

\* The games are in order: GamesInv without the logins.
Ordered(S) ==
  /\ S \subseteq QuickModeSession
  /\ \A g, h \in S : g.user = h.user => g = h
  /\ \A g \in S : g.score = Cardinality(g.answered)

\* A game changed in its place leaves the others in order.
LEMMA ReplacedInOrder ==
  ASSUME Ordered(games), NEW g \in games, NEW h \in QuickModeSession,
         h.user = g.user, h.score = Cardinality(h.answered)
  PROVE  Ordered(Replaced(g, h))
BY DEF Ordered, Replaced

LEMMA SubsetInOrder ==
  ASSUME NEW S, Ordered(S), NEW T \in SUBSET S
  PROVE  Ordered(T)
BY DEF Ordered

-----------------------------------------------------------------------------
(* The inductive invariant *)

LoginsHaveUsers == \A c \in Conns : accepted[c] => who[c] # NoUser

Rest == started \in 0..MaxStarts /\ stats \in [Users -> [games : Nat, wins : Nat]]
LoginTypes == who \in [Conns -> Users \cup {NoUser}] /\ accepted \in [Conns -> BOOLEAN]

\* GamesInv, cut where the proofs of the actions need it.
LEMMA GamesInvParts == GamesInv <=> Ordered(games) /\ Rest /\ LoginTypes /\ LoginsHaveUsers
BY DEF GamesInv, TypeOK, OneGameEach, ScoreIsRight, Ordered, Rest, LoginTypes, LoginsHaveUsers

LEMMA GamesInvPartsAfter == Ordered(games') /\ Rest' /\ LoginTypes' /\ LoginsHaveUsers' => GamesInv'
BY DEF GamesInv, TypeOK, OneGameEach, ScoreIsRight, Ordered, Rest, LoginTypes, LoginsHaveUsers

LEMMA StartInOrder ==
  ASSUME GamesInv, NEW c \in Conns, NEW id \in 1..MaxStarts, Start(c, id)
  PROVE  GamesInv'
<1> DEFINE n == NewSession(who[c], id)
<1>1. who[c] \in Users
  BY DEF GamesInv, TypeOK, Start
<1>2. n \in QuickModeSession
  BY <1>1, NewSessionType DEF GamesInv, Start
<1>3. n.user = who[c] /\ n.score = 0 /\ n.answered = {}
  BY DEF NewSession
<1>4. n.score = Cardinality(n.answered)
  BY <1>3, FS_EmptySet
<1>5. \A g \in games : g.user # who[c]
  BY DEF Start, CanStart, GamesOf
<1>6. games' = games \cup {n}
  BY DEF Start
<1>7. Ordered(games')
  BY <1>2, <1>3, <1>4, <1>5, <1>6, GamesInvParts DEF Ordered
<1>8. Rest' /\ LoginTypes' /\ LoginsHaveUsers'
  BY GamesInvParts, QuickModeAssumption
  DEF Start, Rest, LoginTypes, LoginsHaveUsers, loginVars
<1> QED  BY <1>7, <1>8, GamesInvPartsAfter

LEMMA CountedType ==
  ASSUME Rest, NEW u \in Users, NEW won \in BOOLEAN, Counted(u, won)
  PROVE  stats' \in [Users -> [games : Nat, wins : Nat]]
<1>1. CASE UNCHANGED stats
  BY <1>1 DEF Rest
<1>2. CASE ~UNCHANGED stats
  <2> DEFINE k == IF won THEN 1 ELSE 0
             r == [games |-> stats[u].games + 1, wins |-> stats[u].wins + k]
  <2>1. stats[u] \in [games : Nat, wins : Nat] /\ k \in Nat
    BY DEF Rest
  <2>2. r \in [games : Nat, wins : Nat]
    BY <2>1
  <2>3. stats' = [stats EXCEPT ![u] = r]
    BY <1>2 DEF Counted
  <2> QED  BY <2>2, <2>3 DEF Rest
<1> QED  BY <1>1, <1>2

LEMMA SubmitAnswerInOrder ==
  ASSUME GamesInv, NEW c \in Conns, NEW id \in 1..MaxStarts, NEW round \in 1..Rounds,
         NEW right \in BOOLEAN, SubmitAnswer(c, id, round, right)
  PROVE  GamesInv'
<1>1. PICK g \in Found(id, who[c]) :
         /\ CanAnswer(g, round)
         /\ IF GameOver(round, right)
            THEN games' = games \ {g} /\ Counted(g.user, right)
            ELSE games' = Replaced(g, Answered(g, round, right)) /\ UNCHANGED stats
  BY DEF SubmitAnswer
<1>2. g \in games
  BY DEF Found
<1>3. g \in QuickModeSession /\ g.user \in Users /\ g.score = Cardinality(g.answered)
  BY <1>2, GamesInvParts DEF Ordered, QuickModeSession
<1>4. ASSUME GameOver(round, right)
      PROVE  Ordered(games') /\ stats' \in [Users -> [games : Nat, wins : Nat]]
  <2>1. Ordered(games')
    BY <1>1, <1>4, SubsetInOrder, GamesInvParts
  <2>2. stats' \in [Users -> [games : Nat, wins : Nat]]
    BY <1>1, <1>3, <1>4, CountedType, GamesInvParts
  <2> QED  BY <2>1, <2>2
<1>5. ASSUME ~GameOver(round, right)
      PROVE  Ordered(games') /\ stats' \in [Users -> [games : Nat, wins : Nat]]
  <2>1. right = TRUE
    BY <1>5 DEF GameOver
  <2>2. games' = Replaced(g, Answered(g, round, TRUE))
    BY <1>1, <1>5, <2>1
  <2>3. Ordered(games')
    BY <1>1, <1>2, <1>3, <2>2, AnsweredInOrder, ReplacedInOrder, GamesInvParts
  <2>4. stats' \in [Users -> [games : Nat, wins : Nat]]
    BY <1>1, <1>5, GamesInvParts DEF Rest
  <2> QED  BY <2>3, <2>4
<1>6. Ordered(games') /\ stats' \in [Users -> [games : Nat, wins : Nat]]
  BY <1>4, <1>5
<1>7. Rest' /\ LoginTypes' /\ LoginsHaveUsers'
  BY <1>6, GamesInvParts DEF SubmitAnswer, Rest, LoginTypes, LoginsHaveUsers, loginVars
<1> QED  BY <1>6, <1>7, GamesInvPartsAfter

LEMMA UseLifelineInOrder ==
  ASSUME GamesInv, NEW c \in Conns, NEW id \in 1..MaxStarts, NEW round,
         UseLifeline(c, id, round)
  PROVE  GamesInv'
<1>1. PICK g \in Found(id, who[c]) :
         /\ CanUseLifeline(g, round)
         /\ games' = Replaced(g, [g EXCEPT !.used = @ + 1])
  BY DEF UseLifeline
<1>2. g \in games
  BY DEF Found
<1>3. g \in QuickModeSession /\ g.score = Cardinality(g.answered)
  BY <1>2, GamesInvParts DEF Ordered
<1>4. Ordered(games')
  BY <1>1, <1>2, <1>3, LifelineInOrder, ReplacedInOrder, GamesInvParts DEF CanUseLifeline
<1>5. Rest' /\ LoginTypes' /\ LoginsHaveUsers'
  BY GamesInvParts DEF UseLifeline, Rest, LoginTypes, LoginsHaveUsers, loginVars
<1> QED  BY <1>4, <1>5, GamesInvPartsAfter

LEMMA LoginStepInOrder ==
  ASSUME GamesInv, LoginStep
  PROVE  GamesInv'
<1>1. games' \in SUBSET games
  BY DEF LoginStep, Login, TokenExpires, Logout, Disconnected, Restart, CleanupUser
<1>2. Ordered(games')
  BY <1>1, SubsetInOrder, GamesInvParts
<1>3. Rest'
  BY GamesInvParts DEF LoginStep, Login, TokenExpires, Logout, Disconnected, Restart, Rest
<1>4. LoginTypes' /\ LoginsHaveUsers'
  <2> USE GamesInvParts, QuickModeAssumption DEF LoginTypes, LoginsHaveUsers, NoUser
  <2>1. ASSUME NEW c \in Conns, NEW u \in Users, Login(c, u)
        PROVE  LoginTypes' /\ LoginsHaveUsers'
    BY <2>1 DEF Login
  <2>2. ASSUME NEW c \in Conns, TokenExpires(c)
        PROVE  LoginTypes' /\ LoginsHaveUsers'
    BY <2>2 DEF TokenExpires
  <2>3. ASSUME NEW c \in Conns, Logout(c)
        PROVE  LoginTypes' /\ LoginsHaveUsers'
    BY <2>3 DEF Logout
  <2>4. ASSUME NEW c \in Conns, Disconnected(c)
        PROVE  LoginTypes' /\ LoginsHaveUsers'
    BY <2>4 DEF Disconnected
  <2>5. CASE Restart
    BY <2>5 DEF Restart
  <2> QED  BY <2>1, <2>2, <2>3, <2>4, <2>5 DEF LoginStep
<1> QED  BY <1>2, <1>3, <1>4, GamesInvPartsAfter

\* GamesInv: at any moment nobody has two games, every point of a running game
\* is the one answer to a round of its own, and no token is accepted without a
\* user.
THEOREM GamesInOrder == Spec => []GamesInv
<1>1. Init => GamesInv
  BY QuickModeAssumption
  DEF Init, GamesInv, TypeOK, OneGameEach, ScoreIsRight, NoUser
<1>2. GamesInv /\ [Next]_vars => GamesInv'
  <2> SUFFICES ASSUME GamesInv, [Next]_vars PROVE GamesInv'
    OBVIOUS
  <2>1. CASE LoginStep
    BY <2>1, LoginStepInOrder
  <2>2. CASE GameStep
    BY <2>2, StartInOrder, SubmitAnswerInOrder, UseLifelineInOrder DEF GameStep
  <2>3. CASE UNCHANGED vars
    BY <2>3 DEF vars, loginVars, GamesInv, TypeOK, OneGameEach, ScoreIsRight
  <2> QED  BY <2>1, <2>2, <2>3 DEF Next
<1> QED  BY <1>1, <1>2, PTL DEF Spec

\* OneGameEach: nobody ever has two games at the same time.
THEOREM OneGameEachAlways == Spec => []OneGameEach
<1>1. GamesInv => OneGameEach
  BY DEF GamesInv
<1> QED  BY <1>1, GamesInOrder, PTL

\* ScoreIsRight: no round of a game is ever counted twice.
THEOREM ScoreIsRightAlways == Spec => []ScoreIsRight
<1>1. GamesInv => ScoreIsRight
  BY DEF GamesInv
<1> QED  BY <1>1, GamesInOrder, PTL

\* OnlyItsPlayer: unless the server restarts, a game is changed or ended only
\* while its user is on a connection, shared identifiers or not.
THEOREM OnlyItsPlayerAlways == Spec => OnlyItsPlayer
<1> DEFINE Touched == \A g \in games : \/ g \in games'
                                       \/ \E c \in Conns : who[c] = g.user
                                       \/ games' = {}
<1>1. Next => Touched
  <2>1. ASSUME NEW c \in Conns, NEW id, Start(c, id)  PROVE Touched
    BY <2>1 DEF Start
  <2>2. ASSUME NEW c \in Conns, NEW id, NEW round, NEW right, SubmitAnswer(c, id, round, right)
        PROVE  Touched
    BY <2>2 DEF SubmitAnswer, Found, Replaced
  <2>3. ASSUME NEW c \in Conns, NEW id, NEW round, UseLifeline(c, id, round)
        PROVE  Touched
    BY <2>3 DEF UseLifeline, Found, Replaced
  <2>4. CASE LoginStep
    BY <2>4 DEF LoginStep, Login, TokenExpires, Logout, Disconnected, Restart, CleanupUser,
                GamesOf
  <2> QED  BY <2>1, <2>2, <2>3, <2>4 DEF Next, GameStep
<1>2. UNCHANGED vars => Touched
  BY DEF vars
<1> QED  BY <1>1, <1>2, PTL DEF Spec, OnlyItsPlayer

-----------------------------------------------------------------------------
(* Games are counted once *)

GamesCounted == [u \in Users |-> stats[u].games]

\* The inductive invariant of CountedOnce: there are finitely many games, and
\* those of the list and those counted were started.
CountInv == GamesInv /\ IsFiniteSet(games) /\ CountedOnce

LEMMA CountedOnceSum ==
  CountedOnce <=> Cardinality(games) + SumFunctionOnSet(GamesCounted, Users) <= started
BY DEF CountedOnce, GamesCounted

LEMMA CountedOnceSumAfter ==
  CountedOnce' <=> Cardinality(games') + SumFunctionOnSet(GamesCounted', Users) <= started'
BY DEF CountedOnce, GamesCounted

\* A game less makes room for one that is counted.
LEMMA CountedAdds ==
  ASSUME GamesInv, NEW u \in Users, NEW won \in BOOLEAN, Counted(u, won)
  PROVE  /\ SumFunctionOnSet(GamesCounted, Users) \in Nat
         /\ SumFunctionOnSet(GamesCounted', Users) \in Nat
         /\ SumFunctionOnSet(GamesCounted', Users) <= SumFunctionOnSet(GamesCounted, Users) + 1
<1>1. IsFiniteSet(Users) /\ stats \in [Users -> [games : Nat, wins : Nat]]
  BY QuickModeAssumption DEF GamesInv, TypeOK
<1>2. \A v \in Users : GamesCounted[v] = stats[v].games /\ GamesCounted[v] \in Nat
  BY <1>1 DEF GamesCounted
<1>3. SumFunctionOnSet(GamesCounted, Users) \in Nat
  BY <1>1, <1>2, SumType
<1>4. CASE UNCHANGED stats
  <2>1. GamesCounted' = GamesCounted
    BY <1>4 DEF GamesCounted
  <2> QED  BY <1>3, <2>1
<1>5. CASE ~UNCHANGED stats
  <2> DEFINE k == IF won THEN 1 ELSE 0
             r == [games |-> stats[u].games + 1, wins |-> stats[u].wins + k]
  <2>1. stats' = [stats EXCEPT ![u] = r]
    BY <1>5 DEF Counted
  <2>2. r.games = stats[u].games + 1
    OBVIOUS
  <2> HIDE DEF r
  <2>3. \A v \in Users : GamesCounted'[v] = IF v = u THEN stats[v].games + 1 ELSE stats[v].games
    BY <1>1, <2>1, <2>2 DEF GamesCounted
  <2>4. \A v \in Users : GamesCounted'[v] = IF v = u THEN GamesCounted[v] + 1 ELSE GamesCounted[v]
    BY <1>2, <2>3
  <2>5. SumFunctionOnSet(GamesCounted', Users)
          = SumFunctionOnSet(GamesCounted, Users) + (IF u \in Users THEN 1 ELSE 0)
    <3>1. 1 \in Nat
      OBVIOUS
    <3> QED  BY <1>1, <1>2, <2>4, <3>1, SumWithMore
  <2> QED  BY <1>3, <2>5
<1> QED  BY <1>4, <1>5

LEMMA FewerGamesCounted ==
  ASSUME CountInv, games' \in SUBSET games, UNCHANGED <<started, stats>>
  PROVE  IsFiniteSet(games') /\ CountedOnce'
<1>1. /\ IsFiniteSet(games') /\ Cardinality(games') <= Cardinality(games)
      /\ Cardinality(games') \in Nat /\ Cardinality(games) \in Nat
  BY FS_Subset, FS_CardinalityType DEF CountInv
<1>2. GamesCounted' = GamesCounted
  BY DEF GamesCounted
<1>3. SumFunctionOnSet(GamesCounted, Users) \in Nat /\ started \in Nat
  <2>1. IsFiniteSet(Users) /\ \A u \in Users : GamesCounted[u] \in Nat
    BY QuickModeAssumption DEF CountInv, GamesInv, TypeOK, GamesCounted
  <2> QED  BY <2>1, SumType, QuickModeAssumption DEF CountInv, GamesInv, TypeOK
<1> QED  BY <1>1, <1>2, <1>3, CountedOnceSum, CountedOnceSumAfter DEF CountInv

\* A game that changes is still one game.
LEMMA ReplacedCounted ==
  ASSUME CountInv, NEW g \in games, NEW h, games' = Replaced(g, h),
         UNCHANGED <<started, stats>>
  PROVE  IsFiniteSet(games') /\ CountedOnce'
<1>1. /\ IsFiniteSet(games) /\ IsFiniteSet(games \ {g})
      /\ Cardinality(games \ {g}) = Cardinality(games) - 1 /\ Cardinality(games) \in Nat
  BY FS_RemoveElement, FS_CardinalityType DEF CountInv
<1>2. /\ IsFiniteSet(games') /\ Cardinality(games') \in Nat
      /\ Cardinality(games') <= Cardinality(games)
  <2>1. games' = (games \ {g}) \cup {h}
    BY DEF Replaced
  <2>2. /\ IsFiniteSet(games')
        /\ Cardinality(games') \in {Cardinality(games \ {g}), Cardinality(games \ {g}) + 1}
    BY <1>1, <2>1, FS_AddElement
  <2>3. Cardinality(games') \in Nat
    BY <2>2, FS_CardinalityType
  <2> QED  BY <1>1, <2>2, <2>3
<1>3. GamesCounted' = GamesCounted
  BY DEF GamesCounted
<1>4. SumFunctionOnSet(GamesCounted, Users) \in Nat /\ started \in Nat
  <2>1. IsFiniteSet(Users) /\ \A u \in Users : GamesCounted[u] \in Nat
    BY QuickModeAssumption DEF CountInv, GamesInv, TypeOK, GamesCounted
  <2> QED  BY <2>1, SumType, QuickModeAssumption DEF CountInv, GamesInv, TypeOK
<1> QED  BY <1>1, <1>2, <1>3, <1>4, CountedOnceSum, CountedOnceSumAfter DEF CountInv

LEMMA StartCounted ==
  ASSUME CountInv, NEW c \in Conns, NEW id \in 1..MaxStarts, Start(c, id)
  PROVE  IsFiniteSet(games') /\ CountedOnce'
<1>1. /\ games' = games \cup {NewSession(who[c], id)} /\ started' = started + 1
      /\ GamesCounted' = GamesCounted
  BY DEF Start, GamesCounted
<1>2. /\ IsFiniteSet(games') /\ Cardinality(games) \in Nat
      /\ Cardinality(games') \in {Cardinality(games), Cardinality(games) + 1}
  BY <1>1, FS_AddElement, FS_CardinalityType DEF CountInv
<1>3. SumFunctionOnSet(GamesCounted, Users) \in Nat /\ started \in Nat
  <2>1. IsFiniteSet(Users) /\ \A u \in Users : GamesCounted[u] \in Nat
    BY QuickModeAssumption DEF CountInv, GamesInv, TypeOK, GamesCounted
  <2> QED  BY <2>1, SumType, QuickModeAssumption DEF CountInv, GamesInv, TypeOK
<1> QED  BY <1>1, <1>2, <1>3, CountedOnceSum, CountedOnceSumAfter DEF CountInv

LEMMA SubmitAnswerCounted ==
  ASSUME CountInv, NEW c \in Conns, NEW id \in 1..MaxStarts, NEW round \in 1..Rounds,
         NEW right \in BOOLEAN, SubmitAnswer(c, id, round, right)
  PROVE  IsFiniteSet(games') /\ CountedOnce'
<1>1. PICK g \in games :
         IF GameOver(round, right)
         THEN games' = games \ {g} /\ Counted(g.user, right)
         ELSE games' = Replaced(g, Answered(g, round, right)) /\ UNCHANGED stats
  BY DEF SubmitAnswer, Found
<1>2. started' = started /\ started \in Nat /\ g.user \in Users
  BY QuickModeAssumption DEF SubmitAnswer, CountInv, GamesInv, TypeOK, QuickModeSession
<1>3. CASE GameOver(round, right)
  <2>1. /\ IsFiniteSet(games') /\ Cardinality(games') = Cardinality(games) - 1
        /\ Cardinality(games) \in Nat
    BY <1>1, <1>3, FS_RemoveElement, FS_CardinalityType DEF CountInv
  <2>2. /\ SumFunctionOnSet(GamesCounted, Users) \in Nat
        /\ SumFunctionOnSet(GamesCounted', Users) \in Nat
        /\ SumFunctionOnSet(GamesCounted', Users) <= SumFunctionOnSet(GamesCounted, Users) + 1
    BY <1>1, <1>2, <1>3, CountedAdds DEF CountInv
  <2> QED  BY <1>2, <2>1, <2>2, CountedOnceSum, CountedOnceSumAfter DEF CountInv
<1>4. CASE ~GameOver(round, right)
  BY <1>1, <1>2, <1>4, ReplacedCounted
<1> QED  BY <1>3, <1>4

\* CountedOnce: every game is counted once at most, however games end while
\* logins come and go and the server restarts.
THEOREM CountedOnceAlways == Spec => []CountedOnce
<1>1. Init => CountInv
  <2> SUFFICES ASSUME Init PROVE CountInv
    OBVIOUS
  <2>1. GamesInv
    BY FS_EmptySet, QuickModeAssumption
    DEF Init, GamesInv, TypeOK, OneGameEach, ScoreIsRight, NoUser
  <2>2. IsFiniteSet(games) /\ Cardinality(games) = 0 /\ started = 0
    BY FS_EmptySet DEF Init
  <2>3. SumFunctionOnSet(GamesCounted, Users) = 0
    <3>1. \A u \in Users : GamesCounted[u] = 0
      BY DEF Init, GamesCounted
    <3> QED  BY <3>1, QuickModeAssumption, SumOfZeros
  <2> QED  BY <2>1, <2>2, <2>3, CountedOnceSum DEF CountInv
<1>2. GamesInv' /\ CountInv /\ [Next]_vars => CountInv'
  <2> SUFFICES ASSUME GamesInv', CountInv, [Next]_vars
               PROVE  IsFiniteSet(games') /\ CountedOnce'
    BY DEF CountInv
  <2>1. CASE UNCHANGED vars
    BY <2>1, FewerGamesCounted DEF vars
  <2>2. CASE LoginStep
    <3>1. games' \in SUBSET games /\ UNCHANGED <<started, stats>>
      BY <2>2 DEF LoginStep, Login, TokenExpires, Logout, Disconnected, Restart, CleanupUser
    <3> QED  BY <3>1, FewerGamesCounted
  <2>3. ASSUME NEW c \in Conns, NEW id \in 1..MaxStarts, NEW round \in 1..Rounds,
               UseLifeline(c, id, round)
        PROVE  IsFiniteSet(games') /\ CountedOnce'
    <3>1. PICK g \in games : games' = Replaced(g, [g EXCEPT !.used = @ + 1])
      BY <2>3 DEF UseLifeline, Found
    <3> QED  BY <2>3, <3>1, ReplacedCounted DEF UseLifeline
  <2> QED
    BY <2>1, <2>2, <2>3, StartCounted, SubmitAnswerCounted DEF Next, GameStep
<1> QED  BY <1>1, <1>2, GamesInOrder, PTL DEF Spec, CountInv

-----------------------------------------------------------------------------
(* The client: what holds of the requests S, the replies C and the screen U  *)
(* of a connection and of the set G with the game of its user, if there is   *)
(* one.                                                                      *)

Ids == 1..MaxStarts

Requests ==
  [kind : {"start"}] \cup [kind : {"question"}, id : Ids, round : Nat]
  \cup [kind : {"answer"}, id : Ids, round : Nat, option : Options]
  \cup [kind : {"lifeline"}, id : Ids, round : Nat]

Replies ==
  [kind : {"error"}] \cup [kind : {"started"}, id : Ids]
  \cup [kind : {"question"}, id : Ids, round : Nat]
  \cup [kind : {"result"}, id : Ids, right : BOOLEAN, over : BOOLEAN]
  \cup [kind : {"over"}, id : Ids, win : BOOLEAN]
  \cup [kind : {"lifeline"}, id : Ids, removed : SUBSET Options, left : 0..MaxLifelines]

QuickModeGame ==
  [screen : Screens, session : 0..MaxStarts, round : Nat, loaded : BOOLEAN,
   removed : SUBSET Options, waiting : BOOLEAN, submitted : BOOLEAN,
   lifelines : 0..MaxLifelines, question : BOOLEAN, next : BOOLEAN, lose : BOOLEAN,
   answer : BOOLEAN]

IsFresh(g, id) == g.id = id /\ g.round = 0 /\ g.used = 0
IsStart(m) == m.kind = "start"
IsLifeline(m, g) == m.kind = "lifeline" /\ m.id = g.id

\* A game waits for one thing at a time to go on: a question or an answer asked
\* for, a question or a right answer sent back, the timer to the next question, or
\* the player's click on a question that is displayed.
IsTurn(m, g) == m.kind \in {"question", "answer"} /\ m.id = g.id

IsTurnReply(m, g) ==
  /\ m.kind \in {"question", "result"}
  /\ m.id = g.id
  /\ m.kind = "result" => m.right /\ ~m.over

CanPick(U) == U.loaded /\ ~U.submitted

\* A screen without a game has no timers and shows no question.
ScreenInv(U) ==
  /\ U \in QuickModeGame
  /\ U.screen # "game" => U.session = NoGame
  /\ U.session = NoGame => U = Screen(U.screen)

\* What follows a start request are starts, but for the first question of the
\* game that was started by then.
StartsFirst(S, G) ==
  \A i, j \in DOMAIN S : i < j /\ IsStart(S[i]) /\ ~IsStart(S[j]) =>
    /\ \A k \in DOMAIN S : k < j => IsStart(S[k])
    /\ S[j].kind = "question" /\ S[j].round = 1
    /\ \E g \in G : IsFresh(g, S[j].id)

\* The reply to a start reaches a screen without a game, before anything was done
\* in the new one.
StartedLast(S, C, U, G) ==
  \A i \in DOMAIN C : C[i].kind = "started" =>
    /\ U.session = NoGame
    /\ \A j \in DOMAIN S : IsStart(S[j])
    /\ \A j \in DOMAIN C : j > i => C[j].kind = "error"
    /\ \E g \in G : IsFresh(g, C[i].id)

\* A screen that has its game while a start is on its way waits for its first
\* question, which is behind it.
StartsBeforeQuestion(S, U) ==
  \A i \in DOMAIN S : U.session # NoGame /\ IsStart(S[i]) =>
    /\ \E j \in DOMAIN S : j > i /\ S[j].kind = "question" /\ S[j].id = U.session
    /\ ~U.loaded /\ ~U.next

TurnAsked(S, g) ==
  /\ \A i, j \in DOMAIN S : IsTurn(S[i], g) /\ IsTurn(S[j], g) => i = j
  /\ \A i \in DOMAIN S : IsTurn(S[i], g) => S[i].round = g.round + 1

TurnReplied(C, U, g) ==
  /\ \A i, j \in DOMAIN C : IsTurnReply(C[i], g) /\ IsTurnReply(C[j], g) => i = j
  /\ \A i \in DOMAIN C : IsTurnReply(C[i], g) =>
       /\ ~U.next /\ ~CanPick(U)
       /\ C[i].kind = "question" => U.round = g.round + 1 /\ C[i].round = g.round + 1
       /\ C[i].kind = "result" => U.round = g.round

TurnShown(U, g) ==
  /\ U.next => ~CanPick(U) /\ U.round = g.round
  /\ CanPick(U) => U.round = g.round + 1

\* With a request of the game on its way nothing else of it is.
OneTurn(S, C, U, g) ==
  \A i \in DOMAIN S : IsTurn(S[i], g) =>
    /\ U.round = g.round + 1
    /\ ~U.next /\ ~CanPick(U)
    /\ \A j \in DOMAIN C : ~IsTurnReply(C[j], g)

\* The last of the replies to a lifeline holds what the game has left.
LifelinesLeft(C, U, g) ==
  /\ U.lifelines >= MaxLifelines - g.used
  /\ \A i \in DOMAIN C : IsLifeline(C[i], g) => C[i].left >= MaxLifelines - g.used
  /\ \A i \in DOMAIN C :
       IsLifeline(C[i], g) /\ (\A j \in DOMAIN C : IsLifeline(C[j], g) => j <= i) =>
         C[i].left = MaxLifelines - g.used
  /\ (\A i \in DOMAIN C : ~IsLifeline(C[i], g)) => U.lifelines = MaxLifelines - g.used

GameInv(g) == g.answered = 1..g.round /\ g.round < Rounds

OnScreen(S, C, U, g) ==
  U.session = g.id => /\ TurnReplied(C, U, g) /\ TurnShown(U, g)
                      /\ OneTurn(S, C, U, g) /\ LifelinesLeft(C, U, g)

ClientInv(S, C, U, G) ==
  /\ S \in Seq(Requests) /\ C \in Seq(Replies) /\ ScreenInv(U)
  /\ G \in SUBSET QuickModeSession /\ \A g, h \in G : g = h
  /\ StartsFirst(S, G) /\ StartedLast(S, C, U, G) /\ StartsBeforeQuestion(S, U)
  /\ \A g \in G : GameInv(g) /\ TurnAsked(S, g) /\ OnScreen(S, C, U, g)

\* Nothing but starts follows a start.
StartsAtEnd(S) == \A i, j \in DOMAIN S : i < j /\ IsStart(S[i]) => IsStart(S[j])

-----------------------------------------------------------------------------
(* Requests that are gone *)

\* R: the requests behind the first n.
LEMMA RequestsGone ==
  ASSUME NEW S, NEW C, NEW U, NEW G, ClientInv(S, C, U, G),
         NEW R \in Seq(Requests), NEW n, LeftOf(R, S, n)
  PROVE  /\ ClientInv(R, C, U, G)
         /\ S[1] \in Requests
         /\ \A g \in G : IsTurn(S[1], g) => \A i \in DOMAIN R : ~IsTurn(R[i], g)
         /\ ~IsStart(S[1]) => /\ \A i \in DOMAIN C : C[i].kind # "started"
                              /\ StartsAtEnd(R)
         /\ IsStart(S[1]) /\ G = {} => /\ U.session = NoGame
                                       /\ \A i \in DOMAIN R : IsStart(R[i])
<1>1. S \in Seq(Requests) /\ \A i \in DOMAIN S : i \in Nat /\ S[i] \in Requests
  BY InQueue DEF ClientInv
<1>2. /\ 1 \in DOMAIN S /\ n \in Nat \ {0}
      /\ \A i \in DOMAIN R : i \in Nat /\ i > 0 /\ i + n \in DOMAIN S /\ R[i] = S[i + n]
      /\ \A i \in DOMAIN S : i > n => i - n \in DOMAIN R
  BY DEF LeftOf
<1>3. StartsFirst(R, G)
  <2> SUFFICES ASSUME NEW i \in DOMAIN R, NEW j \in DOMAIN R, i < j, IsStart(R[i]),
                      ~IsStart(R[j])
               PROVE  /\ \A k \in DOMAIN R : k < j => IsStart(R[k])
                      /\ R[j].kind = "question" /\ R[j].round = 1
                      /\ \E g \in G : IsFresh(g, R[j].id)
    BY DEF StartsFirst
  <2>1. /\ i + n \in DOMAIN S /\ j + n \in DOMAIN S /\ i + n < j + n
        /\ IsStart(S[i + n]) /\ ~IsStart(S[j + n]) /\ R[j] = S[j + n]
    BY <1>2
  <2>2. /\ \A k \in DOMAIN S : k < j + n => IsStart(S[k])
        /\ R[j].kind = "question" /\ R[j].round = 1
        /\ \E g \in G : IsFresh(g, R[j].id)
    BY <2>1 DEF ClientInv, StartsFirst
  <2>3. ASSUME NEW k \in DOMAIN R, k < j PROVE IsStart(R[k])
    BY <1>2, <2>2, <2>3
  <2> QED  BY <2>2, <2>3
<1>4. StartedLast(R, C, U, G)
  BY <1>2 DEF ClientInv, StartedLast
<1>5. StartsBeforeQuestion(R, U)
  <2> SUFFICES ASSUME NEW i \in DOMAIN R, U.session # NoGame, IsStart(R[i])
               PROVE  /\ \E j \in DOMAIN R : j > i /\ R[j].kind = "question"
                                             /\ R[j].id = U.session
                      /\ ~U.loaded /\ ~U.next
    BY DEF StartsBeforeQuestion
  <2>1. i + n \in DOMAIN S /\ IsStart(S[i + n])
    BY <1>2
  <2>2. PICK j \in DOMAIN S : j > i + n /\ S[j].kind = "question" /\ S[j].id = U.session
    BY <2>1 DEF ClientInv, StartsBeforeQuestion
  <2>3. j - n \in DOMAIN R /\ j - n > i /\ (j - n) + n = j
    BY <1>1, <1>2, <2>2
  <2>4. R[j - n] = S[j]
    BY <1>2, <2>3
  <2>5. ~U.loaded /\ ~U.next
    BY <2>1 DEF ClientInv, StartsBeforeQuestion
  <2> QED  BY <2>2, <2>3, <2>4, <2>5
<1>6. ASSUME NEW g \in G PROVE TurnAsked(R, g) /\ OnScreen(R, C, U, g)
  <2>1. TurnAsked(S, g) /\ OnScreen(S, C, U, g)
    BY DEF ClientInv
  <2>2. TurnAsked(R, g)
    BY <1>2, <2>1 DEF TurnAsked
  <2>3. OnScreen(R, C, U, g)
    BY <1>2, <2>1 DEF OnScreen, OneTurn
  <2> QED  BY <2>2, <2>3
<1>7. ASSUME NEW g \in G, IsTurn(S[1], g), NEW i \in DOMAIN R PROVE ~IsTurn(R[i], g)
  <2>1. i + n \in DOMAIN S /\ i + n # 1 /\ R[i] = S[i + n]
    BY <1>2
  <2>2. TurnAsked(S, g)
    BY DEF ClientInv
  <2> QED  BY <1>2, <1>7, <2>1, <2>2 DEF TurnAsked
<1>8. ~IsStart(S[1]) => \A i \in DOMAIN C : C[i].kind # "started"
  BY <1>2 DEF ClientInv, StartedLast
<1>9. ASSUME ~IsStart(S[1]) PROVE StartsAtEnd(R)
  <2> SUFFICES ASSUME NEW i \in DOMAIN R, NEW j \in DOMAIN R, i < j, IsStart(R[i]),
                      ~IsStart(R[j])
               PROVE  FALSE
    BY DEF StartsAtEnd
  <2>1. /\ i + n \in DOMAIN S /\ j + n \in DOMAIN S /\ i + n < j + n /\ 1 < j + n
        /\ IsStart(S[i + n]) /\ ~IsStart(S[j + n])
    BY <1>2
  <2> QED  BY <1>2, <1>9, <2>1 DEF ClientInv, StartsFirst
<1>10. ASSUME IsStart(S[1]), G = {}
       PROVE  U.session = NoGame /\ \A i \in DOMAIN R : IsStart(R[i])
  <2>1. \A j \in DOMAIN S : j > 1 => IsStart(S[j])
    BY <1>2, <1>10 DEF ClientInv, StartsFirst
  <2>2. U.session = NoGame
    BY <1>2, <1>10, <2>1 DEF ClientInv, StartsBeforeQuestion, IsStart
  <2>3. \A i \in DOMAIN R : i + n \in DOMAIN S /\ i + n > 1 /\ R[i] = S[i + n]
    BY <1>2
  <2> QED  BY <2>1, <2>2, <2>3
<1> QED  BY <1>1, <1>2, <1>3, <1>4, <1>5, <1>6, <1>7, <1>8, <1>9, <1>10 DEF ClientInv

-----------------------------------------------------------------------------
(* Replies *)

\* A reply that neither starts a game nor belongs to the one there is.
LEMMA PlainReply ==
  ASSUME NEW S, NEW C, NEW U, NEW G, ClientInv(S, C, U, G), NEW m \in Replies,
         m.kind = "error" \/ /\ m.kind # "started"
                             /\ \A i \in DOMAIN C : C[i].kind # "started",
         \A g \in G : ~IsTurnReply(m, g) /\ ~IsLifeline(m, g),
         NEW D \in Seq(Replies), NEW l, AddedAt(D, C, m, l)
  PROVE  ClientInv(S, D, U, G)
<1>2. /\ D \in Seq(Replies) /\ l \in DOMAIN D /\ D[l] = m /\ l \in Nat
      /\ \A i \in DOMAIN D : i = l \/ (i \in DOMAIN C /\ i < l /\ D[i] = C[i])
      /\ \A i \in DOMAIN C : i \in DOMAIN D /\ D[i] = C[i] /\ i < l
  BY DEF AddedAt
<1>3. StartedLast(S, D, U, G)
  <2> SUFFICES ASSUME NEW i \in DOMAIN D, D[i].kind = "started"
               PROVE  /\ U.session = NoGame
                      /\ \A j \in DOMAIN S : IsStart(S[j])
                      /\ \A j \in DOMAIN D : j > i => D[j].kind = "error"
                      /\ \E g \in G : IsFresh(g, D[i].id)
    BY DEF StartedLast
  <2>1. i \in DOMAIN C /\ D[i] = C[i] /\ m.kind = "error"
    BY <1>2
  <2> QED  BY <1>2, <2>1 DEF ClientInv, StartedLast
<1>4. ASSUME NEW g \in G PROVE OnScreen(S, D, U, g)
  <2> SUFFICES ASSUME U.session = g.id
               PROVE  /\ TurnReplied(D, U, g) /\ TurnShown(U, g)
                      /\ OneTurn(S, D, U, g) /\ LifelinesLeft(D, U, g)
    BY DEF OnScreen
  <2>1. /\ TurnReplied(C, U, g) /\ TurnShown(U, g)
        /\ OneTurn(S, C, U, g) /\ LifelinesLeft(C, U, g)
    BY DEF ClientInv, OnScreen
  <2>2. ~IsTurnReply(m, g) /\ ~IsLifeline(m, g)
    OBVIOUS
  <2>3. TurnReplied(D, U, g)
    BY <1>2, <2>1, <2>2 DEF TurnReplied
  <2>4. OneTurn(S, D, U, g)
    BY <1>2, <2>1, <2>2 DEF OneTurn
  <2>5. LifelinesLeft(D, U, g)
    BY <1>2, <2>1, <2>2 DEF LifelinesLeft
  <2> QED  BY <2>1, <2>3, <2>4, <2>5
<1> QED  BY <1>2, <1>3, <1>4 DEF ClientInv

\* The reply that lets the game h go on, which was g before.
LEMMA TurnReply ==
  ASSUME NEW S, NEW C, NEW U, NEW G, ClientInv(S, C, U, G), NEW g \in G,
         StartsAtEnd(S), \A i \in DOMAIN S : ~IsTurn(S[i], g),
         \A i \in DOMAIN C : C[i].kind # "started",
         U.session = g.id => /\ ~U.next /\ ~CanPick(U) /\ U.round = g.round + 1
                             /\ \A i \in DOMAIN C : ~IsTurnReply(C[i], g),
         NEW m \in Replies, m.id = g.id, m.kind \in {"question", "result"},
         NEW h \in QuickModeSession, h.id = g.id, h.used = g.used, GameInv(h),
         m.kind = "question" => m.round = h.round + 1 /\ h.round = g.round,
         m.kind = "result" => h.round = g.round + 1,
         NEW D \in Seq(Replies), NEW l, AddedAt(D, C, m, l)
  PROVE  ClientInv(S, D, U, {h})
<1>2. /\ D \in Seq(Replies) /\ l \in DOMAIN D /\ D[l] = m /\ l \in Nat
      /\ \A i \in DOMAIN D : i = l \/ (i \in DOMAIN C /\ i < l /\ D[i] = C[i])
      /\ \A i \in DOMAIN C : i \in DOMAIN D /\ D[i] = C[i] /\ i < l
  BY DEF AddedAt
<1>3. \A x : IsTurn(x, h) <=> IsTurn(x, g)
  BY DEF IsTurn
<1>4. \A x : IsTurnReply(x, h) <=> IsTurnReply(x, g)
  BY DEF IsTurnReply
<1>5. \A x : IsLifeline(x, h) <=> IsLifeline(x, g)
  BY DEF IsLifeline
<1>6. StartsFirst(S, {h}) /\ StartedLast(S, D, U, {h})
  <2>1. StartsFirst(S, {h})
    BY DEF StartsFirst, StartsAtEnd
  <2>2. \A i \in DOMAIN D : D[i].kind # "started"
    BY <1>2
  <2> QED  BY <2>1, <2>2 DEF StartedLast
<1>7. TurnAsked(S, h)
  BY <1>3 DEF TurnAsked
<1>8. OnScreen(S, D, U, h)
  <2> SUFFICES ASSUME U.session = h.id
               PROVE  /\ TurnReplied(D, U, h) /\ TurnShown(U, h)
                      /\ OneTurn(S, D, U, h) /\ LifelinesLeft(D, U, h)
    BY DEF OnScreen
  <2>1. ~IsLifeline(m, h)
    BY DEF IsLifeline
  <2>2. LifelinesLeft(C, U, g)
    BY DEF ClientInv, OnScreen
  <2>3. LifelinesLeft(D, U, h)
    BY <1>2, <1>5, <2>1, <2>2 DEF LifelinesLeft
  <2>4. TurnReplied(D, U, h)
    BY <1>2, <1>4 DEF TurnReplied
  <2>5. TurnShown(U, h)
    BY DEF TurnShown
  <2>6. OneTurn(S, D, U, h)
    BY <1>3 DEF OneTurn
  <2> QED  BY <2>3, <2>4, <2>5, <2>6
<1> QED  BY <1>2, <1>6, <1>7, <1>8 DEF ClientInv

\* The game is over.
LEMMA GameGone ==
  ASSUME NEW S, NEW C, NEW U, NEW G, ClientInv(S, C, U, G), StartsAtEnd(S),
         \A i \in DOMAIN C : C[i].kind # "started"
  PROVE  ClientInv(S, C, U, {})
BY DEF ClientInv, StartsFirst, StartsAtEnd, StartedLast

LEMMA LifelineReply ==
  ASSUME NEW S, NEW C, NEW U, NEW G, ClientInv(S, C, U, G), NEW g \in G,
         StartsAtEnd(S), \A i \in DOMAIN C : C[i].kind # "started",
         NEW h \in QuickModeSession, h.id = g.id, h.round = g.round,
         h.answered = g.answered, h.used = g.used + 1,
         NEW m \in Replies, m.kind = "lifeline", m.id = g.id,
         m.left = MaxLifelines - g.used - 1, NEW D \in Seq(Replies), NEW l, AddedAt(D, C, m, l)
  PROVE  ClientInv(S, D, U, {h})
<1>2. /\ D \in Seq(Replies) /\ l \in DOMAIN D /\ D[l] = m /\ l \in Nat
      /\ \A i \in DOMAIN D : i = l \/ (i \in DOMAIN C /\ i < l /\ D[i] = C[i])
      /\ \A i \in DOMAIN C : i \in DOMAIN D /\ D[i] = C[i] /\ i < l
  BY DEF AddedAt
<1>3. g \in QuickModeSession /\ g.used \in Nat /\ MaxLifelines \in Nat
  BY QuickModeAssumption DEF ClientInv, QuickModeSession
<1>4. \A x : IsTurn(x, h) <=> IsTurn(x, g)
  BY <1>3 DEF IsTurn
<1>5. \A x : IsTurnReply(x, h) <=> IsTurnReply(x, g)
  BY <1>3 DEF IsTurnReply
<1>6. \A x : IsLifeline(x, h) <=> IsLifeline(x, g)
  BY <1>3 DEF IsLifeline
<1>7. StartsFirst(S, {h}) /\ StartedLast(S, D, U, {h})
  <2>1. StartsFirst(S, {h})
    BY DEF StartsFirst, StartsAtEnd
  <2>2. \A i \in DOMAIN D : D[i].kind # "started"
    BY <1>2
  <2> QED  BY <2>1, <2>2 DEF StartedLast
<1>8. GameInv(h) /\ TurnAsked(S, h)
  BY <1>3, <1>4 DEF ClientInv, GameInv, TurnAsked
<1>9. OnScreen(S, D, U, h)
  <2> SUFFICES ASSUME U.session = h.id
               PROVE  /\ TurnReplied(D, U, h) /\ TurnShown(U, h)
                      /\ OneTurn(S, D, U, h) /\ LifelinesLeft(D, U, h)
    BY DEF OnScreen
  <2>1. ~IsTurnReply(m, h) /\ IsLifeline(m, h)
    BY <1>3 DEF IsTurnReply, IsLifeline
  <2>2. /\ TurnReplied(C, U, g) /\ TurnShown(U, g)
        /\ OneTurn(S, C, U, g) /\ LifelinesLeft(C, U, g)
    BY <1>3 DEF ClientInv, OnScreen
  <2>3. TurnReplied(D, U, h)
    BY <1>2, <1>3, <1>5, <2>1, <2>2 DEF TurnReplied
  <2>4. TurnShown(U, h)
    BY <1>3, <2>2 DEF TurnShown
  <2>5. OneTurn(S, D, U, h)
    BY <1>2, <1>3, <1>4, <1>5, <2>1, <2>2 DEF OneTurn
  <2>6. LifelinesLeft(D, U, h)
    <3>1. U.lifelines \in Int /\ \A i \in DOMAIN C : IsLifeline(C[i], h) => C[i].left \in Int
      <4>1. \A i \in DOMAIN C : C[i] \in Replies
        BY InQueue DEF ClientInv
      <4> QED  BY <4>1, QuickModeAssumption
               DEF ClientInv, ScreenInv, QuickModeGame, Replies, IsLifeline
    <3>2. U.lifelines >= MaxLifelines - h.used
      BY <1>3, <2>2, <3>1 DEF LifelinesLeft
    <3>3. \A i \in DOMAIN D : IsLifeline(D[i], h) => D[i].left >= MaxLifelines - h.used
      BY <1>2, <1>3, <1>6, <2>2, <3>1 DEF LifelinesLeft
    <3>4. ASSUME NEW i \in DOMAIN D, IsLifeline(D[i], h),
                 \A j \in DOMAIN D : IsLifeline(D[j], h) => j <= i
          PROVE  D[i].left = MaxLifelines - h.used
      <4>1. l <= i
        BY <1>2, <2>1, <3>4
      <4>0. \A k \in DOMAIN C : k \in Nat
        BY InQueue DEF ClientInv
      <4>2. i = l
        BY <1>2, <4>0, <4>1
      <4> QED  BY <1>2, <1>3, <4>2
    <3> QED  BY <1>2, <2>1, <3>2, <3>3, <3>4 DEF LifelinesLeft
  <2> QED  BY <2>3, <2>4, <2>5, <2>6
<1> QED  BY <1>2, <1>7, <1>8, <1>9 DEF ClientInv

\* A game is started.
LEMMA StartedReply ==
  ASSUME NEW S, NEW C, NEW U, ClientInv(S, C, U, {}), U.session = NoGame,
         \A i \in DOMAIN S : IsStart(S[i]),
         NEW g \in QuickModeSession, g.round = 0, g.used = 0, g.answered = {},
         NEW m \in Replies, m.kind = "started", m.id = g.id,
         NEW D \in Seq(Replies), NEW l, AddedAt(D, C, m, l)
  PROVE  ClientInv(S, D, U, {g})
<1>4. /\ D \in Seq(Replies) /\ l \in DOMAIN D /\ D[l] = m /\ l \in Nat
      /\ \A i \in DOMAIN D : i = l \/ (i \in DOMAIN C /\ i < l /\ D[i] = C[i])
  BY DEF AddedAt
<1>5. \A i \in DOMAIN C : C[i].kind # "started"
  BY DEF ClientInv, StartedLast
<1>6. StartsFirst(S, {g})
  BY DEF StartsFirst
<1>7. StartedLast(S, D, U, {g})
  <2> SUFFICES ASSUME NEW i \in DOMAIN D, D[i].kind = "started"
               PROVE  /\ \A j \in DOMAIN D : j > i => D[j].kind = "error"
                      /\ IsFresh(g, D[i].id)
    BY DEF StartedLast
  <2>1. i = l
    BY <1>4, <1>5
  <2>0. \A j \in DOMAIN C : j \in Nat
    BY InQueue DEF ClientInv
  <2>2. \A j \in DOMAIN D : ~(j > l)
    BY <1>4, <2>0
  <2> QED  BY <1>4, <2>1, <2>2 DEF IsFresh
<1>8. GameInv(g)
  BY QuickModeAssumption DEF GameInv
<1>9. TurnAsked(S, g)
  BY DEF TurnAsked, IsTurn, IsStart
<1>10. OnScreen(S, D, U, g)
  <2>1. g.id # NoGame
    BY QuickModeAssumption DEF QuickModeSession, NoGame
  <2> QED  BY <2>1 DEF OnScreen
<1> QED  BY <1>4, <1>6, <1>7, <1>8, <1>9, <1>10 DEF ClientInv

-----------------------------------------------------------------------------
(* Screens and requests *)

\* V is the screen U, but for what belongs to no turn.
SameTurn(V, U) ==
  /\ V.session = U.session /\ V.round = U.round /\ V.loaded = U.loaded
  /\ V.submitted = U.submitted /\ V.next = U.next

LEMMA SameTurnKeeps ==
  ASSUME NEW S, NEW C, NEW U, NEW G, ClientInv(S, C, U, G),
         NEW V, ScreenInv(V), SameTurn(V, U), V.lifelines = U.lifelines
  PROVE  ClientInv(S, C, V, G)
<1>1. StartedLast(S, C, V, G) /\ StartsBeforeQuestion(S, V)
  BY DEF ClientInv, SameTurn, StartedLast, StartsBeforeQuestion
<1>2. ASSUME NEW g \in G PROVE OnScreen(S, C, V, g)
  BY DEF ClientInv, SameTurn, OnScreen, TurnReplied, TurnShown, OneTurn, LifelinesLeft, CanPick
<1> QED  BY <1>1, <1>2 DEF ClientInv

LEMMA FreshGameType == FreshGame \in QuickModeGame
<1>1. NoGame \in 0..MaxStarts /\ 0 \in Nat /\ MaxLifelines \in 0..MaxLifelines
  BY QuickModeAssumption DEF NoGame
<1>2. {} \in SUBSET Options /\ "game" \in Screens
  BY DEF Screens
<1> QED  BY <1>1, <1>2 DEF QuickModeGame, FreshGame

\* A screen without a game.
LEMMA EmptyScreen ==
  ASSUME NEW x \in Screens
  PROVE  /\ ScreenInv(Screen(x)) /\ Screen(x).session = NoGame
         /\ ~Screen(x).next /\ ~Screen(x).loaded /\ ~Screen(x).question
         /\ ~Screen(x).lose /\ ~Screen(x).answer
<1>1. FreshGame \in QuickModeGame
  BY FreshGameType
<1>2. Screen(x) \in QuickModeGame /\ Screen(x).screen = x
  BY <1>1 DEF Screen, QuickModeGame
<1>3. /\ Screen(x).session = NoGame /\ ~Screen(x).next /\ ~Screen(x).loaded
      /\ ~Screen(x).question /\ ~Screen(x).lose /\ ~Screen(x).answer
  BY DEF Screen, FreshGame
<1>4. ScreenInv(Screen(x))
  BY <1>2, <1>3 DEF ScreenInv
<1> QED  BY <1>3, <1>4

LEMMA ScreenLeft ==
  ASSUME NEW S, NEW C, NEW U, NEW G, ClientInv(S, C, U, G), NEW x \in Screens
  PROVE  ClientInv(S, C, Screen(x), G)
<1> DEFINE V == Screen(x)
<1>1. ScreenInv(V) /\ V.session = NoGame
  BY EmptyScreen
<1> HIDE DEF V
<1>2. StartedLast(S, C, V, G) /\ StartsBeforeQuestion(S, V)
  BY <1>1 DEF ClientInv, StartedLast, StartsBeforeQuestion
<1>3. ASSUME NEW g \in G PROVE OnScreen(S, C, V, g)
  <2>1. g.id # NoGame
    BY QuickModeAssumption DEF ClientInv, QuickModeSession, NoGame
  <2> QED  BY <1>1, <2>1 DEF OnScreen
<1>4. ClientInv(S, C, V, G)
  BY <1>1, <1>2, <1>3 DEF ClientInv
<1> QED  BY <1>4 DEF V

\* A screen that shows a question or waits for the next one has a game, and no
\* start is on its way.
LEMMA NoStartBehind ==
  ASSUME NEW S, NEW C, NEW U, NEW G, ClientInv(S, C, U, G), U.loaded \/ U.next
  PROVE  /\ U.session # NoGame /\ U.screen = "game"
         /\ \A i \in DOMAIN S : ~IsStart(S[i])
         /\ \A i \in DOMAIN C : C[i].kind # "started"
<1>1. U.session # NoGame
  <2>1. U.session = NoGame => ~U.loaded /\ ~U.next
    BY DEF ClientInv, ScreenInv, Screen, FreshGame, QuickModeGame
  <2> QED  BY <2>1
<1> QED  BY <1>1 DEF ClientInv, ScreenInv, StartsBeforeQuestion, StartedLast

LEMMA StartRequested ==
  ASSUME NEW S, NEW C, NEW U, NEW G, ClientInv(S, C, U, G), U.session = NoGame,
         NEW m \in Requests, IsStart(m), NEW T \in Seq(Requests), NEW l, AddedAt(T, S, m, l)
  PROVE  ClientInv(T, C, U, G)
<1>1. /\ l \in DOMAIN T /\ T[l] = m /\ l \in Nat
      /\ \A i \in DOMAIN T : i = l \/ (i \in DOMAIN S /\ i < l /\ T[i] = S[i])
      /\ \A i \in DOMAIN S : i \in DOMAIN T /\ T[i] = S[i] /\ i < l
  BY DEF AddedAt
<1>2. StartsFirst(T, G)
  <2> SUFFICES ASSUME NEW i \in DOMAIN T, NEW j \in DOMAIN T, i < j, IsStart(T[i]),
                      ~IsStart(T[j])
               PROVE  /\ \A k \in DOMAIN T : k < j => IsStart(T[k])
                      /\ T[j].kind = "question" /\ T[j].round = 1
                      /\ \E g \in G : IsFresh(g, T[j].id)
    BY DEF StartsFirst
  <2>1. j \in DOMAIN S /\ T[j] = S[j] /\ j < l
    BY <1>1
  <2>2. \A k \in DOMAIN S : k \in Nat
    BY InQueue DEF ClientInv
  <2>3. i # l /\ \A k \in DOMAIN T : k < j => k # l
    BY <1>1, <2>1, <2>2
  <2> QED  BY <1>1, <2>1, <2>3 DEF ClientInv, StartsFirst
<1>3. StartedLast(T, C, U, G)
  BY <1>1 DEF ClientInv, StartedLast
<1>4. StartsBeforeQuestion(T, U)
  BY DEF StartsBeforeQuestion
<1>5. ASSUME NEW g \in G PROVE TurnAsked(T, g) /\ OnScreen(T, C, U, g)
  <2>1. ~IsTurn(m, g)
    BY DEF IsTurn, IsStart
  <2>2. TurnAsked(T, g)
    BY <1>1, <2>1 DEF ClientInv, TurnAsked
  <2>3. g.id # NoGame
    BY QuickModeAssumption DEF ClientInv, QuickModeSession, NoGame
  <2> QED  BY <2>2, <2>3 DEF OnScreen
<1> QED  BY <1>2, <1>3, <1>4, <1>5 DEF ClientInv

LEMMA LifelineRequested ==
  ASSUME NEW S, NEW C, NEW U, NEW G, ClientInv(S, C, U, G), U.loaded,
         NEW m \in Requests, m.kind = "lifeline",
         NEW T \in Seq(Requests), NEW l, AddedAt(T, S, m, l)
  PROVE  ClientInv(T, C, U, G)
<1>1. /\ l \in DOMAIN T /\ T[l] = m /\ l \in Nat
      /\ \A i \in DOMAIN T : i = l \/ (i \in DOMAIN S /\ i < l /\ T[i] = S[i])
      /\ \A i \in DOMAIN S : i \in DOMAIN T /\ T[i] = S[i] /\ i < l
  BY DEF AddedAt
<1>2. /\ \A i \in DOMAIN T : ~IsStart(T[i])
      /\ \A i \in DOMAIN C : C[i].kind # "started"
  BY <1>1, NoStartBehind DEF IsStart
<1>3. StartsFirst(T, G) /\ StartedLast(T, C, U, G) /\ StartsBeforeQuestion(T, U)
  BY <1>2 DEF StartsFirst, StartedLast, StartsBeforeQuestion
<1>4. ASSUME NEW g \in G PROVE TurnAsked(T, g) /\ OnScreen(T, C, U, g)
  <2>1. ~IsTurn(m, g)
    BY DEF IsTurn
  <2>2. TurnAsked(T, g)
    BY <1>1, <2>1 DEF ClientInv, TurnAsked
  <2>3. OnScreen(T, C, U, g)
    BY <1>1, <2>1 DEF ClientInv, OnScreen, OneTurn
  <2> QED  BY <2>2, <2>3
<1> QED  BY <1>3, <1>4 DEF ClientInv

\* The turn goes to the server: with the answer, or with the timer that asks for
\* the next question.
LEMMA TurnRequested ==
  ASSUME NEW S, NEW C, NEW U, NEW G, ClientInv(S, C, U, G),
         NEW m \in Requests, m.kind \in {"question", "answer"}, m.id = U.session,
         NEW V, ScreenInv(V), V.session = U.session, V.lifelines = U.lifelines,
         m.round = V.round, ~CanPick(V),
         \/ CanPick(U) /\ V.round = U.round /\ V.next = U.next
         \/ U.next /\ V.round = U.round + 1 /\ ~V.next,
         NEW T \in Seq(Requests), NEW l, AddedAt(T, S, m, l)
  PROVE  ClientInv(T, C, V, G)
<1>1. /\ l \in DOMAIN T /\ T[l] = m /\ l \in Nat
      /\ \A i \in DOMAIN T : i = l \/ (i \in DOMAIN S /\ i < l /\ T[i] = S[i])
      /\ \A i \in DOMAIN S : i \in DOMAIN T /\ T[i] = S[i] /\ i < l
  BY DEF AddedAt
<1>2. /\ \A i \in DOMAIN T : ~IsStart(T[i])
      /\ \A i \in DOMAIN C : C[i].kind # "started"
  BY <1>1, NoStartBehind DEF IsStart, CanPick
<1>3. StartsFirst(T, G) /\ StartedLast(T, C, V, G) /\ StartsBeforeQuestion(T, V)
  BY <1>2 DEF StartsFirst, StartedLast, StartsBeforeQuestion
<1>4. ASSUME NEW g \in G PROVE TurnAsked(T, g) /\ OnScreen(T, C, V, g)
  <2>1. TurnAsked(S, g) /\ OnScreen(S, C, U, g) /\ g.round \in Nat /\ U.round \in Nat
    BY QuickModeAssumption
    DEF ClientInv, QuickModeSession, ScreenInv, QuickModeGame
  <2>2. CASE U.session # g.id
    <3>1. ~IsTurn(m, g)
      BY <2>2 DEF IsTurn
    <3>2. TurnAsked(T, g)
      BY <1>1, <2>1, <3>1 DEF TurnAsked
    <3> QED  BY <2>2, <3>2 DEF OnScreen
  <2>3. CASE U.session = g.id
    <3>1. /\ TurnReplied(C, U, g) /\ TurnShown(U, g)
          /\ OneTurn(S, C, U, g) /\ LifelinesLeft(C, U, g)
      BY <2>1, <2>3 DEF OnScreen
    <3>2. /\ \A i \in DOMAIN S : ~IsTurn(S[i], g)
          /\ \A i \in DOMAIN C : ~IsTurnReply(C[i], g)
      BY <3>1 DEF OneTurn, TurnReplied
    <3>3. V.round = g.round + 1 /\ ~V.next
      BY <2>1, <3>1 DEF TurnShown
    <3>4. TurnAsked(T, g)
      BY <1>1, <3>2, <3>3 DEF TurnAsked
    <3>5. TurnReplied(C, V, g) /\ TurnShown(V, g) /\ OneTurn(T, C, V, g)
      BY <3>2, <3>3 DEF TurnReplied, TurnShown, OneTurn
    <3>6. LifelinesLeft(C, V, g)
      BY <3>1 DEF LifelinesLeft
    <3> QED  BY <3>4, <3>5, <3>6 DEF OnScreen
  <2> QED  BY <2>2, <2>3
<1> QED  BY <1>3, <1>4 DEF ClientInv

-----------------------------------------------------------------------------
(* Replies that are read: D are the replies behind the first one *)

\* A screen that waits for nothing of the game it shows: no start is behind it.
LEMMA NoGameNoStart ==
  ASSUME NEW S, NEW C, NEW U, NEW G, ClientInv(S, C, U, G),
         U.session # NoGame, \A g \in G : g.id # U.session
  PROVE  \A i \in DOMAIN S : ~IsStart(S[i])
<1> SUFFICES ASSUME NEW i \in DOMAIN S, IsStart(S[i]) PROVE FALSE
  OBVIOUS
<1>1. PICK j \in DOMAIN S : j > i /\ S[j].kind = "question" /\ S[j].id = U.session
  BY DEF ClientInv, StartsBeforeQuestion
<1>2. i < j /\ ~IsStart(S[j])
  <2>1. i \in Nat /\ j \in Nat
    BY InQueue DEF ClientInv
  <2> QED  BY <1>1, <2>1 DEF IsStart
<1>3. \E g \in G : IsFresh(g, S[j].id)
  BY <1>2 DEF ClientInv, StartsFirst
<1> QED  BY <1>1, <1>3 DEF IsFresh

LEMMA TurnTaken ==
  ASSUME NEW S, NEW C, NEW U, NEW G, ClientInv(S, C, U, G), NEW g \in G,
         U.session = g.id, NEW D, LeftOf(D, C, 1), IsTurnReply(C[1], g)
  PROVE  /\ \A i \in DOMAIN S : ~IsTurn(S[i], g) /\ ~IsStart(S[i])
         /\ \A i \in DOMAIN D : ~IsTurnReply(D[i], g)
         /\ ~U.next /\ ~CanPick(U)
         /\ C[1].kind = "question" => U.round = g.round + 1 /\ C[1].round = g.round + 1
         /\ C[1].kind = "result" => U.round = g.round
<1>1. /\ 1 \in DOMAIN C
      /\ \A i \in DOMAIN D : i \in Nat /\ i > 0 /\ i + 1 \in DOMAIN C /\ D[i] = C[i + 1]
  BY DEF LeftOf
<1>2. TurnReplied(C, U, g) /\ OneTurn(S, C, U, g)
  BY DEF ClientInv, OnScreen
<1>3. \A i \in DOMAIN S : ~IsTurn(S[i], g)
  BY <1>1, <1>2 DEF OneTurn
<1>4. \A i \in DOMAIN S : ~IsStart(S[i])
  <2>1. g.id # NoGame
    BY QuickModeAssumption DEF ClientInv, QuickModeSession, NoGame
  <2> QED  BY <1>3, <2>1 DEF ClientInv, StartsBeforeQuestion, IsTurn
<1>5. ASSUME NEW i \in DOMAIN D PROVE ~IsTurnReply(D[i], g)
  <2>1. i + 1 \in DOMAIN C /\ i + 1 # 1 /\ D[i] = C[i + 1]
    BY <1>1
  <2> QED  BY <1>1, <1>2, <2>1 DEF TurnReplied
<1> QED  BY <1>1, <1>2, <1>3, <1>4, <1>5 DEF TurnReplied

\* What is left of the replies is still in order, whatever the screen does.
LEMMA RepliesLeft ==
  ASSUME NEW S, NEW C, NEW U, NEW G, ClientInv(S, C, U, G),
         NEW D \in Seq(Replies), LeftOf(D, C, 1), NEW V, V.session = U.session
  PROVE  StartedLast(S, D, V, G)
<1>1. \A i \in DOMAIN D : i \in Nat /\ i > 0 /\ i + 1 \in DOMAIN C /\ D[i] = C[i + 1]
  BY DEF LeftOf
<1> SUFFICES ASSUME NEW i \in DOMAIN D, D[i].kind = "started"
             PROVE  /\ V.session = NoGame
                    /\ \A j \in DOMAIN S : IsStart(S[j])
                    /\ \A j \in DOMAIN D : j > i => D[j].kind = "error"
                    /\ \E g \in G : IsFresh(g, D[i].id)
  BY DEF StartedLast
<1>2. i + 1 \in DOMAIN C /\ C[i + 1].kind = "started" /\ D[i] = C[i + 1]
  BY <1>1
<1>3. /\ V.session = NoGame
      /\ \A j \in DOMAIN S : IsStart(S[j])
      /\ \A j \in DOMAIN C : j > i + 1 => C[j].kind = "error"
      /\ \E g \in G : IsFresh(g, D[i].id)
  BY <1>2 DEF ClientInv, StartedLast
<1>4. ASSUME NEW j \in DOMAIN D, j > i PROVE D[j].kind = "error"
  <2>1. j + 1 \in DOMAIN C /\ j + 1 > i + 1 /\ D[j] = C[j + 1]
    BY <1>1, <1>4
  <2> QED  BY <1>3, <2>1
<1> QED  BY <1>3, <1>4

\* A reply that is no turn: it is ignored, or tells of a lifeline.
LEMMA PlainRead ==
  ASSUME NEW S, NEW C, NEW U, NEW G, ClientInv(S, C, U, G),
         NEW D \in Seq(Replies), LeftOf(D, C, 1),
         NEW V, ScreenInv(V), SameTurn(V, U),
         \A g \in G : U.session = g.id =>
           V.lifelines = IF IsLifeline(C[1], g) THEN C[1].left ELSE U.lifelines
  PROVE  ClientInv(S, D, V, G)
<1>1. /\ 1 \in DOMAIN C
      /\ \A i \in DOMAIN D : i \in Nat /\ i > 0 /\ i + 1 \in DOMAIN C /\ D[i] = C[i + 1]
      /\ \A i \in DOMAIN C : i > 1 => i - 1 \in DOMAIN D
  BY DEF LeftOf
<1>2. StartedLast(S, D, V, G) /\ StartsBeforeQuestion(S, V)
  BY RepliesLeft DEF ClientInv, SameTurn, StartsBeforeQuestion
<1>3. ASSUME NEW g \in G PROVE OnScreen(S, D, V, g)
  <2> SUFFICES ASSUME U.session = g.id
               PROVE  /\ TurnReplied(D, V, g) /\ TurnShown(V, g)
                      /\ OneTurn(S, D, V, g) /\ LifelinesLeft(D, V, g)
    BY DEF OnScreen, SameTurn
  <2>1. /\ TurnReplied(C, U, g) /\ TurnShown(U, g)
        /\ OneTurn(S, C, U, g) /\ LifelinesLeft(C, U, g)
    BY DEF ClientInv, OnScreen
  <2>2. TurnReplied(D, V, g)
    BY <1>1, <2>1 DEF TurnReplied, SameTurn, CanPick
  <2>3. TurnShown(V, g)
    BY <2>1 DEF TurnShown, SameTurn, CanPick
  <2>4. OneTurn(S, D, V, g)
    BY <1>1, <2>1 DEF OneTurn, SameTurn, CanPick
  <2>5. LifelinesLeft(D, V, g)
    <3>1. V.lifelines >= MaxLifelines - g.used
      BY <1>1, <2>1 DEF LifelinesLeft
    <3>2. \A i \in DOMAIN D : IsLifeline(D[i], g) => D[i].left >= MaxLifelines - g.used
      BY <1>1, <2>1 DEF LifelinesLeft
    <3>0. \A i \in DOMAIN C : i \in Nat
      BY InQueue DEF ClientInv
    <3>3. ASSUME NEW i \in DOMAIN D, IsLifeline(D[i], g),
                 \A j \in DOMAIN D : IsLifeline(D[j], g) => j <= i
          PROVE  D[i].left = MaxLifelines - g.used
      <4>1. i \in Nat /\ i > 0 /\ i + 1 \in DOMAIN C /\ IsLifeline(C[i + 1], g)
            /\ D[i] = C[i + 1]
        BY <1>1, <3>3
      <4>2. ASSUME NEW j \in DOMAIN C, IsLifeline(C[j], g) PROVE j <= i + 1
        <5>1. CASE j > 1
          <6>1. j - 1 \in DOMAIN D /\ (j - 1) + 1 = j /\ j \in Nat
            BY <1>1, <3>0, <5>1
          <6>2. D[j - 1] = C[j]
            BY <1>1, <6>1
          <6>3. j - 1 <= i
            BY <3>3, <4>2, <6>1, <6>2
          <6> QED  BY <4>1, <6>1, <6>3
        <5> QED  BY <3>0, <4>1, <5>1
      <4> QED  BY <2>1, <4>1, <4>2 DEF LifelinesLeft
    <3>4. ASSUME \A i \in DOMAIN D : ~IsLifeline(D[i], g)
          PROVE  V.lifelines = MaxLifelines - g.used
      <4>1. ASSUME NEW i \in DOMAIN C, i # 1 PROVE ~IsLifeline(C[i], g)
        <5>1. i \in Nat /\ i > 1
          <6>1. DOMAIN C = 1..Len(C)
            BY DEF ClientInv
          <6> QED  BY <3>0, <4>1, <6>1
        <5>2. i - 1 \in DOMAIN D /\ (i - 1) + 1 = i
          BY <1>1, <5>1
        <5>3. D[i - 1] = C[i]
          BY <1>1, <5>2
        <5> QED  BY <3>4, <5>2, <5>3
      <4>2. CASE IsLifeline(C[1], g)
        <5>1. \A j \in DOMAIN C : IsLifeline(C[j], g) => j <= 1
          BY <4>1
        <5> QED  BY <1>1, <2>1, <4>2, <5>1 DEF LifelinesLeft
      <4>3. CASE ~IsLifeline(C[1], g)
        BY <2>1, <4>1, <4>3 DEF LifelinesLeft
      <4> QED  BY <4>2, <4>3
    <3> QED  BY <3>1, <3>2, <3>3, <3>4 DEF LifelinesLeft
  <2> QED  BY <2>2, <2>3, <2>4, <2>5
<1> QED  BY <1>2, <1>3 DEF ClientInv

\* The turn comes to the screen.
LEMMA TurnRead ==
  ASSUME NEW S, NEW C, NEW U, NEW G, ClientInv(S, C, U, G), NEW g \in G,
         U.session = g.id, NEW D \in Seq(Replies), LeftOf(D, C, 1), IsTurnReply(C[1], g),
         NEW V, ScreenInv(V), V.session = U.session, V.lifelines = U.lifelines,
         TurnShown(V, g)
  PROVE  ClientInv(S, D, V, G)
<1>1. /\ \A i \in DOMAIN S : ~IsTurn(S[i], g) /\ ~IsStart(S[i])
      /\ \A i \in DOMAIN D : ~IsTurnReply(D[i], g)
  BY TurnTaken
<1>2. /\ SameTurn(U, U)
      /\ \A h \in G : U.session = h.id =>
           U.lifelines = IF IsLifeline(C[1], h) THEN C[1].left ELSE U.lifelines
  BY DEF SameTurn, IsLifeline, IsTurnReply
<1>3. ClientInv(S, D, U, G)
  BY <1>2, PlainRead DEF ClientInv
<1>4. StartedLast(S, D, V, G) /\ StartsBeforeQuestion(S, V)
  BY <1>1, RepliesLeft DEF StartsBeforeQuestion
<1>5. OnScreen(S, D, V, g)
  BY <1>1, <1>3 DEF ClientInv, OnScreen, TurnReplied, OneTurn, LifelinesLeft
<1>6. \A h \in G : h = g
  BY DEF ClientInv
<1> QED  BY <1>3, <1>4, <1>5, <1>6 DEF ClientInv

\* The screen shows a game that is over for the server.
LEMMA StrayRead ==
  ASSUME NEW S, NEW C, NEW U, NEW G, ClientInv(S, C, U, G),
         U.session # NoGame, \A g \in G : g.id # U.session,
         NEW D \in Seq(Replies), LeftOf(D, C, 1),
         NEW V, ScreenInv(V), V.session = U.session
  PROVE  ClientInv(S, D, V, G)
<1>1. \A i \in DOMAIN S : ~IsStart(S[i])
  BY NoGameNoStart
<1>2. StartedLast(S, D, V, G) /\ StartsBeforeQuestion(S, V)
  BY <1>1, RepliesLeft DEF StartsBeforeQuestion
<1> QED  BY <1>2 DEF ClientInv, OnScreen

\* The new screen asks for the first question of the game it is told of.
LEMMA StartedRead ==
  ASSUME NEW S, NEW C, NEW U, NEW G, ClientInv(S, C, U, G),
         NEW D \in Seq(Replies), LeftOf(D, C, 1), C[1].kind = "started",
         NEW V, ScreenInv(V), V.session = C[1].id, V.round = 1,
         V.lifelines = MaxLifelines, ~V.loaded, ~V.next,
         NEW m \in Requests, m.kind = "question", m.id = C[1].id, m.round = 1,
         NEW T \in Seq(Requests), NEW l, AddedAt(T, S, m, l)
  PROVE  ClientInv(T, D, V, G)
<1>1. /\ 1 \in DOMAIN C
      /\ \A i \in DOMAIN D : i \in Nat /\ i > 0 /\ i + 1 \in DOMAIN C /\ D[i] = C[i + 1]
  BY DEF LeftOf
<1>2. /\ l \in DOMAIN T /\ T[l] = m /\ l \in Nat
      /\ \A i \in DOMAIN T : i = l \/ (i \in DOMAIN S /\ i < l /\ T[i] = S[i])
  BY DEF AddedAt
<1>3. /\ \A j \in DOMAIN S : IsStart(S[j])
      /\ \A j \in DOMAIN C : j > 1 => C[j].kind = "error"
      /\ \E h \in G : IsFresh(h, C[1].id)
  BY <1>1 DEF ClientInv, StartedLast
<1>4. PICK g \in G : IsFresh(g, C[1].id)
  BY <1>3
<1>5. \A j \in DOMAIN D : D[j].kind = "error"
  BY <1>1, <1>3
<1>0. \A i \in DOMAIN S : i \in Nat
  BY InQueue DEF ClientInv
<1>6. StartsFirst(T, G)
  <2> SUFFICES ASSUME NEW i \in DOMAIN T, NEW j \in DOMAIN T, i < j, IsStart(T[i]),
                      ~IsStart(T[j])
               PROVE  /\ \A k \in DOMAIN T : k < j => IsStart(T[k])
                      /\ T[j].kind = "question" /\ T[j].round = 1
                      /\ \E h \in G : IsFresh(h, T[j].id)
    BY DEF StartsFirst
  <2>1. j = l
    BY <1>2, <1>3
  <2>2. \A k \in DOMAIN T : k < j => IsStart(T[k])
    BY <1>2, <1>3, <2>1
  <2> QED  BY <1>2, <1>3, <2>1, <2>2
<1>7. StartedLast(T, D, V, G)
  BY <1>5 DEF StartedLast
<1>8. StartsBeforeQuestion(T, V)
  BY <1>2 DEF StartsBeforeQuestion, IsStart
<1>9. TurnAsked(T, g)
  <2>1. \A i \in DOMAIN T : IsTurn(T[i], g) => i = l
    BY <1>2, <1>3 DEF IsTurn, IsStart
  <2> QED  BY <1>2, <1>4, <2>1 DEF TurnAsked, IsFresh
<1>10. OnScreen(T, D, V, g)
  <2>1. TurnReplied(D, V, g) /\ TurnShown(V, g) /\ OneTurn(T, D, V, g)
    BY <1>4, <1>5 DEF TurnReplied, TurnShown, OneTurn, IsTurnReply, CanPick, IsFresh
  <2>2. LifelinesLeft(D, V, g)
    BY <1>4, <1>5, QuickModeAssumption DEF LifelinesLeft, IsFresh, IsLifeline
  <2> QED  BY <2>1, <2>2 DEF OnScreen
<1>11. \A h \in G : h = g
  BY DEF ClientInv
<1> QED  BY <1>6, <1>7, <1>8, <1>9, <1>10, <1>11 DEF ClientInv

-----------------------------------------------------------------------------
(* The connections *)

ClientTypes ==
  /\ ui \in [Conns -> QuickModeGame]
  /\ toServer \in [Conns -> Seq(Requests)]
  /\ toClient \in [Conns -> Seq(Replies)]

OneConnectionEach ==
  /\ \A c \in Conns : who[c] \in Users
  /\ \A c, d \in Conns : who[c] = who[d] => c = d

InOrder(c) == ClientInv(toServer[c], toClient[c], ui[c], GamesOf(who[c]))

PlayersConnected == \A g \in games : \E c \in Conns : who[c] = g.user

\* The inductive invariant of RoundsInTurn and LifelinesAgree.
PlayInv ==
  /\ GamesInv /\ ClientTypes /\ OneConnectionEach /\ PlayersConnected
  /\ \A c \in Conns : InOrder(c)

GamesAfter(c) == {g \in games' : g.user = who[c]}

LEMMA SameFunction ==
  ASSUME NEW X, NEW f \in [Conns -> X], NEW c \in Conns
  PROVE  f = [f EXCEPT ![c] = f[c]]
OBVIOUS

\* A step of one connection leaves the others, and their games, as they are.
LEMMA OneClientSteps ==
  ASSUME PlayInv, GamesInv', UNCHANGED who, NEW c \in Conns,
         NEW S \in Seq(Requests), NEW C \in Seq(Replies), NEW U \in QuickModeGame,
         toServer' = [toServer EXCEPT ![c] = S], toClient' = [toClient EXCEPT ![c] = C],
         ui' = [ui EXCEPT ![c] = U],
         \A g : g.user # who[c] => (g \in games' <=> g \in games),
         ClientInv(S, C, U, GamesAfter(c))
  PROVE  PlayInv'
<1>1. ClientTypes'
  BY DEF PlayInv, ClientTypes
<1>2. OneConnectionEach'
  BY DEF PlayInv, OneConnectionEach
<1>3. ASSUME NEW d \in Conns PROVE InOrder(d)'
  <2>1. CASE d = c
    <3>1. toServer'[d] = S /\ toClient'[d] = C /\ ui'[d] = U /\ GamesOf(who[d])' = GamesAfter(c)
      BY <2>1 DEF PlayInv, ClientTypes, GamesOf, GamesAfter
    <3> QED  BY <3>1 DEF InOrder
  <2>2. CASE d # c
    <3>1. who[d] # who[c]
      BY <2>2 DEF PlayInv, OneConnectionEach
    <3>2. GamesOf(who[d])' = GamesOf(who[d])
      BY <3>1 DEF GamesOf
    <3>3. toServer'[d] = toServer[d] /\ toClient'[d] = toClient[d] /\ ui'[d] = ui[d]
      BY <2>2 DEF PlayInv, ClientTypes
    <3> QED  BY <3>2, <3>3 DEF PlayInv, InOrder
  <2> QED  BY <2>1, <2>2
<1>4. PlayersConnected'
  BY DEF PlayInv, PlayersConnected
<1> QED  BY <1>1, <1>2, <1>3, <1>4 DEF PlayInv

LEMMA GamesInvKeeps ==
  ASSUME GamesInv, UNCHANGED vars
  PROVE  GamesInv'
BY DEF vars, loginVars, GamesInv, TypeOK, OneGameEach, ScoreIsRight

\* Steps the server has no part in.
LEMMA ClientSteps ==
  ASSUME PlayInv, UNCHANGED vars, NEW c \in Conns,
         NEW S \in Seq(Requests), NEW C \in Seq(Replies), NEW U \in QuickModeGame,
         toServer' = [toServer EXCEPT ![c] = S], toClient' = [toClient EXCEPT ![c] = C],
         ui' = [ui EXCEPT ![c] = U], ClientInv(S, C, U, GamesOf(who[c]))
  PROVE  PlayInv'
<1>1. GamesInv' /\ who' = who /\ games' = games
  BY GamesInvKeeps DEF PlayInv, vars, loginVars
<1>2. GamesAfter(c) = GamesOf(who[c])
  BY <1>1 DEF GamesAfter, GamesOf
<1> QED  BY <1>1, <1>2, OneClientSteps

-----------------------------------------------------------------------------
(* The server *)

LEMMA ErrorReply ==
  ASSUME NEW S, NEW C, NEW U, NEW G, ClientInv(S, C, U, G), NEW m, m = [kind |-> "error"]
  PROVE  Append(C, m) \in Seq(Replies) /\ ClientInv(S, Append(C, m), U, G)
<1>1. m.kind = "error" /\ m \in Replies
  BY DEF Replies
<1>2. C \in Seq(Replies)
  BY DEF ClientInv
<1> DEFINE D == Append(C, m)
           l == Len(C) + 1
<1>3. D \in Seq(Replies) /\ AddedAt(D, C, m, l)
  BY <1>1, <1>2, Added
<1>4. \A g \in G : ~IsTurnReply(m, g) /\ ~IsLifeline(m, g)
  BY <1>1 DEF IsTurnReply, IsLifeline
<1> HIDE DEF D, l
<1>5. ClientInv(S, D, U, G)
  BY <1>1, <1>3, <1>4, PlainReply
<1> QED  BY <1>3, <1>5 DEF D

\* The first request of c is handled, and with the requests R left behind it the
\* reply leaves the connection in order.
LEMMA ServerSteps ==
  ASSUME PlayInv, GamesInv', UNCHANGED <<who, ui>>, NEW c \in Conns,
         NEW R \in Seq(Requests), NEW C \in Seq(Replies),
         toServer' = [toServer EXCEPT ![c] = R], toClient' = [toClient EXCEPT ![c] = C],
         \A g : g.user # who[c] => (g \in games' <=> g \in games),
         ClientInv(R, C, ui[c], GamesAfter(c))
  PROVE  PlayInv'
<1>1. ui[c] \in QuickModeGame /\ ui' = [ui EXCEPT ![c] = ui[c]]
  BY SameFunction DEF PlayInv, ClientTypes
<1> QED  BY <1>1, OneClientSteps

LEMMA RefuseInOrder ==
  ASSUME PlayInv, NEW c \in Conns, NEW R, ClientInv(R, toClient[c], ui[c], GamesOf(who[c])),
         toServer' = [toServer EXCEPT ![c] = R], UNCHANGED ui, Refuse(c)
  PROVE  PlayInv'
<1> DEFINE m == [kind |-> "error"]
           C == toClient[c]
<1>1. R \in Seq(Requests) /\ C \in Seq(Replies) /\ m \in Replies
  BY DEF ClientInv, Replies
<1>2. Append(C, m) \in Seq(Replies) /\ ClientInv(R, Append(C, m), ui[c], GamesOf(who[c]))
  BY ErrorReply
<1>3. toClient' = [toClient EXCEPT ![c] = Append(C, m)]
  BY <1>1, OneAdded DEF Refuse, Reply
<1>4. ui[c] \in QuickModeGame /\ ui' = [ui EXCEPT ![c] = ui[c]]
  BY SameFunction DEF PlayInv, ClientTypes
<1>5. UNCHANGED vars
  BY DEF Refuse
<1> HIDE DEF m
<1> QED  BY <1>1, <1>2, <1>3, <1>4, <1>5, ClientSteps

LEMMA StartHandled ==
  ASSUME PlayInv, NEW c \in Conns, NEW R,
         ClientInv(R, toClient[c], ui[c], GamesOf(who[c])),
         GamesOf(who[c]) = {} => ui[c].session = NoGame /\ \A i \in DOMAIN R : IsStart(R[i]),
         toServer' = [toServer EXCEPT ![c] = R], UNCHANGED ui, HandleStart(c)
  PROVE  PlayInv'
<1>1. CASE ~CanStart(who[c])
  BY <1>1, RefuseInOrder DEF HandleStart
<1>2. CASE CanStart(who[c])
  <2>1. PICK id \in NewIds : Start(c, id) /\ Reply(c, <<[kind |-> "started", id |-> id]>>)
    BY <1>2 DEF HandleStart
  <2> DEFINE g == NewSession(who[c], id)
             m == [kind |-> "started", id |-> id]
             C == toClient[c]
             D == Append(C, m)
             l == Len(C) + 1
  <2>2. id \in 1..MaxStarts
    <3>1. started \in Nat /\ started < MaxStarts /\ MaxStarts \in Nat
      BY <2>1, QuickModeAssumption DEF PlayInv, GamesInv, TypeOK, Start
    <3>2. started + 1 \in 1..MaxStarts
      BY <3>1
    <3>3. \A h \in games : h.id \in 1..MaxStarts
      BY DEF PlayInv, GamesInv, TypeOK, QuickModeSession
    <3> QED  BY <2>1, <3>2, <3>3 DEF NewIds
  <2>3. GamesInv'
    BY <2>1, <2>2, StartInOrder DEF PlayInv
  <2>4. g \in QuickModeSession /\ g.id = id /\ g.user = who[c]
        /\ g.round = 0 /\ g.used = 0 /\ g.answered = {}
    <3>1. who[c] \in Users /\ TypeOK /\ started < MaxStarts
      BY <2>1 DEF PlayInv, GamesInv, OneConnectionEach, Start
    <3> QED  BY <2>2, <3>1, NewSessionType DEF NewSession
  <2>5. m \in Replies /\ m.kind = "started" /\ m.id = g.id
    BY <2>2, <2>4 DEF Replies, Ids
  <2>6. C \in Seq(Replies) /\ R \in Seq(Requests) /\ ClientInv(R, C, ui[c], {})
    BY <1>2 DEF ClientInv, CanStart
  <2>7. D \in Seq(Replies) /\ AddedAt(D, C, m, l) /\ C \o <<m>> = D
    BY <2>5, <2>6, Added, OneAdded
  <2>8. toClient' = [toClient EXCEPT ![c] = D]
    BY <2>1, <2>7 DEF Reply
  <2>9. GamesAfter(c) = {g} /\ \A h : h.user # who[c] => (h \in games' <=> h \in games)
    <3>1. games' = games \cup {g} /\ \A h \in games : h.user # who[c]
      BY <1>2, <2>1 DEF Start, CanStart, GamesOf
    <3> HIDE DEF g
    <3> QED  BY <2>4, <3>1 DEF GamesAfter
  <2>10. UNCHANGED who
    BY <2>1 DEF Start, loginVars
  <2>11. ui[c].session = NoGame /\ \A i \in DOMAIN R : IsStart(R[i])
    BY <1>2 DEF CanStart
  <2> HIDE DEF g, m, C, D, l
  <2>12. ClientInv(R, D, ui[c], {g})
    BY <2>4, <2>5, <2>6, <2>7, <2>11, StartedReply
  <2> QED  BY <2>3, <2>6, <2>7, <2>8, <2>9, <2>10, <2>12, ServerSteps
<1> QED  BY <1>1, <1>2

\* The turn reaches the server.
LEMMA TurnArrives ==
  ASSUME NEW S, NEW C, NEW U, NEW G, ClientInv(S, C, U, G), NEW g \in G,
         NEW R \in Seq(Requests), NEW n, LeftOf(R, S, n), IsTurn(S[1], g)
  PROVE  /\ ClientInv(R, C, U, G) /\ StartsAtEnd(R)
         /\ \A i \in DOMAIN R : ~IsTurn(R[i], g)
         /\ \A i \in DOMAIN C : C[i].kind # "started"
         /\ S[1].round = g.round + 1
         /\ U.session = g.id => /\ ~U.next /\ ~CanPick(U) /\ U.round = g.round + 1
                                /\ \A i \in DOMAIN C : ~IsTurnReply(C[i], g)
<1>1. 1 \in DOMAIN S /\ ~IsStart(S[1])
  BY DEF LeftOf, IsTurn, IsStart
<1>2. /\ ClientInv(R, C, U, G) /\ StartsAtEnd(R)
      /\ \A i \in DOMAIN R : ~IsTurn(R[i], g)
      /\ \A i \in DOMAIN C : C[i].kind # "started"
  BY <1>1, RequestsGone
<1>3. TurnAsked(S, g) /\ (U.session = g.id => OneTurn(S, C, U, g))
  BY DEF ClientInv, OnScreen
<1>4. S[1].round = g.round + 1
  BY <1>1, <1>3 DEF TurnAsked
<1>5. U.session = g.id => /\ ~U.next /\ ~CanPick(U) /\ U.round = g.round + 1
                          /\ \A i \in DOMAIN C : ~IsTurnReply(C[i], g)
  BY <1>1, <1>3 DEF OneTurn
<1> QED  BY <1>2, <1>4, <1>5

LEMMA QuestionHandled ==
  ASSUME PlayInv, NEW c \in Conns, NEW R \in Seq(Requests), NEW n, LeftOf(R, toServer[c], n),
         toServer' = [toServer EXCEPT ![c] = R], UNCHANGED ui,
         NEW m, m = toServer[c][1], m.kind = "question", HandleQuestion(c, m)
  PROVE  PlayInv'
<1> DEFINE S == toServer[c]
           C == toClient[c]
           U == ui[c]
           G == GamesOf(who[c])
<1>0. ClientInv(S, C, U, G)
  BY DEF PlayInv, InOrder
<1>1. CASE ~(\E g \in Found(m.id, who[c]) : m.round <= g.round + 1)
  <2>1. ClientInv(R, C, U, G)
    BY <1>0, RequestsGone
  <2>2. Refuse(c)
    BY <1>1 DEF HandleQuestion
  <2> QED  BY <2>1, <2>2, RefuseInOrder
<1>2. CASE \E g \in Found(m.id, who[c]) : m.round <= g.round + 1
  <2>1. PICK g \in G : g.id = m.id
    BY <1>2 DEF Found, GamesOf
  <2> DEFINE r == [kind |-> "question", id |-> m.id, round |-> m.round]
             D == Append(C, r)
             l == Len(C) + 1
  <2>2. IsTurn(S[1], g)
    BY <2>1 DEF IsTurn
  <2>3. /\ ClientInv(R, C, U, G) /\ StartsAtEnd(R)
        /\ \A i \in DOMAIN R : ~IsTurn(R[i], g)
        /\ \A i \in DOMAIN C : C[i].kind # "started"
        /\ m.round = g.round + 1
        /\ U.session = g.id => /\ ~U.next /\ ~CanPick(U) /\ U.round = g.round + 1
                               /\ \A i \in DOMAIN C : ~IsTurnReply(C[i], g)
    <3> HIDE DEF S, C, U, G
    <3>1. m = S[1]
      BY DEF S
    <3>2. LeftOf(R, S, n)
      BY DEF S
    <3> QED  BY <1>0, <2>2, <3>1, <3>2, TurnArrives
  <2>4. g \in QuickModeSession /\ GameInv(g) /\ G = {g}
    BY <1>0 DEF ClientInv
  <2>5. r \in Replies /\ r.id = g.id /\ r.kind = "question" /\ r.round = g.round + 1
    <3>1. m.id \in Ids /\ m.round \in Nat
      BY <2>1, <2>3, <2>4, QuickModeAssumption DEF QuickModeSession, Ids
    <3> QED  BY <2>1, <2>3, <3>1 DEF Replies
  <2>6. C \in Seq(Replies)
    BY <1>0 DEF ClientInv
  <2>7. D \in Seq(Replies) /\ AddedAt(D, C, r, l) /\ C \o <<r>> = D
    BY <2>5, <2>6, Added, OneAdded
  <2>8. UNCHANGED vars /\ toClient' = [toClient EXCEPT ![c] = D]
    BY <1>2, <2>7 DEF HandleQuestion, Reply
  <2>9. U \in QuickModeGame /\ ui' = [ui EXCEPT ![c] = U]
    BY SameFunction DEF PlayInv, ClientTypes
  <2>10. ClientInv(R, D, U, {g})
    <3> HIDE DEF S, C, U, G, D, r, l
    <3>1. r.kind \in {"question", "result"} /\ r.kind # "result"
      BY <2>5
    <3> QED  BY <2>3, <2>4, <2>5, <2>7, <3>1, TurnReply
  <2> HIDE DEF D, r, l
  <2> QED  BY <2>4, <2>7, <2>8, <2>9, <2>10, ClientSteps
<1> QED  BY <1>1, <1>2

\* The replies to an answer that ends its game.
LEMMA OverReplies ==
  ASSUME NEW R, NEW C, NEW U, ClientInv(R, C, U, {}),
         \A i \in DOMAIN C : C[i].kind # "started",
         NEW m \in Replies, m.kind = "result", NEW k \in Replies, k.kind = "over"
  PROVE  /\ Append(Append(C, m), k) \in Seq(Replies)
         /\ ClientInv(R, Append(Append(C, m), k), U, {})
         /\ C \o (<<m>> \o <<k>>) = Append(Append(C, m), k)
<1> DEFINE D == Append(C, m)
           E == Append(D, k)
           l == Len(C) + 1
           p == Len(D) + 1
<1>1. C \in Seq(Replies)
  BY DEF ClientInv
<1>2. D \in Seq(Replies) /\ AddedAt(D, C, m, l)
  BY <1>1, Added
<1> HIDE DEF D
<1>3. E \in Seq(Replies) /\ AddedAt(E, D, k, p)
  BY <1>2, Added
<1> HIDE DEF E, l, p
<1>4. ClientInv(R, D, U, {})
  BY <1>2, PlainReply
<1>5. \A i \in DOMAIN D : D[i].kind # "started"
  BY <1>2 DEF AddedAt
<1>6. ClientInv(R, E, U, {})
  BY <1>3, <1>4, <1>5, PlainReply
<1>7. C \o (<<m>> \o <<k>>) = Append(Append(C, m), k)
  BY <1>1, TwoAdded
<1> QED  BY <1>3, <1>6, <1>7 DEF D, E

\* A game that goes on after an answer to the round whose turn it was.
LEMMA NextRound ==
  ASSUME NEW g \in QuickModeSession, GameInv(g), g.round + 1 # Rounds,
         NEW h, h = Answered(g, g.round + 1, TRUE)
  PROVE  /\ h.id = g.id /\ h.used = g.used /\ h.round = g.round + 1 /\ h.user = g.user
         /\ GameInv(h)
<1>1. g.round \in Nat /\ g.round < Rounds /\ Rounds \in Nat /\ g.answered = 1..g.round
  BY QuickModeAssumption DEF QuickModeSession, GameInv
<1>2. h = [g EXCEPT !.answered = @ \cup {g.round + 1}, !.score = @ + 1, !.round = g.round + 1]
  BY DEF Answered
<1>3. /\ h.id = g.id /\ h.used = g.used /\ h.round = g.round + 1 /\ h.user = g.user
      /\ h.answered = g.answered \cup {g.round + 1}
  BY <1>2 DEF QuickModeSession
<1>4. h.answered = 1..h.round
  <2>1. \A n \in Nat : (1..n) \cup {n + 1} = 1..(n + 1)
    OBVIOUS
  <2> QED  BY <1>1, <1>3, <2>1
<1>5. h.round < Rounds
  <2>1. g.round + 1 < Rounds
    BY <1>1
  <2> QED  BY <1>3, <2>1
<1> QED  BY <1>3, <1>4, <1>5 DEF GameInv

LEMMA AnswerHandled ==
  ASSUME PlayInv, NEW c \in Conns, NEW R \in Seq(Requests), NEW n, LeftOf(R, toServer[c], n),
         toServer' = [toServer EXCEPT ![c] = R], UNCHANGED ui,
         NEW m, m = toServer[c][1], m.kind = "answer", HandleAnswer(c, m)
  PROVE  PlayInv'
<1> DEFINE S == toServer[c]
           C == toClient[c]
           U == ui[c]
           G == GamesOf(who[c])
           right == m.option = RightOption
           over == GameOver(m.round, right)
           r == [kind |-> "result", id |-> m.id, right |-> right, over |-> over]
           k == [kind |-> "over", id |-> m.id, win |-> right]
<1>0. ClientInv(S, C, U, G)
  BY DEF PlayInv, InOrder
<1>1. CASE ~(\E g \in Found(m.id, who[c]) : CanAnswer(g, m.round))
  <2>1. ClientInv(R, C, U, G)
    BY <1>0, RequestsGone
  <2>2. Refuse(c)
    BY <1>1 DEF HandleAnswer
  <2> QED  BY <2>1, <2>2, RefuseInOrder
<1>2. CASE \E g \in Found(m.id, who[c]) : CanAnswer(g, m.round)
  <2>1. /\ SubmitAnswer(c, m.id, m.round, right)
        /\ Reply(c, <<r>> \o IF over THEN <<k>> ELSE << >>)
    BY <1>2 DEF HandleAnswer
  <2>2. right \in BOOLEAN /\ over \in BOOLEAN
    BY DEF GameOver
  <2> HIDE DEF right, over
  <2>3. PICK g \in Found(m.id, who[c]) :
          IF over THEN games' = games \ {g} /\ Counted(g.user, right)
                  ELSE games' = Replaced(g, Answered(g, m.round, right)) /\ UNCHANGED stats
    BY <2>1 DEF SubmitAnswer, over
  <2>4. g \in G /\ g \in games /\ g.user = who[c] /\ g.id = m.id
    BY DEF Found, GamesOf
  <2>5. /\ ClientInv(R, C, U, G) /\ StartsAtEnd(R)
        /\ \A i \in DOMAIN R : ~IsTurn(R[i], g)
        /\ \A i \in DOMAIN C : C[i].kind # "started"
        /\ m.round = g.round + 1
        /\ U.session = g.id => /\ ~U.next /\ ~CanPick(U) /\ U.round = g.round + 1
                               /\ \A i \in DOMAIN C : ~IsTurnReply(C[i], g)
    <3>1. IsTurn(m, g)
      BY <2>4 DEF IsTurn
    <3> HIDE DEF S, C, U, G
    <3>2. m = S[1]
      BY DEF S
    <3>3. LeftOf(R, S, n)
      BY DEF S
    <3> QED  BY <1>0, <2>4, <3>1, <3>2, <3>3, TurnArrives
  <2>6. g \in QuickModeSession /\ GameInv(g) /\ G = {g}
    BY <1>0, <2>4 DEF ClientInv
  <2>7. m.id \in Ids /\ m.round \in 1..Rounds
    BY <2>4, <2>5, <2>6, QuickModeAssumption DEF QuickModeSession, Ids, GameInv
  <2>8. GamesInv'
    BY <2>1, <2>2, <2>7, SubmitAnswerInOrder DEF PlayInv, Ids
  <2>9. UNCHANGED who
    BY <2>1 DEF SubmitAnswer, loginVars
  <2>10. r \in Replies /\ r.kind = "result" /\ r.id = g.id /\ r.right = right /\ r.over = over
    BY <2>2, <2>4, <2>7 DEF Replies
  <2>11. k \in Replies /\ k.kind = "over"
    BY <2>2, <2>7 DEF Replies
  <2>12. C \in Seq(Replies) /\ Reply(c, <<r>> \o IF over THEN <<k>> ELSE << >>)
    BY <1>0, <2>1 DEF ClientInv
  <2> HIDE DEF r, k
  <2>13. CASE over
    <3> DEFINE D == Append(Append(C, r), k)
    <3>1. games' = games \ {g}
      BY <2>3, <2>13
    <3>2. GamesAfter(c) = {} /\ \A h : h.user # who[c] => (h \in games' <=> h \in games)
      BY <2>4, <2>6, <3>1 DEF GamesAfter, GamesOf
    <3>3. ClientInv(R, C, U, {})
      BY <2>5, GameGone
    <3>4. D \in Seq(Replies) /\ ClientInv(R, D, U, {}) /\ C \o (<<r>> \o <<k>>) = D
      BY <2>5, <2>10, <2>11, <3>3, OverReplies
    <3>5. toClient' = [toClient EXCEPT ![c] = D]
      BY <2>12, <2>13, <3>4 DEF Reply
    <3> HIDE DEF D
    <3> QED  BY <2>8, <2>9, <3>2, <3>4, <3>5, ServerSteps
  <2>14. CASE ~over
    <3> DEFINE h == Answered(g, g.round + 1, TRUE)
               D == Append(C, r)
               l == Len(C) + 1
    <3>1. right = TRUE /\ m.round # Rounds
      BY <2>2, <2>14 DEF over, GameOver
    <3>2. games' = Replaced(g, h)
      BY <2>3, <2>5, <2>14, <3>1
    <3> HIDE DEF h
    <3>3. /\ h.id = g.id /\ h.used = g.used /\ h.round = g.round + 1 /\ h.user = g.user
          /\ GameInv(h)
      BY <2>5, <2>6, <3>1, NextRound DEF h
    <3>4. h \in QuickModeSession
      BY <2>8, <3>2 DEF GamesInv, TypeOK, Replaced
    <3>5. GamesAfter(c) = {h} /\ \A x : x.user # who[c] => (x \in games' <=> x \in games)
      BY <2>4, <2>6, <3>2, <3>3 DEF GamesAfter, GamesOf, Replaced
    <3>6. D \in Seq(Replies) /\ AddedAt(D, C, r, l) /\ C \o (<<r>> \o << >>) = D
      BY <2>10, <2>12, Added, OneAdded
    <3>7. toClient' = [toClient EXCEPT ![c] = D]
      BY <2>12, <2>14, <3>6 DEF Reply
    <3> HIDE DEF D, l
    <3>8. ClientInv(R, D, U, {h})
      <4>1. r.kind \in {"question", "result"} /\ r.kind # "question"
        BY <2>10
      <4> HIDE DEF S, C, U, G
      <4> QED  BY <2>4, <2>5, <2>10, <3>3, <3>4, <3>6, <4>1, TurnReply
    <3> QED  BY <2>8, <2>9, <3>5, <3>6, <3>7, <3>8, ServerSteps
  <2> QED  BY <2>13, <2>14
<1> QED  BY <1>1, <1>2

LEMMA LifelineHandled ==
  ASSUME PlayInv, NEW c \in Conns, NEW R \in Seq(Requests), NEW n, LeftOf(R, toServer[c], n),
         toServer' = [toServer EXCEPT ![c] = R], UNCHANGED ui,
         NEW m, m = toServer[c][1], m.kind = "lifeline", HandleLifeline(c, m)
  PROVE  PlayInv'
<1> DEFINE S == toServer[c]
           C == toClient[c]
           U == ui[c]
           G == GamesOf(who[c])
<1>0. ClientInv(S, C, U, G)
  BY DEF PlayInv, InOrder
<1>1. /\ ClientInv(R, C, U, G) /\ StartsAtEnd(R)
      /\ \A i \in DOMAIN C : C[i].kind # "started"
  <2>1. ~IsStart(S[1])
    BY DEF IsStart
  <2>2. LeftOf(R, S, n)
    OBVIOUS
  <2> HIDE DEF S, C, U, G
  <2> QED  BY <1>0, <2>1, <2>2, RequestsGone
<1>2. CASE ~(\E g \in Found(m.id, who[c]) : CanUseLifeline(g, m.round))
  <2>1. Refuse(c)
    BY <1>2 DEF HandleLifeline
  <2> QED  BY <1>1, <2>1, RefuseInOrder
<1>3. CASE \E g \in Found(m.id, who[c]) : CanUseLifeline(g, m.round)
  <2>1. UseLifeline(c, m.id, m.round)
    BY <1>3 DEF HandleLifeline
  <2>2. PICK g \in Found(m.id, who[c]) :
          CanUseLifeline(g, m.round) /\ games' = Replaced(g, [g EXCEPT !.used = @ + 1])
    BY <2>1 DEF UseLifeline
  <2>3. g \in G /\ g \in games /\ g.user = who[c] /\ g.id = m.id
    BY DEF Found, GamesOf
  <2>4. \A h \in Found(m.id, who[c]) : h = g
    BY <1>0, <2>3 DEF ClientInv, Found, GamesOf
  <2>5. PICK kept \in WrongOptions :
          Reply(c, <<[kind |-> "lifeline", id |-> m.id, removed |-> WrongOptions \ {kept},
                      left |-> MaxLifelines - g.used - 1]>>)
    BY <1>3, <2>4 DEF HandleLifeline
  <2> DEFINE h == [g EXCEPT !.used = @ + 1]
             r == [kind |-> "lifeline", id |-> m.id, removed |-> WrongOptions \ {kept},
                   left |-> MaxLifelines - g.used - 1]
             D == Append(C, r)
             l == Len(C) + 1
  <2>6. g \in QuickModeSession /\ GameInv(g) /\ G = {g}
    BY <1>0, <2>3 DEF ClientInv
  <2>7. /\ h.id = g.id /\ h.round = g.round /\ h.answered = g.answered
        /\ h.used = g.used + 1 /\ h.user = g.user
    BY <2>6 DEF QuickModeSession
  <2>8. GamesInv'
    <3>1. m.id \in 1..MaxStarts
      BY <2>3, <2>6 DEF QuickModeSession
    <3> QED  BY <2>1, <3>1, UseLifelineInOrder DEF PlayInv
  <2>9. games' = Replaced(g, h) /\ UNCHANGED who
    BY <2>1, <2>2 DEF UseLifeline, loginVars
  <2>10. h \in QuickModeSession
    BY <2>8, <2>9 DEF GamesInv, TypeOK, Replaced
  <2>11. r \in Replies /\ r.kind = "lifeline" /\ r.id = g.id /\ r.left = MaxLifelines - g.used - 1
    <3>1. m.id \in Ids /\ MaxLifelines - g.used - 1 \in 0..MaxLifelines
      BY <2>2, <2>3, <2>6, QuickModeAssumption DEF QuickModeSession, Ids, CanUseLifeline
    <3>2. WrongOptions \ {kept} \in SUBSET Options
      BY DEF WrongOptions
    <3> QED  BY <2>3, <3>1, <3>2 DEF Replies
  <2>12. C \in Seq(Replies)
    BY <1>0 DEF ClientInv
  <2>13. D \in Seq(Replies) /\ AddedAt(D, C, r, l) /\ C \o <<r>> = D
    BY <2>11, <2>12, Added, OneAdded
  <2>14. toClient' = [toClient EXCEPT ![c] = D]
    BY <2>5, <2>13 DEF Reply
  <2> HIDE DEF h, D, r, l
  <2>15. GamesAfter(c) = {h} /\ \A x : x.user # who[c] => (x \in games' <=> x \in games)
    BY <2>3, <2>6, <2>7, <2>9 DEF GamesAfter, GamesOf, Replaced
  <2>16. ClientInv(R, D, U, {h})
    <3> HIDE DEF S, C, U, G
    <3> QED  BY <1>1, <2>3, <2>7, <2>10, <2>11, <2>13, LifelineReply
  <2> QED  BY <2>8, <2>9, <2>13, <2>14, <2>15, <2>16, ServerSteps
<1> QED  BY <1>2, <1>3

LEMMA ServerReadsInOrder ==
  ASSUME PlayInv, NEW c \in Conns, ServerReads(c)
  PROVE  PlayInv'
<1> DEFINE S == toServer[c]
           G == GamesOf(who[c])
<1>1. PICK n \in 1..Len(S) :
        /\ Handle(c, S[1])
        /\ toServer' = [toServer EXCEPT ![c] = SubSeq(@, n + 1, Len(@))]
        /\ UNCHANGED ui
  BY DEF ServerReads
<1> DEFINE R == SubSeq(S, n + 1, Len(S))
<1>2. ClientInv(S, toClient[c], ui[c], G) /\ S \in Seq(Requests)
  BY DEF PlayInv, InOrder, ClientInv
<1>3. toServer' = [toServer EXCEPT ![c] = R]
  BY <1>1
<1>4. R \in Seq(Requests) /\ LeftOf(R, S, n)
  BY <1>2, Dropped
<1> HIDE DEF R
<1>5. CASE S[1].kind = "start" /\ HandleStart(c)
  <2>1. /\ ClientInv(R, toClient[c], ui[c], G)
        /\ G = {} => ui[c].session = NoGame /\ \A i \in DOMAIN R : IsStart(R[i])
    BY <1>2, <1>4, <1>5, RequestsGone DEF IsStart
  <2> QED  BY <1>1, <1>3, <1>5, <2>1, StartHandled
<1>6. CASE S[1].kind = "question" /\ HandleQuestion(c, S[1])
  BY <1>1, <1>3, <1>4, <1>6, QuestionHandled
<1>7. CASE S[1].kind = "answer" /\ HandleAnswer(c, S[1])
  BY <1>1, <1>3, <1>4, <1>7, AnswerHandled
<1>8. CASE S[1].kind = "lifeline" /\ HandleLifeline(c, S[1])
  BY <1>1, <1>3, <1>4, <1>8, LifelineHandled
<1> QED  BY <1>1, <1>5, <1>6, <1>7, <1>8 DEF Handle

-----------------------------------------------------------------------------
(* The player, the screen and its timers *)

LEMMA ScreenWithGame ==
  ASSUME NEW U, U \in QuickModeGame, U.screen = "game", U.session # NoGame
  PROVE  ScreenInv(U)
BY DEF ScreenInv

\* A timer of the screen runs, or it shows a question: it has a game.
LEMMA BusyScreen ==
  ASSUME NEW U, ScreenInv(U), U.loaded \/ U.next \/ U.question \/ U.lose \/ U.answer
  PROVE  U.screen = "game" /\ U.session # NoGame
<1>1. U.session = NoGame => /\ ~U.next /\ ~U.loaded /\ ~U.question /\ ~U.lose /\ ~U.answer
  <2>1. U.screen \in Screens
    BY DEF ScreenInv, QuickModeGame
  <2> QED  BY <2>1, EmptyScreen DEF ScreenInv
<1> QED  BY <1>1 DEF ScreenInv

\* Only the screen changes.
LEMMA ScreenSteps ==
  ASSUME PlayInv, NEW c \in Conns, UNCHANGED <<vars, toServer, toClient>>, NEW U,
         Show(c, U), ClientInv(toServer[c], toClient[c], U, GamesOf(who[c]))
  PROVE  PlayInv'
<1>1. /\ toServer[c] \in Seq(Requests) /\ toServer' = [toServer EXCEPT ![c] = toServer[c]]
      /\ toClient[c] \in Seq(Replies) /\ toClient' = [toClient EXCEPT ![c] = toClient[c]]
  BY SameFunction DEF PlayInv, ClientTypes
<1>2. U \in QuickModeGame /\ ui' = [ui EXCEPT ![c] = U]
  BY DEF ClientInv, ScreenInv, Show
<1> QED  BY <1>1, <1>2, ClientSteps

\* The screen sends a request.
LEMMA RequestSteps ==
  ASSUME PlayInv, NEW c \in Conns, UNCHANGED <<vars, toClient>>, NEW U, Show(c, U),
         NEW m \in Requests, Send(c, m),
         \A T \in Seq(Requests) : \A l : AddedAt(T, toServer[c], m, l) =>
           ClientInv(T, toClient[c], U, GamesOf(who[c]))
  PROVE  PlayInv'
<1> DEFINE T == Append(toServer[c], m)
           l == Len(toServer[c]) + 1
<1>1. toServer[c] \in Seq(Requests)
  BY DEF PlayInv, ClientTypes
<1>2. T \in Seq(Requests) /\ AddedAt(T, toServer[c], m, l)
  BY <1>1, Added
<1>3. toServer' = [toServer EXCEPT ![c] = T]
  BY DEF Send
<1> HIDE DEF T, l
<1>4. ClientInv(T, toClient[c], U, GamesOf(who[c]))
  BY <1>2
<1>5. toClient[c] \in Seq(Replies) /\ toClient' = [toClient EXCEPT ![c] = toClient[c]]
  BY SameFunction DEF PlayInv, ClientTypes
<1>6. U \in QuickModeGame /\ ui' = [ui EXCEPT ![c] = U]
  BY <1>4 DEF ClientInv, ScreenInv, Show
<1> QED  BY <1>2, <1>3, <1>4, <1>5, <1>6, ClientSteps

LEMMA LeaveInOrder ==
  ASSUME PlayInv, NEW c \in Conns, NEW x \in Screens,
         UNCHANGED <<vars, toServer, toClient>>, Show(c, Screen(x))
  PROVE  PlayInv'
<1>1. ClientInv(toServer[c], toClient[c], Screen(x), GamesOf(who[c]))
  BY ScreenLeft DEF PlayInv, InOrder
<1> QED  BY <1>1, ScreenSteps

LEMMA OpenGameInOrder ==
  ASSUME PlayInv, NEW c \in Conns, OpenGame(c)
  PROVE  PlayInv'
<1>1. FreshGame = Screen("game") /\ "game" \in Screens
  <2>1. FreshGame \in QuickModeGame /\ FreshGame.screen = "game"
    BY FreshGameType DEF FreshGame
  <2>2. \A f \in QuickModeGame : f = [f EXCEPT !.screen = f.screen]
    BY DEF QuickModeGame
  <2>3. FreshGame = [FreshGame EXCEPT !.screen = "game"]
    BY <2>1, <2>2
  <2> QED  BY <2>3 DEF Screen, Screens
<1>2. /\ ClientInv(toServer[c], toClient[c], FreshGame, GamesOf(who[c]))
      /\ FreshGame.session = NoGame
  BY <1>1, ScreenLeft, EmptyScreen DEF PlayInv, InOrder
<1>3. StartRequest \in Requests /\ IsStart(StartRequest)
  BY DEF StartRequest, Requests, IsStart
<1>4. \A T \in Seq(Requests) : \A l : AddedAt(T, toServer[c], StartRequest, l) =>
        ClientInv(T, toClient[c], FreshGame, GamesOf(who[c]))
  BY <1>2, <1>3, StartRequested
<1> QED  BY <1>3, <1>4, RequestSteps DEF OpenGame

LEMMA PickOptionInOrder ==
  ASSUME PlayInv, NEW c \in Conns, NEW option \in Options, PickOption(c, option)
  PROVE  PlayInv'
<1> DEFINE U == ui[c]
           V == [U EXCEPT !.submitted = TRUE, !.waiting = TRUE, !.question = FALSE,
                          !.answer = TRUE]
           m == AnswerRequest(U.session, U.round, option)
           G == GamesOf(who[c])
<1>1. ClientInv(toServer[c], toClient[c], U, G) /\ U \in QuickModeGame
  BY DEF PlayInv, InOrder, ClientInv, ScreenInv
<1>2. CanPick(U) /\ U.screen = "game" /\ U.session # NoGame
  BY DEF PickOption, Playing, Enabled, CanPick
<1>3. /\ V \in QuickModeGame /\ V.session = U.session /\ V.lifelines = U.lifelines
      /\ V.round = U.round /\ V.next = U.next /\ V.submitted = TRUE /\ V.screen = U.screen
  BY <1>1 DEF QuickModeGame
<1>4. /\ m \in Requests /\ m.kind = "answer" /\ m.id = U.session /\ m.round = U.round
  <2>1. U.session \in Ids /\ U.round \in Nat
    BY <1>1, <1>2, QuickModeAssumption DEF QuickModeGame, Ids, NoGame
  <2> QED  BY <2>1 DEF Requests, AnswerRequest
<1>5. Show(c, V) /\ Send(c, m) /\ UNCHANGED <<vars, toClient>>
  BY DEF PickOption
<1> HIDE DEF V, m, U
<1>6. ScreenInv(V) /\ ~CanPick(V)
  BY <1>2, <1>3, ScreenWithGame DEF CanPick
<1>7. m.kind \in {"question", "answer"} /\ m.round = V.round
  BY <1>3, <1>4
<1>8. \A T \in Seq(Requests) : \A l : AddedAt(T, toServer[c], m, l) =>
        ClientInv(T, toClient[c], V, G)
  BY <1>1, <1>2, <1>3, <1>4, <1>6, <1>7, TurnRequested
<1> QED  BY <1>4, <1>5, <1>8, RequestSteps

LEMMA ClickLifelineInOrder ==
  ASSUME PlayInv, NEW c \in Conns, ClickLifeline(c)
  PROVE  PlayInv'
<1> DEFINE U == ui[c]
           m == LifelineRequest(U.session, U.round)
           G == GamesOf(who[c])
<1>1. ClientInv(toServer[c], toClient[c], U, G) /\ U \in QuickModeGame
  BY DEF PlayInv, InOrder, ClientInv, ScreenInv
<1>2. U.loaded /\ U.session # NoGame
  BY DEF ClickLifeline, Playing, Enabled
<1>3. m \in Requests /\ m.kind = "lifeline"
  <2>1. U.session \in Ids /\ U.round \in Nat
    BY <1>1, <1>2, QuickModeAssumption DEF QuickModeGame, Ids, NoGame
  <2> QED  BY <2>1 DEF Requests, LifelineRequest
<1>4. Show(c, U) /\ Send(c, m) /\ UNCHANGED <<vars, toClient>>
  BY SameFunction DEF ClickLifeline, Show, PlayInv, ClientTypes
<1> HIDE DEF m, U
<1>5. \A T \in Seq(Requests) : \A l : AddedAt(T, toServer[c], m, l) =>
        ClientInv(T, toClient[c], U, G)
  BY <1>1, <1>2, <1>3, LifelineRequested
<1> QED  BY <1>3, <1>4, <1>5, RequestSteps

LEMMA NextQuestionInOrder ==
  ASSUME PlayInv, NEW c \in Conns, NextQuestionDue(c)
  PROVE  PlayInv'
<1> DEFINE U == ui[c]
           N == [U EXCEPT !.next = FALSE]
           V == [N EXCEPT !.round = @ + 1, !.loaded = FALSE, !.removed = {},
                          !.waiting = FALSE, !.submitted = FALSE]
           m == QuestionRequest(N.session, N.round + 1)
           G == GamesOf(who[c])
<1>1. ClientInv(toServer[c], toClient[c], U, G) /\ U \in QuickModeGame /\ ScreenInv(U)
  BY DEF PlayInv, InOrder, ClientInv, ScreenInv
<1>2. U.next /\ U.screen = "game" /\ U.session # NoGame
  BY <1>1, BusyScreen DEF NextQuestionDue
<1>3. /\ N \in QuickModeGame /\ N.session = U.session /\ N.lifelines = U.lifelines
      /\ N.round = U.round /\ N.next = FALSE /\ N.screen = U.screen
  BY <1>1 DEF QuickModeGame
<1>4. Show(c, V) /\ Send(c, m) /\ UNCHANGED <<vars, toClient>>
  BY DEF NextQuestionDue, RequestNextQuestion
<1> HIDE DEF N
<1>5. /\ V \in QuickModeGame /\ V.session = U.session /\ V.lifelines = U.lifelines
      /\ V.round = U.round + 1 /\ V.next = FALSE /\ V.screen = U.screen /\ V.loaded = FALSE
  <2>1. N.round + 1 \in Nat
    BY <1>3 DEF QuickModeGame
  <2> DEFINE k == N.round + 1
  <2>2. V = [N EXCEPT !.round = k, !.loaded = FALSE, !.removed = {},
                      !.waiting = FALSE, !.submitted = FALSE]
    OBVIOUS
  <2> HIDE DEF k, V
  <2>3. /\ V \in QuickModeGame /\ V.session = N.session /\ V.lifelines = N.lifelines
        /\ V.round = k /\ V.next = N.next /\ V.screen = N.screen /\ V.loaded = FALSE
    BY <1>3, <2>1, <2>2 DEF QuickModeGame, k
  <2> QED  BY <1>3, <2>3 DEF k
<1>6. m \in Requests /\ m.kind = "question" /\ m.id = U.session /\ m.round = U.round + 1
  <2>1. U.session \in Ids /\ U.round + 1 \in Nat
    BY <1>1, <1>2, QuickModeAssumption DEF QuickModeGame, Ids, NoGame
  <2> QED  BY <1>3, <2>1 DEF Requests, QuestionRequest
<1> HIDE DEF V, m, U
<1>7. ScreenInv(V) /\ ~CanPick(V)
  BY <1>2, <1>5, ScreenWithGame DEF CanPick
<1>8. m.kind \in {"question", "answer"} /\ m.round = V.round
  BY <1>5, <1>6
<1>9. \A T \in Seq(Requests) : \A l : AddedAt(T, toServer[c], m, l) =>
        ClientInv(T, toClient[c], V, G)
  BY <1>1, <1>2, <1>5, <1>6, <1>7, <1>8, TurnRequested
<1> QED  BY <1>4, <1>6, <1>9, RequestSteps

LEMMA NoReplyInOrder ==
  ASSUME PlayInv, NEW c \in Conns, NoReplyInTime(c)
  PROVE  PlayInv'
<1> DEFINE U == ui[c]
           V == [U EXCEPT !.answer = FALSE, !.waiting = FALSE]
           G == GamesOf(who[c])
<1>1. ClientInv(toServer[c], toClient[c], U, G) /\ U \in QuickModeGame /\ ScreenInv(U)
  BY DEF PlayInv, InOrder, ClientInv, ScreenInv
<1>2. U.screen = "game" /\ U.session # NoGame
  BY <1>1, BusyScreen DEF NoReplyInTime
<1>3. /\ V \in QuickModeGame /\ V.screen = U.screen /\ V.session = U.session
      /\ SameTurn(V, U) /\ V.lifelines = U.lifelines
  BY <1>1 DEF QuickModeGame, SameTurn
<1>4. Show(c, V) /\ UNCHANGED <<vars, toServer, toClient>>
  BY DEF NoReplyInTime
<1> HIDE DEF V, U
<1>5. ClientInv(toServer[c], toClient[c], V, G)
  BY <1>1, <1>2, <1>3, ScreenWithGame, SameTurnKeeps
<1> QED  BY <1>4, <1>5, ScreenSteps

-----------------------------------------------------------------------------
(* The screen reads the first reply *)

LEMMA ReadSteps ==
  ASSUME PlayInv, NEW c \in Conns, UNCHANGED vars,
         NEW D \in Seq(Replies), toClient' = [toClient EXCEPT ![c] = D],
         UNCHANGED toServer, NEW V, ui' = [ui EXCEPT ![c] = V],
         ClientInv(toServer[c], D, V, GamesOf(who[c]))
  PROVE  PlayInv'
<1>1. toServer[c] \in Seq(Requests) /\ toServer' = [toServer EXCEPT ![c] = toServer[c]]
  BY SameFunction DEF PlayInv, ClientTypes
<1>2. V \in QuickModeGame
  BY DEF ClientInv, ScreenInv
<1> QED  BY <1>1, <1>2, ClientSteps

\* Replies the screen ignores, and those that change nothing about its turn.
LEMMA UnchangedRead ==
  ASSUME NEW S, NEW C, NEW U, NEW G, ClientInv(S, C, U, G),
         NEW D \in Seq(Replies), LeftOf(D, C, 1),
         C[1].kind = "lifeline" => U.session = NoGame \/ C[1].id # U.session
  PROVE  ClientInv(S, D, U, G)
<1>1. \A g \in G : g.id # NoGame
  BY QuickModeAssumption DEF ClientInv, QuickModeSession, NoGame
<1>2. \A g \in G : U.session = g.id => ~IsLifeline(C[1], g)
  BY <1>1 DEF IsLifeline
<1>3. SameTurn(U, U) /\ ScreenInv(U)
  BY DEF SameTurn, ClientInv
<1> QED  BY <1>2, <1>3, PlainRead

LEMMA QuestionShown ==
  ASSUME NEW S, NEW C, NEW U, NEW G, ClientInv(S, C, U, G),
         NEW D \in Seq(Replies), LeftOf(D, C, 1), NEW m \in Replies, m = C[1],
         m.kind = "question", m.id = U.session, U.screen = "game",
         NEW V, V = [U EXCEPT !.waiting = FALSE, !.submitted = FALSE, !.question = TRUE,
                              !.removed = {}, !.loaded = TRUE, !.round = m.round]
  PROVE  ClientInv(S, D, V, G)
<1>1. m.id \in Ids /\ m.round \in Nat
  BY DEF Replies
<1>2. U.session # NoGame
  BY <1>1, QuickModeAssumption DEF Ids, NoGame
<1>3. U \in QuickModeGame
  BY DEF ClientInv, ScreenInv
<1>4. /\ V \in QuickModeGame /\ V.session = U.session /\ V.lifelines = U.lifelines
      /\ V.round = m.round /\ V.next = U.next /\ V.screen = U.screen
  BY <1>1, <1>3 DEF QuickModeGame
<1>5. ScreenInv(V)
  BY <1>2, <1>4, ScreenWithGame
<1>6. CASE \A g \in G : g.id # U.session
  BY <1>2, <1>4, <1>5, <1>6, StrayRead
<1>7. ASSUME NEW g \in G, g.id = U.session PROVE ClientInv(S, D, V, G)
  <2>1. IsTurnReply(C[1], g)
    BY <1>7 DEF IsTurnReply
  <2>2. ~U.next /\ m.round = g.round + 1
    BY <1>7, <2>1, TurnTaken
  <2>3. TurnShown(V, g)
    BY <1>4, <2>2 DEF TurnShown
  <2> QED  BY <1>4, <1>5, <1>7, <2>1, <2>3, TurnRead
<1> QED  BY <1>6, <1>7

LEMMA ResultShown ==
  ASSUME NEW S, NEW C, NEW U, NEW G, ClientInv(S, C, U, G),
         NEW D \in Seq(Replies), LeftOf(D, C, 1), NEW m \in Replies, m = C[1],
         m.kind = "result", m.id = U.session, U.screen = "game",
         NEW V, V = [U EXCEPT !.answer = FALSE, !.question = FALSE,
                              !.next = @ \/ (m.right /\ ~m.over), !.lose = @ \/ ~m.right]
  PROVE  ClientInv(S, D, V, G)
<1>1. m.id \in Ids /\ m.right \in BOOLEAN /\ m.over \in BOOLEAN
  BY DEF Replies
<1>2. U.session # NoGame
  BY <1>1, QuickModeAssumption DEF Ids, NoGame
<1>3. U \in QuickModeGame
  BY DEF ClientInv, ScreenInv
<1> DEFINE next == U.next \/ (m.right /\ ~m.over)
           lose == U.lose \/ ~m.right
<1>4. /\ V \in QuickModeGame /\ V.session = U.session /\ V.lifelines = U.lifelines
      /\ V.round = U.round /\ V.screen = U.screen /\ V.loaded = U.loaded
      /\ V.submitted = U.submitted /\ V.next = next
  <2>1. next \in BOOLEAN /\ lose \in BOOLEAN
    BY <1>1, <1>3 DEF QuickModeGame
  <2>2. V = [U EXCEPT !.answer = FALSE, !.question = FALSE, !.next = next, !.lose = lose]
    OBVIOUS
  <2> HIDE DEF next, lose
  <2> QED  BY <1>3, <2>1, <2>2 DEF QuickModeGame
<1>5. ScreenInv(V)
  BY <1>2, <1>4, ScreenWithGame
<1>6. CASE ~(m.right /\ ~m.over)
  <2>1. SameTurn(V, U)
    <3>1. U.next \in BOOLEAN
      BY <1>3 DEF QuickModeGame
    <3>2. V.next = U.next
      BY <1>4, <1>6, <3>1
    <3> QED  BY <1>4, <3>2 DEF SameTurn
  <2>2. \A g \in G : ~IsLifeline(C[1], g)
    BY DEF IsLifeline
  <2>3. \A g \in G : U.session = g.id =>
          V.lifelines = IF IsLifeline(C[1], g) THEN C[1].left ELSE U.lifelines
    BY <1>4, <2>2
  <2> QED  BY ONLY ClientInv(S, C, U, G), D \in Seq(Replies), LeftOf(D, C, 1), <1>5, <2>1, <2>3,
                   PlainRead
<1>7. CASE \A g \in G : g.id # U.session
  BY <1>2, <1>4, <1>5, <1>7, StrayRead
<1>8. ASSUME m.right, ~m.over, NEW g \in G, g.id = U.session PROVE ClientInv(S, D, V, G)
  <2>1. IsTurnReply(C[1], g)
    BY <1>8 DEF IsTurnReply
  <2>2. ~CanPick(U) /\ U.round = g.round
    BY <1>8, <2>1, TurnTaken
  <2>3. TurnShown(V, g)
    BY <1>4, <2>2 DEF TurnShown, CanPick
  <2> QED  BY <1>4, <1>5, <1>8, <2>1, <2>3, TurnRead
<1> QED  BY <1>6, <1>7, <1>8

LEMMA LifelineShown ==
  ASSUME NEW S, NEW C, NEW U, NEW G, ClientInv(S, C, U, G),
         NEW D \in Seq(Replies), LeftOf(D, C, 1), NEW m \in Replies, m = C[1],
         m.kind = "lifeline", m.id = U.session, U.screen = "game",
         NEW V, V = [U EXCEPT !.lifelines = m.left, !.removed = @ \cup m.removed]
  PROVE  ClientInv(S, D, V, G)
<1>1. m.id \in Ids /\ m.left \in 0..MaxLifelines /\ m.removed \in SUBSET Options
  BY DEF Replies
<1>2. U.session # NoGame
  BY <1>1, QuickModeAssumption DEF Ids, NoGame
<1>3. U \in QuickModeGame
  BY DEF ClientInv, ScreenInv
<1>4. /\ V \in QuickModeGame /\ V.lifelines = m.left /\ V.screen = U.screen
      /\ V.session = U.session /\ SameTurn(V, U)
  <2>1. U.removed \cup m.removed \in SUBSET Options
    BY <1>1, <1>3 DEF QuickModeGame
  <2> QED  BY <1>1, <1>3, <2>1 DEF QuickModeGame, SameTurn
<1>5. ScreenInv(V)
  BY <1>2, <1>4, ScreenWithGame
<1>6. \A g \in G : U.session = g.id => IsLifeline(C[1], g)
  BY DEF IsLifeline
<1>7. \A g \in G : U.session = g.id =>
        V.lifelines = IF IsLifeline(C[1], g) THEN C[1].left ELSE U.lifelines
  BY <1>4, <1>6
<1> QED  BY ONLY ClientInv(S, C, U, G), D \in Seq(Replies), LeftOf(D, C, 1), <1>4, <1>5, <1>7,
                 PlainRead

LEMMA ShowStartedInOrder ==
  ASSUME PlayInv, NEW c \in Conns, UNCHANGED vars,
         NEW D \in Seq(Replies), toClient' = [toClient EXCEPT ![c] = D],
         LeftOf(D, toClient[c], 1), NEW m \in Replies, m = toClient[c][1],
         m.kind = "started", ui[c].screen = "game", ShowStarted(c, m)
  PROVE  PlayInv'
<1> DEFINE U == ui[c]
           N == [U EXCEPT !.session = m.id, !.round = 0, !.lifelines = MaxLifelines]
           V == [N EXCEPT !.round = @ + 1, !.loaded = FALSE, !.removed = {},
                          !.waiting = FALSE, !.submitted = FALSE]
           q == QuestionRequest(N.session, N.round + 1)
           G == GamesOf(who[c])
           S == toServer[c]
           T == Append(S, q)
           l == Len(S) + 1
<1>1. /\ ClientInv(S, toClient[c], U, G) /\ U \in QuickModeGame /\ ScreenInv(U)
      /\ S \in Seq(Requests)
  BY DEF PlayInv, InOrder, ClientInv, ScreenInv
<1>2. m.id \in Ids
  BY DEF Replies
<1>3. U.next = FALSE
  <2>1. 1 \in DOMAIN toClient[c]
    BY DEF LeftOf
  <2>2. U.session = NoGame
    BY <1>1, <2>1 DEF ClientInv, StartedLast
  <2> QED  BY <1>1, <2>2, BusyScreen DEF QuickModeGame
<1>4. Show(c, V) /\ Send(c, q)
  BY DEF ShowStarted, RequestNextQuestion
<1>5. /\ N \in QuickModeGame /\ N.session = m.id /\ N.round = 0
      /\ N.lifelines = MaxLifelines /\ N.next = FALSE /\ N.screen = "game"
  <2>1. m.id \in 0..MaxStarts /\ MaxLifelines \in 0..MaxLifelines /\ 0 \in Nat
    BY <1>2, QuickModeAssumption DEF Ids
  <2> QED  BY <1>1, <1>3, <2>1 DEF QuickModeGame
<1> HIDE DEF N
<1>6. V = [N EXCEPT !.round = 1, !.loaded = FALSE, !.removed = {},
                    !.waiting = FALSE, !.submitted = FALSE]
  BY <1>5
<1> HIDE DEF V
<1>7. /\ V \in QuickModeGame /\ V.session = m.id /\ V.round = 1 /\ V.lifelines = MaxLifelines
      /\ V.next = FALSE /\ V.loaded = FALSE /\ V.screen = "game"
  BY <1>5, <1>6 DEF QuickModeGame
<1>8. ScreenInv(V)
  <2>1. V.session # NoGame
    BY <1>2, <1>7, QuickModeAssumption DEF Ids, NoGame
  <2> QED  BY <1>7, <2>1, ScreenWithGame
<1>9. q \in Requests /\ q.kind = "question" /\ q.id = m.id /\ q.round = 1
  <2>1. q = [kind |-> "question", id |-> m.id, round |-> 1]
    BY <1>5 DEF QuestionRequest
  <2> HIDE DEF q
  <2> QED  BY <1>2, <2>1 DEF Requests
<1> HIDE DEF q
<1>10. T \in Seq(Requests) /\ AddedAt(T, S, q, l)
  BY <1>1, <1>9, Added
<1>11. toServer' = [toServer EXCEPT ![c] = T] /\ ui' = [ui EXCEPT ![c] = V]
  BY <1>4 DEF Send, Show
<1> HIDE DEF T, l, S, U, G
<1>12. ClientInv(T, D, V, G)
  BY <1>1, <1>7, <1>8, <1>9, <1>10, StartedRead
<1> QED  BY <1>7, <1>10, <1>11, <1>12, ClientSteps DEF G

LEMMA ClientReadsInOrder ==
  ASSUME PlayInv, NEW c \in Conns, ClientReads(c)
  PROVE  PlayInv'
<1> DEFINE S == toServer[c]
           C == toClient[c]
           U == ui[c]
           D == Tail(C)
           m == Head(C)
           G == GamesOf(who[c])
<1>1. /\ C # << >> /\ UNCHANGED vars /\ toClient' = [toClient EXCEPT ![c] = D]
      /\ IF ~IsForScreen(c, m) THEN UNCHANGED <<ui, toServer>>
         ELSE \/ m.kind = "started" /\ ShowStarted(c, m)
              \/ /\ UNCHANGED toServer
                 /\ \/ m.kind = "question" /\ ShowQuestion(c, m)
                    \/ m.kind = "result" /\ ShowResult(c, m)
                    \/ m.kind = "over" /\ ShowOver(c, m)
                    \/ m.kind = "lifeline" /\ ShowLifeline(c, m)
  BY DEF ClientReads
<1>2. /\ ClientInv(S, C, U, G) /\ ScreenInv(U) /\ U \in QuickModeGame /\ C \in Seq(Replies)
  BY DEF PlayInv, InOrder, ClientInv, ScreenInv
<1>3. D \in Seq(Replies) /\ m = C[1] /\ LeftOf(D, C, 1)
  BY <1>1, <1>2, FirstDropped
<1> HIDE DEF D, m
<1>4. m \in Replies
  BY <1>2, <1>3, InQueue DEF LeftOf
<1>5. ui = [ui EXCEPT ![c] = U]
  BY SameFunction DEF PlayInv, ClientTypes
<1>6. CASE ~IsForScreen(c, m)
  <2>1. m.kind = "lifeline" => U.session = NoGame \/ m.id # U.session
    BY <1>2, <1>6 DEF IsForScreen, ScreenInv
  <2>2. ClientInv(S, D, U, G)
    BY <1>2, <1>3, <2>1, UnchangedRead
  <2> QED  BY <1>1, <1>3, <1>5, <1>6, <2>2, ReadSteps
<1>7. CASE IsForScreen(c, m) /\ m.kind = "started" /\ ShowStarted(c, m)
  BY <1>1, <1>3, <1>4, <1>7, ShowStartedInOrder DEF IsForScreen
<1>8. CASE IsForScreen(c, m) /\ UNCHANGED toServer /\ m.kind = "question" /\ ShowQuestion(c, m)
  <2> DEFINE V == [U EXCEPT !.waiting = FALSE, !.submitted = FALSE, !.question = TRUE,
                            !.removed = {}, !.loaded = TRUE, !.round = m.round]
  <2>1. ui' = [ui EXCEPT ![c] = V]
    BY <1>8 DEF ShowQuestion, Show
  <2>2. U.screen = "game" /\ m.id = U.session
    BY <1>8 DEF IsForScreen
  <2>3. ClientInv(S, D, V, G)
    BY <1>2, <1>3, <1>4, <1>8, <2>2, QuestionShown
  <2> HIDE DEF V
  <2> QED  BY <1>1, <1>3, <1>8, <2>1, <2>3, ReadSteps
<1>9. CASE IsForScreen(c, m) /\ UNCHANGED toServer /\ m.kind = "result" /\ ShowResult(c, m)
  <2> DEFINE V == [U EXCEPT !.answer = FALSE, !.question = FALSE,
                            !.next = @ \/ (m.right /\ ~m.over), !.lose = @ \/ ~m.right]
  <2>1. ui' = [ui EXCEPT ![c] = V]
    BY <1>9 DEF ShowResult, Show
  <2>2. U.screen = "game" /\ m.id = U.session
    BY <1>9 DEF IsForScreen
  <2>3. ClientInv(S, D, V, G)
    BY <1>2, <1>3, <1>4, <1>9, <2>2, ResultShown
  <2> HIDE DEF V
  <2> QED  BY <1>1, <1>3, <1>9, <2>1, <2>3, ReadSteps
<1>10. CASE IsForScreen(c, m) /\ UNCHANGED toServer /\ m.kind = "over" /\ ShowOver(c, m)
  <2>1. ClientInv(S, D, U, G)
    <3>1. C[1].kind # "lifeline"
      BY <1>3, <1>10
    <3> HIDE DEF S, C, U, G
    <3> QED  BY <1>2, <1>3, <3>1, UnchangedRead
  <2>2. CASE UNCHANGED ui
    BY <1>1, <1>3, <1>5, <1>10, <2>1, <2>2, ReadSteps
  <2>3. ASSUME NEW x \in Screens, Show(c, Screen(x)) PROVE PlayInv'
    <3>1. ClientInv(S, D, Screen(x), G)
      BY <2>1, ScreenLeft
    <3> QED  BY <1>1, <1>3, <1>10, <2>3, <3>1, ReadSteps DEF Show
  <2> QED  BY <1>10, <2>2, <2>3 DEF ShowOver, Screens
<1>11. CASE IsForScreen(c, m) /\ UNCHANGED toServer /\ m.kind = "lifeline" /\ ShowLifeline(c, m)
  <2> DEFINE V == [U EXCEPT !.lifelines = m.left, !.removed = @ \cup m.removed]
  <2>1. ui' = [ui EXCEPT ![c] = V]
    BY <1>11 DEF ShowLifeline, Show
  <2>2. U.screen = "game" /\ m.id = U.session
    BY <1>11 DEF IsForScreen
  <2>3. ClientInv(S, D, V, G)
    BY <1>2, <1>3, <1>4, <1>11, <2>2, LifelineShown
  <2> HIDE DEF V
  <2> QED  BY <1>1, <1>3, <1>11, <2>1, <2>3, ReadSteps
<1> QED  BY <1>1, <1>6, <1>7, <1>8, <1>9, <1>10, <1>11

-----------------------------------------------------------------------------
(* The theorems about the client *)

LEMMA ClientInitInOrder == ClientInit => PlayInv
<1> SUFFICES ASSUME ClientInit PROVE PlayInv
  OBVIOUS
<1>1. /\ games = {} /\ started = 0 /\ accepted = [c \in Conns |-> TRUE]
      /\ stats = [u \in Users |-> [games |-> 0, wins |-> 0]]
      /\ who \in [Conns -> Users] /\ \A c, d \in Conns : who[c] = who[d] => c = d
  BY DEF ClientInit
<1>2. GamesInv
  <2>1. \A c \in Conns : who[c] # NoUser
    BY <1>1, QuickModeAssumption DEF NoUser
  <2>2. TypeOK
    BY <1>1, QuickModeAssumption DEF TypeOK
  <2> QED  BY <1>1, <2>1, <2>2 DEF GamesInv, OneGameEach, ScoreIsRight
<1>3. OneConnectionEach /\ PlayersConnected
  BY <1>1 DEF OneConnectionEach, PlayersConnected
<1>4. "menu" \in Screens /\ ScreenInv(Screen("menu")) /\ Screen("menu").session = NoGame
  BY EmptyScreen DEF Screens
<1>5. ClientTypes
  <2>1. << >> \in Seq(Requests) /\ << >> \in Seq(Replies)
    OBVIOUS
  <2>2. Screen("menu") \in QuickModeGame
    BY <1>4 DEF ScreenInv
  <2> QED  BY <2>1, <2>2 DEF ClientInit, ClientTypes
<1>6. ASSUME NEW c \in Conns PROVE InOrder(c)
  <2> DEFINE U == Screen("menu")
             N == << >>
  <2>1. toServer[c] = N /\ toClient[c] = N /\ ui[c] = U /\ GamesOf(who[c]) = {}
    BY DEF ClientInit, GamesOf
  <2>2. N \in Seq(Requests) /\ N \in Seq(Replies) /\ DOMAIN N = {}
    OBVIOUS
  <2> HIDE DEF U, N
  <2>3. StartsFirst(N, {}) /\ StartedLast(N, N, U, {}) /\ StartsBeforeQuestion(N, U)
    BY <2>2 DEF StartsFirst, StartedLast, StartsBeforeQuestion
  <2>4. ClientInv(N, N, U, {})
    BY <1>4, <2>2, <2>3 DEF ClientInv, U
  <2> QED  BY <2>1, <2>4 DEF InOrder
<1> QED  BY <1>2, <1>3, <1>5, <1>6 DEF PlayInv

LEMMA ClientStepInOrder == PlayInv /\ [ClientNext]_allVars => PlayInv'
<1> SUFFICES ASSUME PlayInv, [ClientNext]_allVars PROVE PlayInv'
  OBVIOUS
<1>1. CASE UNCHANGED allVars
  <2>1. UNCHANGED vars /\ UNCHANGED <<who, ui, toServer, toClient, games>>
    BY <1>1 DEF allVars, clientVars, vars, loginVars
  <2>2. GamesInv'
    BY <2>1, GamesInvKeeps DEF PlayInv
  <2>3. ClientTypes' /\ OneConnectionEach' /\ PlayersConnected'
    BY <2>1 DEF PlayInv, ClientTypes, OneConnectionEach, PlayersConnected
  <2>4. \A c \in Conns : InOrder(c)'
    BY <2>1 DEF PlayInv, InOrder, GamesOf
  <2> QED  BY <2>2, <2>3, <2>4 DEF PlayInv
<1>2. ASSUME NEW c \in Conns, Player(c) PROVE PlayInv'
  <2>1. CASE LeaveScreen(c)
    BY <2>1, LeaveInOrder DEF LeaveScreen, Screens
  <2> QED
    BY <1>2, <2>1, OpenGameInOrder, PickOptionInOrder, ClickLifelineInOrder DEF Player
<1>3. ASSUME NEW c \in Conns, ScreenTimers(c) PROVE PlayInv'
  <2>1. CASE TimeExpires(c)
    BY <2>1, LeaveInOrder DEF TimeExpires, Screens
  <2>2. CASE LoseScreenDue(c)
    BY <2>2, LeaveInOrder DEF LoseScreenDue, Screens
  <2> QED
    BY <1>3, <2>1, <2>2, NextQuestionInOrder, NoReplyInOrder DEF ScreenTimers
<1> QED  BY <1>1, <1>2, <1>3, ServerReadsInOrder, ClientReadsInOrder DEF ClientNext

\* PlayInv: with the client's requests, delayed or forgotten, each game has one
\* thing at a time on its way, and never two connections are at one game.
THEOREM PlayInOrder == ClientSpec => []PlayInv
BY ClientInitInOrder, ClientStepInOrder, PTL DEF ClientSpec

\* RoundsInTurn: with its client a game has answers to its first rounds and no
\* others, and a question is asked for in its turn, although the server
\* (quickmode_handle_submit_answer) takes the rounds in any order.
THEOREM RoundsInTurnAlways == ClientSpec => []RoundsInTurn
<1>1. PlayInv => RoundsInTurn
  <2> SUFFICES ASSUME PlayInv PROVE RoundsInTurn
    OBVIOUS
  <2>1. ASSUME NEW g \in games PROVE g.answered = 1..g.round
    <3>1. PICK c \in Conns : who[c] = g.user
      BY DEF PlayInv, PlayersConnected
    <3>2. g \in GamesOf(who[c])
      BY <3>1 DEF GamesOf
    <3> QED  BY <3>2 DEF PlayInv, InOrder, ClientInv, GameInv
  <2>2. ASSUME NEW c \in Conns, NEW i \in DOMAIN toServer[c],
               toServer[c][i].kind = "question",
               NEW g \in Found(toServer[c][i].id, who[c])
        PROVE  toServer[c][i].round = g.round + 1
    <3>1. g \in GamesOf(who[c]) /\ IsTurn(toServer[c][i], g)
      BY <2>2 DEF Found, GamesOf, IsTurn
    <3> QED  BY <3>1 DEF PlayInv, InOrder, ClientInv, TurnAsked
  <2> QED  BY <2>1, <2>2 DEF RoundsInTurn
<1> QED  BY <1>1, PlayInOrder, PTL

\* LifelinesAgree: the screen never offers fewer lifelines than its game has
\* left, and as many once all the replies have been read.
THEOREM LifelinesAgreeAlways == ClientSpec => []LifelinesAgree
<1>1. PlayInv => LifelinesAgree
  <2> SUFFICES ASSUME PlayInv, NEW c \in Conns, Playing(c),
                      NEW g \in Found(ui[c].session, who[c])
               PROVE  /\ ui[c].lifelines >= MaxLifelines - g.used
                      /\ \/ ui[c].lifelines = MaxLifelines - g.used
                         \/ \E i \in DOMAIN toClient[c] : toClient[c][i].kind = "lifeline"
    BY DEF LifelinesAgree
  <2>1. g \in GamesOf(who[c]) /\ ui[c].session = g.id
    BY DEF Found, GamesOf
  <2>2. LifelinesLeft(toClient[c], ui[c], g)
    BY <2>1 DEF PlayInv, InOrder, ClientInv, OnScreen
  <2> QED  BY <2>2 DEF LifelinesLeft, IsLifeline
<1> QED  BY <1>1, PlayInOrder, PTL

\* A win is only counted for a game whose rounds but the last are all answered.
LEMMA WinEarned ==
  ASSUME PlayInv, NEW c \in Conns, ServerReads(c), NEW u \in Users,
         stats'[u].wins # stats[u].wins
  PROVE  \E g \in games \ games' : g.user = u /\ g.answered = 1..(Rounds - 1)
<1> DEFINE S == toServer[c]
           m == S[1]
           right == m.option = RightOption
           over == GameOver(m.round, right)
           G == GamesOf(who[c])
<1>1. PICK n \in 1..Len(S) : Handle(c, m)
  BY DEF ServerReads
<1>2. stats \in [Users -> [games : Nat, wins : Nat]]
  BY DEF PlayInv, GamesInv, TypeOK
<1>3. ~UNCHANGED stats
  OBVIOUS
<1>4. m.kind = "answer" /\ SubmitAnswer(c, m.id, m.round, right)
  <2>1. CASE m.kind = "start" /\ HandleStart(c)
    BY <1>3, <2>1 DEF HandleStart, Start, Refuse, vars
  <2>2. CASE m.kind = "question" /\ HandleQuestion(c, m)
    BY <1>3, <2>2 DEF HandleQuestion, Refuse, vars
  <2>3. CASE m.kind = "lifeline" /\ HandleLifeline(c, m)
    BY <1>3, <2>3 DEF HandleLifeline, UseLifeline, Refuse, vars
  <2>4. CASE m.kind = "answer" /\ HandleAnswer(c, m)
    BY <1>3, <2>4 DEF HandleAnswer, Refuse, vars
  <2> QED  BY <1>1, <2>1, <2>2, <2>3, <2>4 DEF Handle
<1> HIDE DEF right
<1>5. PICK g \in Found(m.id, who[c]) : over /\ games' = games \ {g} /\ Counted(g.user, right)
  BY <1>3, <1>4 DEF SubmitAnswer
<1>6. g.user = u /\ right
  <2> DEFINE k == IF right THEN 1 ELSE 0
             r == [games |-> stats[g.user].games + 1, wins |-> stats[g.user].wins + k]
  <2>1. stats' = [stats EXCEPT ![g.user] = r]
    BY <1>3, <1>5 DEF Counted
  <2>2. u = g.user
    <3> HIDE DEF r
    <3> QED  BY <1>2, <2>1
  <2>3. stats'[u] = r
    <3> HIDE DEF r
    <3> QED  BY <1>2, <2>1, <2>2
  <2>4. stats'[u].wins = stats[u].wins + k
    BY <2>2, <2>3
  <2>5. k # 0
    BY <1>2, <2>4
  <2> QED  BY <2>2, <2>5
<1>7. m.round = Rounds
  BY <1>5, <1>6 DEF GameOver
<1>8. g \in G /\ g \in games /\ ~(g \in games') /\ IsTurn(m, g)
  BY <1>4, <1>5 DEF Found, GamesOf, IsTurn
<1>9. ClientInv(S, toClient[c], ui[c], G)
  BY DEF PlayInv, InOrder
<1>10. m.round = g.round + 1 /\ g.answered = 1..g.round /\ g.round \in Nat
  <2>1. 1 \in DOMAIN S
    <3>1. DOMAIN S = 1..Len(S) /\ Len(S) \in Nat
      BY <1>9, InQueue DEF ClientInv
    <3> QED  BY <1>1, <3>1
  <2>2. TurnAsked(S, g) /\ GameInv(g) /\ g \in QuickModeSession
    BY <1>8, <1>9 DEF ClientInv
  <2> QED  BY <1>8, <2>1, <2>2 DEF TurnAsked, GameInv, QuickModeSession
<1>11. g.round = Rounds - 1
  BY <1>7, <1>10, QuickModeAssumption
<1> QED  BY <1>6, <1>8, <1>10, <1>11

\* WinnersAnsweredAll: whoever wins has answered all rounds, one after the other.
THEOREM WinnersAnsweredAllAlways == ClientSpec => WinnersAnsweredAll
<1> DEFINE Earned == \A u \in Users :
                       stats'[u].wins # stats[u].wins =>
                         \E g \in games \ games' : g.user = u /\ g.answered = 1..(Rounds - 1)
<1>1. PlayInv /\ [ClientNext]_allVars => Earned
  <2> SUFFICES ASSUME PlayInv, [ClientNext]_allVars, NEW u \in Users,
                      stats'[u].wins # stats[u].wins
               PROVE  \E g \in games \ games' : g.user = u /\ g.answered = 1..(Rounds - 1)
    OBVIOUS
  <2>1. ~UNCHANGED stats
    OBVIOUS
  <2>2. PICK c \in Conns : ServerReads(c)
    BY <2>1 DEF ClientNext, Player, ScreenTimers, OpenGame, LeaveScreen, PickOption,
                ClickLifeline, NextQuestionDue, TimeExpires, LoseScreenDue, NoReplyInTime,
                ClientReads, allVars, vars
  <2> QED  BY <2>2, WinEarned
<1> QED  BY <1>1, PlayInOrder, PTL DEF ClientSpec, WinnersAnsweredAll

-----------------------------------------------------------------------------
(* The server of the composition is the server alone *)

LEMMA ServerTakesItsSteps ==
  ASSUME PlayInv, NEW c \in Conns, ServerReads(c)
  PROVE  [Next]_vars
<1> DEFINE S == toServer[c]
           m == S[1]
           G == GamesOf(who[c])
           right == m.option = RightOption
<1>1. PICK n \in 1..Len(S) : Handle(c, m)
  BY DEF ServerReads
<1>2. ClientInv(S, toClient[c], ui[c], G)
  BY DEF PlayInv, InOrder
<1>3. \A g \in G : g \in QuickModeSession /\ GameInv(g) /\ TurnAsked(S, g)
  BY <1>2 DEF ClientInv
<1>4. 1 \in DOMAIN S
  <2>1. DOMAIN S = 1..Len(S) /\ Len(S) \in Nat
    BY <1>2, InQueue DEF ClientInv
  <2> QED  BY <1>1, <2>1
<1>5. CASE m.kind = "start" /\ HandleStart(c)
  <2>1. CASE CanStart(who[c])
    <3>1. PICK id \in NewIds : Start(c, id)
      BY <1>5, <2>1 DEF HandleStart
    <3>2. id \in 1..MaxStarts
      <4>1. started \in Nat /\ started < MaxStarts /\ MaxStarts \in Nat
        BY <3>1, QuickModeAssumption DEF PlayInv, GamesInv, TypeOK, Start
      <4>2. started + 1 \in 1..MaxStarts
        BY <4>1
      <4>3. \A h \in games : h.id \in 1..MaxStarts
        BY DEF PlayInv, GamesInv, TypeOK, QuickModeSession
      <4> QED  BY <4>2, <4>3 DEF NewIds
    <3> QED  BY <3>1, <3>2 DEF Next, GameStep
  <2> QED  BY <1>5, <2>1 DEF HandleStart, Refuse
<1>6. CASE m.kind = "question" /\ HandleQuestion(c, m)
  BY <1>6 DEF HandleQuestion, Refuse
<1>7. CASE m.kind = "answer" /\ HandleAnswer(c, m)
  <2>1. CASE UNCHANGED vars
    BY <2>1
  <2>2. CASE SubmitAnswer(c, m.id, m.round, right)
    <3>1. PICK g \in Found(m.id, who[c]) : CanAnswer(g, m.round)
      BY <2>2 DEF SubmitAnswer
    <3>2. g \in G /\ g.id = m.id /\ IsTurn(m, g)
      BY <1>7, <3>1 DEF Found, GamesOf, IsTurn
    <3>3. m.round = g.round + 1
      BY <1>3, <1>4, <3>2 DEF TurnAsked
    <3>4. m.id \in 1..MaxStarts /\ m.round \in 1..Rounds
      BY <1>3, <3>2, <3>3, QuickModeAssumption DEF QuickModeSession, GameInv
    <3>5. right \in BOOLEAN
      OBVIOUS
    <3> HIDE DEF right, m
    <3> QED  BY <2>2, <3>4, <3>5 DEF Next, GameStep
  <2> QED  BY <1>7, <2>1, <2>2 DEF HandleAnswer, Refuse
<1>8. CASE m.kind = "lifeline" /\ HandleLifeline(c, m)
  \* The last round has no answer yet, so the lifeline could be one of that round.
  <2>1. CASE UNCHANGED vars
    BY <2>1
  <2>2. CASE UseLifeline(c, m.id, m.round)
    <3>1. PICK g \in Found(m.id, who[c]) :
            CanUseLifeline(g, m.round) /\ games' = Replaced(g, [g EXCEPT !.used = @ + 1])
      BY <2>2 DEF UseLifeline
    <3>2. g \in G /\ g.id = m.id
      BY <3>1 DEF Found, GamesOf
    <3>3. m.id \in 1..MaxStarts /\ CanUseLifeline(g, Rounds)
      BY <1>3, <3>1, <3>2, QuickModeAssumption DEF QuickModeSession, GameInv, CanUseLifeline
    <3>4. UseLifeline(c, m.id, Rounds)
      BY <2>2, <3>1, <3>3 DEF UseLifeline
    <3>5. Rounds \in 1..Rounds
      BY QuickModeAssumption
    <3> QED  BY <3>3, <3>4, <3>5 DEF Next, GameStep
  <2> QED  BY <1>8, <2>1, <2>2 DEF HandleLifeline, Refuse
<1> QED  BY <1>1, <1>5, <1>6, <1>7, <1>8 DEF Handle

\* quickmode_service.c does nothing for the client that it does not do by
\* itself: with the screens, and with requests delayed or forgotten, the games, the
\* logins and the counts change by the requests of QuickMode only.
THEOREM ClientTakesServerSteps == ClientSpec => [][Next]_vars
<1>1. PlayInv /\ [ClientNext]_allVars => [Next]_vars
  <2> SUFFICES ASSUME PlayInv, [ClientNext]_allVars PROVE [Next]_vars
    OBVIOUS
  <2>1. CASE UNCHANGED vars
    BY <2>1
  <2>2. CASE ~UNCHANGED vars
    <3>1. PICK c \in Conns : ServerReads(c)
      BY <2>2 DEF ClientNext, Player, ScreenTimers, OpenGame, LeaveScreen, PickOption,
                  ClickLifeline, NextQuestionDue, TimeExpires, LoseScreenDue, NoReplyInTime,
                  ClientReads, allVars
    <3> QED  BY <3>1, ServerTakesItsSteps
  <2> QED  BY <2>1, <2>2
<1> QED  BY <1>1, PlayInOrder, PTL DEF ClientSpec
=============================================================================
