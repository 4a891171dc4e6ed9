------------------------ MODULE QuickModeClient ------------------------
(***************************************************************************)
(* The solo mode with the game screen of the client, qml/QuickModeGame.qml *)
(* and the part of NetworkClient.cpp behind it.  Requests and replies take *)
(* time and keep their order; the server forgets requests that reach it    *)
(* together with an earlier one.  The screen may be left at any moment and *)
(* opened again, while replies to the former one are still on their way.   *)
(* Everybody stays logged in.                                              *)
(***************************************************************************)
EXTENDS QuickMode, Sequences

CONSTANTS
  Options,      \* the options of a question, A to D
  RightOption,  \* the right one; the questions do not differ otherwise
  MaxQueue      \* bound of the model: messages of a client on their way

ASSUME ClientAssumption ==
  /\ RightOption \in Options
  /\ Cardinality(Options) = 4
  /\ MaxQueue \in Nat

VARIABLES
  ui,         \* per connection, the screen of the client
  toServer,   \* per connection, the requests on their way
  toClient,   \* per connection, the replies on their way
  lost        \* per connection, whether a request was ever forgotten

clientVars == <<ui, toServer, toClient, lost>>
allVars == <<vars, clientVars>>

NoGame == 0

WrongOptions == Options \ {RightOption}

\* "game" is QuickModeGame, "lose" LoseScreen, "win" WinScreen, "menu" the rest.
Screens == {"menu", "game", "lose", "win"}

\* QuickModeGame as it is created.  loaded: a question is displayed; removed:
\* its options taken away by lifelines.  Then the timers that are running:
\* questionTimer, nextQuestionTimer, loseScreenTimer and answerTimeoutTimer.
FreshGame ==
  [screen |-> "game", session |-> NoGame, round |-> 0, loaded |-> FALSE,
   removed |-> {}, waiting |-> FALSE, submitted |-> FALSE, lifelines |-> MaxLifelines,
   question |-> FALSE, next |-> FALSE, lose |-> FALSE, answer |-> FALSE]

\* With its screen a QuickModeGame and its timers are gone.
Screen(name) == [FreshGame EXCEPT !.screen = name]

Playing(c) == ui[c].screen = "game" /\ ui[c].session # NoGame

Show(c, screen) == ui' = [ui EXCEPT ![c] = screen]

Send(c, request) == toServer' = [toServer EXCEPT ![c] = Append(@, request)]

StartRequest == [kind |-> "start"]
QuestionRequest(id, round) == [kind |-> "question", id |-> id, round |-> round]
AnswerRequest(id, round, option) ==
  [kind |-> "answer", id |-> id, round |-> round, option |-> option]
LifelineRequest(id, round) == [kind |-> "lifeline", id |-> id, round |-> round]

-----------------------------------------------------------------------------
(* The server *)

Reply(c, replies) == toClient' = [toClient EXCEPT ![c] = @ \o replies]

\* A refused request is answered with an error.
Refuse(c) == Reply(c, <<[kind |-> "error"]>>) /\ UNCHANGED vars

HandleStart(c) ==
  IF CanStart(who[c])
  THEN \E id \in NewIds : Start(c, id) /\ Reply(c, <<[kind |-> "started", id |-> id]>>)
  ELSE Refuse(c)

\* quickmode_handle_get_question changes nothing.
HandleQuestion(c, m) ==
  IF \E g \in Found(m.id, who[c]) : m.round <= g.round + 1
  THEN Reply(c, <<[kind |-> "question", id |-> m.id, round |-> m.round]>>) /\ UNCHANGED vars
  ELSE Refuse(c)

\* The result, and when the game is over the notification of its end.
HandleAnswer(c, m) ==
  LET right == m.option = RightOption
      over == GameOver(m.round, right)
  IN  IF \E g \in Found(m.id, who[c]) : CanAnswer(g, m.round)
      THEN /\ SubmitAnswer(c, m.id, m.round, right)
           /\ Reply(c, <<[kind |-> "result", id |-> m.id, right |-> right, over |-> over]>>
                       \o IF over THEN <<[kind |-> "over", id |-> m.id, win |-> right]>>
                                  ELSE << >>)
      ELSE Refuse(c)

\* The right option and one wrong option stay, which one depends on the time.
HandleLifeline(c, m) ==
  IF \E g \in Found(m.id, who[c]) : CanUseLifeline(g, m.round)
  THEN /\ UseLifeline(c, m.id, m.round)
       /\ \E g \in Found(m.id, who[c]), kept \in WrongOptions :
            Reply(c, <<[kind |-> "lifeline", id |-> m.id, removed |-> WrongOptions \ {kept},
                        left |-> MaxLifelines - g.used - 1]>>)
  ELSE Refuse(c)

Handle(c, m) ==
  \/ m.kind = "start" /\ HandleStart(c)
  \/ m.kind = "question" /\ HandleQuestion(c, m)
  \/ m.kind = "answer" /\ HandleAnswer(c, m)
  \/ m.kind = "lifeline" /\ HandleLifeline(c, m)

\* client_session_read_packet: the requests that came with the first one are
\* forgotten.
ServerReads(c) ==
  \E n \in 1..Len(toServer[c]) :
    /\ Handle(c, toServer[c][1])
    /\ toServer' = [toServer EXCEPT ![c] = SubSeq(@, n + 1, Len(@))]
    /\ lost' = [lost EXCEPT ![c] = @ \/ n > 1]
    /\ UNCHANGED ui

-----------------------------------------------------------------------------
(* The player *)

\* The player clicks only while few messages are on their way.
CanClick(c) == Len(toServer[c]) + Len(toClient[c]) < MaxQueue

StartsPending(c) == Len(SelectSeq(toServer[c], LAMBDA m : m.kind = "start"))

\* The game is chosen in the menu, or once more on the screen of its end.
OpenGame(c) ==
  /\ ui[c].screen # "game"
  /\ CanClick(c)
  /\ started + MapThenSumSet(StartsPending, Conns) < MaxStarts
  /\ Show(c, FreshGame)
  /\ Send(c, StartRequest)
  /\ UNCHANGED <<vars, toClient, lost>>

\* The back buttons; nobody tells the server.
LeaveScreen(c) ==
  /\ ui[c].screen # "menu"
  /\ Show(c, Screen("menu"))
  /\ UNCHANGED <<vars, toServer, toClient, lost>>

\* The buttons of the options.  onQuickModeQuestionReceived enables them by an
\* assignment, which ends the binding to the options' texts: an option that a
\* lifeline has removed can still be picked.  handleAnswerClick heeds the rest.
Enabled(c) == ~ui[c].waiting /\ ui[c].loaded

\* handleAnswerClick
PickOption(c, option) ==
  /\ Playing(c)
  /\ Enabled(c)
  /\ ~ui[c].submitted
  /\ CanClick(c)
  /\ Show(c, [ui[c] EXCEPT !.submitted = TRUE, !.waiting = TRUE, !.question = FALSE,
                           !.answer = TRUE])
  /\ Send(c, AnswerRequest(ui[c].session, ui[c].round, option))
  /\ UNCHANGED <<vars, toClient, lost>>

\* Seeded fault: the client counts the lifeline when the button is clicked.
ClickLifelineCounts(c) ==
  /\ Playing(c)
  /\ Enabled(c) /\ "A" \notin ui[c].removed
  /\ ui[c].lifelines > 0
  /\ CanClick(c)
  /\ Show(c, [ui[c] EXCEPT !.lifelines = @ - 1])
  /\ Send(c, LifelineRequest(ui[c].session, ui[c].round))
  /\ UNCHANGED <<vars, toClient, lost>>

\* The lifeline button, which keeps its binding to the text of option A.
ClickLifeline(c) ==
  /\ Playing(c)
  /\ Enabled(c) /\ "A" \notin ui[c].removed
  /\ ui[c].lifelines > 0
  /\ CanClick(c)
  /\ Send(c, LifelineRequest(ui[c].session, ui[c].round))
  /\ UNCHANGED <<vars, ui, toClient, lost>>

-----------------------------------------------------------------------------
(* The screen *)

\* requestNextQuestion, of the screen as it is left by the caller.
RequestNextQuestion(c, screen) ==
  /\ Show(c, [screen EXCEPT !.round = @ + 1, !.loaded = FALSE, !.removed = {},
                            !.waiting = FALSE, !.submitted = FALSE])
  /\ Send(c, QuestionRequest(screen.session, screen.round + 1))

ShowStarted(c, m) ==
  RequestNextQuestion(c, [ui[c] EXCEPT !.session = m.id, !.round = 0,
                                       !.lifelines = MaxLifelines])

\* Seeded fault: questionTimer is started by the first question only.
ShowQuestionNoClock(c, m) ==
  Show(c, [ui[c] EXCEPT !.waiting = FALSE, !.submitted = FALSE, !.question = m.round = 1,
                        !.removed = {}, !.loaded = TRUE, !.round = m.round])

ShowQuestion(c, m) ==
  Show(c, [ui[c] EXCEPT !.waiting = FALSE, !.submitted = FALSE, !.question = TRUE,
                        !.removed = {}, !.loaded = TRUE, !.round = m.round])

\* After a right answer the next question is due, unless the game is over; after
\* a wrong one the colours are shown until loseScreenTimer runs out.
ShowResult(c, m) ==
  Show(c, [ui[c] EXCEPT !.answer = FALSE, !.question = FALSE,
                        !.next = @ \/ (m.right /\ ~m.over), !.lose = @ \/ ~m.right])

ShowOver(c, m) ==
  IF m.win THEN Show(c, Screen("win"))
  ELSE IF ui[c].lose THEN UNCHANGED ui
  ELSE Show(c, Screen("lose"))

ShowLifeline(c, m) ==
  Show(c, [ui[c] EXCEPT !.lifelines = m.left, !.removed = @ \cup m.removed])

\* Replies to other games than the one on the screen are ignored.
IsForScreen(c, m) ==
  /\ ui[c].screen = "game"
  /\ m.kind # "error"
  /\ m.kind # "started" => m.id = ui[c].session

ClientReads(c) ==
  /\ toClient[c] # << >>
  /\ toClient' = [toClient EXCEPT ![c] = Tail(@)]
  /\ UNCHANGED <<vars, lost>>
  /\ LET m == Head(toClient[c])
     IN  IF ~IsForScreen(c, m) THEN UNCHANGED <<ui, toServer>>
         ELSE \/ m.kind = "started" /\ ShowStarted(c, m)
              \/ /\ UNCHANGED toServer
                 /\ \/ m.kind = "question" /\ ShowQuestion(c, m)
                    \/ m.kind = "result" /\ ShowResult(c, m)
                    \/ m.kind = "over" /\ ShowOver(c, m)
                    \/ m.kind = "lifeline" /\ ShowLifeline(c, m)

\* Seeded fault: the round is counted here and in requestNextQuestion.
NextQuestionSkips(c) ==
  /\ ui[c].next
  /\ RequestNextQuestion(c, [ui[c] EXCEPT !.next = FALSE, !.round = @ + 1])
  /\ UNCHANGED <<vars, toClient, lost>>

\* nextQuestionTimer
NextQuestionDue(c) ==
  /\ ui[c].next
  /\ RequestNextQuestion(c, [ui[c] EXCEPT !.next = FALSE])
  /\ UNCHANGED <<vars, toClient, lost>>

\* questionTimer and handleTimeExpired; nobody tells the server.
TimeExpires(c) ==
  /\ ui[c].question
  /\ Show(c, Screen("lose"))
  /\ UNCHANGED <<vars, toServer, toClient, lost>>

\* loseScreenTimer
LoseScreenDue(c) ==
  /\ ui[c].lose
  /\ Show(c, Screen("lose"))
  /\ UNCHANGED <<vars, toServer, toClient, lost>>

\* answerTimeoutTimer: the buttons are enabled again, but answerSubmitted stays.
NoReplyInTime(c) ==
  /\ ui[c].answer
  /\ Show(c, [ui[c] EXCEPT !.answer = FALSE, !.waiting = FALSE])
  /\ UNCHANGED <<vars, toServer, toClient, lost>>

ClientInit ==
  /\ games = {}
  /\ started = 0
  /\ stats = [u \in Users |-> [games |-> 0, wins |-> 0]]
  /\ who \in [Conns -> Users]
  /\ \A c, d \in Conns : who[c] = who[d] => c = d
  /\ accepted = [c \in Conns |-> TRUE]
  /\ ui = [c \in Conns |-> Screen("menu")]
  /\ toServer = [c \in Conns |-> << >>]
  /\ toClient = [c \in Conns |-> << >>]
  /\ lost = [c \in Conns |-> FALSE]

Player(c) ==
  \/ OpenGame(c)
  \/ LeaveScreen(c)
  \/ \E option \in Options : PickOption(c, option)
  \/ ClickLifeline(c)

ScreenTimers(c) ==
  NextQuestionDue(c) \/ TimeExpires(c) \/ LoseScreenDue(c) \/ NoReplyInTime(c)

ClientNext ==
  \E c \in Conns : Player(c) \/ ServerReads(c) \/ ClientReads(c) \/ ScreenTimers(c)

ClientSpec == ClientInit /\ [][ClientNext]_allVars

\* Both ends read what has arrived, and timers run out; no player has to act.
FairClientSpec ==
  /\ ClientSpec
  /\ \A c \in Conns : /\ WF_allVars(ServerReads(c))
                      /\ WF_allVars(ClientReads(c))
                      /\ WF_allVars(NextQuestionDue(c))
                      /\ WF_allVars(TimeExpires(c))
                      /\ WF_allVars(LoseScreenDue(c))
                      /\ WF_allVars(NoReplyInTime(c))

-----------------------------------------------------------------------------
(* Properties *)

\* quickmode_handle_submit_answer takes any round, so the order of the rounds
\* rests on the client: with its requests a game has answers to its first rounds
\* and no others, and a question is only asked for when its turn has come.
RoundsInTurn ==
  /\ \A g \in games : g.answered = 1..g.round
  /\ \A c \in Conns : \A i \in DOMAIN toServer[c] :
       LET m == toServer[c][i]
       IN  m.kind = "question" => \A g \in Found(m.id, who[c]) : m.round = g.round + 1

\* quickmode_handle_submit_answer: "round == 15 && is_correct" wins.  With the
\* client's requests whoever wins has answered all rounds.
WinnersAnsweredAll ==
  [][\A u \in Users :
       stats'[u].wins # stats[u].wins =>
         \E g \in games \ games' : g.user = u /\ g.answered = 1..(Rounds - 1)]_allVars

\* onQuickModeLifelineResult: the screen never offers fewer lifelines than the
\* game has left, and never more once the replies have been read, whatever
\* requests were repeated, refused or forgotten.
LifelinesAgree ==
  \A c \in Conns : Playing(c) =>
    \A g \in Found(ui[c].session, who[c]) :
      /\ ui[c].lifelines >= MaxLifelines - g.used
      /\ \/ ui[c].lifelines = MaxLifelines - g.used
         \/ \E i \in DOMAIN toClient[c] : toClient[c][i].kind = "lifeline"

\* A game on the screen comes to its end, also when the player does nothing; if
\* no request was forgotten (client_session_read_packet), since for an answer
\* that was the screen waits for good.
GameEndsUnlessLost ==
  \A c \in Conns : (Playing(c) /\ ~lost[c]) ~> (~Playing(c) \/ lost[c])
=============================================================================
