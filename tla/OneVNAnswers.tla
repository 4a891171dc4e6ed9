------------------------- MODULE OneVNAnswers -------------------------
(***************************************************************************)
(* The 1vN engine together with the players' clients (qml/OneVNMode.qml):  *)
(* answers take time to reach handle_submit_answer_1vn, and what the       *)
(* engine sends takes time to reach the clients.  Each client has a TCP    *)
(* connection, so either direction keeps its order.  The server may have   *)
(* asked another question before it reads an answer, and it drops an       *)
(* answer that reaches it together with an earlier packet.                 *)
(***************************************************************************)
EXTENDS OneVN, SequencesExt

CONSTANT MaxPending    \* bound of the model: answers of one client on their way

ASSUME MaxPendingAssumption == MaxPending \in Nat

VARIABLES
  shown,      \* per client, sessionId and currentRound
  waiting,    \* per client, waitingForAnswer
  pending,    \* per client, the SUBMIT_ANSWER requests on their way
  inbox       \* per client, the questions and results on their way

clientVars == <<shown, waiting, pending, inbox>>
allVars == <<vars, clientVars>>

Question(s, round) == [kind |-> "question", session |-> s, round |-> round]
Result == [kind |-> "result", session |-> 0, round |-> 0]
NoQuestion == Question(0, 0)

-----------------------------------------------------------------------------
(* What a step of the engine sends *)

\* The question broadcast by send_next_question, to whoever is still in the room.
NewlyAsked == {s \in DOMAIN games' : s \in DOMAIN games => games[s].round # games'[s].round}

\* First the results of the round, then the next question.
Send(told) ==
  LET asked == NewlyAsked
  IN  IF asked = {} /\ told = {} THEN UNCHANGED inbox
      ELSE inbox' = [u \in Users |->
                       inbox[u] \o (IF u \in told THEN <<Result>> ELSE << >>)
                       \o SetToSeq({Question(s, games'[s].round) :
                                     s \in {t \in asked : u \in Active(games'[t])}})]

\* The players round_timeout_callback tells that their time is up.
TimedOutPlayers(i) ==
  IF timers[i].callback = "round_timeout" THEN Late(games[timers[i].game]) ELSE {}

\* A due timer is run.
Clock(i) ==
  /\ TimerFires(i)
  /\ Send(TimedOutPlayers(i))
  /\ UNCHANGED <<shown, waiting, pending>>

\* All other requests.
OtherRequest ==
  /\ RoomRequest \/ \E u \in Users, s \in SessionIds : UseLifeline(u, s)
  /\ Send({})
  /\ UNCHANGED <<shown, waiting, pending>>

\* With the process the connections end.
RestartServer ==
  /\ Restart
  /\ pending' = [u \in Users |-> << >>]
  /\ inbox' = [u \in Users |-> << >>]
  /\ UNCHANGED <<shown, waiting>>

\* The server reads the oldest answer: it counts or it is refused with an error.
ReceiveAnswer(u) ==
  /\ pending[u] # << >>
  /\ pending' = [pending EXCEPT ![u] = Tail(@)]
  /\ UNCHANGED <<shown, waiting>>
  /\ LET m == Head(pending[u])
         counts == /\ m.session \in DOMAIN games
                   /\ u \in Active(games[m.session])
                   /\ games[m.session].answered[u] # games[m.session].round
     IN  IF counts
         THEN \E percent \in TimePercents :
                /\ SubmitAnswer(u, m.session, m.correct, IF m.correct THEN percent ELSE 0)
                /\ Send({u})
         ELSE UNCHANGED <<vars, inbox>>

\* client_session_read_packet forgets what it has read behind a complete
\* packet: an answer sent right after another request is lost.
LoseAnswer(u) ==
  /\ pending[u] # << >>
  /\ pending' = [pending EXCEPT ![u] = Tail(@)]
  /\ UNCHANGED <<vars, shown, waiting, inbox>>

-----------------------------------------------------------------------------
(* The clients *)

\* showQuestion and onOneVNAnswerResult1VN: both end the wait for an answer.
ReadMessage(u) ==
  /\ inbox[u] # << >>
  /\ inbox' = [inbox EXCEPT ![u] = Tail(@)]
  /\ shown' = IF Head(inbox[u]).kind = "question"
              THEN [shown EXCEPT ![u] = Head(inbox[u])] ELSE shown
  /\ waiting' = [waiting EXCEPT ![u] = FALSE]
  /\ UNCHANGED <<vars, pending>>

Answer(u, correct) == [session |-> shown[u].session, round |-> shown[u].round,
                       correct |-> correct]

CanAnswer(u) == /\ ~waiting[u]
                /\ shown[u] # NoQuestion
                /\ Len(pending[u]) < MaxPending

\* handleGameAnswer: the player picks an option.
PickAnswer(u, correct) ==
  /\ CanAnswer(u)
  /\ pending' = [pending EXCEPT ![u] = Append(@, Answer(u, correct))]
  /\ waiting' = [waiting EXCEPT ![u] = TRUE]
  /\ UNCHANGED <<vars, shown, inbox>>

\* questionTimer: the client's own 15 seconds are over, an empty answer is sent.
CountdownEnds(u) ==
  /\ CanAnswer(u)
  /\ pending' = [pending EXCEPT ![u] = Append(@, Answer(u, FALSE))]
  /\ UNCHANGED <<vars, shown, waiting, inbox>>

AnswersInit ==
  /\ Init
  /\ shown = [u \in Users |-> NoQuestion]
  /\ waiting = [u \in Users |-> FALSE]
  /\ pending = [u \in Users |-> << >>]
  /\ inbox = [u \in Users |-> << >>]

AnswersNext ==
  \/ \E i \in TimerSlots : Clock(i)
  \/ OtherRequest
  \/ RestartServer
  \/ \E u \in Users : \/ ReceiveAnswer(u)
                      \/ LoseAnswer(u)
                      \/ ReadMessage(u)
                      \/ \E correct \in BOOLEAN : PickAnswer(u, correct)
                      \/ CountdownEnds(u)

AnswersSpec == AnswersInit /\ [][AnswersNext]_allVars

\* The server runs due timers, and what it sends reaches the clients.
FairAnswersSpec ==
  /\ AnswersSpec
  /\ \A i \in TimerSlots : WF_allVars(Clock(i))
  /\ \A u \in Users : WF_allVars(ReadMessage(u))

-----------------------------------------------------------------------------
\* A client that waits for its result does not wait forever, even when its
\* answer was lost: the server's clock ends the round and tells the player.
\* Only a game somebody has left, or one that is gone, gives no such promise.
NobodyWaitsForever ==
  \A u \in Users :
    waiting[u] ~> \/ ~waiting[u]
                  \/ shown[u].session \notin DOMAIN games
                  \/ games[shown[u].session].eliminated # {}
=============================================================================
