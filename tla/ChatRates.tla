--------------------------- MODULE ChatRates ---------------------------
(***************************************************************************)
(* The rate limiter of the room chat, room_chat_rate_allow in              *)
(* friends_service.c: a table of windows, one per user and room, in which  *)
(* a new one takes the place of the oldest when the table is full.  A      *)
(* window opens with a message and lasts for some seconds of the clock of  *)
(* the server, which is read in whole seconds.                             *)
(***************************************************************************)
EXTENDS Integers, FiniteSets, Functions

CONSTANTS
  Users,       \* user_id of the accounts
  Rooms,       \* room_id of the rooms
  Limit,       \* ROOM_CHAT_RATE_LIMIT
  Window,      \* ROOM_CHAT_RATE_WINDOW_SECONDS
  TableSize,   \* ROOM_CHAT_RATE_TABLE_SIZE
  MaxTime      \* bound of the model: seconds the clock counts

ASSUME RatesAssumption ==
  /\ 0 \notin Rooms
  /\ Limit \in Nat \ {0}
  /\ Window \in Nat \ {0}
  /\ TableSize \in Nat \ {0}
  /\ MaxTime \in Nat

VARIABLES
  now,         \* the clock
  rates,       \* g_room_chat_rates
  sent,        \* history: messages let through, by user, room and second
  evicted      \* history: users and rooms whose window was given to another

rateVars == <<now, rates, sent, evicted>>

Keys == Users \X Rooms
NoKey == <<0, 0>>
Times == 0..MaxTime
Entries == 1..TableSize

Entry == [key : Keys \cup {NoKey}, start : Times, count : 0..Limit]
NoEntry == [key |-> NoKey, start |-> 0, count |-> 0]

-----------------------------------------------------------------------------
(* room_chat_rate_allow *)

Matches(k) == {i \in Entries : rates[i].key = k}

\* Seeded fault: a window that is still running is opened anew by a message.
CurrentFrom(e) == IF now > e.start THEN [e EXCEPT !.start = now, !.count = 0] ELSE e

\* A window that has run out is opened anew.
Current(e) == IF now - e.start >= Window THEN [e EXCEPT !.start = now, !.count = 0] ELSE e

\* The first entry that is empty; else the first of the oldest.
IsFirst(i, S) == i \in S /\ \A j \in S : i <= j

Oldest == {i \in Entries : \A j \in Entries : rates[i].start <= rates[j].start}

IsTaken(i) ==
  IF Matches(NoKey) # {} THEN IsFirst(i, Matches(NoKey)) ELSE IsFirst(i, Oldest)

\* Seeded fault: a window taken from another user keeps its count.
WindowTakenOver(k) ==
  /\ Matches(k) = {}
  /\ \E i \in Entries :
       /\ IsTaken(i)
       /\ rates' = [rates EXCEPT ![i].key = k, ![i].start = now,
                                ![i].count = IF @ < Limit THEN @ + 1 ELSE @]
       /\ evicted' = evicted \cup ({rates[i].key} \ {NoKey})

\* The first message of a user in a room opens a window.
WindowOpens(k) ==
  /\ Matches(k) = {}
  /\ \E i \in Entries :
       /\ IsTaken(i)
       /\ rates' = [rates EXCEPT ![i] = [key |-> k, start |-> now, count |-> 1]]
       /\ evicted' = evicted \cup ({rates[i].key} \ {NoKey})

\* The others are counted, up to the limit.
MessageCounted(k) ==
  \E i \in Matches(k) :
    /\ Current(rates[i]).count < Limit
    /\ rates' = [rates EXCEPT ![i] = [Current(rates[i]) EXCEPT !.count = @ + 1]]
    /\ UNCHANGED evicted

Refused(k) == \E i \in Matches(k) : Current(rates[i]).count >= Limit

\* The history counts no further than the properties tell apart.
Allowed(k) ==
  /\ WindowOpens(k) \/ MessageCounted(k)
  /\ sent' = [sent EXCEPT ![k][now] = IF @ < 2 * Limit THEN @ + 1 ELSE @]
  /\ UNCHANGED now

\* The clock of the server.  The history forgets what is a window old.
SecondPasses ==
  /\ now < MaxTime
  /\ now' = now + 1
  /\ sent' = [k \in Keys |-> [t \in Times |-> IF t > now' - Window THEN sent[k][t] ELSE 0]]
  /\ UNCHANGED <<rates, evicted>>

RatesInit ==
  /\ now = 0
  /\ rates = [i \in Entries |-> NoEntry]
  /\ sent = [k \in Keys |-> [t \in Times |-> 0]]
  /\ evicted = {}

-----------------------------------------------------------------------------
(* Properties *)

\* Messages of the latest seconds, as many as a window lasts.
SentLately(k) == SumFunctionOnSet(sent[k], Times)

RatesTypeOK ==
  /\ now \in Times
  /\ rates \in [Entries -> Entry]
  /\ evicted \subseteq Keys

\* A user has one window in a room at most: the look-up returns at the first
\* entry that matches, and would never find the others (room_chat_rate_allow).
OneWindowEach ==
  \A i, j \in Entries : rates[i].key = rates[j].key /\ rates[i].key # NoKey => i = j

\* No window lies in the future, where it would not run out in time.
WindowsHaveBegun == \A i \in Entries : rates[i].start <= now

\* The table is in order: the inductive invariant of the proofs, on what
\* room_chat_rate_allow keeps.
RatesInv == RatesTypeOK /\ OneWindowEach /\ WindowsHaveBegun

\* The windows are fixed, not sliding: in as many seconds as a window lasts a
\* user gets through less than twice the limit (the end of one window and all of
\* the next one), unless his window was given away (friends_service.c:30).
BurstsBounded ==
  \A k \in Keys \ evicted : SentLately(k) < 2 * Limit

\* Nobody is silenced for what others sent or for what is long past: who is
\* refused has sent as many messages within a window (room_chat_rate_allow).
RefusalsAreEarned ==
  \A k \in Keys : Refused(k) =>
    SentLately(k) >= Limit
=============================================================================
