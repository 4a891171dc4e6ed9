------------------------- MODULE CallbackTimers -------------------------
(***************************************************************************)
(* The callback timer table of utils/timer.c: a fixed array of slots, each *)
(* active or free.  An active slot holds the identifier handed to its      *)
(* creator, the callback to run and the game the callback works on (in the *)
(* code the pointer user_data and context_id, which name the same game).   *)
(*                                                                         *)
(* Time is abstracted: an active timer may become due at any moment, so    *)
(* start_time and timeout_seconds are left out.  A released slot forgets   *)
(* its content; the code leaves it behind but never reads it.              *)
(***************************************************************************)
EXTENDS Integers

CONSTANT MaxTimers    \* MAX_CALLBACK_TIMERS, the slots of the table

ASSUME TimersAssumption == MaxTimers \in Nat

TimerSlots == 1..MaxTimers

\* What game_timer_create returns when every slot is taken, and the
\* timer_id of a game that holds no timer.
NoTimer == -1

\* What a slot can run: the 15 second limit of a question, or the
\* 3 second pause before the next one.
Callbacks == {"round_timeout", "delayed_question"}

FreeSlot == [active |-> FALSE, id |-> 0, callback |-> "none", game |-> 0]

EmptyTable == [i \in TimerSlots |-> FreeSlot]

ActiveSlots(table) == {i \in TimerSlots : table[i].active}

\* Seeded fault: the search ends one slot early.
FreeSlotsButLast(table) == (TimerSlots \ ActiveSlots(table)) \ {MaxTimers}

FreeSlots(table) == TimerSlots \ ActiveSlots(table)

\* Seeded fault: the first slot is taken, active or not.
IsFirstSlot(table, i) == i = 1

\* The slot game_timer_create takes: the first free one.
IsFirstFree(table, i) == /\ i \in FreeSlots(table)
                         /\ \A j \in FreeSlots(table) : i <= j

\* The table after game_timer_create has filled slot i.
CreateTimer(table, i, id, callback, game) ==
  [table EXCEPT ![i] = [active |-> TRUE, id |-> id,
                        callback |-> callback, game |-> game]]

\* game_timer_check_and_run frees a due slot before it runs the callback.
ReleaseSlot(table, i) == [table EXCEPT ![i] = FreeSlot]

\* Seeded fault: nothing is cancelled.
CancelNothing(table, id) == table

\* game_timer_cancel frees the first active slot with this identifier; a
\* negative identifier cancels nothing.
CancelTimer(table, id) ==
  [i \in TimerSlots |->
     IF /\ id >= 0
        /\ table[i].active
        /\ table[i].id = id
        /\ \A j \in TimerSlots : j < i => ~(table[j].active /\ table[j].id = id)
     THEN FreeSlot
     ELSE table[i]]
=============================================================================
