---------------------------- MODULE Friends ----------------------------
(***************************************************************************)
(* Friend requests and friendships: the handlers of friends_service.c that *)
(* write the table friend_relationships, with the statements of            *)
(* dao_friends.c behind them.  A friendship of two users is two rows, one  *)
(* for each of them, written by statements of their own: a failure or the  *)
(* end of the process in between leaves what was written before it.        *)
(***************************************************************************)
EXTENDS Integers

CONSTANTS
  Users,       \* user_id of the accounts
  MaxFailures  \* bound of the model: statements that fail

ASSUME FriendsAssumption == MaxFailures \in Nat

VARIABLES
  row,         \* the status in the row of user_id and peer_user_id
  failures     \* the statements that have failed

vars == <<row, failures>>

DbMayFail == failures < MaxFailures

\* uq_fr_pair, and the CHECK that nobody is his own peer.
Pairs == {p \in Users \X Users : p[1] # p[2]}

\* "NONE": there is no row.  BLOCKED is written by nobody.
Statuses == {"NONE", "PENDING", "ACCEPTED", "DECLINED"}

Opposite(p) == <<p[2], p[1]>>

-----------------------------------------------------------------------------
(* dao_friends.c: the rows after a statement *)

\* dao_friends_send_request: the row is inserted, or set back if there is one.
Requested(rows, p) == [rows EXCEPT ![p] = "PENDING"]

\* Seeded fault: the request is answered whatever has become of it.
CanRespondTwice(p) == row[p] # "NONE"

\* dao_friends_respond_request updates a pending row only.
CanRespond(p) == row[p] = "PENDING"

Responded(p, answer) == [row EXCEPT ![p] = answer]

\* dao_friends_update_status with ACCEPTED updates a row if there is one.
MarkedAccepted(rows, p) ==
  [rows EXCEPT ![p] = IF @ = "NONE" THEN "NONE" ELSE "ACCEPTED"]

\* Seeded fault: only the row of the user himself is deleted.
RemovedOwn(p) == [row EXCEPT ![p] = "NONE"]

\* dao_friends_remove deletes both rows.
Removed(p) == [row EXCEPT ![p] = "NONE", ![Opposite(p)] = "NONE"]

\* dao_friends_list, dao_friends_get_pending_requests
FriendsOf(u) == {v \in Users : u # v /\ row[<<u, v>>] = "ACCEPTED"}
RequestsTo(u) == {v \in Users : u # v /\ row[<<v, u>>] = "PENDING"}

-----------------------------------------------------------------------------
(* friends_service.c: the handlers, for the user p[1] or the request p *)

\* handle_add_friend.  The peer is told unless the name of the user cannot be
\* read.
AddFriend(p, told) ==
  /\ told \/ DbMayFail
  /\ row' = Requested(row, p)
  /\ failures' = failures + (IF told THEN 0 ELSE 1)

\* handle_remove_friend
RemoveFriend(p) == row' = Removed(p) /\ UNCHANGED failures

\* Seeded fault: the reverse row is not created, only updated.
AcceptNoReverse(p) ==
  /\ CanRespond(p)
  /\ row' = MarkedAccepted(Responded(p, "ACCEPTED"), Opposite(p))
  /\ UNCHANGED failures

\* handle_respond_friend, accepting the request p: the request is accepted, the
\* reverse row is requested and then accepted.  Failures of the latter two are
\* passed over.
AcceptRequest(p) ==
  LET accepted == Responded(p, "ACCEPTED")
      requested == Requested(accepted, Opposite(p))
      MayFail(before, after) == {after} \cup (IF DbMayFail THEN {before} ELSE {})
  IN  /\ CanRespond(p)
      /\ \E rows \in MayFail(accepted, requested) :
           row' \in MayFail(rows, MarkedAccepted(rows, Opposite(p)))
      /\ failures' = failures + (IF row' = MarkedAccepted(requested, Opposite(p)) THEN 0 ELSE 1)

\* handle_respond_friend, declining the request p.
DeclineRequest(p) ==
  /\ CanRespond(p)
  /\ row' = Responded(p, "DECLINED")
  /\ UNCHANGED failures

\* The first statement of a handler, or the only one, fails: the client is
\* answered with an error, which its screens take for an empty list.
StatementFails == DbMayFail /\ failures' = failures + 1 /\ UNCHANGED row

Init == row = [p \in Pairs |-> "NONE"] /\ failures = 0

Next ==
  \/ \E p \in Pairs : \/ \E told \in BOOLEAN : AddFriend(p, told)
                      \/ RemoveFriend(p) \/ AcceptRequest(p) \/ DeclineRequest(p)
  \/ StatementFails

Spec == Init /\ [][Next]_vars

-----------------------------------------------------------------------------
(* Properties *)

\* Types of the variables.
TypeOK == row \in [Pairs -> Statuses] /\ failures \in 0..MaxFailures

\* handle_respond_friend: without a failure nobody is a friend of somebody who
\* has no row for him at all; it may only be set back by a request of the peer
\* (dao_friends_send_request), or declined after that.
FriendsHaveRows ==
  failures = 0 => \A p \in Pairs : row[p] = "ACCEPTED" => row[Opposite(p)] # "NONE"

\* The table is in order: the inductive invariant of the proofs, on the rows
\* handle_respond_friend and the other handlers leave.
FriendsInv == TypeOK /\ FriendsHaveRows

\* dao_friends_respond_request: a friendship comes from a request that is still
\* open, its own or the peer's; answers given twice, late or both ways make none.
FriendshipNeedsConsent ==
  [][\A p \in Pairs :
       row[p] # "ACCEPTED" /\ row'[p] = "ACCEPTED" =>
         \/ row[p] = "PENDING"
         \/ row[Opposite(p)] = "PENDING" /\ row'[Opposite(p)] = "ACCEPTED"]_vars

\* dao_friends_remove, dao_friends_send_request: an accepted row ends with both
\* rows deleted or with another request, never by a late answer to the former one.
FriendshipEndsOnPurpose ==
  [][\A p \in Pairs :
       row[p] = "ACCEPTED" /\ row'[p] # "ACCEPTED" =>
         \/ row'[p] = "PENDING"
         \/ row'[p] = "NONE" /\ row'[Opposite(p)] = "NONE"]_vars
=============================================================================
