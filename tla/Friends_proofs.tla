------------------------- MODULE Friends_proofs -------------------------
(***************************************************************************)
(* For every number of users, failures and packets on their way: who is    *)
(* whose friend, by which steps that comes and by which it goes (the       *)
(* table), and that every open request is on the screen of its user or     *)
(* will be (the screens).  What FoldLeft makes of the packets is found     *)
(* first, by an induction over their number.                               *)
(***************************************************************************)
EXTENDS FriendsClient, SumsAndQueues, TLAPS

\* The other row of a pair.
LEMMA OppositePair ==
  ASSUME NEW p \in Pairs
  PROVE  Opposite(p) \in Pairs /\ Opposite(p) # p /\ Opposite(Opposite(p)) = p
BY DEF Pairs, Opposite

\* MarkedAccepted changes the row of the pair only.
LEMMA MarkedRows ==
  ASSUME NEW rows \in [Pairs -> Statuses], NEW p \in Pairs
  PROVE  /\ MarkedAccepted(rows, p) \in [Pairs -> Statuses]
         /\ \A q \in Pairs : q # p => MarkedAccepted(rows, p)[q] = rows[q]
         /\ rows[p] # "NONE" => MarkedAccepted(rows, p)[p] = "ACCEPTED"
         /\ rows[p] = "NONE" => MarkedAccepted(rows, p)[p] = "NONE"
BY DEF MarkedAccepted, Statuses

\* What accepting the request p leaves: the request accepted, nothing else
\* touched but the opposite row, which is accepted, too, unless a statement fails.
LEMMA AcceptedRows ==
  ASSUME TypeOK, NEW p \in Pairs, AcceptRequest(p)
  PROVE  /\ row' \in [Pairs -> Statuses]
         /\ row[p] = "PENDING" /\ row'[p] = "ACCEPTED"
         /\ \A q \in Pairs : q # p /\ q # Opposite(p) => row'[q] = row[q]
         /\ row'[Opposite(p)] \in {row[Opposite(p)], "PENDING", "ACCEPTED"}
         /\ failures' \in 0..MaxFailures
         /\ failures' = 0 => failures = 0 /\ row'[Opposite(p)] = "ACCEPTED"
<1> DEFINE accepted == Responded(p, "ACCEPTED")
           requested == Requested(accepted, Opposite(p))
           done == MarkedAccepted(requested, Opposite(p))
<1>1. Opposite(p) \in Pairs /\ Opposite(p) # p
  BY OppositePair
<1>2. row \in [Pairs -> Statuses] /\ failures \in 0..MaxFailures /\ MaxFailures \in Nat
  BY FriendsAssumption DEF TypeOK
<1>3. /\ accepted \in [Pairs -> Statuses]
      /\ accepted[p] = "ACCEPTED"
      /\ \A q \in Pairs : q # p => accepted[q] = row[q]
  BY <1>2 DEF Responded, Statuses
<1>4. /\ requested \in [Pairs -> Statuses]
      /\ requested[Opposite(p)] = "PENDING"
      /\ \A q \in Pairs : q # Opposite(p) => requested[q] = accepted[q]
  BY <1>1, <1>3 DEF Requested, Statuses
<1>5. /\ done[Opposite(p)] = "ACCEPTED"
      /\ done \in [Pairs -> Statuses]
      /\ \A q \in Pairs : q # Opposite(p) => done[q] = requested[q]
  BY <1>1, <1>4, MarkedRows
<1>6. /\ CanRespond(p)
      /\ row' \in {accepted, requested, MarkedAccepted(accepted, Opposite(p)), done}
      /\ row' # done => DbMayFail
      /\ failures' = failures + (IF row' = done THEN 0 ELSE 1)
  BY DEF AcceptRequest
<1> HIDE DEF accepted, requested, done
<1>7. /\ MarkedAccepted(accepted, Opposite(p)) \in [Pairs -> Statuses]
      /\ \A q \in Pairs : q # Opposite(p) =>
           MarkedAccepted(accepted, Opposite(p))[q] = accepted[q]
      /\ MarkedAccepted(accepted, Opposite(p))[Opposite(p)]
           \in {accepted[Opposite(p)], "ACCEPTED"}
  BY <1>1, <1>3, MarkedRows
<1>8. row' \in [Pairs -> Statuses] /\ row'[p] = "ACCEPTED"
  BY <1>1, <1>3, <1>4, <1>5, <1>6, <1>7
<1>9. \A q \in Pairs : q # p /\ q # Opposite(p) => row'[q] = row[q]
  BY <1>3, <1>4, <1>5, <1>6, <1>7
<1>10. row'[Opposite(p)] \in {row[Opposite(p)], "PENDING", "ACCEPTED"}
  BY <1>1, <1>3, <1>4, <1>5, <1>6, <1>7
<1>11. failures' \in 0..MaxFailures
  BY <1>2, <1>6 DEF DbMayFail
<1>12. failures' = 0 => failures = 0 /\ row'[Opposite(p)] = "ACCEPTED"
  BY <1>2, <1>5, <1>6
<1> QED
  BY <1>6, <1>8, <1>9, <1>10, <1>11, <1>12 DEF CanRespond

-----------------------------------------------------------------------------
(* The table is in order *)

LEMMA InitInv == Init => FriendsInv
BY FriendsAssumption DEF Init, FriendsInv, TypeOK, FriendsHaveRows, Statuses

LEMMA AddFriendInv ==
  ASSUME FriendsInv, NEW p \in Pairs, NEW told \in BOOLEAN, AddFriend(p, told)
  PROVE  FriendsInv'
<1>1. /\ row \in [Pairs -> Statuses] /\ failures \in 0..MaxFailures
      /\ failures' \in 0..MaxFailures /\ (failures' = 0 => failures = 0)
  BY FriendsAssumption DEF FriendsInv, TypeOK, AddFriend, DbMayFail
<1>2. /\ row' \in [Pairs -> Statuses] /\ row'[p] = "PENDING"
      /\ \A q \in Pairs : q # p => row'[q] = row[q]
  BY <1>1 DEF AddFriend, Requested, Statuses
<1>3. FriendsHaveRows'
  BY <1>1, <1>2, OppositePair DEF FriendsInv, FriendsHaveRows
<1> QED
  BY <1>1, <1>2, <1>3 DEF FriendsInv, TypeOK

\* What deleting leaves.
LEMMA RemovedRows ==
  ASSUME TypeOK, NEW p \in Pairs, RemoveFriend(p)
  PROVE  /\ row' \in [Pairs -> Statuses]
         /\ row'[p] = "NONE" /\ row'[Opposite(p)] = "NONE"
         /\ \A q \in Pairs : q # p /\ q # Opposite(p) => row'[q] = row[q]
BY OppositePair DEF TypeOK, RemoveFriend, Removed, Statuses

LEMMA RemoveFriendInv ==
  ASSUME FriendsInv, NEW p \in Pairs, RemoveFriend(p)
  PROVE  FriendsInv'
<1>1. TypeOK'
  BY RemovedRows DEF FriendsInv, TypeOK, RemoveFriend
<1>2. FriendsHaveRows'
  <2> SUFFICES ASSUME failures = 0, NEW q \in Pairs, row'[q] = "ACCEPTED"
               PROVE  row'[Opposite(q)] # "NONE"
    BY DEF FriendsHaveRows, RemoveFriend
  <2>1. q # p /\ q # Opposite(p) /\ row'[q] = row[q]
    BY RemovedRows DEF FriendsInv
  <2>2. Opposite(q) # p /\ Opposite(q) # Opposite(p) /\ Opposite(q) \in Pairs
    BY <2>1, OppositePair
  <2> QED
    BY <2>1, <2>2, RemovedRows DEF FriendsInv, FriendsHaveRows
<1> QED
  BY <1>1, <1>2 DEF FriendsInv

LEMMA AcceptRequestInv ==
  ASSUME FriendsInv, NEW p \in Pairs, AcceptRequest(p)
  PROVE  FriendsInv'
<1>1. TypeOK'
  BY AcceptedRows DEF FriendsInv, TypeOK
<1>2. FriendsHaveRows'
  <2> SUFFICES ASSUME failures' = 0, NEW q \in Pairs, row'[q] = "ACCEPTED"
               PROVE  row'[Opposite(q)] # "NONE"
    BY DEF FriendsHaveRows
  <2>1. failures = 0 /\ row'[p] = "ACCEPTED" /\ row'[Opposite(p)] = "ACCEPTED"
    BY AcceptedRows DEF FriendsInv
  <2>2. CASE q = p \/ q = Opposite(p)
    BY <2>1, <2>2, OppositePair
  <2>3. CASE q # p /\ q # Opposite(p)
    <3>1. Opposite(q) # p /\ Opposite(q) # Opposite(p) /\ Opposite(q) \in Pairs
      BY <2>3, OppositePair
    <3>2. row'[q] = row[q] /\ row'[Opposite(q)] = row[Opposite(q)]
      BY <2>3, <3>1, AcceptedRows DEF FriendsInv
    <3> QED
      BY <2>1, <3>2 DEF FriendsInv, FriendsHaveRows
  <2> QED
    BY <2>2, <2>3
<1> QED
  BY <1>1, <1>2 DEF FriendsInv

LEMMA DeclineRequestInv ==
  ASSUME FriendsInv, NEW p \in Pairs, DeclineRequest(p)
  PROVE  FriendsInv'
<1>1. /\ row' \in [Pairs -> Statuses] /\ row'[p] = "DECLINED" /\ row[p] = "PENDING"
      /\ \A q \in Pairs : q # p => row'[q] = row[q]
      /\ failures' = failures
  BY DEF FriendsInv, TypeOK, DeclineRequest, CanRespond, Responded, Statuses
<1>2. FriendsHaveRows'
  BY <1>1, OppositePair DEF FriendsInv, FriendsHaveRows
<1> QED
  BY <1>1, <1>2 DEF FriendsInv, TypeOK

LEMMA StatementFailsInv == FriendsInv /\ StatementFails => FriendsInv'
BY FriendsAssumption DEF FriendsInv, TypeOK, FriendsHaveRows, StatementFails, DbMayFail

LEMMA NextInv == FriendsInv /\ [Next]_vars => FriendsInv'
<1> SUFFICES ASSUME FriendsInv, [Next]_vars
             PROVE  FriendsInv'
  OBVIOUS
<1>1. CASE UNCHANGED vars
  BY <1>1 DEF vars, FriendsInv, TypeOK, FriendsHaveRows
<1>2. ASSUME NEW p \in Pairs, NEW told \in BOOLEAN, AddFriend(p, told)
      PROVE  FriendsInv'
  BY <1>2, AddFriendInv
<1>3. ASSUME NEW p \in Pairs, RemoveFriend(p)
      PROVE  FriendsInv'
  BY <1>3, RemoveFriendInv
<1>4. ASSUME NEW p \in Pairs, AcceptRequest(p)
      PROVE  FriendsInv'
  BY <1>4, AcceptRequestInv
<1>5. ASSUME NEW p \in Pairs, DeclineRequest(p)
      PROVE  FriendsInv'
  BY <1>5, DeclineRequestInv
<1>6. CASE StatementFails
  BY <1>6, StatementFailsInv
<1> QED
  BY <1>1, <1>2, <1>3, <1>4, <1>5, <1>6 DEF Next

\* handle_respond_friend and dao_friends.c: without a failure nobody is a friend
\* of somebody who has no row for him, for any number of users.
THEOREM FriendsInOrder == Spec => []FriendsInv
<1>1. FriendsInv /\ [Next]_vars => FriendsInv'
  BY NextInv
<1> QED
  BY InitInv, <1>1, PTL DEF Spec

-----------------------------------------------------------------------------
(* How friendships come and go *)

\* The two action properties, of one step and one row.
Consented(p) ==
  row[p] # "ACCEPTED" /\ row'[p] = "ACCEPTED" =>
    \/ row[p] = "PENDING"
    \/ row[Opposite(p)] = "PENDING" /\ row'[Opposite(p)] = "ACCEPTED"

EndedOnPurpose(p) ==
  row[p] = "ACCEPTED" /\ row'[p] # "ACCEPTED" =>
    \/ row'[p] = "PENDING"
    \/ row'[p] = "NONE" /\ row'[Opposite(p)] = "NONE"

LEMMA StepOfARow ==
  ASSUME TypeOK, [Next]_vars, NEW q \in Pairs
  PROVE  Consented(q) /\ EndedOnPurpose(q)
<1> USE DEF Consented, EndedOnPurpose
<1>1. CASE UNCHANGED vars \/ StatementFails
  BY <1>1 DEF vars, StatementFails
<1>2. ASSUME NEW p \in Pairs, NEW told \in BOOLEAN, AddFriend(p, told)
      PROVE  Consented(q) /\ EndedOnPurpose(q)
  BY <1>2 DEF TypeOK, AddFriend, Requested
<1>3. ASSUME NEW p \in Pairs, RemoveFriend(p)
      PROVE  Consented(q) /\ EndedOnPurpose(q)
  BY <1>3, RemovedRows, OppositePair
<1>4. ASSUME NEW p \in Pairs, AcceptRequest(p)
      PROVE  Consented(q) /\ EndedOnPurpose(q)
  BY <1>4, AcceptedRows, OppositePair
<1>5. ASSUME NEW p \in Pairs, DeclineRequest(p)
      PROVE  Consented(q) /\ EndedOnPurpose(q)
  BY <1>5 DEF TypeOK, DeclineRequest, CanRespond, Responded
<1> QED
  BY <1>1, <1>2, <1>3, <1>4, <1>5 DEF Next

\* dao_friends_respond_request: no friendship without an open request.
THEOREM NoFriendUnasked == Spec => FriendshipNeedsConsent
<1>1. FriendsInv /\ [Next]_vars =>
        [\A p \in Pairs :
           row[p] # "ACCEPTED" /\ row'[p] = "ACCEPTED" =>
             \/ row[p] = "PENDING"
             \/ row[Opposite(p)] = "PENDING" /\ row'[Opposite(p)] = "ACCEPTED"]_vars
  BY StepOfARow DEF FriendsInv, Consented
<1> QED
  BY FriendsInOrder, <1>1, PTL DEF Spec, FriendshipNeedsConsent

\* dao_friends_remove: a friendship ends with both rows, or by a new request.
THEOREM NoFriendLost == Spec => FriendshipEndsOnPurpose
<1>1. FriendsInv /\ [Next]_vars =>
        [\A p \in Pairs :
           row[p] = "ACCEPTED" /\ row'[p] # "ACCEPTED" =>
             \/ row'[p] = "PENDING"
             \/ row'[p] = "NONE" /\ row'[Opposite(p)] = "NONE"]_vars
  BY StepOfARow DEF FriendsInv, EndedOnPurpose
<1> QED
  BY FriendsInOrder, <1>1, PTL DEF Spec, FriendshipEndsOnPurpose

-----------------------------------------------------------------------------
(* What FoldLeft of PendingAfter computes *)

IsList(m) == m.kind = "pending"
Shows(m, v) == m.kind \in {"pending", "request"} /\ v \in m.who

\* The user v is shown once the packets q with the indices in s have been read
\* on top of base: he is in the last list of requests, or named after it.
IsShown(base, q, s, v) ==
  \/ v \in base /\ \A i \in s : ~IsList(q[i])
  \/ \E j \in s : Shows(q[j], v) /\ \A i \in s : i > j => ~IsList(q[i])

WhoIsShown(base, q, s) == {v \in Users : IsShown(base, q, s, v)}

AreFolds(g, base, q, S) ==
  g = [s \in SUBSET S |-> IF s = {} THEN base ELSE PendingAfter(g[s \ {Max(s)}], q[Max(s)])]

LEMMA FoldIsPartial ==
  ASSUME NEW base, NEW q
  PROVE  FoldLeft(PendingAfter, base, q)
           = (CHOOSE g : AreFolds(g, base, q, DOMAIN q))[DOMAIN q]
BY DEF FoldLeft, MapThenFoldSet, AreFolds

\* Max of a set of numbers that has a largest one.
LEMMA MaxOfNumbers ==
  ASSUME NEW n \in Nat, NEW s \in SUBSET (1..n), s # {}
  PROVE  Max(s) \in s /\ \A i \in s : i <= Max(s)
<1> DEFINE S == 1..n
           F == {T \in SUBSET S : T # {} => \E x \in T : \A y \in T : x >= y}
<1>1. ASSUME NEW T \in SUBSET S, \A U \in SUBSET T : U # T => U \in F, T # {}
      PROVE  \E x \in T : \A y \in T : x >= y
  <2>1. PICK x \in T : TRUE
    BY <1>1
  <2>2. CASE T = {x}
    <3>1. x >= x
      BY <2>1
    <3> QED  BY <2>2, <3>1
  <2>3. CASE T # {x}
    <3>1. T \ {x} \in F /\ T \ {x} # {}
      BY <1>1, <2>1, <2>3
    <3>2. PICK z \in T \ {x} : \A y \in T \ {x} : z >= y
      BY <3>1
    <3>3. CASE z >= x
      BY <3>2, <3>3
    <3>4. CASE ~(z >= x)
      <4>1. x \in Nat /\ \A y \in T : y \in Nat
        OBVIOUS
      <4>2. \A y \in T : x >= y
        BY <3>2, <3>4, <4>1
      <4> QED  BY <2>1, <4>2
    <3> QED  BY <3>3, <3>4
  <2> QED  BY <2>2, <2>3
<1>2. IsFiniteSet(S)
  BY FS_Interval
<1>3. SUBSET S \subseteq F
  <2>1. \A T \in SUBSET S : (\A U \in SUBSET T : U # T => U \in F) => T \in F
    BY <1>1
  <2> HIDE DEF F, S
  <2> QED  BY ONLY <1>2, <2>1, StrongInduction
<1>4. \E x \in s : \A y \in s : x >= y
  BY <1>3
<1>5. Max(s) \in s /\ \A y \in s : Max(s) >= y
  BY <1>4 DEF Max
<1> QED  BY <1>5

Replies ==
  [kind : {"list", "pending", "search", "add", "request", "remove", "status", "respond"},
   who : SUBSET Users, ok : BOOLEAN]

\* One more packet: WhoIsShown follows the recursion.
LEMMA OneMoreShown ==
  ASSUME NEW base \in SUBSET Users, NEW q \in Seq(Replies), NEW s \in SUBSET DOMAIN q
  PROVE  WhoIsShown(base, q, s)
           = IF s = {} THEN base ELSE PendingAfter(WhoIsShown(base, q, s \ {Max(s)}), q[Max(s)])
<1>1. CASE s = {}
  BY <1>1 DEF WhoIsShown, IsShown
<1>2. CASE s # {}
  <2> DEFINE x == Max(s)
             r == s \ {x}
             m == q[x]
  <2>1. /\ x \in s /\ r \in SUBSET s /\ s = r \cup {x}
        /\ \A i \in s : i \in Nat /\ i <= x
        /\ \A i \in r : i < x
    <3>1. DOMAIN q = 1..Len(q) /\ Len(q) \in Nat
      BY InQueue
    <3>2. x \in s /\ \A i \in s : i <= x
      BY <1>2, <3>1, MaxOfNumbers
    <3> HIDE DEF x
    <3>3. \A i \in s : i \in Nat
      BY <3>1
    <3> QED  BY <3>2, <3>3
  <2>2. m \in Replies
    BY <2>1, InQueue
  <2>3. m.who \in SUBSET Users
    BY <2>2 DEF Replies
  <2> HIDE DEF x, r, m
  <2>4. ASSUME NEW v \in Users
        PROVE  IsShown(base, q, s, v) <=> v \in PendingAfter(WhoIsShown(base, q, r), m)
    <3>0. v \in WhoIsShown(base, q, r) <=> IsShown(base, q, r, v)
      BY DEF WhoIsShown
    <3>1. CASE m.kind = "pending"
      <4>1. PendingAfter(WhoIsShown(base, q, r), m) = m.who
        BY <3>1 DEF PendingAfter
      <4>2. IsShown(base, q, s, v) <=> v \in m.who
        BY <2>1, <3>1 DEF IsShown, IsList, Shows, m
      <4> QED  BY <4>1, <4>2
    <3>2. CASE m.kind = "request"
      <4>1. PendingAfter(WhoIsShown(base, q, r), m) = WhoIsShown(base, q, r) \cup m.who
        BY <3>2 DEF PendingAfter
      <4>2. ~IsList(m) /\ (Shows(m, v) <=> v \in m.who)
        BY <3>2 DEF IsList, Shows
      <4>3. IsShown(base, q, s, v) <=> IsShown(base, q, r, v) \/ v \in m.who
        BY <2>1, <4>2 DEF IsShown, m
      <4> QED  BY <3>0, <4>1, <4>3
    <3>3. CASE m.kind \notin {"pending", "request"}
      <4>1. PendingAfter(WhoIsShown(base, q, r), m) = WhoIsShown(base, q, r)
        BY <3>3 DEF PendingAfter
      <4>2. ~IsList(m) /\ ~Shows(m, v)
        BY <3>3 DEF IsList, Shows
      <4>3. IsShown(base, q, s, v) <=> IsShown(base, q, r, v)
        BY <2>1, <4>2 DEF IsShown, m
      <4> QED  BY <3>0, <4>1, <4>3
    <3> QED  BY <3>1, <3>2, <3>3
  <2>5. PendingAfter(WhoIsShown(base, q, r), m) \in SUBSET Users
    <3>1. WhoIsShown(base, q, r) \in SUBSET Users
      BY DEF WhoIsShown
    <3> HIDE DEF WhoIsShown
    <3> QED  BY <2>3, <3>1 DEF PendingAfter
  <2>6. WhoIsShown(base, q, s) = PendingAfter(WhoIsShown(base, q, r), m)
    BY <2>4, <2>5 DEF WhoIsShown
  <2> QED  BY <1>2, <2>6 DEF x, r, m
<1> QED  BY <1>1, <1>2

\* The fold is known: it is WhoIsShown.
LEMMA FoldOfPending ==
  ASSUME NEW base \in SUBSET Users, NEW q \in Seq(Replies)
  PROVE  FoldLeft(PendingAfter, base, q) = WhoIsShown(base, q, DOMAIN q)
<1> DEFINE S == DOMAIN q
           W(s) == WhoIsShown(base, q, s)
           k == [s \in SUBSET S |-> W(s)]
           g == CHOOSE h : AreFolds(h, base, q, S)
<1>1. IsFiniteSet(S) /\ S = 1..Len(q) /\ Len(q) \in Nat
  BY InQueue, FS_Interval
<1>2. \A s \in SUBSET S : s # {} => Max(s) \in s
  BY <1>1, MaxOfNumbers
<1>3. \A s \in SUBSET S : W(s) = IF s = {} THEN base ELSE PendingAfter(W(s \ {Max(s)}), q[Max(s)])
  BY OneMoreShown
<1> HIDE DEF S, W
<1>4. AreFolds(k, base, q, S)
  <2>1. \A s \in SUBSET S : k[s] = IF s = {} THEN base
                                   ELSE PendingAfter(k[s \ {Max(s)}], q[Max(s)])
    <3> SUFFICES ASSUME NEW s \in SUBSET S
                 PROVE  k[s] = IF s = {} THEN base
                               ELSE PendingAfter(k[s \ {Max(s)}], q[Max(s)])
      OBVIOUS
    <3>1. s \ {Max(s)} \in SUBSET S
      OBVIOUS
    <3>2. k[s] = W(s) /\ k[s \ {Max(s)}] = W(s \ {Max(s)})
      BY <3>1
    <3> HIDE DEF k
    <3> QED  BY <1>3, <3>2
  <2>2. k = [s \in SUBSET S |-> k[s]]
    OBVIOUS
  <2> HIDE DEF k
  <2> QED  BY <2>1, <2>2 DEF AreFolds
<1>5. AreFolds(g, base, q, S)
  <2> HIDE DEF k
  <2> QED  BY <1>4
<1> HIDE DEF g
<1>6. \A s \in SUBSET S : g[s] = IF s = {} THEN base
                                 ELSE PendingAfter(g[s \ {Max(s)}], q[Max(s)])
  BY <1>5 DEF AreFolds
<1> DEFINE F == {s \in SUBSET S : g[s] = W(s)}
<1>7. ASSUME NEW T \in SUBSET S, \A U \in SUBSET T : U # T => U \in F
      PROVE  g[T] = W(T)
  <2>1. CASE T = {}
    BY <1>3, <1>6, <2>1
  <2>2. CASE T # {}
    <3>1. T \ {Max(T)} \in SUBSET T /\ T \ {Max(T)} # T
      BY <1>2, <2>2
    <3>2. g[T \ {Max(T)}] = W(T \ {Max(T)})
      BY <1>7, <3>1
    <3> QED  BY <1>3, <1>6, <2>2, <3>2
  <2> QED  BY <2>1, <2>2
<1>8. SUBSET S \subseteq F
  <2>1. \A T \in SUBSET S : (\A U \in SUBSET T : U # T => U \in F) => T \in F
    BY <1>7
  <2> HIDE DEF F
  <2>2. IsFiniteSet(S)
    BY <1>1
  <2> QED  BY ONLY <2>1, <2>2, StrongInduction
<1>9. g[S] = W(S)
  <2>1. S \in SUBSET S
    OBVIOUS
  <2> QED  BY <1>8, <2>1
<1>10. FoldLeft(PendingAfter, base, q) = g[S]
  BY FoldIsPartial DEF g, S
<1> QED  BY <1>9, <1>10 DEF W, S

-----------------------------------------------------------------------------
(* The friends screen: U is a screen, C the packets on their way to it and R *)
(* the users whose requests it has to show.                                  *)

FriendsList ==
  [open : BOOLEAN, listed : [Users -> Entries], pending : SUBSET Users, loaded : BOOLEAN]

\* With a list loaded, or on its way, whatever is pending is shown in the end.
ListInv(U, C, R) ==
  (U.open /\ U.loaded) \/ (\E i \in DOMAIN C : IsList(C[i])) =>
    \A v \in R : IsShown(U.pending, C, DOMAIN C, v)

\* The packets E, sent behind others, do not hide v: v is shown before them and
\* there is no list among them, or they show v themselves.
KeepShown(E, R, v) ==
  \/ v \in R /\ \A i \in DOMAIN E : ~IsList(E[i])
  \/ \E j \in DOMAIN E : Shows(E[j], v) /\ \A i \in DOMAIN E : i > j => ~IsList(E[i])

LEMMA PacketsAdded ==
  ASSUME NEW C \in Seq(Replies), NEW E \in Seq(Replies), NEW U, NEW R, ListInv(U, C, R),
         NEW Q, \A v \in Q : KeepShown(E, R, v),
         NEW D, D = C \o E
  PROVE  D \in Seq(Replies) /\ ListInv(U, D, Q)
<1> DEFINE l == Len(C)
<1>1. /\ D \in Seq(Replies) /\ l \in Nat /\ DOMAIN C = 1..l
      /\ DOMAIN E = 1..Len(E) /\ Len(E) \in Nat /\ DOMAIN D = 1..(l + Len(E))
      /\ \A i \in 1..l : D[i] = C[i]
      /\ \A i \in 1..Len(E) : D[l + i] = E[i]
  BY ConcatProperties, InQueue
<1> HIDE DEF l
<1>2. /\ \A i \in DOMAIN C : i \in Nat /\ i \in DOMAIN D /\ D[i] = C[i] /\ i <= l
      /\ \A i \in DOMAIN E : i \in Nat /\ l + i \in DOMAIN D /\ D[l + i] = E[i] /\ l + i > l
      /\ \A i \in DOMAIN D : i \in Nat
  BY <1>1
<1>3. \A i \in DOMAIN D : i \in DOMAIN C \/ (i - l \in DOMAIN E /\ l + (i - l) = i)
  BY <1>1
<1> SUFFICES ASSUME (U.open /\ U.loaded) \/ (\E i \in DOMAIN D : IsList(D[i])),
                    NEW v \in Q
             PROVE  IsShown(U.pending, D, DOMAIN D, v)
  BY <1>1 DEF ListInv
<1>4. CASE v \in R /\ \A i \in DOMAIN E : ~IsList(E[i])
  <2>1. \A i \in DOMAIN D : i \in DOMAIN C \/ ~IsList(D[i])
    BY <1>2, <1>3, <1>4
  <2>2. (U.open /\ U.loaded) \/ (\E i \in DOMAIN C : IsList(C[i]))
    BY <1>2, <2>1
  <2>3. IsShown(U.pending, C, DOMAIN C, v)
    BY <1>4, <2>2 DEF ListInv
  <2>4. CASE v \in U.pending /\ \A i \in DOMAIN C : ~IsList(C[i])
    BY <1>2, <2>1, <2>4 DEF IsShown
  <2>5. ASSUME NEW j \in DOMAIN C, Shows(C[j], v), \A i \in DOMAIN C : i > j => ~IsList(C[i])
        PROVE  IsShown(U.pending, D, DOMAIN D, v)
    BY <1>2, <2>1, <2>5 DEF IsShown
  <2> QED  BY <2>3, <2>4, <2>5 DEF IsShown
<1>5. ASSUME NEW j \in DOMAIN E, Shows(E[j], v), \A i \in DOMAIN E : i > j => ~IsList(E[i])
      PROVE  IsShown(U.pending, D, DOMAIN D, v)
  <2>1. l + j \in DOMAIN D /\ Shows(D[l + j], v)
    BY <1>2, <1>5
  <2>2. ASSUME NEW i \in DOMAIN D, i > l + j PROVE ~IsList(D[i])
    <3>1. i - l \in DOMAIN E /\ l + (i - l) = i /\ i - l > j
      BY <1>1, <1>2, <1>3, <2>2
    <3> QED  BY <1>2, <1>5, <3>1
  <2> QED  BY <2>1, <2>2 DEF IsShown
<1> QED  BY <1>4, <1>5 DEF KeepShown

\* An open screen reads the first packet.
LEMMA PacketRead ==
  ASSUME NEW C \in Seq(Replies), NEW D, LeftOf(D, C, 1),
         NEW U, NEW R, ListInv(U, C, R), U.open,
         NEW V, V.pending = PendingAfter(U.pending, C[1]),
         V.loaded <=> U.loaded \/ IsList(C[1])
  PROVE  ListInv(V, D, R)
<1>1. /\ 1 \in DOMAIN C
      /\ \A i \in DOMAIN D : i \in Nat /\ i > 0 /\ i + 1 \in DOMAIN C /\ D[i] = C[i + 1]
      /\ \A i \in DOMAIN C : i > 1 => i - 1 \in DOMAIN D
  BY DEF LeftOf
<1>2. \A i \in DOMAIN C : i \in Nat /\ (i = 1 \/ i > 1)
  BY InQueue
<1> SUFFICES ASSUME (V.open /\ V.loaded) \/ (\E i \in DOMAIN D : IsList(D[i])),
                    NEW v \in R
             PROVE  IsShown(V.pending, D, DOMAIN D, v)
  BY DEF ListInv
<1>3. IsShown(U.pending, C, DOMAIN C, v)
  BY <1>1 DEF ListInv
<1>4. v \in V.pending <=> \/ Shows(C[1], v)
                          \/ v \in U.pending /\ ~IsList(C[1])
  BY DEF PendingAfter, Shows, IsList
<1>5. CASE v \in U.pending /\ \A i \in DOMAIN C : ~IsList(C[i])
  BY <1>1, <1>4, <1>5 DEF IsShown
<1>6. ASSUME NEW j \in DOMAIN C, Shows(C[j], v), \A i \in DOMAIN C : i > j => ~IsList(C[i])
      PROVE  IsShown(V.pending, D, DOMAIN D, v)
  <2>1. CASE j = 1
    <3>1. \A i \in DOMAIN D : ~IsList(D[i])
      BY <1>1, <1>6, <2>1
    <3> QED  BY <1>4, <1>6, <2>1, <3>1 DEF IsShown
  <2>2. CASE j > 1
    <3>1. j - 1 \in DOMAIN D /\ (j - 1) + 1 = j
      BY <1>1, <1>2, <2>2
    <3>2. Shows(D[j - 1], v)
      BY <1>1, <1>6, <3>1
    <3>3. ASSUME NEW i \in DOMAIN D, i > j - 1 PROVE ~IsList(D[i])
      <4>1. i + 1 \in DOMAIN C /\ i + 1 > j /\ D[i] = C[i + 1]
        BY <1>1, <1>2, <3>1, <3>3
      <4> QED  BY <1>6, <4>1
    <3> QED  BY <3>1, <3>2, <3>3 DEF IsShown
  <2> QED  BY <1>2, <2>1, <2>2
<1> QED  BY <1>3, <1>5, <1>6 DEF IsShown

\* Nobody reads the first packet.
LEMMA PacketIgnored ==
  ASSUME NEW C \in Seq(Replies), NEW D, LeftOf(D, C, 1),
         NEW U, NEW R, ListInv(U, C, R), ~U.open
  PROVE  ListInv(U, D, R)
<1>1. /\ \A i \in DOMAIN D : i \in Nat /\ i > 0 /\ i + 1 \in DOMAIN C /\ D[i] = C[i + 1]
      /\ \A i \in DOMAIN C : i > 1 => i - 1 \in DOMAIN D
  BY DEF LeftOf
<1>2. \A i \in DOMAIN C : i \in Nat /\ (i = 1 \/ i > 1)
  BY InQueue
<1> SUFFICES ASSUME NEW k \in DOMAIN D, IsList(D[k]), NEW v \in R
             PROVE  IsShown(U.pending, D, DOMAIN D, v)
  BY DEF ListInv
<1>3. k + 1 \in DOMAIN C /\ k + 1 > 1 /\ IsList(C[k + 1])
  BY <1>1
<1>4. PICK j \in DOMAIN C : Shows(C[j], v) /\ \A i \in DOMAIN C : i > j => ~IsList(C[i])
  BY <1>3 DEF ListInv, IsShown
<1>5. j > 1
  BY <1>2, <1>3, <1>4
<1>6. j - 1 \in DOMAIN D /\ (j - 1) + 1 = j
  BY <1>1, <1>2, <1>5
<1>7. Shows(D[j - 1], v)
  BY <1>1, <1>4, <1>6
<1>8. ASSUME NEW i \in DOMAIN D, i > j - 1 PROVE ~IsList(D[i])
  <2>1. i + 1 \in DOMAIN C /\ i + 1 > j /\ D[i] = C[i + 1]
    BY <1>1, <1>2, <1>6, <1>8
  <2> QED  BY <1>4, <2>1
<1> QED  BY <1>6, <1>7, <1>8 DEF IsShown

\* A screen that has loaded nothing yet shows nothing.
LEMMA NothingLoaded ==
  ASSUME NEW C, NEW U, NEW R, ListInv(U, C, R), NEW V, ~(V.open /\ V.loaded)
  PROVE  ListInv(V, C, R)
BY DEF ListInv, IsShown

-----------------------------------------------------------------------------
(* All the users *)

Nobody == "nobody"

Requests(u) ==
  [kind : {"list", "pending"}, who : {Nobody}]
  \cup [kind : {"search", "add", "remove", "accept", "decline"}, who : Users \ {u}]

ClientTypes ==
  /\ ui \in [Users -> FriendsList]
  /\ toClient \in [Users -> Seq(Replies)]
  /\ toServer = [u \in Users |-> toServer[u]]
  /\ \A u \in Users : toServer[u] \in Seq(Requests(u))

ListsInOrder == failures = 0 => \A u \in Users : ListInv(ui[u], toClient[u], RequestsTo(u))

\* The inductive invariant of RequestsAreShown.
ScreensInv == FriendsInv /\ ClientTypes /\ ListsInOrder

\* A step of the user u and his screen: the table and the other screens stay.
LEMMA ScreenSteps ==
  ASSUME ScreensInv, UNCHANGED vars, NEW u \in Users,
         NEW S \in Seq(Requests(u)), toServer' = [toServer EXCEPT ![u] = S],
         NEW C \in Seq(Replies), toClient' = [toClient EXCEPT ![u] = C],
         NEW U \in FriendsList, ui' = [ui EXCEPT ![u] = U],
         ListInv(ui[u], toClient[u], RequestsTo(u)) => ListInv(U, C, RequestsTo(u))
  PROVE  ScreensInv'
<1>1. FriendsInv' /\ failures' = failures
  BY DEF ScreensInv, vars, FriendsInv, TypeOK, FriendsHaveRows
<1>2. ClientTypes'
  <2>1. ui' \in [Users -> FriendsList] /\ toClient' \in [Users -> Seq(Replies)]
    BY DEF ScreensInv, ClientTypes
  <2>2. toServer' = [v \in Users |-> toServer'[v]]
        /\ \A v \in Users : toServer'[v] \in Seq(Requests(v))
    <3>1. toServer'[u] = S /\ \A v \in Users \ {u} : toServer'[v] = toServer[v]
      BY DEF ScreensInv, ClientTypes
    <3> QED  BY <3>1 DEF ScreensInv, ClientTypes
  <2> QED  BY <2>1, <2>2 DEF ClientTypes
<1>3. ASSUME failures = 0, NEW v \in Users PROVE ListInv(ui'[v], toClient'[v], RequestsTo(v)')
  <2>1. RequestsTo(v)' = RequestsTo(v) /\ ListInv(ui[v], toClient[v], RequestsTo(v))
    BY <1>3 DEF vars, RequestsTo, ScreensInv, ListsInOrder
  <2>2. CASE v = u
    <3>1. ui'[v] = U /\ toClient'[v] = C
      BY <2>2 DEF ScreensInv, ClientTypes
    <3> QED  BY <2>1, <2>2, <3>1
  <2>3. CASE v # u
    <3>1. ui'[v] = ui[v] /\ toClient'[v] = toClient[v]
      BY <2>3 DEF ScreensInv, ClientTypes
    <3> QED  BY <2>1, <3>1
  <2> QED  BY <2>2, <2>3
<1> QED  BY <1>1, <1>2, <1>3 DEF ScreensInv, ListsInOrder

LEMMA SameFunction ==
  ASSUME NEW f, f = [x \in Users |-> f[x]], NEW u \in Users
  PROVE  f = [f EXCEPT ![u] = f[u]]
OBVIOUS

\* What the client needs to know of the present state of one user.
LEMMA OneScreen ==
  ASSUME ScreensInv, NEW u \in Users
  PROVE  /\ ui[u] \in FriendsList /\ ui = [ui EXCEPT ![u] = ui[u]]
         /\ toClient[u] \in Seq(Replies) /\ toClient = [toClient EXCEPT ![u] = toClient[u]]
         /\ toServer[u] \in Seq(Requests(u)) /\ toServer = [toServer EXCEPT ![u] = toServer[u]]
BY SameFunction DEF ScreensInv, ClientTypes

LEMMA SendRequests ==
  ASSUME ScreensInv, NEW u \in Users, NEW requests \in Seq(Requests(u)), Send(u, requests)
  PROVE  /\ toServer[u] \o requests \in Seq(Requests(u))
         /\ toServer' = [toServer EXCEPT ![u] = toServer[u] \o requests]
<1>1. toServer[u] \in Seq(Requests(u))
  BY OneScreen
<1> QED  BY <1>1, ConcatProperties DEF Send

LEMMA ListRequests ==
  ASSUME NEW u
  PROVE  /\ <<ListRequest>> \in Seq(Requests(u)) /\ <<PendingRequest>> \in Seq(Requests(u))
         /\ <<ListRequest, PendingRequest>> \in Seq(Requests(u)) /\ << >> \in Seq(Requests(u))
<1>1. ListRequest \in Requests(u) /\ PendingRequest \in Requests(u)
  BY DEF ListRequest, PendingRequest, Request, Requests, Nobody
<1> QED  BY <1>1

LEMMA FreshScreenType ==
  /\ FreshScreen \in FriendsList /\ NoScreen \in FriendsList
  /\ ~NoScreen.open /\ ~FreshScreen.loaded
<1>1. FreshScreen \in FriendsList
  BY DEF FreshScreen, FriendsList, Entries
<1>2. ~FreshScreen.loaded
  BY DEF FreshScreen
<1>3. NoScreen \in FriendsList /\ ~NoScreen.open
  BY <1>1 DEF NoScreen, FriendsList
<1> QED  BY <1>1, <1>2, <1>3

\* OpenScreen, LeaveScreen, Reload, and the clicks.
LEMMA UserInOrder ==
  ASSUME ScreensInv, NEW u \in Users, User(u)
  PROVE  ScreensInv' /\ UNCHANGED vars
<1>1. /\ ui[u] \in FriendsList /\ ui = [ui EXCEPT ![u] = ui[u]]
      /\ toClient[u] \in Seq(Replies) /\ toClient = [toClient EXCEPT ![u] = toClient[u]]
      /\ toServer[u] \in Seq(Requests(u)) /\ toServer = [toServer EXCEPT ![u] = toServer[u]]
  BY OneScreen
<1>2. ASSUME OpenScreen(u) PROVE ScreensInv' /\ UNCHANGED vars
  <2>1. <<ListRequest, PendingRequest>> \in Seq(Requests(u))
    BY ListRequests
  <2> DEFINE S == toServer[u] \o <<ListRequest, PendingRequest>>
  <2>2. S \in Seq(Requests(u)) /\ toServer' = [toServer EXCEPT ![u] = S]
    BY <1>2, <2>1, SendRequests DEF OpenScreen
  <2> HIDE DEF S
  <2>3. ui' = [ui EXCEPT ![u] = FreshScreen] /\ UNCHANGED <<vars, toClient>>
    BY <1>2 DEF OpenScreen, Show
  <2>4. FreshScreen \in FriendsList /\ ~(FreshScreen.open /\ FreshScreen.loaded)
    BY FreshScreenType
  <2>5. ListInv(ui[u], toClient[u], RequestsTo(u)) =>
          ListInv(FreshScreen, toClient[u], RequestsTo(u))
    BY <2>4, NothingLoaded
  <2> QED  BY <1>1, <2>2, <2>3, <2>4, <2>5, ScreenSteps
<1>3. ASSUME LeaveScreen(u) PROVE ScreensInv' /\ UNCHANGED vars
  <2>1. ui' = [ui EXCEPT ![u] = NoScreen] /\ UNCHANGED <<vars, toServer, toClient>>
    BY <1>3 DEF LeaveScreen, Show
  <2>2. NoScreen \in FriendsList /\ ~(NoScreen.open /\ NoScreen.loaded)
    BY FreshScreenType
  <2>3. ListInv(ui[u], toClient[u], RequestsTo(u)) =>
          ListInv(NoScreen, toClient[u], RequestsTo(u))
    BY <2>2, NothingLoaded
  <2> QED  BY <1>1, <2>1, <2>2, <2>3, ScreenSteps
<1>4. ASSUME NEW requests \in Seq(Requests(u)), Send(u, requests), UNCHANGED <<vars, toClient>>,
             NEW U \in FriendsList, ui' = [ui EXCEPT ![u] = U],
             U.open = ui[u].open /\ U.loaded = ui[u].loaded /\ U.pending = ui[u].pending
      PROVE  ScreensInv' /\ UNCHANGED vars
  <2> DEFINE S == toServer[u] \o requests
  <2>1. S \in Seq(Requests(u)) /\ toServer' = [toServer EXCEPT ![u] = S]
    BY <1>4, SendRequests
  <2> HIDE DEF S
  <2>2. ListInv(ui[u], toClient[u], RequestsTo(u)) => ListInv(U, toClient[u], RequestsTo(u))
    BY <1>4 DEF ListInv
  <2> QED  BY <1>1, <1>4, <2>1, <2>2, ScreenSteps
<1>5. ASSUME NEW requests \in {<<ListRequest, PendingRequest>>, <<PendingRequest>>, <<ListRequest>>},
             Reload(u, requests)
      PROVE  ScreensInv' /\ UNCHANGED vars
  <2>1. requests \in Seq(Requests(u))
    BY <1>5, ListRequests
  <2>2. Send(u, requests) /\ UNCHANGED <<vars, ui, toClient>>
    BY <1>5 DEF Reload
  <2> QED  BY <1>1, <1>4, <2>1, <2>2
<1>6. ASSUME NEW v \in Users \ {u}, NEW kind \in {"search", "add", "remove", "accept", "decline"},
             Click(u, Request(kind, v)), NEW U \in FriendsList, ui' = [ui EXCEPT ![u] = U],
             U.open = ui[u].open /\ U.loaded = ui[u].loaded /\ U.pending = ui[u].pending
      PROVE  ScreensInv' /\ UNCHANGED vars
  <2>1. Request(kind, v) \in Requests(u)
    BY DEF Request, Requests
  <2>2. <<Request(kind, v)>> \in Seq(Requests(u))
    BY <2>1
  <2> QED  BY <1>4, <1>6, <2>2 DEF Click
<1>7. ASSUME NEW v \in Users \ {u}, Search(u, v) PROVE ScreensInv' /\ UNCHANGED vars
  BY <1>1, <1>6, <1>7 DEF Search
<1>8. ASSUME NEW v \in Users \ {u}, ClickAdd(u, v) PROVE ScreensInv' /\ UNCHANGED vars
  <2> DEFINE U == [ui[u] EXCEPT !.listed[v] = "adding"]
  <2>1. /\ U \in FriendsList /\ U.open = ui[u].open /\ U.loaded = ui[u].loaded
        /\ U.pending = ui[u].pending
    BY <1>1 DEF FriendsList, Entries
  <2>2. ui' = [ui EXCEPT ![u] = U] /\ Click(u, Request("add", v))
    BY <1>8 DEF ClickAdd, Show
  <2> HIDE DEF U
  <2> QED  BY <1>6, <2>1, <2>2
<1>9. ASSUME NEW v \in Users \ {u}, ClickRemove(u, v) PROVE ScreensInv' /\ UNCHANGED vars
  BY <1>1, <1>6, <1>9 DEF ClickRemove
<1>10. ASSUME NEW v \in Users \ {u}, NEW kind \in {"accept", "decline"}, ClickRespond(u, v, kind)
       PROVE  ScreensInv' /\ UNCHANGED vars
  BY <1>1, <1>6, <1>10 DEF ClickRespond
<1> QED  BY <1>2, <1>3, <1>5, <1>7, <1>8, <1>9, <1>10 DEF User

\* The screen after a packet is still one, and shows the requests it had to.
LEMMA ScreenAfterType ==
  ASSUME NEW U \in FriendsList, NEW m \in Replies
  PROVE  /\ ScreenAfter(U, m) \in FriendsList
         /\ ScreenAfter(U, m).open = U.open
         /\ ScreenAfter(U, m).pending = PendingAfter(U.pending, m)
         /\ ScreenAfter(U, m).loaded <=> U.loaded \/ IsList(m)
<1> DEFINE shown == PendingAfter(U.pending, m)
           loaded == U.loaded \/ m.kind = "pending"
           listed ==
             CASE m.kind = "list" -> [v \in Users |-> IF v \in m.who THEN "friend" ELSE "none"]
               [] m.kind = "search" -> [v \in Users |-> IF v \in m.who /\ U.listed[v] = "none"
                                                        THEN "found" ELSE U.listed[v]]
               [] m.kind = "add" -> AddResult(U.listed, m.ok)
               [] OTHER -> U.listed
<1>1. ScreenAfter(U, m) = [U EXCEPT !.pending = shown, !.loaded = loaded, !.listed = listed]
  BY DEF ScreenAfter
<1>2. U.pending \in SUBSET Users /\ U.listed \in [Users -> Entries] /\ U.loaded \in BOOLEAN
  BY DEF FriendsList
<1>3. shown \in SUBSET Users
  BY <1>2 DEF Replies, PendingAfter
<1>4. loaded \in BOOLEAN /\ (loaded <=> U.loaded \/ IsList(m))
  BY <1>2 DEF IsList
<1>5. listed \in [Users -> Entries]
  <2>1. [v \in Users |-> IF v \in m.who THEN "friend" ELSE "none"] \in [Users -> Entries]
    BY DEF Entries
  <2>2. [v \in Users |-> IF v \in m.who /\ U.listed[v] = "none" THEN "found" ELSE U.listed[v]]
          \in [Users -> Entries]
    BY <1>2 DEF Entries
  <2>3. AddResult(U.listed, m.ok) \in [Users -> Entries]
    BY <1>2 DEF Entries, AddResult
  <2>4. CASE m.kind = "list"
    BY <2>1, <2>4
  <2>5. CASE m.kind = "search"
    BY <2>2, <2>5
  <2>6. CASE m.kind = "add"
    BY <2>3, <2>6
  <2>7. CASE m.kind \notin {"list", "search", "add"}
    BY <1>2, <2>7
  <2> QED  BY <2>4, <2>5, <2>6, <2>7
<1> HIDE DEF shown, loaded, listed
<1>6. /\ ScreenAfter(U, m) \in FriendsList
      /\ ScreenAfter(U, m).open = U.open
      /\ ScreenAfter(U, m).pending = shown
      /\ ScreenAfter(U, m).loaded = loaded
  BY <1>1, <1>3, <1>4, <1>5 DEF FriendsList
<1> QED  BY <1>4, <1>6 DEF shown

LEMMA ClientReadsInOrder ==
  ASSUME ScreensInv, NEW u \in Users, ClientReads(u)
  PROVE  ScreensInv' /\ UNCHANGED vars
<1> DEFINE C == toClient[u]
           U == ui[u]
           D == Tail(C)
           m == Head(C)
           R == RequestsTo(u)
<1>1. /\ U \in FriendsList /\ ui = [ui EXCEPT ![u] = U]
      /\ C \in Seq(Replies)
      /\ toServer[u] \in Seq(Requests(u)) /\ toServer = [toServer EXCEPT ![u] = toServer[u]]
  BY OneScreen
<1>2. /\ C # << >> /\ toClient' = [toClient EXCEPT ![u] = D] /\ UNCHANGED vars
      /\ IF U.open THEN Show(u, ScreenAfter(U, m)) /\ Send(u, SentBy(U, m))
                   ELSE UNCHANGED <<ui, toServer>>
  BY DEF ClientReads
<1>3. D \in Seq(Replies) /\ m = C[1] /\ LeftOf(D, C, 1)
  BY <1>1, <1>2, FirstDropped
<1> HIDE DEF D, m
<1>4. m \in Replies
  BY <1>1, <1>3, InQueue DEF LeftOf
<1>5. CASE U.open
  <2> DEFINE V == ScreenAfter(U, m)
             requests == SentBy(U, m)
             S == toServer[u] \o requests
  <2>1. requests \in Seq(Requests(u))
    BY ListRequests DEF SentBy
  <2>2. Show(u, V) /\ Send(u, requests)
    BY <1>2, <1>5
  <2> HIDE DEF requests
  <2>3. S \in Seq(Requests(u)) /\ toServer' = [toServer EXCEPT ![u] = S]
    BY <2>1, <2>2, SendRequests
  <2>4. /\ V \in FriendsList /\ V.pending = PendingAfter(U.pending, m)
        /\ V.loaded <=> U.loaded \/ IsList(m)
    BY <1>1, <1>4, ScreenAfterType
  <2>5. ui' = [ui EXCEPT ![u] = V]
    BY <2>2 DEF Show
  <2> HIDE DEF V, S
  <2>6. ListInv(U, C, R) => ListInv(V, D, R)
    <3> HIDE DEF U, C, R
    <3> QED  BY <1>1, <1>3, <1>5, <2>4, PacketRead
  <2> QED  BY <1>2, <1>3, <2>3, <2>4, <2>5, <2>6, ScreenSteps
<1>6. CASE ~U.open
  <2>1. ListInv(U, C, R) => ListInv(U, D, R)
    <3> HIDE DEF U, C, R
    <3> QED  BY <1>1, <1>3, <1>6, PacketIgnored
  <2> QED  BY <1>1, <1>2, <1>3, <1>6, <2>1, ScreenSteps
<1> QED  BY <1>5, <1>6

-----------------------------------------------------------------------------
(* The server *)

\* What a handler sends to x when u asked it and w is the peer.
SentTo(x, u, own, w, others) == IF x = u THEN own ELSE IF x = w THEN others ELSE << >>

\* A request is handled and answered: everybody's requests are still shown.
LEMMA ServerSteps ==
  ASSUME ScreensInv, FriendsInv', failures' = 0 => failures = 0,
         NEW u \in Users, NEW S \in Seq(Requests(u)), toServer' = [toServer EXCEPT ![u] = S],
         UNCHANGED ui, NEW w, NEW own \in Seq(Replies), NEW others \in Seq(Replies),
         Answer(u, own, w, others),
         failures' = 0 => \A x \in Users : \A v \in RequestsTo(x)' :
                            KeepShown(SentTo(x, u, own, w, others), RequestsTo(x), v)
  PROVE  ScreensInv'
<1> DEFINE E(x) == SentTo(x, u, own, w, others)
<1>1. \A x \in Users : E(x) \in Seq(Replies)
  BY DEF SentTo
<1>2. toClient' = [x \in Users |-> toClient[x] \o E(x)]
  BY DEF Answer, SentTo
<1>3. \A x \in Users : toClient[x] \in Seq(Replies)
  BY DEF ScreensInv, ClientTypes
<1> HIDE DEF E
<1>4. \A x \in Users : toClient'[x] = toClient[x] \o E(x) /\ toClient'[x] \in Seq(Replies)
  BY <1>1, <1>2, <1>3, ConcatProperties
<1>5. ClientTypes'
  <2>1. toClient' \in [Users -> Seq(Replies)] /\ ui' \in [Users -> FriendsList]
    BY <1>2, <1>4 DEF ScreensInv, ClientTypes
  <2>2. toServer'[u] = S /\ \A v \in Users \ {u} : toServer'[v] = toServer[v]
    BY DEF ScreensInv, ClientTypes
  <2>3. toServer' = [v \in Users |-> toServer'[v]]
    BY DEF ScreensInv, ClientTypes
  <2>4. \A v \in Users : toServer'[v] \in Seq(Requests(v))
    BY <2>2 DEF ScreensInv, ClientTypes
  <2> QED  BY <2>1, <2>3, <2>4 DEF ClientTypes
<1>6. ASSUME failures' = 0, NEW x \in Users
      PROVE  ListInv(ui'[x], toClient'[x], RequestsTo(x)')
  <2> DEFINE U == ui[x]
             C == toClient[x]
             R == RequestsTo(x)
             Q == RequestsTo(x)'
             D == toClient'[x]
             F == E(x)
  <2>1. ListInv(U, C, R)
    BY <1>6 DEF ScreensInv, ListsInOrder
  <2>2. \A v \in Q : KeepShown(F, R, v)
    BY <1>6 DEF E
  <2>3. C \in Seq(Replies) /\ F \in Seq(Replies) /\ D = C \o F
    BY <1>1, <1>3, <1>4
  <2> HIDE DEF U, C, R, Q, D, F
  <2>4. ListInv(U, D, Q)
    BY <2>1, <2>2, <2>3, PacketsAdded
  <2> QED  BY <2>4 DEF U, D, Q
<1> QED  BY <1>5, <1>6 DEF ScreensInv, ListsInOrder

\* Packets that hold no list hide nobody.
LEMMA QuietSteps ==
  ASSUME ScreensInv, FriendsInv', failures' = 0 => failures = 0,
         NEW u \in Users, NEW S \in Seq(Requests(u)), toServer' = [toServer EXCEPT ![u] = S],
         UNCHANGED ui, NEW w, NEW own \in Seq(Replies), NEW others \in Seq(Replies),
         Answer(u, own, w, others),
         \A i \in DOMAIN own : ~IsList(own[i]), \A i \in DOMAIN others : ~IsList(others[i]),
         failures' = 0 => \A x \in Users : RequestsTo(x)' \subseteq RequestsTo(x)
  PROVE  ScreensInv'
<1>1. ASSUME failures' = 0, NEW x \in Users, NEW v \in RequestsTo(x)'
      PROVE  KeepShown(SentTo(x, u, own, w, others), RequestsTo(x), v)
  <2>1. \A i \in DOMAIN SentTo(x, u, own, w, others) : ~IsList(SentTo(x, u, own, w, others)[i])
    <3>1. CASE x = u
      BY <3>1 DEF SentTo
    <3>2. CASE x # u /\ x = w
      BY <3>2 DEF SentTo
    <3>3. CASE x # u /\ x # w
      <4>1. SentTo(x, u, own, w, others) = << >>
        BY <3>3 DEF SentTo
      <4> QED  BY <4>1
    <3> QED  BY <3>1, <3>2, <3>3
  <2> QED  BY <1>1, <2>1 DEF KeepShown
<1> QED  BY <1>1, ServerSteps

LEMMA OneReply ==
  ASSUME NEW kind \in {"list", "pending", "search", "add", "request", "remove", "status",
                       "respond"},
         NEW who \in SUBSET Users, NEW ok \in BOOLEAN
  PROVE  /\ Reply(kind, who, ok) \in Replies
         /\ Reply(kind, who, ok).kind = kind /\ Reply(kind, who, ok).who = who
         /\ <<Reply(kind, who, ok)>> \in Seq(Replies)
         /\ DOMAIN <<Reply(kind, who, ok)>> = {1}
         /\ <<Reply(kind, who, ok)>>[1] = Reply(kind, who, ok)
<1> DEFINE r == Reply(kind, who, ok)
<1>1. r \in Replies /\ r.kind = kind /\ r.who = who
  BY DEF Reply, Replies
<1> HIDE DEF r
<1>2. <<r>> \in Seq(Replies) /\ DOMAIN <<r>> = {1} /\ <<r>>[1] = r
  BY <1>1
<1> QED  BY <1>1, <1>2 DEF r

\* A reply that is not a list of requests.
LEMMA QuietReply ==
  ASSUME NEW kind \in {"list", "search", "add", "request", "remove", "status", "respond"},
         NEW who \in SUBSET Users, NEW ok \in BOOLEAN
  PROVE  /\ <<Reply(kind, who, ok)>> \in Seq(Replies)
         /\ \A i \in DOMAIN <<Reply(kind, who, ok)>> : ~IsList(<<Reply(kind, who, ok)>>[i])
BY OneReply DEF IsList

\* The answers that tell nobody anything, and the notice of a request.
LEMMA Answers ==
  /\ <<Reply("add", {}, TRUE)>> \in Seq(Replies)
  /\ \A i \in DOMAIN <<Reply("add", {}, TRUE)>> : ~IsList(<<Reply("add", {}, TRUE)>>[i])
  /\ <<Reply("remove", {}, TRUE)>> \in Seq(Replies)
  /\ \A i \in DOMAIN <<Reply("remove", {}, TRUE)>> : ~IsList(<<Reply("remove", {}, TRUE)>>[i])
<1>1. "add" \in {"list", "search", "add", "request", "remove", "status", "respond"}
      /\ "remove" \in {"list", "search", "add", "request", "remove", "status", "respond"}
      /\ {} \in SUBSET Users /\ TRUE \in BOOLEAN
  OBVIOUS
<1>2. /\ <<Reply("add", {}, TRUE)>> \in Seq(Replies)
      /\ \A i \in DOMAIN <<Reply("add", {}, TRUE)>> : ~IsList(<<Reply("add", {}, TRUE)>>[i])
  BY ONLY <1>1, QuietReply, Zenon
<1>3. /\ <<Reply("remove", {}, TRUE)>> \in Seq(Replies)
      /\ \A i \in DOMAIN <<Reply("remove", {}, TRUE)>> : ~IsList(<<Reply("remove", {}, TRUE)>>[i])
  BY ONLY <1>1, QuietReply, Zenon
<1> QED  BY <1>2, <1>3

LEMMA Notice ==
  ASSUME NEW u \in Users
  PROVE  /\ <<Reply("request", {u}, TRUE)>> \in Seq(Replies)
         /\ \A i \in DOMAIN <<Reply("request", {u}, TRUE)>> :
              ~IsList(<<Reply("request", {u}, TRUE)>>[i])
         /\ 1 \in DOMAIN <<Reply("request", {u}, TRUE)>>
         /\ Shows(<<Reply("request", {u}, TRUE)>>[1], u)
<1> DEFINE r == Reply("request", {u}, TRUE)
           q == <<r>>
<1>1. r \in Replies /\ r.kind = "request" /\ r.who = {u}
  BY DEF Reply, Replies
<1>2. ~IsList(r) /\ Shows(r, u)
  BY <1>1 DEF IsList, Shows
<1> HIDE DEF r
<1>3. q \in Seq(Replies) /\ DOMAIN q = {1} /\ q[1] = r
  BY <1>1
<1> HIDE DEF q
<1> QED  BY <1>2, <1>3 DEF q, r

\* The status of a friend.
LEMMA Status ==
  ASSUME NEW v \in Users
  PROVE  /\ Reply("status", {v}, TRUE) \in Replies
         /\ ~IsList(Reply("status", {v}, TRUE))
         /\ Reply("respond", {}, TRUE) \in Replies
         /\ ~IsList(Reply("respond", {}, TRUE))
BY DEF Reply, Replies, IsList

\* An answer to the user alone, without a list.
LEMMA TellInOrder ==
  ASSUME ScreensInv, FriendsInv', failures' = 0 => failures = 0,
         NEW u \in Users, NEW S \in Seq(Requests(u)), toServer' = [toServer EXCEPT ![u] = S],
         UNCHANGED ui, NEW kind \in {"list", "search", "add", "remove", "respond"},
         NEW who \in SUBSET Users, NEW ok \in BOOLEAN, Tell(u, <<Reply(kind, who, ok)>>),
         failures' = 0 => \A x \in Users : RequestsTo(x)' \subseteq RequestsTo(x)
  PROVE  ScreensInv'
<1> DEFINE own == <<Reply(kind, who, ok)>>
           others == << >>
<1>1. own \in Seq(Replies) /\ \A i \in DOMAIN own : ~IsList(own[i])
  BY OneReply DEF IsList
<1>2. others \in Seq(Replies) /\ \A i \in DOMAIN others : ~IsList(others[i])
  OBVIOUS
<1>3. Answer(u, own, u, others)
  BY DEF Tell
<1> HIDE DEF own, others
<1> QED  BY <1>1, <1>2, <1>3, QuietSteps

\* Steps that leave the table alone.
LEMMA TableKept ==
  ASSUME ScreensInv, UNCHANGED vars
  PROVE  FriendsInv' /\ failures' = failures /\ \A x \in Users : RequestsTo(x)' = RequestsTo(x)
BY DEF ScreensInv, FriendsInv, TypeOK, FriendsHaveRows, vars, RequestsTo

\* The table after a failure; nothing is promised any more.
LEMMA FailInOrder ==
  ASSUME ScreensInv, StatementFails,
         NEW u \in Users, NEW S \in Seq(Requests(u)), toServer' = [toServer EXCEPT ![u] = S],
         UNCHANGED ui,
         NEW kind \in {"list", "pending", "search", "add", "remove", "respond"}, Refuse(u, kind)
  PROVE  ScreensInv'
<1> DEFINE own == <<Reply(kind, {}, FALSE)>>
           others == << >>
<1>1. FriendsInv' /\ failures' # 0
  BY StatementFailsInv DEF ScreensInv, StatementFails, FriendsInv, TypeOK
<1>2. own \in Seq(Replies)
  BY OneReply
<1>3. others \in Seq(Replies)
  OBVIOUS
<1>4. Answer(u, own, u, others)
  BY DEF Refuse, Tell
<1> HIDE DEF own, others
<1> QED  BY <1>1, <1>2, <1>3, <1>4, ServerSteps

LEMMA HandleListInOrder ==
  ASSUME ScreensInv, NEW u \in Users, NEW S \in Seq(Requests(u)),
         toServer' = [toServer EXCEPT ![u] = S], UNCHANGED ui,
         NEW m \in Requests(u), m.kind = "list" \/ m.kind = "pending", HandleList(u, m)
  PROVE  ScreensInv'
<1>1. /\ FriendsInv' /\ failures' = failures /\ UNCHANGED vars
      /\ \A x \in Users : RequestsTo(x)' = RequestsTo(x)
  BY TableKept DEF HandleList
<1>2. FriendsOf(u) \in SUBSET Users /\ RequestsTo(u) \in SUBSET Users
  BY DEF FriendsOf, RequestsTo
<1>3. CASE m.kind = "list"
  <2>1. Tell(u, <<Reply("list", FriendsOf(u), TRUE)>>)
    BY <1>3 DEF HandleList
  <2> QED  BY <1>1, <1>2, <2>1, TellInOrder
<1>4. CASE m.kind = "pending"
  <2> DEFINE own == <<Reply("pending", RequestsTo(u), TRUE)>>
             others == << >>
  <2>1. Answer(u, own, u, others)
    BY <1>4 DEF HandleList, Tell
  <2>2. /\ own \in Seq(Replies) /\ DOMAIN own = {1}
        /\ own[1].kind = "pending" /\ own[1].who = RequestsTo(u)
    <3> DEFINE r == Reply("pending", RequestsTo(u), TRUE)
    <3>1. r \in Replies /\ r.kind = "pending" /\ r.who = RequestsTo(u)
      BY <1>2 DEF Reply, Replies
    <3> HIDE DEF r
    <3>2. <<r>> \in Seq(Replies) /\ DOMAIN <<r>> = {1} /\ <<r>>[1] = r
      BY <3>1
    <3> QED  BY <3>1, <3>2 DEF r
  <2>3. others \in Seq(Replies) /\ DOMAIN others = {}
    OBVIOUS
  <2> HIDE DEF own, others
  <2>4. ASSUME NEW x \in Users, NEW v \in RequestsTo(x)
        PROVE  KeepShown(SentTo(x, u, own, u, others), RequestsTo(x), v)
    <3>1. CASE x = u
      <4>1. KeepShown(own, RequestsTo(u), v)
        BY <2>2, <2>4, <3>1 DEF KeepShown, Shows
      <4> QED  BY <3>1, <4>1 DEF SentTo
    <3>2. CASE x # u
      <4>1. SentTo(x, u, own, u, others) = << >> /\ DOMAIN << >> = {}
        BY <3>2 DEF SentTo
      <4> QED  BY <2>4, <4>1 DEF KeepShown
    <3> QED  BY <3>1, <3>2
  <2> QED  BY <1>1, <2>1, <2>2, <2>3, <2>4, ServerSteps
<1> QED  BY <1>3, <1>4

\* The peer of a request is told of it, unless there was a failure.
LEMMA HandleAddInOrder ==
  ASSUME ScreensInv, NEW u \in Users, NEW S \in Seq(Requests(u)),
         toServer' = [toServer EXCEPT ![u] = S], UNCHANGED ui,
         NEW m, m.who \in Users \ {u}, HandleAdd(u, m)
  PROVE  ScreensInv' /\ [Next]_vars
<1> DEFINE w == m.who
           p == <<u, w>>
<1>1. PICK told \in BOOLEAN :
        /\ AddFriend(p, told)
        /\ Answer(u, <<Reply("add", {}, TRUE)>>, w,
                  IF told THEN <<Reply("request", {u}, TRUE)>> ELSE << >>)
  BY DEF HandleAdd
<1>2. p \in Pairs /\ p[1] = u /\ p[2] = w
  BY DEF Pairs
<1>3. FriendsInv' /\ [Next]_vars
  <2>1. Next
    BY <1>1, <1>2 DEF Next
  <2> QED  BY <2>1, NextInv DEF ScreensInv
<1>4. failures' = 0 => failures = 0 /\ told
  BY <1>1 DEF ScreensInv, FriendsInv, TypeOK, AddFriend
<1> DEFINE own == <<Reply("add", {}, TRUE)>>
           others == IF told THEN <<Reply("request", {u}, TRUE)>> ELSE << >>
<1>5. own \in Seq(Replies) /\ \A i \in DOMAIN own : ~IsList(own[i])
  BY Answers
<1>6. /\ others \in Seq(Replies)
      /\ \A i \in DOMAIN others : ~IsList(others[i])
      /\ told => 1 \in DOMAIN others /\ Shows(others[1], u)
  <2>1. CASE told
    BY <2>1, Notice
  <2>2. CASE ~told
    BY <2>2
  <2> QED  BY <2>1, <2>2
<1>7. ASSUME NEW x \in Users, NEW v \in RequestsTo(x)'
      PROVE  v \in RequestsTo(x) \/ (x = w /\ v = u)
  <2>1. v \in Users /\ v # x /\ <<v, x>> \in Pairs /\ row'[<<v, x>>] = "PENDING"
    BY <1>7 DEF RequestsTo, Pairs
  <2>2. CASE <<v, x>> = p
    BY <1>2, <2>2
  <2>3. CASE <<v, x>> # p
    <3>1. row[<<v, x>>] = "PENDING"
      BY <1>1, <2>1, <2>3 DEF AddFriend, Requested, ScreensInv, FriendsInv, TypeOK
    <3> QED  BY <2>1, <3>1 DEF RequestsTo
  <2> QED  BY <2>2, <2>3
<1>8. Answer(u, own, w, others)
  BY <1>1
<1> HIDE DEF own, others
<1>9. ASSUME failures' = 0, NEW x \in Users, NEW v \in RequestsTo(x)'
      PROVE  KeepShown(SentTo(x, u, own, w, others), RequestsTo(x), v)
  <2>1. CASE x = w
    <3>1. SentTo(x, u, own, w, others) = others
      BY <2>1 DEF SentTo
    <3>2. KeepShown(others, RequestsTo(x), v)
      BY <1>4, <1>6, <1>7, <1>9 DEF KeepShown
    <3> QED  BY <3>1, <3>2
  <2>2. CASE x = u
    <3>1. SentTo(x, u, own, w, others) = own /\ x # w
      BY <2>2 DEF SentTo
    <3>2. KeepShown(own, RequestsTo(x), v)
      BY <1>5, <1>7, <1>9, <3>1 DEF KeepShown
    <3> QED  BY <3>1, <3>2
  <2>3. CASE x # u /\ x # w
    <3>1. SentTo(x, u, own, w, others) = << >> /\ DOMAIN << >> = {}
      BY <2>3 DEF SentTo
    <3> QED  BY <1>7, <1>9, <2>3, <3>1 DEF KeepShown
  <2> QED  BY <2>1, <2>2, <2>3
<1>10. failures' = 0 => failures = 0
  BY <1>4
<1>11. ScreensInv'
  <2> HIDE DEF w, p
  <2> QED  BY <1>3, <1>5, <1>6, <1>8, <1>9, <1>10, ServerSteps
<1> QED  BY <1>3, <1>11

\* A friendship is removed, a request accepted or declined: nobody is asked anything new.
LEMMA HandleRemoveInOrder ==
  ASSUME ScreensInv, NEW u \in Users, NEW S \in Seq(Requests(u)),
         toServer' = [toServer EXCEPT ![u] = S], UNCHANGED ui,
         NEW m, m.who \in Users \ {u}, HandleRemove(u, m)
  PROVE  ScreensInv' /\ [Next]_vars
<1> DEFINE w == m.who
           p == <<u, w>>
<1>1. /\ RemoveFriend(p)
      /\ Answer(u, <<Reply("remove", {}, TRUE)>>, w, <<Reply("status", {u}, TRUE)>>)
  BY DEF HandleRemove
<1>2. p \in Pairs
  BY DEF Pairs
<1>3. FriendsInv' /\ [Next]_vars
  <2>1. Next
    BY <1>1, <1>2 DEF Next
  <2> QED  BY <2>1, NextInv DEF ScreensInv
<1>4. ASSUME NEW x \in Users PROVE RequestsTo(x)' \subseteq RequestsTo(x)
  <2>1. \A q \in Pairs : row'[q] = row[q] \/ row'[q] = "NONE"
    BY <1>1, <1>2, RemovedRows DEF ScreensInv, FriendsInv
  <2>2. \A v \in Users : v # x => <<v, x>> \in Pairs
    BY DEF Pairs
  <2> QED  BY <2>1, <2>2 DEF RequestsTo
<1>5. failures' = failures
  BY <1>1 DEF RemoveFriend
<1> DEFINE own == <<Reply("remove", {}, TRUE)>>
           r == Reply("status", {u}, TRUE)
           others == <<r>>
<1>6. own \in Seq(Replies) /\ \A i \in DOMAIN own : ~IsList(own[i])
  BY Answers
<1>7. r \in Replies /\ ~IsList(r)
  BY Status
<1>8. Answer(u, own, w, others)
  BY <1>1
<1> HIDE DEF own, r
<1>9. others \in Seq(Replies) /\ \A i \in DOMAIN others : ~IsList(others[i])
  BY <1>7
<1> HIDE DEF others, w, p
<1>10. ScreensInv'
  BY <1>3, <1>4, <1>5, <1>6, <1>8, <1>9, QuietSteps
<1> QED  BY <1>3, <1>10

LEMMA HandleAcceptInOrder ==
  ASSUME ScreensInv, NEW u \in Users, NEW S \in Seq(Requests(u)),
         toServer' = [toServer EXCEPT ![u] = S], UNCHANGED ui,
         NEW m, m.who \in Users \ {u}, HandleAccept(u, m)
  PROVE  ScreensInv' /\ [Next]_vars
<1> DEFINE w == m.who
           p == <<w, u>>
           a == Reply("status", {w}, TRUE)
           b == Reply("respond", {}, TRUE)
           c == Reply("status", {u}, TRUE)
           own == <<a, b>>
           others == <<c>>
<1>1. AcceptRequest(p) /\ Answer(u, own, w, others)
  BY DEF HandleAccept
<1>2. p \in Pairs
  BY DEF Pairs
<1>3. FriendsInv' /\ [Next]_vars
  <2>1. Next
    BY <1>1, <1>2 DEF Next
  <2> QED  BY <2>1, NextInv DEF ScreensInv
<1>4. /\ row'[p] = "ACCEPTED"
      /\ \A q \in Pairs : q # p /\ q # Opposite(p) => row'[q] = row[q]
      /\ failures' = 0 => failures = 0 /\ row'[Opposite(p)] = "ACCEPTED"
  BY <1>1, <1>2, AcceptedRows DEF ScreensInv, FriendsInv
<1>5. ASSUME failures' = 0, NEW x \in Users PROVE RequestsTo(x)' \subseteq RequestsTo(x)
  <2>1. \A q \in Pairs : row'[q] = row[q] \/ row'[q] = "ACCEPTED"
    BY <1>4, <1>5
  <2>2. \A v \in Users : v # x => <<v, x>> \in Pairs
    BY DEF Pairs
  <2> QED  BY <2>1, <2>2 DEF RequestsTo
<1>6. /\ a \in Replies /\ ~IsList(a) /\ b \in Replies /\ ~IsList(b)
      /\ c \in Replies /\ ~IsList(c)
  BY Status
<1> HIDE DEF a, b, c
<1>7. /\ own \in Seq(Replies) /\ \A i \in DOMAIN own : ~IsList(own[i])
      /\ others \in Seq(Replies) /\ \A i \in DOMAIN others : ~IsList(others[i])
  BY <1>6
<1> HIDE DEF own, others, w, p
<1>8. ScreensInv'
  BY <1>1, <1>3, <1>4, <1>5, <1>7, QuietSteps
<1> QED  BY <1>3, <1>8

LEMMA HandleDeclineInOrder ==
  ASSUME ScreensInv, NEW u \in Users, NEW S \in Seq(Requests(u)),
         toServer' = [toServer EXCEPT ![u] = S], UNCHANGED ui,
         NEW m, m.who \in Users \ {u}, HandleDecline(u, m)
  PROVE  ScreensInv' /\ [Next]_vars
<1> DEFINE p == <<m.who, u>>
<1>1. DeclineRequest(p) /\ Tell(u, <<Reply("respond", {}, TRUE)>>)
  BY DEF HandleDecline
<1>2. p \in Pairs
  BY DEF Pairs
<1>3. FriendsInv' /\ [Next]_vars
  <2>1. Next
    BY <1>1, <1>2 DEF Next
  <2> QED  BY <2>1, NextInv DEF ScreensInv
<1>4. /\ \A q \in Pairs : row'[q] = row[q] \/ row'[q] = "DECLINED"
      /\ failures' = failures
  BY <1>1, <1>2 DEF ScreensInv, FriendsInv, TypeOK, DeclineRequest, Responded
<1>5. ASSUME NEW x \in Users PROVE RequestsTo(x)' \subseteq RequestsTo(x)
  <2>1. \A v \in Users : v # x => <<v, x>> \in Pairs
    BY DEF Pairs
  <2> QED  BY <1>4, <2>1 DEF RequestsTo
<1> HIDE DEF p
<1>6. {} \in SUBSET Users /\ TRUE \in BOOLEAN
  OBVIOUS
<1>7. ScreensInv'
  BY <1>1, <1>3, <1>4, <1>5, <1>6, TellInOrder
<1> QED  BY <1>3, <1>7

\* A search, and an answer that comes too late.
LEMMA NothingWritten ==
  ASSUME ScreensInv, NEW u \in Users, NEW S \in Seq(Requests(u)),
         toServer' = [toServer EXCEPT ![u] = S], UNCHANGED ui,
         NEW m, m.who \in Users \ {u}, HandleSearch(u, m) \/ HandleLateResponse(u, m)
  PROVE  ScreensInv' /\ UNCHANGED vars
<1>1. UNCHANGED vars
  BY DEF HandleSearch, HandleLateResponse
<1>2. /\ FriendsInv' /\ failures' = failures
      /\ \A x \in Users : RequestsTo(x)' = RequestsTo(x)
  BY <1>1, TableKept
<1>3. CASE HandleSearch(u, m)
  <2>1. Tell(u, <<Reply("search", {m.who}, TRUE)>>) /\ {m.who} \in SUBSET Users
    BY <1>3 DEF HandleSearch
  <2> QED  BY <1>1, <1>2, <2>1, TellInOrder
<1>4. CASE HandleLateResponse(u, m)
  <2>1. Tell(u, <<Reply("respond", {}, FALSE)>>)
    BY <1>4 DEF HandleLateResponse, Refuse
  <2> QED  BY <1>1, <1>2, <2>1, TellInOrder
<1> QED  BY <1>3, <1>4

LEMMA FailsInOrder ==
  ASSUME ScreensInv, NEW u \in Users, NEW S \in Seq(Requests(u)),
         toServer' = [toServer EXCEPT ![u] = S], UNCHANGED ui, NEW m \in Requests(u),
         Fails(u, [m EXCEPT !.kind = IF @ \in {"accept", "decline"} THEN "respond" ELSE @])
  PROVE  ScreensInv' /\ [Next]_vars
<1> DEFINE kind == IF m.kind \in {"accept", "decline"} THEN "respond" ELSE m.kind
<1>1. kind \in {"list", "pending", "search", "add", "remove", "respond"}
  BY DEF Requests
<1>2. StatementFails /\ Refuse(u, kind)
  BY DEF Fails, Requests
<1>3. Next
  BY <1>2 DEF Next
<1> HIDE DEF kind
<1> QED  BY <1>1, <1>2, <1>3, FailInOrder

LEMMA ServerReadsInOrder ==
  ASSUME ScreensInv, NEW u \in Users, ServerReads(u)
  PROVE  ScreensInv' /\ [Next]_vars
<1> DEFINE C == toServer[u]
           m == C[1]
<1>1. PICK n \in 1..Len(C) :
        /\ Handle(u, m)
        /\ toServer' = [toServer EXCEPT ![u] = SubSeq(C, n + 1, Len(C))]
        /\ UNCHANGED ui
  BY DEF ServerReads
<1>2. C \in Seq(Requests(u))
  BY OneScreen
<1> DEFINE S == SubSeq(C, n + 1, Len(C))
<1>3. S \in Seq(Requests(u)) /\ 1 \in DOMAIN C
  <2>1. Len(C) \in Nat /\ DOMAIN C = 1..Len(C)
    BY <1>2, InQueue
  <2>2. 1 \in 1..Len(C)
    BY <1>1, <2>1
  <2> QED  BY <1>1, <1>2, <2>1, <2>2, Dropped
<1>4. m \in Requests(u)
  BY <1>2, <1>3, InQueue
<1>5. toServer' = [toServer EXCEPT ![u] = S] /\ UNCHANGED ui /\ Handle(u, m)
  BY <1>1
<1> HIDE DEF C, m, S
<1>6. m.kind \in {"search", "add", "remove", "accept", "decline"} => m.who \in Users \ {u}
  BY <1>4 DEF Requests
<1>7. CASE m.kind \in {"list", "pending"} /\ HandleList(u, m)
  <2>1. ScreensInv'
    BY <1>3, <1>4, <1>5, <1>7, HandleListInOrder
  <2>2. UNCHANGED vars
    BY <1>7 DEF HandleList
  <2> QED  BY <2>1, <2>2
<1>8. CASE m.kind = "search" /\ HandleSearch(u, m)
  BY <1>3, <1>5, <1>6, <1>8, NothingWritten
<1>9. CASE m.kind = "add" /\ HandleAdd(u, m)
  BY <1>3, <1>5, <1>6, <1>9, HandleAddInOrder
<1>10. CASE m.kind = "remove" /\ HandleRemove(u, m)
  BY <1>3, <1>5, <1>6, <1>10, HandleRemoveInOrder
<1>11. CASE m.kind = "accept" /\ HandleAccept(u, m)
  BY <1>3, <1>5, <1>6, <1>11, HandleAcceptInOrder
<1>12. CASE m.kind = "decline" /\ HandleDecline(u, m)
  BY <1>3, <1>5, <1>6, <1>12, HandleDeclineInOrder
<1>13. CASE m.kind \in {"accept", "decline"} /\ HandleLateResponse(u, m)
  BY <1>3, <1>5, <1>6, <1>13, NothingWritten
<1>14. CASE Fails(u, [m EXCEPT !.kind = IF @ \in {"accept", "decline"} THEN "respond" ELSE @])
  BY <1>3, <1>4, <1>5, <1>14, FailsInOrder
<1> QED  BY <1>5, <1>7, <1>8, <1>9, <1>10, <1>11, <1>12, <1>13, <1>14 DEF Handle

-----------------------------------------------------------------------------
(* The friends screens and the table together *)

LEMMA ScreensInit == ClientInit => ScreensInv
<1> SUFFICES ASSUME ClientInit PROVE ScreensInv
  OBVIOUS
<1>1. FriendsInv
  BY InitInv DEF ClientInit
<1>2. ClientTypes
  BY FreshScreenType DEF ClientInit, ClientTypes
<1>3. ASSUME NEW u \in Users PROVE ListInv(ui[u], toClient[u], RequestsTo(u))
  <2>1. ui[u] = NoScreen /\ toClient[u] = << >> /\ ~ui[u].open
    BY <1>3, FreshScreenType DEF ClientInit
  <2>2. DOMAIN toClient[u] = {}
    BY <2>1
  <2> QED  BY <2>1, <2>2 DEF ListInv
<1> QED  BY <1>1, <1>2, <1>3 DEF ScreensInv, ListsInOrder

LEMMA ScreensStep == ScreensInv /\ [ClientNext]_allVars => ScreensInv' /\ [Next]_vars
<1> SUFFICES ASSUME ScreensInv, [ClientNext]_allVars PROVE ScreensInv' /\ [Next]_vars
  OBVIOUS
<1>1. CASE UNCHANGED allVars
  <2>1. UNCHANGED <<vars, ui, toServer, toClient>>
    BY <1>1 DEF allVars, clientVars
  <2>2. FriendsInv' /\ failures' = failures /\ \A x \in Users : RequestsTo(x)' = RequestsTo(x)
    BY <2>1, TableKept
  <2>3. ClientTypes'
    BY <2>1 DEF ScreensInv, ClientTypes
  <2>4. ListsInOrder'
    BY <2>1, <2>2 DEF ScreensInv, ListsInOrder
  <2> QED  BY <2>1, <2>2, <2>3, <2>4 DEF ScreensInv
<1>2. ASSUME NEW u \in Users, User(u) PROVE ScreensInv' /\ [Next]_vars
  BY <1>2, UserInOrder
<1>3. ASSUME NEW u \in Users, ServerReads(u) PROVE ScreensInv' /\ [Next]_vars
  BY <1>3, ServerReadsInOrder
<1>4. ASSUME NEW u \in Users, ClientReads(u) PROVE ScreensInv' /\ [Next]_vars
  BY <1>4, ClientReadsInOrder
<1> QED  BY <1>1, <1>2, <1>3, <1>4 DEF ClientNext

\* FriendsList.qml and friends_service.c together, for any number of users: once
\* a list of requests is loaded or on its way, what is on the way completes it.
THEOREM ScreensInOrder == ClientSpec => []ScreensInv
<1>1. ScreensInv /\ [ClientNext]_allVars => ScreensInv'
  BY ScreensStep
<1> QED
  BY ScreensInit, <1>1, PTL DEF ClientSpec

\* onFriendRequestReceived, onPendingRequestsReceived: no request stays hidden
\* from a screen that has loaded its list.
THEOREM RequestsAreShownAlways == ClientSpec => []RequestsAreShown
<1>1. ScreensInv => RequestsAreShown
  <2> SUFFICES ASSUME ScreensInv, NEW u \in Users, ui[u].open, ui[u].loaded, failures = 0,
                      NEW v \in RequestsTo(u)
               PROVE  v \in FoldLeft(PendingAfter, ui[u].pending, toClient[u])
    BY DEF RequestsAreShown
  <2>1. toClient[u] \in Seq(Replies) /\ ui[u].pending \in SUBSET Users
    BY DEF ScreensInv, ClientTypes, FriendsList
  <2>2. FoldLeft(PendingAfter, ui[u].pending, toClient[u])
          = WhoIsShown(ui[u].pending, toClient[u], DOMAIN toClient[u])
    BY <2>1, FoldOfPending
  <2>3. IsShown(ui[u].pending, toClient[u], DOMAIN toClient[u], v)
    BY DEF ScreensInv, ListsInOrder, ListInv
  <2>4. v \in Users
    BY DEF RequestsTo
  <2> QED  BY <2>2, <2>3, <2>4 DEF WhoIsShown
<1> QED
  BY ScreensInOrder, <1>1, PTL

\* The server with its screens implements the table by itself: whatever the users
\* click and however packets are lost, the rows change only by its actions, so
\* all that is proved of Spec holds here.
THEOREM ClientImplementsTable == ClientSpec => Spec
<1>1. ClientInit => Init
  BY DEF ClientInit
<1>2. ScreensInv /\ [ClientNext]_allVars => [Next]_vars
  BY ScreensStep
<1> QED
  BY ScreensInOrder, <1>1, <1>2, PTL DEF ClientSpec, Spec
=============================================================================
