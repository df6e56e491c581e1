--------------------------- MODULE ActivityRoster ---------------------------
(***************************************************************************)
(* One activity: its seats, waitlist and group                             *)
(* (src/app/modules/activity/service.py, src/app/modules/admin/activity.py *)
(* and the ACTIVITY_JOINED handler of src/app/modules/events/dispatch.py). *)
(*                                                                         *)
(* Every request is one transaction under READ COMMITTED.  join and        *)
(* join_waitlist read the activities row FOR UPDATE; quit reads it plain   *)
(* and then FOR UPDATE, which waits for the lock but leaves the columns of *)
(* the row already loaded as they are; the other requests read it plain    *)
(* and need its lock only for their UPDATE.  A request is a Begin step     *)
(* that reads and passes the guards and a Commit step that writes.         *)
(***************************************************************************)
EXTENDS Naturals, FiniteSets, SequencesExt

CONSTANTS
  Users,      \* everybody but the host, who holds a seat from the creation on
  Capacities, \* the capacities the host sets
  Sessions,   \* requests in progress at the same time
  Ops         \* the operations in use; a run may leave some out

ASSUME RosterAssumption ==
  /\ Capacities \subseteq Nat \ {0}
  /\ Ops \subseteq {"join", "waitlist", "leave", "quit", "update", "cancel", "review"}
  /\ "none" \notin Users /\ IsFiniteSet(Users)

VARIABLES
  act,   \* the activities row: status, capacity and join_count
  part,  \* part[u]: status of u's activity_participants row
  queue, \* the waitlisted users by waitlisted_at
  group, \* group[u]: status of u in the activity's conversation
  owed,  \* the users with an ACTIVITY_JOINED event in the outbox
  tx     \* tx[s]: the request that session s serves

db == <<act, part, queue, group, owed>>
vars == <<db, tx>>

NoAct == [status |-> "none", capacity |-> 0, count |-> 0]
Idle == [op |-> "idle", u |-> "none", row |-> NoAct, me |-> "none", locked |-> FALSE]

\* create: the activity waits for its review, the host has the first seat.
Init ==
  /\ \E c \in Capacities : act = [status |-> "pending", capacity |-> c, count |-> 1]
  /\ part = [u \in Users |-> "none"]
  /\ queue = <<>>
  /\ group = [u \in Users |-> "none"]
  /\ owed = {}
  /\ tx = [s \in Sessions |-> Idle]

-----------------------------------------------------------------------------
Begin(s, op, u, locked) ==
  /\ tx[s] = Idle /\ op \in Ops
  /\ tx' = [tx EXCEPT ![s] = [op |-> op, u |-> u, row |-> act,
                              me |-> IF u \in Users THEN part[u] ELSE "none",
                              locked |-> locked]]
  /\ UNCHANGED db

\* No other session holds the lock on the activities row.
Unlocked(s) == \A r \in Sessions \ {s} : ~tx[r].locked

\* A plausible slip: join reads the activity without FOR UPDATE.
BeginJoinPlain(s, u) ==
  /\ act.status = "published"
  /\ part[u] # "joined" /\ act.count < act.capacity
  /\ Begin(s, "join", u, FALSE)

\* join up to its guards.
BeginJoin(s, u) ==
  /\ Unlocked(s) /\ act.status = "published"
  /\ part[u] # "joined" /\ act.count < act.capacity
  /\ Begin(s, "join", u, TRUE)

\* join_waitlist up to its guards.
BeginWaitlist(s, u) ==
  /\ Unlocked(s) /\ act.status = "published"
  /\ part[u] # "joined" /\ act.count >= act.capacity
  /\ Begin(s, "waitlist", u, TRUE)

\* leave_waitlist reads the participant, never the activity.
BeginLeave(s, u) == part[u] = "waitlisted" /\ Begin(s, "leave", u, FALSE)

\* quit: db.get of the activity and the guard on its status ...
BeginQuit(s, u) == act.status # "cancelled" /\ Begin(s, "quit", u, FALSE)

\* ... then the row lock and the participant.
LockQuit(s) ==
  LET t == tx[s] IN
  /\ t.op = "quit" /\ ~t.locked /\ Unlocked(s)
  /\ part[t.u] \in {"joined", "waitlisted"}
  /\ tx' = [tx EXCEPT ![s].locked = TRUE, ![s].me = part[t.u]]
  /\ UNCHANGED db

\* update and cancel by the host, review by an admin.
BeginUpdate(s) == act.status # "cancelled" /\ Begin(s, "update", "none", FALSE)
BeginCancel(s) == act.status # "cancelled" /\ Begin(s, "cancel", "none", FALSE)
BeginReview(s) == act.status = "pending" /\ Begin(s, "review", "none", FALSE)
-----------------------------------------------------------------------------
\* SQLAlchemy writes a column whose value differs from the value read.
Written(current, read, new) == IF read = new THEN current ELSE new

\* The lock a commit needs for its UPDATE of the activities row.
Ready(s, op) ==
  /\ tx[s].op = op /\ Unlocked(s)
  /\ tx' = [tx EXCEPT ![s] = Idle]

\* q without the users of U, in the same order.
Without(q, U) ==
  LET Kept[n \in 0..Len(q)] ==
        IF n = 0 THEN <<>>
        ELSE IF q[n] \in U THEN Kept[n - 1] ELSE Append(Kept[n - 1], q[n])
  IN Kept[Len(q)]

\* Waiting users that SKIP LOCKED may pass over: their leave_waitlist has sent
\* its UPDATE and not committed yet.
Leaving == {u \in Users : \E s \in Sessions : tx[s].op = "leave" /\ tx[s].u = u}

\* A plausible slip: the last to come is promoted first.
PromotedLifo(q, count, capacity) ==
  {q[i] : i \in {j \in DOMAIN q : count + (Len(q) - j) < capacity}}

\* A plausible slip: the loop ends one seat too late.
PromotedOneMore(q, count, capacity) ==
  {q[i] : i \in {j \in DOMAIN q : count + j <= capacity + 1}}

\* The loop of _promote_waitlist: the first waiting users, as many as seats.
Promoted(q, count, capacity) ==
  {q[i] : i \in {j \in DOMAIN q : count + j <= capacity}}

\* A plausible slip: join_count moves by one however many are promoted.
FlushOnce(t, quitting, P, count, capacity) ==
  /\ act' = [act EXCEPT
       !.capacity = Written(@, t.row.capacity, capacity),
       !.count = IF P = {} THEN Written(@, t.row.count, count) ELSE count + 1]
  /\ part' = [u \in Users |-> IF u \in P THEN "joined"
                              ELSE IF u \in quitting THEN "quit" ELSE part[u]]
  /\ queue' = Without(queue, P \cup quitting)
  /\ group' = [u \in Users |->
       IF u \in P THEN "active"
       ELSE IF u \in quitting /\ group[u] = "active" THEN "left" ELSE group[u]]
  /\ UNCHANGED owed

\* The flush of a request that has made the users of quitting quit, has set the
\* capacity and has promoted the users of P, the first of them to the place after
\* count, which it has computed from the row it has READ.
Flush(t, quitting, P, count, capacity) ==
  /\ act' = [act EXCEPT
       !.capacity = Written(@, t.row.capacity, capacity),
       !.count = IF P = {} THEN Written(@, t.row.count, count) ELSE count + Cardinality(P)]
  /\ part' = [u \in Users |-> IF u \in P THEN "joined"
                              ELSE IF u \in quitting THEN "quit" ELSE part[u]]
  /\ queue' = Without(queue, P \cup quitting)
  /\ group' = [u \in Users |->
       IF u \in P THEN "active"
       ELSE IF u \in quitting /\ group[u] = "active" THEN "left" ELSE group[u]]
  /\ UNCHANGED owed

\* It promotes from the waitlist when promotes holds.
WriteRoster(t, quitting, count, capacity, promotes) ==
  \E K \in SUBSET (Leaving \ quitting) :
    LET P == IF promotes
             THEN Promoted(Without(queue, K \cup quitting), count, capacity) ELSE {}
    IN Flush(t, quitting, P, count, capacity)

\* join seats the user, adds them to the group and enqueues ACTIVITY_JOINED.
CommitJoin(s) ==
  LET t == tx[s] IN
  /\ Ready(s, "join")
  /\ act' = [act EXCEPT !.count = t.row.count + 1]
  /\ part' = [part EXCEPT ![t.u] = "joined"]
  /\ queue' = Without(queue, {t.u})
  /\ group' = [group EXCEPT ![t.u] = "active"]
  /\ owed' = owed \cup {t.u}

\* A plausible slip: waitlisted_at is set again by whoever is waiting already.
CommitWaitlistRestamps(s) ==
  LET t == tx[s] IN
  /\ Ready(s, "waitlist")
  /\ part' = [part EXCEPT ![t.u] = "waitlisted"]
  /\ queue' = Append(Without(queue, {t.u}), t.u)
  /\ UNCHANGED <<act, group, owed>>

\* A user who was waiting keeps the place, and the row is not written.
CommitWaitlist(s) ==
  LET t == tx[s] IN
  /\ Ready(s, "waitlist")
  /\ IF t.me = "waitlisted" THEN UNCHANGED <<part, queue>>
     ELSE /\ part' = [part EXCEPT ![t.u] = "waitlisted"]
          /\ queue' = Append(Without(queue, {t.u}), t.u)
  /\ UNCHANGED <<act, group, owed>>

\* A plausible slip: the status of a member who left instead of a participant's.
CommitLeaveAsMember(s) ==
  LET t == tx[s] IN
  /\ t.op = "leave"
  /\ part' = [part EXCEPT ![t.u] = "left"]
  /\ queue' = Without(queue, {t.u})
  /\ tx' = [tx EXCEPT ![s] = Idle]
  /\ UNCHANGED <<act, group, owed>>

\* leave_waitlist writes what it decided on the status it read.
CommitLeave(s) ==
  LET t == tx[s] IN
  /\ t.op = "leave"
  /\ part' = [part EXCEPT ![t.u] = "quit"]
  /\ queue' = Without(queue, {t.u})
  /\ tx' = [tx EXCEPT ![s] = Idle]
  /\ UNCHANGED <<act, group, owed>>

\* A plausible slip: the seat that becomes free is not offered to the waitlist.
CommitQuitAlone(s) ==
  LET t == tx[s] IN
  /\ Ready(s, "quit") /\ t.locked
  /\ IF t.me = "joined"
     THEN WriteRoster(t, {t.u}, IF t.row.count > 1 THEN t.row.count - 1 ELSE 1,
                      t.row.capacity, FALSE)
     ELSE /\ part' = [part EXCEPT ![t.u] = "quit"]
          /\ queue' = Without(queue, {t.u})
          /\ UNCHANGED <<act, group, owed>>

\* quit gives the seat back, leaves the group and promotes.  A waiting user
\* only leaves the waitlist.
CommitQuit(s) ==
  LET t == tx[s] IN
  /\ Ready(s, "quit") /\ t.locked
  /\ IF t.me = "joined"
     THEN WriteRoster(t, {t.u}, IF t.row.count > 1 THEN t.row.count - 1 ELSE 1,
                      t.row.capacity, TRUE)
     ELSE /\ part' = [part EXCEPT ![t.u] = "quit"]
          /\ queue' = Without(queue, {t.u})
          /\ UNCHANGED <<act, group, owed>>

\* update with a capacity; the waitlist moves only on a published activity.
CommitUpdate(s, capacity) ==
  /\ Ready(s, "update")
  /\ WriteRoster(tx[s], {}, tx[s].row.count, capacity, tx[s].row.status = "published")

\* cancel and review write the status they have decided on, whatever it is now.
CommitStatus(s, op, status) ==
  /\ Ready(s, op)
  /\ act' = [act EXCEPT !.status = status]
  /\ UNCHANGED <<part, queue, group, owed>>

\* The request raises after its reads, or its process dies.
Abort(s) ==
  /\ tx[s] # Idle
  /\ tx' = [tx EXCEPT ![s] = Idle]
  /\ UNCHANGED db

\* The worker's handler of ACTIVITY_JOINED; an event whose drain is cut off
\* after the handler's commit is handled again.
HandleJoined(u) ==
  /\ u \in owed
  /\ group' = [group EXCEPT ![u] = "active"]
  /\ owed' \in {owed, owed \ {u}}
  /\ UNCHANGED <<act, part, queue, tx>>

\* leave_or_kick of the messaging service, on the activity's group.
LeaveGroup(u) ==
  /\ group[u] = "active"
  /\ group' = [group EXCEPT ![u] = "left"]
  /\ UNCHANGED <<act, part, queue, owed, tx>>

Next ==
  \/ \E s \in Sessions :
       \/ \E u \in Users : BeginJoin(s, u) \/ BeginWaitlist(s, u) \/ BeginLeave(s, u)
                          \/ BeginQuit(s, u)
       \/ BeginUpdate(s) \/ BeginCancel(s) \/ BeginReview(s)
       \/ LockQuit(s)
       \/ CommitJoin(s) \/ CommitWaitlist(s) \/ CommitLeave(s) \/ CommitQuit(s)
       \/ \E c \in Capacities : CommitUpdate(s, c)
       \/ CommitStatus(s, "cancel", "cancelled")
       \/ \E verdict \in {"published", "rejected"} : CommitStatus(s, "review", verdict)
       \/ Abort(s)
  \/ \E u \in Users : HandleJoined(u) \/ LeaveGroup(u)

Spec == Init /\ [][Next]_vars
-----------------------------------------------------------------------------
PartStatus == {"none", "joined", "waitlisted", "quit"}
Act == [status : {"pending", "published", "rejected", "cancelled"},
        capacity : Nat, count : Nat]
Tx == [op : Ops \cup {"idle"}, u : Users \cup {"none"}, row : Act \cup {NoAct},
       me : PartStatus, locked : BOOLEAN]

\* The type invariant of the component.
TypeOK ==
  /\ act \in Act
  /\ part \in [Users -> PartStatus]
  /\ queue \in Seq(Users)
  /\ group \in [Users -> {"none", "active", "left"}]
  /\ owed \subseteq Users
  /\ tx \in [Sessions -> Tx]

Seated == {u \in Users : part[u] = "joined"}

\* Requests one at a time: join_count counts the host and the seated users.
CountIsRoster == act.count = 1 + Cardinality(Seated)

\* Whoever waits has one place in the queue, nobody else has one, and the rows
\* agree with the count, through every sequence of joins, quits, promotions and
\* capacity edits (join, quit, _promote_waitlist, update).
RosterSound ==
  /\ TypeOK /\ CountIsRoster
  /\ {u \in Users : part[u] = "waitlisted"} = Range(queue)
  /\ Len(queue) = Cardinality(Range(queue))

\* join_count never promises a seat that is taken, so that whoever gives it a
\* seat later finds one.
CountCoversRoster == act.count >= 1 + Cardinality(Seated)

\* This step gives u a seat.
TakesSeat(u) == part[u] # "joined" /\ part'[u] = "joined"

\* A step that seats somebody leaves no more people seated than the activity
\* has places: the "capacity check is race-free".
SeatedWithinCapacity ==
  [][(\E u \in Users : TakesSeat(u)) => 1 + Cardinality(Seated') <= act'.capacity]_vars

\* Nobody waits for an activity that has a free seat.
NoIdleSeat == act.status = "published" /\ queue # <<>> => act.count >= act.capacity

\* Nobody gets a seat before a user who has waited longer and goes on waiting:
\* neither by joining directly nor by promotion.
NobodyOvertakes ==
  [][\A u, v \in Users :
       TakesSeat(u) /\ part[v] = "waitlisted" /\ part'[v] = "waitlisted" =>
         \E i, j \in DOMAIN queue : i < j /\ queue[i] = u /\ queue[j] = v]_vars

\* However quits, capacity edits and direct joins follow on each other, the seats
\* they free go to the first who wait, and only as many as there are (join, quit,
\* update and the loop of _promote_waitlist).
SeatsAreGivenInTurn == SeatedWithinCapacity /\ NobodyOvertakes

\* Whoever goes on waiting keeps the place, however often they or others ask for
\* one again: a repeated join_waitlist does not send anybody back.
PlaceIsKept ==
  [][\A i, j \in DOMAIN queue :
       i < j /\ part'[queue[i]] = "waitlisted" /\ part'[queue[j]] = "waitlisted" =>
         \E k, l \in DOMAIN queue' : k < l /\ queue'[k] = queue[i] /\ queue'[l] = queue[j]]_vars

\* The handler repeats what the join path did: it changes no membership.
HandlerChangesNothing ==
  [][\A u \in Users : HandleJoined(u) => group' = group]_vars
=============================================================================
