----------------------------- MODULE RosterProofs -----------------------------
(***************************************************************************)
(* The roster, in three parts.                                             *)
(* Joins do not oversell, for any users, capacities and number of requests *)
(* that overlap, as long as nobody quits and the capacity stays: what the  *)
(* row lock of join is for. (quit computes from a row it has read before   *)
(* it took the lock; with it neither theorem holds.) One session at most   *)
(* holds the lock, and the seats and places in the row it holds are those  *)
(* of the table, so that the guard it has passed is still true when it     *)
(* commits.                                                                *)
(* Whoever waits keeps the place, whatever overlaps: a request adds to the *)
(* end of the queue and takes out only whom it seats or lets go.           *)
(* With requests one at a time the count is the roster, no seat idles and  *)
(* seats go in turn.                                                       *)
(***************************************************************************)
EXTENDS ActivityRoster, FiniteSetTheorems, TLAPS

\* Nobody gives a seat back and the host leaves the capacity as it is.
JoinsOnly == Ops \cap {"quit", "update"} = {}

\* The columns that the seats depend on are numbers, and no request but those of
\* Ops is open.
SeatsTyped ==
  /\ act \in Act
  /\ part \in [Users -> PartStatus]
  /\ tx \in [Sessions -> Tx]

\* What a request that holds the lock rests on.
HoldsRow(s) ==
  /\ tx[s].row.count = act.count /\ tx[s].row.capacity = act.capacity
  /\ \A r \in Sessions \ {s} : ~tx[r].locked

\* A join holds the lock and has found a seat.
MayJoin(s) == tx[s].locked /\ tx[s].row.count < tx[s].row.capacity

\* The inductive invariant.
RosterInv ==
  /\ SeatsTyped
  /\ \A s \in Sessions : tx[s].locked => HoldsRow(s)
  /\ \A s \in Sessions : tx[s].op = "join" => MayJoin(s)
  /\ CountCoversRoster

USE RosterAssumption

LEMMA SeatsAreFinite == IsFiniteSet(Seated) /\ Cardinality(Seated) \in Nat
<1>1. Seated \in SUBSET Users BY DEF Seated
<1> QED BY <1>1, FS_Subset, FS_CardinalityType

\* Whoever changes no count and seats nobody leaves the roster covered.
LEMMA FewerSeated ==
  ASSUME CountCoversRoster, act \in Act, act'.count = act.count,
         \A u \in Users : part'[u] = "joined" => part[u] = "joined"
  PROVE  CountCoversRoster'
<1>1. Seated' \in SUBSET Seated BY DEF Seated
<1>2. Cardinality(Seated') \in Nat /\ Cardinality(Seated') <= Cardinality(Seated)
  BY <1>1, SeatsAreFinite, FS_Subset, FS_CardinalityType
<1>3. act.count \in Nat BY DEF Act
<1> QED BY <1>2, <1>3, SeatsAreFinite DEF CountCoversRoster

\* The seats after a join.
LEMMA OneMoreSeated ==
  ASSUME part \in [Users -> PartStatus], NEW u \in Users,
         part' = [part EXCEPT ![u] = "joined"]
  PROVE  Cardinality(Seated') \in Nat /\ Cardinality(Seated') <= Cardinality(Seated) + 1
<1>1. Seated' = Seated \cup {u} BY DEF Seated
<1>2. /\ IsFiniteSet(Seated \cup {u})
      /\ Cardinality(Seated \cup {u}) =
           IF u \in Seated THEN Cardinality(Seated) ELSE Cardinality(Seated) + 1
  BY SeatsAreFinite, FS_AddElement
<1> QED BY <1>1, <1>2, SeatsAreFinite

\* A request that begins reads the row as it is.
LEMMA BeginKeeps ==
  ASSUME RosterInv, NEW s \in Sessions, NEW op \in Ops, NEW u \in Users \cup {"none"},
         NEW locked \in BOOLEAN, Begin(s, op, u, locked),
         locked => Unlocked(s),
         op = "join" => locked /\ act.count < act.capacity
  PROVE  RosterInv'
<1> DEFINE t == [op |-> op, u |-> u, row |-> act,
                 me |-> IF u \in Users THEN part[u] ELSE "none", locked |-> locked]
<1>1. /\ tx' = [tx EXCEPT ![s] = t] /\ ~tx[s].locked
      /\ act' = act /\ part' = part
  BY DEF Begin, db, Idle
<1>2. t \in Tx BY DEF RosterInv, SeatsTyped, Tx, PartStatus
<1>3. SeatsTyped' BY <1>1, <1>2 DEF RosterInv, SeatsTyped
<1>4. tx'[s] = t /\ \A r \in Sessions \ {s} : tx'[r] = tx[r]
  BY <1>1 DEF RosterInv, SeatsTyped
<1>5. ASSUME NEW r \in Sessions, tx'[r].locked PROVE HoldsRow(r)'
  <2>1. CASE r = s BY <2>1, <1>1, <1>4, <1>5 DEF HoldsRow, Unlocked
  <2>2. CASE r # s
    <3>1. tx[r].locked /\ HoldsRow(r) BY <2>2, <1>4, <1>5 DEF RosterInv
    <3>2. ~locked BY <3>1, <2>2 DEF Unlocked
    <3> QED BY <2>2, <3>1, <3>2, <1>1, <1>4 DEF HoldsRow
  <2> QED BY <2>1, <2>2
<1>6. ASSUME NEW r \in Sessions, tx'[r].op = "join" PROVE MayJoin(r)'
  BY <1>4, <1>6 DEF RosterInv, MayJoin
<1>7. CountCoversRoster' BY <1>1 DEF RosterInv, CountCoversRoster, Seated
<1> QED BY <1>3, <1>5, <1>6, <1>7 DEF RosterInv

\* A request that ends and leaves the seats and places as they are.
LEMMA EndKeeps ==
  ASSUME RosterInv, NEW s \in Sessions, tx' = [tx EXCEPT ![s] = Idle],
         act' \in Act, act'.count = act.count, act'.capacity = act.capacity,
         part' \in [Users -> PartStatus],
         \A u \in Users : part'[u] = "joined" => part[u] = "joined"
  PROVE  RosterInv'
<1>1. Idle \in Tx /\ ~Idle.locked /\ Idle.op = "idle"
  BY DEF Idle, Tx, NoAct, PartStatus
<1>2. SeatsTyped' BY <1>1 DEF RosterInv, SeatsTyped
<1>3. \A r \in Sessions : tx'[r] = IF r = s THEN Idle ELSE tx[r]
  BY DEF RosterInv, SeatsTyped
<1>4. ASSUME NEW r \in Sessions, tx'[r].locked PROVE HoldsRow(r)'
  <2>1. r # s /\ tx[r].locked BY <1>1, <1>3, <1>4
  <2>2. HoldsRow(r) BY <2>1 DEF RosterInv
  <2> QED BY <2>1, <2>2, <1>1, <1>3 DEF HoldsRow
<1>5. ASSUME NEW r \in Sessions, tx'[r].op = "join" PROVE MayJoin(r)'
  BY <1>1, <1>3, <1>5 DEF RosterInv, MayJoin
<1>6. CountCoversRoster' BY FewerSeated DEF RosterInv, SeatsTyped
<1> QED BY <1>2, <1>4, <1>5, <1>6 DEF RosterInv

\* The commit of a join: the row it holds is the table's, and had a free seat.
LEMMA JoinKeeps ==
  ASSUME RosterInv, NEW s \in Sessions, CommitJoin(s)
  PROVE  RosterInv' /\ 1 + Cardinality(Seated') <= act'.capacity
<1> DEFINE t == tx[s]
<1>1. /\ t.op = "join" /\ tx' = [tx EXCEPT ![s] = Idle]
      /\ act' = [act EXCEPT !.count = t.row.count + 1]
      /\ part' = [part EXCEPT ![t.u] = "joined"]
      /\ \A r \in Sessions \ {s} : ~tx[r].locked
  BY DEF CommitJoin, Ready, Unlocked
<1>2. t.row.count = act.count /\ act.count < act.capacity
  BY <1>1 DEF RosterInv, MayJoin, HoldsRow
<1>3. act.count \in Nat /\ act.capacity \in Nat /\ act \in Act
  BY DEF RosterInv, SeatsTyped, Act
<1>4. act' \in Act /\ act'.count = act.count + 1 /\ act'.capacity = act.capacity
  BY <1>1, <1>2, <1>3 DEF Act
<1>5. Idle \in Tx /\ ~Idle.locked /\ Idle.op = "idle"
  BY DEF Idle, Tx, NoAct, PartStatus
<1>6. \A r \in Sessions : tx'[r] = IF r = s THEN Idle ELSE tx[r]
  BY <1>1 DEF RosterInv, SeatsTyped
<1>7. SeatsTyped' BY <1>1, <1>4, <1>5 DEF RosterInv, SeatsTyped, PartStatus
<1>8. \A r \in Sessions : ~tx'[r].locked BY <1>1, <1>5, <1>6
<1>9. \A r \in Sessions : tx'[r].op # "join"
  BY <1>1, <1>5, <1>6 DEF RosterInv, MayJoin
<1>10. Cardinality(Seated') \in Nat /\ 1 + Cardinality(Seated') <= act'.count
  <2>1. part \in [Users -> PartStatus] BY DEF RosterInv, SeatsTyped
  <2>2. CASE t.u \in Users
    <3>1. Cardinality(Seated') \in Nat /\ Cardinality(Seated') <= Cardinality(Seated) + 1
      BY <2>1, <2>2, <1>1, OneMoreSeated
    <3> QED BY <3>1, <1>3, <1>4, SeatsAreFinite DEF RosterInv, CountCoversRoster
  <2>3. CASE t.u \notin Users
    <3>1. part' = part BY <2>1, <2>3, <1>1
    <3>2. Seated' = Seated BY <3>1 DEF Seated
    <3> QED BY <3>2, <1>3, <1>4, SeatsAreFinite DEF RosterInv, CountCoversRoster
  <2> QED BY <2>2, <2>3
<1>11. CountCoversRoster' BY <1>10, <1>3, <1>4 DEF CountCoversRoster
<1> QED BY <1>2, <1>3, <1>4, <1>7, <1>8, <1>9, <1>10, <1>11 DEF RosterInv

LEMMA RosterInitially == Init => RosterInv
<1> SUFFICES ASSUME Init PROVE RosterInv
  OBVIOUS
<1>1. Idle \in Tx /\ ~Idle.locked /\ Idle.op = "idle"
  BY DEF Idle, Tx, NoAct, PartStatus
<1>2. SeatsTyped BY <1>1 DEF Init, SeatsTyped, Act, PartStatus
<1>3. Seated = {} BY DEF Init, Seated
<1>4. CountCoversRoster BY <1>3, FS_EmptySet DEF Init, CountCoversRoster
<1> QED BY <1>1, <1>2, <1>4 DEF Init, RosterInv

\* Every step of the joins keeps the invariant, and seats nobody beyond the places.
LEMMA RosterStep ==
  ASSUME JoinsOnly, RosterInv, [Next]_vars
  PROVE  /\ RosterInv'
         /\ (\E u \in Users : TakesSeat(u)) => 1 + Cardinality(Seated') <= act'.capacity
<1> DEFINE Fits == (\E u \in Users : TakesSeat(u)) =>
                     1 + Cardinality(Seated') <= act'.capacity
<1>1. \A s \in Sessions : tx[s].op \notin {"quit", "update"}
  BY DEF RosterInv, SeatsTyped, Tx, JoinsOnly
<1>2. act \in Act /\ part \in [Users -> PartStatus]
  BY DEF RosterInv, SeatsTyped
<1>3. ASSUME NEW s \in Sessions, NEW u \in Users, BeginJoin(s, u)
      PROVE  RosterInv' /\ part' = part
  BY <1>3, BeginKeeps DEF BeginJoin, Begin, db
<1>4. ASSUME NEW s \in Sessions, NEW u \in Users, BeginWaitlist(s, u)
      PROVE  RosterInv' /\ part' = part
  BY <1>4, BeginKeeps DEF BeginWaitlist, Begin, db
<1>5. ASSUME NEW s \in Sessions, NEW u \in Users, BeginLeave(s, u)
      PROVE  RosterInv' /\ part' = part
  BY <1>5, BeginKeeps DEF BeginLeave, Begin, db
<1>6. ASSUME NEW s \in Sessions, BeginCancel(s) \/ BeginReview(s)
      PROVE  RosterInv' /\ part' = part
  BY <1>6, BeginKeeps DEF BeginCancel, BeginReview, Begin, db
<1>7. ASSUME NEW s \in Sessions, NEW u \in Users, BeginQuit(s, u) \/ BeginUpdate(s)
      PROVE  FALSE
  BY <1>7 DEF BeginQuit, BeginUpdate, Begin, JoinsOnly
<1>8. ASSUME NEW s \in Sessions,
             LockQuit(s) \/ CommitQuit(s) \/ \E c \in Capacities : CommitUpdate(s, c)
      PROVE  FALSE
  BY <1>1, <1>8 DEF LockQuit, CommitQuit, CommitUpdate, Ready
<1>9. ASSUME NEW s \in Sessions, CommitJoin(s) PROVE RosterInv' /\ Fits
  BY <1>9, JoinKeeps
<1>10. ASSUME NEW s \in Sessions, CommitWaitlist(s)
       PROVE  RosterInv' /\ \A u \in Users : part'[u] = "joined" => part[u] = "joined"
  <2>1. /\ part' \in [Users -> PartStatus]
        /\ \A u \in Users : part'[u] = "joined" => part[u] = "joined"
    BY <1>2, <1>10 DEF CommitWaitlist, PartStatus
  <2> QED BY <1>2, <1>10, <2>1, EndKeeps DEF CommitWaitlist, Ready
<1>11. ASSUME NEW s \in Sessions, CommitLeave(s)
       PROVE  RosterInv' /\ \A u \in Users : part'[u] = "joined" => part[u] = "joined"
  <2>1. /\ part' \in [Users -> PartStatus]
        /\ \A u \in Users : part'[u] = "joined" => part[u] = "joined"
    BY <1>2, <1>11 DEF CommitLeave, PartStatus
  <2> QED BY <1>2, <1>11, <2>1, EndKeeps DEF CommitLeave
<1>12. ASSUME NEW s \in Sessions, NEW op,
              NEW status \in {"cancelled", "published", "rejected"},
              CommitStatus(s, op, status)
       PROVE  RosterInv' /\ part' = part
  <2>1. act' \in Act /\ act'.count = act.count /\ act'.capacity = act.capacity
    BY <1>2, <1>12 DEF CommitStatus, Act
  <2> QED BY <1>2, <1>12, <2>1, EndKeeps DEF CommitStatus, Ready
<1>13. ASSUME NEW s \in Sessions, Abort(s) PROVE RosterInv' /\ part' = part
  BY <1>2, <1>13, EndKeeps DEF Abort, db
<1>14. ASSUME UNCHANGED <<act, part, tx>> PROVE RosterInv' /\ part' = part
  BY <1>14 DEF RosterInv, SeatsTyped, HoldsRow, MayJoin, CountCoversRoster, Seated
<1>15. ASSUME NEW u \in Users, HandleJoined(u) \/ LeaveGroup(u)
       PROVE  RosterInv' /\ part' = part
  BY <1>14, <1>15 DEF HandleJoined, LeaveGroup
<1>16. CASE UNCHANGED vars BY <1>14, <1>16 DEF vars, db, TakesSeat
<1>17. ASSUME NEW s \in Sessions,
              \/ CommitStatus(s, "cancel", "cancelled")
              \/ \E verdict \in {"published", "rejected"} : CommitStatus(s, "review", verdict)
       PROVE  RosterInv' /\ part' = part
  BY <1>12, <1>17
<1>18. CASE Next
  <2>1. CASE \E s \in Sessions, u \in Users :
               BeginJoin(s, u) \/ BeginWaitlist(s, u) \/ BeginLeave(s, u) \/ BeginQuit(s, u)
    BY <1>3, <1>4, <1>5, <1>7, <2>1 DEF TakesSeat
  <2>2. CASE \E s \in Sessions : BeginUpdate(s) \/ BeginCancel(s) \/ BeginReview(s)
    <3>1. \E s \in Sessions : BeginCancel(s) \/ BeginReview(s)
      BY <2>2 DEF BeginUpdate, Begin, JoinsOnly
    <3> QED BY <1>6, <3>1 DEF TakesSeat
  <2>3. CASE \E s \in Sessions : CommitJoin(s) BY <1>9, <2>3
  <2>4. CASE \E s \in Sessions : CommitWaitlist(s) \/ CommitLeave(s)
    BY <1>10, <1>11, <2>4 DEF TakesSeat
  <2>5. CASE \E s \in Sessions :
               \/ LockQuit(s) \/ CommitQuit(s)
               \/ \E c \in Capacities : CommitUpdate(s, c)
    BY <1>8, <2>5
  <2>6. CASE \E s \in Sessions :
               \/ CommitStatus(s, "cancel", "cancelled")
               \/ \E verdict \in {"published", "rejected"} :
                     CommitStatus(s, "review", verdict)
               \/ Abort(s)
    BY <1>13, <1>17, <2>6 DEF TakesSeat
  <2>7. CASE \E u \in Users : HandleJoined(u) \/ LeaveGroup(u)
    BY <1>15, <2>7 DEF TakesSeat
  <2> QED BY <1>18, <2>1, <2>2, <2>3, <2>4, <2>5, <2>6, <2>7 DEF Next
<1> QED BY <1>16, <1>18

\* join_count covers everybody who has a seat, however many joins overlap.
THEOREM JoinsAreCounted ==
  ASSUME JoinsOnly PROVE Spec => []CountCoversRoster
<1>1. RosterInv /\ [Next]_vars => RosterInv' BY RosterStep
<1>2. RosterInv => CountCoversRoster BY DEF RosterInv
<1> QED BY <1>1, <1>2, RosterInitially, PTL DEF Spec

\* The "capacity check is race-free": a join never seats more than there is
\* room for, however many overlap.
THEOREM JoinsNeverOversell ==
  ASSUME JoinsOnly PROVE Spec => SeatedWithinCapacity
<1>1. RosterInv /\ [Next]_vars => RosterInv' BY RosterStep
<1>2. RosterInv /\ [Next]_vars =>
        [(\E u \in Users : TakesSeat(u)) => 1 + Cardinality(Seated') <= act'.capacity]_vars
  BY RosterStep
<1> QED BY <1>1, <1>2, RosterInitially, PTL DEF Spec, SeatedWithinCapacity
-----------------------------------------------------------------------------
\* A non-empty set of natural numbers has a least element: what every
\* induction below is made of.
LEMMA LeastNat ==
  ASSUME NEW S \in SUBSET Nat, S # {}
  PROVE  \E n \in S : \A m \in S : n <= m
<1>1. PICK n \in S : \A m \in S : <<m, n>> \notin OpToRel(<, Nat)
  BY NatLessThanWellFounded, WFMin, Zenon
<1>2. ASSUME NEW m \in S PROVE n <= m
  <2>1. n \in Nat /\ m \in Nat OBVIOUS
  <2> SUFFICES ASSUME m < n PROVE FALSE BY <2>1
  <2>2. <<m, n>> \in Nat \X Nat /\ <<m, n>>[1] = m /\ <<m, n>>[2] = n BY <2>1
  <2>3. <<m, n>> \in OpToRel(<, Nat) BY <2>2, Zenon DEF OpToRel
  <2> QED BY <1>1, <2>3
<1> QED BY <1>2

\* Induction up to a bound: a set that holds 0 and with n holds n + 1.
LEMMA CountsUp ==
  ASSUME NEW S, NEW max \in Nat, 0 \in S,
         \A n \in 0..max : n \in S /\ n < max => n + 1 \in S
  PROVE  \A n \in 0..max : n \in S
<1> DEFINE T == {n \in 0..max : n \notin S}
<1> SUFFICES ASSUME T # {} PROVE FALSE OBVIOUS
<1>1. T \in SUBSET Nat OBVIOUS
<1>2. PICK n \in T : \A m \in T : n <= m BY <1>1, LeastNat
<1>3. n \in Nat /\ n # 0 /\ n - 1 \in 0..max /\ n - 1 < max /\ n - 1 \notin T
  BY <1>2
<1> QED BY <1>3

\* The first n steps of Without, as a function.
KeepsTo(K, q, U, n) ==
  K = [i \in 0..n |-> IF i = 0 THEN <<>>
                      ELSE IF q[i] \in U THEN K[i - 1] ELSE Append(K[i - 1], q[i])]

LEMMA WithoutIsDefined ==
  ASSUME NEW q \in Seq(Users), NEW U
  PROVE  \E K : KeepsTo(K, q, U, Len(q)) /\ Without(q, U) = K[Len(q)]
<1> DEFINE S == {n \in Nat : \E K : KeepsTo(K, q, U, n)}
<1>1. 0 \in S
  <2>1. KeepsTo([i \in 0..0 |-> <<>>], q, U, 0) BY DEF KeepsTo
  <2> QED BY <2>1
<1>2. ASSUME NEW n \in Nat, n \in S PROVE n + 1 \in S
  <2>1. PICK K : KeepsTo(K, q, U, n) BY <1>2
  <2> DEFINE L == [i \in 0..(n + 1) |->
                     IF i = 0 THEN <<>>
                     ELSE IF q[i] \in U THEN K[i - 1] ELSE Append(K[i - 1], q[i])]
  <2> DEFINE M == [i \in 0..n |->
                     IF i = 0 THEN <<>>
                     ELSE IF q[i] \in U THEN K[i - 1] ELSE Append(K[i - 1], q[i])]
  <2>5. K = M BY <2>1 DEF KeepsTo
  <2>6. \A i \in 0..n : L[i] = M[i] OBVIOUS
  <2>2. \A i \in 0..n : L[i] = K[i] BY ONLY <2>5, <2>6
  <2>3. \A i \in 0..(n + 1) : i # 0 => i - 1 \in 0..n OBVIOUS
  <2>4. KeepsTo(L, q, U, n + 1) BY <2>2, <2>3 DEF KeepsTo
  <2> QED BY <2>4
<1>3. Len(q) \in S 
  <2> HIDE DEF S
  <2>1. Len(q) \in Nat /\ 0..Len(q) \subseteq Nat OBVIOUS
  <2>2. \A n \in 0..Len(q) : n \in S BY <1>1, <1>2, <2>1, CountsUp, Zenon
  <2> QED BY <2>1, <2>2
<1> DEFINE IsIt(K) == K = [i \in 0..Len(q) |-> IF i = 0 THEN <<>>
                      ELSE IF q[i] \in U THEN K[i - 1] ELSE Append(K[i - 1], q[i])]
<1>4. \E K : IsIt(K) BY <1>3 DEF KeepsTo
<1>5. IsIt(CHOOSE K : IsIt(K)) 
  <2> HIDE DEF IsIt
  <2> QED BY <1>4, Zenon
<1>6. Without(q, U) = (CHOOSE K : IsIt(K))[Len(q)] BY Zenon DEF Without
<1> QED BY <1>5, <1>6 DEF KeepsTo
\* w holds the users of the first n places of q outside U, in the order of q: f
\* gives the place in q of each place in w.
Picks(f, w, q, U, n) ==
  /\ w \in Seq(Users) /\ f \in [1..Len(w) -> 1..n]
  /\ \A k \in 1..Len(w) : w[k] = q[f[k]] /\ w[k] \notin U
  /\ \A k, l \in 1..Len(w) : k < l => f[k] < f[l]
  /\ \A i \in 1..n : q[i] \notin U => \E k \in 1..Len(w) : f[k] = i

LEMMA WithoutPicks ==
  ASSUME NEW q \in Seq(Users), NEW U
  PROVE  \E f : Picks(f, Without(q, U), q, U, Len(q))
<1>1. PICK K : KeepsTo(K, q, U, Len(q)) /\ Without(q, U) = K[Len(q)]
  BY WithoutIsDefined
<1>2. /\ Len(q) \in Nat /\ K[0] = <<>>
      /\ \A i \in 1..Len(q) :
            K[i] = IF q[i] \in U THEN K[i - 1] ELSE Append(K[i - 1], q[i])
  <2>1. K = [i \in 0..Len(q) |-> IF i = 0 THEN <<>>
                      ELSE IF q[i] \in U THEN K[i - 1] ELSE Append(K[i - 1], q[i])]
    BY <1>1, Zenon DEF KeepsTo
  <2>2. Len(q) \in Nat /\ 0 \in 0..Len(q) OBVIOUS
  <2>3. \A i \in 1..Len(q) : i \in 0..Len(q) /\ i # 0 OBVIOUS
  <2> QED BY ONLY <2>1, <2>2, <2>3
<1> DEFINE S == {n \in 0..Len(q) : \E f : Picks(f, K[n], q, U, n)}
<1>3. 0 \in S
  <2>1. Picks([i \in 1..0 |-> 0], K[0], q, U, 0) BY <1>2 DEF Picks
  <2> QED BY <2>1, <1>2
<1>4. ASSUME NEW n \in 0..Len(q), n \in S, n < Len(q) PROVE n + 1 \in S
  <2>1. PICK f : Picks(f, K[n], q, U, n) BY <1>4
  <2> DEFINE w == K[n]  u == q[n + 1]
  <2>2. u \in Users /\ n \in Nat /\ n + 1 \in 1..Len(q) BY <1>2, <1>4
  <2>3. K[n + 1] = IF u \in U THEN w ELSE Append(w, u) BY <1>2, <2>2
  <2>4. /\ w \in Seq(Users) /\ Len(w) \in Nat /\ f \in [1..Len(w) -> 1..n]
        /\ \A k \in 1..Len(w) : w[k] = q[f[k]] /\ w[k] \notin U
        /\ \A k, l \in 1..Len(w) : k < l => f[k] < f[l]
        /\ \A i \in 1..n : q[i] \notin U => \E k \in 1..Len(w) : f[k] = i
    BY <2>1 DEF Picks
  <2> HIDE DEF w, u
  <2>5. CASE u \in U
    <3>1. Picks(f, w, q, U, n + 1) BY <2>2, <2>4, <2>5 DEF Picks, u
    <3> QED BY <3>1, <2>2, <2>3, <2>5
  <2>6. CASE u \notin U
    <3> DEFINE v == Append(w, u)
               g == [k \in 1..(Len(w) + 1) |-> IF k = Len(w) + 1 THEN n + 1 ELSE f[k]]
    <3>1. /\ v \in Seq(Users) /\ Len(v) = Len(w) + 1 /\ v[Len(w) + 1] = u
          /\ \A k \in 1..Len(w) : v[k] = w[k]
      BY <2>2, <2>4
    <3> HIDE DEF v
    <3>2. /\ g[Len(w) + 1] = n + 1
          /\ \A k \in 1..Len(w) : g[k] = f[k] /\ f[k] \in 1..n
      BY <2>2, <2>4
    <3>3. \A k \in 1..Len(v) : k = Len(w) + 1 \/ k \in 1..Len(w) BY <2>4, <3>1
    <3>4. g \in [1..Len(v) -> 1..(n + 1)] BY <2>2, <2>4, <3>1
    <3> HIDE DEF g
    <3>5. \A k \in 1..Len(v) : v[k] = q[g[k]] /\ v[k] \notin U
      BY <2>4, <2>6, <3>1, <3>2, <3>3 DEF u
    <3>6. ASSUME NEW k \in 1..Len(v), NEW l \in 1..Len(v), k < l PROVE g[k] < g[l]
      <4>1. k \in 1..Len(w) /\ g[k] = f[k] /\ f[k] \in 1..n BY <2>4, <3>1, <3>2, <3>6
      <4>2. CASE l = Len(w) + 1 BY <4>1, <4>2, <2>2, <3>2
      <4>3. CASE l \in 1..Len(w) BY <4>1, <4>3, <2>4, <3>2, <3>6
      <4> QED BY <3>3, <4>2, <4>3
    <3>7. ASSUME NEW i \in 1..(n + 1), q[i] \notin U PROVE \E k \in 1..Len(v) : g[k] = i
      <4>1. CASE i = n + 1 BY <4>1, <2>4, <3>1, <3>2
      <4>2. CASE i \in 1..n
        <5>1. PICK k \in 1..Len(w) : f[k] = i BY <2>4, <3>7, <4>2
        <5>2. k \in 1..Len(v) BY <2>4, <3>1
        <5> QED BY <5>1, <5>2, <3>2
      <4> QED BY <4>1, <4>2, <2>2
    <3>8. Picks(g, v, q, U, n + 1) BY <3>1, <3>4, <3>5, <3>6, <3>7 DEF Picks
    <3>9. K[n + 1] = v BY <2>3, <2>6 DEF v
    <3>10. n + 1 \in 0..Len(q) BY <2>2
    <3> QED BY <3>8, <3>9, <3>10
  <2> QED BY <2>5, <2>6
<1>5. Len(q) \in S
  <2> HIDE DEF S
  <2>1. \A n \in 0..Len(q) : n \in S BY <1>2, <1>3, <1>4, CountsUp, Zenon
  <2> QED BY <1>2, <2>1
<1> QED BY <1>1, <1>5

\* What Without does to a queue that holds nobody twice ...
LEMMA WithoutFacts ==
  ASSUME NEW q \in Seq(Users), NEW U, IsInjective(q)
  PROVE  /\ Without(q, U) \in Seq(Users) /\ IsInjective(Without(q, U))
         /\ Range(Without(q, U)) = Range(q) \ U
<1> DEFINE w == Without(q, U)
<1>1. PICK f : Picks(f, w, q, U, Len(q)) BY WithoutPicks
<1> HIDE DEF w
<1>2. /\ w \in Seq(Users) /\ Len(w) \in Nat /\ Len(q) \in Nat
      /\ DOMAIN w = 1..Len(w) /\ DOMAIN q = 1..Len(q)
      /\ f \in [1..Len(w) -> 1..Len(q)]
      /\ \A k \in 1..Len(w) : w[k] = q[f[k]] /\ w[k] \notin U
      /\ \A k, l \in 1..Len(w) : k < l => f[k] < f[l]
      /\ \A i \in 1..Len(q) : q[i] \notin U => \E k \in 1..Len(w) : f[k] = i
  BY <1>1 DEF Picks
<1>3. ASSUME NEW k \in 1..Len(w), NEW l \in 1..Len(w), w[k] = w[l] PROVE k = l
  <2>1. f[k] = f[l] BY <1>2, <1>3 DEF IsInjective
  <2>2. f \in [1..Len(w) -> 1..Len(q)] /\ Len(q) \in Nat BY <1>2
  <2>3. f[k] \in Nat BY <2>2
  <2> QED BY <1>2, <2>1, <2>3
<1>4. Range(w) = Range(q) \ U
  <2>1. ASSUME NEW x \in Range(w) PROVE x \in Range(q) \ U BY <1>2, <2>1 DEF Range
  <2>2. ASSUME NEW x \in Range(q) \ U PROVE x \in Range(w)
    <3>1. PICK i \in 1..Len(q) : q[i] = x BY <1>2, <2>2 DEF Range
    <3>2. PICK k \in 1..Len(w) : f[k] = i BY <1>2, <3>1
    <3>3. w[k] = x BY <1>2, <3>1, <3>2
    <3> QED BY <1>2, <3>3 DEF Range
  <2> QED BY <2>1, <2>2
<1>5. IsInjective(w) BY <1>2, <1>3 DEF IsInjective
<1> QED BY <1>2, <1>4, <1>5 DEF w

\* ... it keeps the order of whoever stays ...
LEMMA WithoutKeepsOrder ==
  ASSUME NEW q \in Seq(Users), NEW U, NEW i \in DOMAIN q, NEW j \in DOMAIN q,
         i < j, q[i] \notin U, q[j] \notin U
  PROVE  \E k, l \in DOMAIN Without(q, U) :
           k < l /\ Without(q, U)[k] = q[i] /\ Without(q, U)[l] = q[j]
<1> DEFINE w == Without(q, U)
<1>1. PICK f : Picks(f, w, q, U, Len(q)) BY WithoutPicks
<1> HIDE DEF w
<1>2. /\ Len(w) \in Nat /\ DOMAIN w = 1..Len(w) /\ DOMAIN q = 1..Len(q)
      /\ i \in Nat /\ j \in Nat
  BY <1>1 DEF Picks
<1>3. PICK k \in 1..Len(w) : f[k] = i BY <1>1, <1>2 DEF Picks
<1>4. PICK l \in 1..Len(w) : f[l] = j BY <1>1, <1>2 DEF Picks
<1>5. w[k] = q[i] /\ w[l] = q[j] BY <1>1, <1>3, <1>4 DEF Picks
<1>6. ~(l < k) /\ l # k
  <2>1. l < k => f[l] < f[k] BY <1>1 DEF Picks
  <2> QED BY <2>1, <1>2, <1>3, <1>4
<1> QED BY <1>2, <1>5, <1>6 DEF w

\* ... and invents none.
LEMMA WithoutAddsNoOrder ==
  ASSUME NEW q \in Seq(Users), NEW U,
         NEW k \in DOMAIN Without(q, U), NEW l \in DOMAIN Without(q, U), k < l
  PROVE  \E i, j \in DOMAIN q :
           i < j /\ q[i] = Without(q, U)[k] /\ q[j] = Without(q, U)[l]
<1> DEFINE w == Without(q, U)
<1>1. PICK f : Picks(f, w, q, U, Len(q)) BY WithoutPicks
<1> HIDE DEF w
<1>2. /\ DOMAIN w = 1..Len(w) /\ DOMAIN q = 1..Len(q) BY <1>1 DEF Picks
<1>3. k \in 1..Len(w) /\ l \in 1..Len(w) BY <1>2 DEF w
<1>4. /\ f[k] \in 1..Len(q) /\ f[l] \in 1..Len(q) /\ f[k] < f[l]
      /\ w[k] = q[f[k]] /\ w[l] = q[f[l]]
  BY <1>1, <1>3 DEF Picks
<1> QED BY <1>2, <1>4 DEF w

\* A newcomer at the end of the queue.
LEMMA AppendFacts ==
  ASSUME NEW q \in Seq(Users), NEW u \in Users, IsInjective(q), u \notin Range(q)
  PROVE  /\ Append(q, u) \in Seq(Users) /\ IsInjective(Append(q, u))
         /\ Range(Append(q, u)) = Range(q) \cup {u}
         /\ \A i \in DOMAIN q : i \in DOMAIN Append(q, u) /\ Append(q, u)[i] = q[i]
<1> DEFINE a == Append(q, u)
<1>1. /\ a \in Seq(Users) /\ Len(q) \in Nat /\ Len(a) = Len(q) + 1
      /\ DOMAIN q = 1..Len(q) /\ DOMAIN a = 1..(Len(q) + 1)
      /\ a[Len(q) + 1] = u /\ \A i \in 1..Len(q) : a[i] = q[i]
  OBVIOUS
<1> HIDE DEF a
<1>2. \A i \in DOMAIN a : i = Len(q) + 1 \/ i \in DOMAIN q BY <1>1
<1>3. \A i \in DOMAIN q : q[i] # u BY DEF Range
<1>4. IsInjective(a) BY <1>1, <1>2, <1>3 DEF IsInjective
<1>5. Range(a) = Range(q) \cup {u}
  <2>1. DOMAIN q \subseteq DOMAIN a /\ Len(q) + 1 \in DOMAIN a BY <1>1
  <2> QED BY <1>1, <1>2, <2>1 DEF Range
<1>6. \A i \in DOMAIN q : i \in DOMAIN a /\ a[i] = q[i] BY <1>1
<1> QED BY <1>1, <1>4, <1>5, <1>6 DEF a

\* A queue that holds nobody twice is as long as its users are many.
LEMMA DistinctLength ==
  ASSUME NEW q \in Seq(Users), IsInjective(q)
  PROVE  Len(q) = Cardinality(Range(q))
<1>1. Len(q) \in Nat /\ DOMAIN q = 1..Len(q) /\ q \in [1..Len(q) -> Range(q)]
  BY DEF Range
<1>2. q \in Bijection(1..Len(q), Range(q))
  BY <1>1 DEF Bijection, Injection, Surjection, IsInjective, Range
<1> QED BY <1>1, <1>2, FS_CountingElements DEF ExistsBijection

-----------------------------------------------------------------------------
\* Who waits, and in which place.
QueueSound ==
  /\ queue \in Seq(Users) /\ IsInjective(queue)
  /\ {u \in Users : part[u] = "waitlisted"} = Range(queue)

\* A request knows its user; one that will append to the queue holds the lock
\* and its user does not wait yet; at most one request holds the lock.
RequestSound(s) ==
  /\ tx[s].op \in {"join", "waitlist", "leave", "quit"} => tx[s].u \in Users
  /\ tx[s].op = "waitlist" =>
       /\ tx[s].locked
       /\ part[tx[s].u] = "waitlisted" => tx[s].me = "waitlisted"
  /\ tx[s].locked => \A r \in Sessions \ {s} : ~tx[r].locked

\* The inductive invariant of the waitlist, whatever overlaps.
PlacesInv == TypeOK /\ QueueSound /\ \A s \in Sessions : RequestSound(s)

\* Nobody starts to wait in this step.
NoNewWaiter == \A u \in Users : part'[u] = "waitlisted" => part[u] = "waitlisted"

\* Two users who wait before and after a step keep their order.
KeepsOrder ==
  \A i, j \in DOMAIN queue :
    i < j /\ part'[queue[i]] = "waitlisted" /\ part'[queue[j]] = "waitlisted" =>
      \E k, l \in DOMAIN queue' : k < l /\ queue'[k] = queue[i] /\ queue'[l] = queue[j]

LEMMA IdleTyped == Idle \in Tx /\ ~Idle.locked /\ Idle.op = "idle"
BY DEF Idle, Tx, NoAct, PartStatus

LEMMA PlacesInitially == Init => PlacesInv
<1> SUFFICES ASSUME Init PROVE PlacesInv
  OBVIOUS
<1>1. /\ \E c \in Capacities : act = [status |-> "pending", capacity |-> c, count |-> 1]
      /\ part = [u \in Users |-> "none"] /\ queue = <<>>
      /\ group = [u \in Users |-> "none"] /\ owed = {}
      /\ tx = [s \in Sessions |-> Idle]
  BY DEF Init
<1>2. TypeOK BY <1>1, IdleTyped DEF TypeOK, Act, PartStatus
<1>3. queue \in Seq(Users) /\ DOMAIN queue = {} BY <1>1
<1>4. QueueSound BY <1>1, <1>3 DEF QueueSound, IsInjective, Range
<1>5. \A s \in Sessions : RequestSound(s) BY <1>1, IdleTyped DEF RequestSound
<1> QED BY <1>2, <1>4, <1>5 DEF PlacesInv

\* A request that begins.
LEMMA BeginKeepsPlaces ==
  ASSUME PlacesInv, NEW s \in Sessions, NEW op \in Ops, NEW u \in Users \cup {"none"},
         NEW locked \in BOOLEAN, Begin(s, op, u, locked),
         locked => Unlocked(s), op = "waitlist" => locked,
         op \in {"join", "waitlist", "leave", "quit"} => u \in Users
  PROVE  PlacesInv' /\ UNCHANGED db
<1> DEFINE t == [op |-> op, u |-> u, row |-> act,
                 me |-> IF u \in Users THEN part[u] ELSE "none", locked |-> locked]
<1>1. tx' = [tx EXCEPT ![s] = t] /\ UNCHANGED <<act, part, queue, group, owed>>
  BY DEF Begin, db
<1>2. tx \in [Sessions -> Tx] /\ act \in Act /\ part \in [Users -> PartStatus]
  BY DEF PlacesInv, TypeOK
<1>3. t \in Tx BY <1>2 DEF Tx, PartStatus
<1>4. tx'[s] = t /\ \A r \in Sessions \ {s} : tx'[r] = tx[r]
  BY <1>1, <1>2
<1>5. TypeOK' BY <1>1, <1>3 DEF PlacesInv, TypeOK
<1>6. QueueSound' BY <1>1 DEF PlacesInv, QueueSound
<1>7. ASSUME NEW r \in Sessions PROVE RequestSound(r)'
  <2>1. CASE r = s BY <2>1, <1>1, <1>4 DEF RequestSound, Unlocked
  <2>2. CASE r # s
    <3>1. RequestSound(r) /\ tx'[r] = tx[r] BY <2>2, <1>4 DEF PlacesInv
    <3>2. tx[r].locked => ~locked BY <2>2 DEF Unlocked
    <3> QED BY <2>2, <3>1, <3>2, <1>1, <1>4 DEF RequestSound
  <2> QED BY <2>1, <2>2
<1> QED BY <1>1, <1>5, <1>6, <1>7 DEF PlacesInv, db

\* A request that ends: it lets nobody start to wait, or nobody else holds the lock.
LEMMA EndKeepsPlaces ==
  ASSUME PlacesInv, NEW s \in Sessions, tx' = [tx EXCEPT ![s] = Idle],
         act' \in Act, part' \in [Users -> PartStatus],
         group' \in [Users -> {"none", "active", "left"}], owed' \subseteq Users,
         QueueSound', NoNewWaiter \/ Unlocked(s)
  PROVE  PlacesInv'
<1>1. tx \in [Sessions -> Tx] BY DEF PlacesInv, TypeOK
<1>2. tx'[s] = Idle /\ \A r \in Sessions \ {s} : tx'[r] = tx[r] BY <1>1
<1>3. TypeOK' BY <1>1, IdleTyped DEF TypeOK, QueueSound
<1>4. ASSUME NEW r \in Sessions PROVE RequestSound(r)'
  <2>1. CASE r = s BY <2>1, <1>2, IdleTyped DEF RequestSound
  <2>2. CASE r # s
    <3>1. RequestSound(r) /\ tx'[r] = tx[r] BY <2>2, <1>2 DEF PlacesInv
    <3>2. tx[r].locked => NoNewWaiter BY <2>2 DEF Unlocked
    <3>3. tx[r].locked => \A v \in Sessions \ {r} : ~tx'[v].locked
      BY <3>1, <1>2, IdleTyped DEF RequestSound
    <3> QED BY <3>1, <3>2, <3>3 DEF RequestSound, NoNewWaiter
  <2> QED BY <2>1, <2>2
<1> QED BY <1>3, <1>4 DEF PlacesInv

\* A queue that whoever stops waiting has left is sound, in the order it had.
LEMMA LeaversLeave ==
  ASSUME PlacesInv, NEW U, queue' = Without(queue, U),
         \A u \in Users : part'[u] = "waitlisted" <=> part[u] = "waitlisted" /\ u \notin U
  PROVE  QueueSound' /\ KeepsOrder /\ NoNewWaiter
<1>1. /\ queue \in Seq(Users) /\ IsInjective(queue)
      /\ {u \in Users : part[u] = "waitlisted"} = Range(queue)
  BY DEF PlacesInv, QueueSound
<1>2. /\ Without(queue, U) \in Seq(Users) /\ IsInjective(Without(queue, U))
      /\ Range(Without(queue, U)) = Range(queue) \ U
  BY <1>1, WithoutFacts
<1>3. {u \in Users : part'[u] = "waitlisted"} = Range(queue) \ U BY <1>1
<1>4. QueueSound' BY <1>2, <1>3 DEF QueueSound
<1>5. ASSUME NEW i \in DOMAIN queue, NEW j \in DOMAIN queue, i < j,
             part'[queue[i]] = "waitlisted", part'[queue[j]] = "waitlisted"
      PROVE  \E k, l \in DOMAIN queue' :
               k < l /\ queue'[k] = queue[i] /\ queue'[l] = queue[j]
  <2>1. queue[i] \in Users /\ queue[j] \in Users BY <1>1
  <2>2. queue[i] \notin U /\ queue[j] \notin U BY <2>1, <1>5
  <2> QED BY <1>1, <1>5, <2>2, WithoutKeepsOrder
<1> QED BY <1>4, <1>5 DEF KeepsOrder, NoNewWaiter

LEMMA SameQueue ==
  ASSUME PlacesInv, queue' = queue, part' = part
  PROVE  QueueSound' /\ KeepsOrder /\ NoNewWaiter
BY DEF PlacesInv, QueueSound, KeepsOrder, NoNewWaiter

\* Whoever is promoted was waiting.
LEMMA PromotedWaited ==
  ASSUME PlacesInv, NEW K, NEW count, NEW capacity
  PROVE  \A u \in Promoted(Without(queue, K), count, capacity) :
           u \in Users /\ part[u] = "waitlisted" /\ u \notin K
<1>1. /\ queue \in Seq(Users) /\ IsInjective(queue)
      /\ {u \in Users : part[u] = "waitlisted"} = Range(queue)
  BY DEF PlacesInv, QueueSound
<1>2. Range(Without(queue, K)) = Range(queue) \ K BY <1>1, WithoutFacts
<1>3. Promoted(Without(queue, K), count, capacity) \subseteq Range(Without(queue, K))
  BY DEF Promoted, Range
<1> QED BY <1>1, <1>2, <1>3

LEMMA WriteKeepsPlaces ==
  ASSUME PlacesInv, NEW t, NEW quitting \in SUBSET Users, NEW count \in Nat,
         NEW capacity \in Nat, NEW promotes,
         WriteRoster(t, quitting, count, capacity, promotes)
  PROVE  /\ act' \in Act /\ part' \in [Users -> PartStatus]
         /\ group' \in [Users -> {"none", "active", "left"}] /\ owed' \subseteq Users
         /\ QueueSound' /\ KeepsOrder /\ NoNewWaiter
<1>1. PICK K \in SUBSET (Leaving \ quitting) :
        Flush(t, quitting, IF promotes
                           THEN Promoted(Without(queue, K \cup quitting), count, capacity)
                           ELSE {}, count, capacity)
  BY DEF WriteRoster
<1> DEFINE P == IF promotes THEN Promoted(Without(queue, K \cup quitting), count, capacity)
                ELSE {}
<1>2. \A u \in P : u \in Users /\ part[u] = "waitlisted" BY PromotedWaited
<1>4. Flush(t, quitting, P, count, capacity) BY <1>1
<1> HIDE DEF P
<1>3. /\ act \in Act /\ part \in [Users -> PartStatus] /\ owed \subseteq Users
      /\ group \in [Users -> {"none", "active", "left"}]
  BY DEF PlacesInv, TypeOK
<1>12. Cardinality(P) \in Nat
  <2>1. P \in SUBSET Users BY <1>2
  <2> QED BY <2>1, FS_Subset, FS_CardinalityType
<1>5. act' \in Act
  <2> DEFINE c == Written(act.capacity, t.row.capacity, capacity)
             n == IF P = {} THEN Written(act.count, t.row.count, count)
                  ELSE count + Cardinality(P)
  <2>1. c \in Nat /\ n \in Nat BY <1>3, <1>12 DEF Act, Written
  <2>2. act' = [act EXCEPT !.capacity = c, !.count = n] BY <1>4 DEF Flush
  <2> HIDE DEF c, n
  <2> QED BY <1>3, <2>1, <2>2 DEF Act
<1>6. part' \in [Users -> PartStatus] BY <1>3, <1>4 DEF PartStatus, Flush
<1>7. group' \in [Users -> {"none", "active", "left"}] BY <1>3, <1>4 DEF Flush
<1>8. \A u \in Users : part'[u] = "waitlisted" <=>
                         part[u] = "waitlisted" /\ u \notin P \cup quitting
  BY <1>4 DEF Flush
<1>9. QueueSound' /\ KeepsOrder /\ NoNewWaiter BY <1>8, <1>4, LeaversLeave DEF Flush
<1> QED BY <1>4, <1>3, <1>5, <1>6, <1>7, <1>9 DEF Flush

\* Every step keeps the invariant and the order of whoever goes on waiting.
LEMMA PlacesStep ==
  ASSUME PlacesInv, [Next]_vars
  PROVE  PlacesInv' /\ KeepsOrder
<1>1. /\ act \in Act /\ part \in [Users -> PartStatus] /\ owed \subseteq Users
      /\ group \in [Users -> {"none", "active", "left"}]
      /\ tx \in [Sessions -> Tx] /\ queue \in Seq(Users)
  BY DEF PlacesInv, TypeOK
<1>2. ASSUME NEW s \in Sessions, NEW u \in Users,
             BeginJoin(s, u) \/ BeginWaitlist(s, u) \/ BeginLeave(s, u) \/ BeginQuit(s, u)
      PROVE  PlacesInv' /\ KeepsOrder
  <2>1. PlacesInv' /\ UNCHANGED db
    <3>1. CASE BeginJoin(s, u)
      BY <3>1, BeginKeepsPlaces DEF BeginJoin, Begin
    <3>2. CASE BeginWaitlist(s, u)
      BY <3>2, BeginKeepsPlaces DEF BeginWaitlist, Begin
    <3>3. CASE BeginLeave(s, u)
      BY <3>3, BeginKeepsPlaces DEF BeginLeave, Begin
    <3>4. CASE BeginQuit(s, u)
      BY <3>4, BeginKeepsPlaces DEF BeginQuit, Begin
    <3> QED BY <1>2, <3>1, <3>2, <3>3, <3>4
  <2> QED BY <2>1, SameQueue DEF db
<1>3. ASSUME NEW s \in Sessions, BeginUpdate(s) \/ BeginCancel(s) \/ BeginReview(s)
      PROVE  PlacesInv' /\ KeepsOrder
  <2>1. PlacesInv' /\ UNCHANGED db
    <3>1. CASE BeginUpdate(s)
      BY <3>1, BeginKeepsPlaces DEF BeginUpdate, Begin
    <3>2. CASE BeginCancel(s)
      BY <3>2, BeginKeepsPlaces DEF BeginCancel, Begin
    <3>3. CASE BeginReview(s)
      BY <3>3, BeginKeepsPlaces DEF BeginReview, Begin
    <3> QED BY <1>3, <3>1, <3>2, <3>3
  <2> QED BY <2>1, SameQueue DEF db
<1>4. ASSUME NEW s \in Sessions, LockQuit(s) PROVE PlacesInv' /\ KeepsOrder
  <2> DEFINE t == tx[s]
             v == [t EXCEPT !.locked = TRUE, !.me = part[t.u]]
  <2>1. /\ t.op = "quit" /\ Unlocked(s) /\ part[t.u] \in {"joined", "waitlisted"}
        /\ tx' = [tx EXCEPT ![s].locked = TRUE, ![s].me = part[t.u]]
        /\ UNCHANGED <<act, part, queue, group, owed>>
    BY <1>4 DEF LockQuit, db
  <2>2. t \in Tx BY <1>1
  <2>3. v \in Tx /\ v.op = "quit" /\ v.u = t.u /\ v.locked
    BY <2>1, <2>2 DEF Tx, PartStatus
  <2>4. tx' = [tx EXCEPT ![s] = v] BY <1>1, <2>1, <2>2 DEF Tx
  <2> HIDE DEF v
  <2>5. tx'[s] = v /\ \A r \in Sessions \ {s} : tx'[r] = tx[r] BY <1>1, <2>4
  <2>6. TypeOK'
    <3>1. tx' \in [Sessions -> Tx] BY <1>1, <2>3, <2>4
    <3> QED BY <2>1, <3>1 DEF TypeOK, PlacesInv
  <2>7. ASSUME NEW r \in Sessions PROVE RequestSound(r)'
    <3>1. CASE r = s
      <4>1. t.u \in Users BY <2>1 DEF PlacesInv, RequestSound
      <4> QED BY <3>1, <4>1, <2>1, <2>3, <2>5 DEF RequestSound, Unlocked
    <3>2. CASE r # s
      <4>1. RequestSound(r) /\ tx'[r] = tx[r] /\ ~tx[r].locked
        BY <3>2, <2>1, <2>5 DEF PlacesInv, Unlocked
      <4> QED BY <4>1, <2>1 DEF RequestSound
    <3> QED BY <3>1, <3>2
  <2> QED BY <2>1, <2>6, <2>7, SameQueue DEF PlacesInv
<1>5. ASSUME NEW s \in Sessions, CommitJoin(s) PROVE PlacesInv' /\ KeepsOrder
  <2> DEFINE t == tx[s]
  <2>1. /\ t.op = "join" /\ Unlocked(s) /\ tx' = [tx EXCEPT ![s] = Idle]
        /\ act' = [act EXCEPT !.count = t.row.count + 1]
        /\ part' = [part EXCEPT ![t.u] = "joined"]
        /\ queue' = Without(queue, {t.u})
        /\ group' = [group EXCEPT ![t.u] = "active"]
        /\ owed' = owed \cup {t.u}
    BY <1>5 DEF CommitJoin, Ready
  <2>2. t.u \in Users BY <2>1 DEF PlacesInv, RequestSound
  <2>3. t.row.count \in Nat BY <1>1 DEF Tx, Act, NoAct
  <2>4. act' \in Act BY <1>1, <2>1, <2>3 DEF Act
  <2>5. part' \in [Users -> PartStatus] BY <1>1, <2>1 DEF PartStatus
  <2>6. \A u \in Users : part'[u] = "waitlisted" <=>
                           part[u] = "waitlisted" /\ u \notin {t.u}
    BY <1>1, <2>1, <2>2
  <2>7. QueueSound' /\ KeepsOrder /\ NoNewWaiter BY <2>1, <2>6, LeaversLeave
  <2> QED BY <1>1, <2>1, <2>2, <2>4, <2>5, <2>7, EndKeepsPlaces
<1>6. ASSUME NEW s \in Sessions, CommitWaitlist(s) PROVE PlacesInv' /\ KeepsOrder
  <2> DEFINE t == tx[s]
  <2>1. /\ t.op = "waitlist" /\ Unlocked(s) /\ tx' = [tx EXCEPT ![s] = Idle]
        /\ IF t.me = "waitlisted" THEN UNCHANGED <<part, queue>>
           ELSE /\ part' = [part EXCEPT ![t.u] = "waitlisted"]
                /\ queue' = Append(Without(queue, {t.u}), t.u)
        /\ UNCHANGED <<act, group, owed>>
    BY <1>6 DEF CommitWaitlist, Ready
  <2>2. t.u \in Users /\ (part[t.u] = "waitlisted" => t.me = "waitlisted")
    BY <2>1 DEF PlacesInv, RequestSound
  <2>3. QueueSound' /\ KeepsOrder
    <3>1. CASE t.me = "waitlisted" BY <3>1, <2>1, SameQueue
    <3>2. CASE t.me # "waitlisted"
      <4> DEFINE w == Without(queue, {t.u})
      <4>1. /\ part' = [part EXCEPT ![t.u] = "waitlisted"] /\ queue' = Append(w, t.u)
            /\ part[t.u] # "waitlisted"
        BY <3>2, <2>1, <2>2
      <4>2. /\ IsInjective(queue) /\ {u \in Users : part[u] = "waitlisted"} = Range(queue)
        BY DEF PlacesInv, QueueSound
      <4>3. w \in Seq(Users) /\ IsInjective(w) /\ Range(w) = Range(queue) \ {t.u}
        BY <1>1, <4>2, WithoutFacts
      <4>4. t.u \notin Range(w) /\ t.u \notin Range(queue) BY <4>1, <4>2, <4>3
      <4> HIDE DEF w
      <4>5. /\ queue' \in Seq(Users) /\ IsInjective(queue')
            /\ Range(queue') = Range(w) \cup {t.u}
            /\ \A i \in DOMAIN w : i \in DOMAIN queue' /\ queue'[i] = w[i]
        BY <2>2, <4>1, <4>3, <4>4, AppendFacts
      <4>6. {u \in Users : part'[u] = "waitlisted"} = Range(queue')
        BY <1>1, <2>2, <4>1, <4>2, <4>3, <4>4, <4>5
      <4>7. ASSUME NEW i \in DOMAIN queue, NEW j \in DOMAIN queue, i < j
            PROVE  \E k, l \in DOMAIN queue' :
                     k < l /\ queue'[k] = queue[i] /\ queue'[l] = queue[j]
        <5>1. queue[i] \notin {t.u} /\ queue[j] \notin {t.u} BY <4>4 DEF Range
        <5>2. \E k, l \in DOMAIN w : k < l /\ w[k] = queue[i] /\ w[l] = queue[j]
          <6> DEFINE U == {t.u}
          <6>1. queue \in Seq(Users) /\ queue[i] \notin U /\ queue[j] \notin U
            BY <1>1, <5>1
          <6>2. w = Without(queue, U) BY DEF w
          <6> HIDE DEF U
          <6> QED BY ONLY <4>7, <6>1, <6>2, WithoutKeepsOrder
        <5> QED BY <4>5, <5>2
      <4> QED BY <4>5, <4>6, <4>7 DEF QueueSound, KeepsOrder
    <3> QED BY <3>1, <3>2
  <2>4. part' \in [Users -> PartStatus] BY <1>1, <2>1 DEF PartStatus
  <2> QED BY <1>1, <2>1, <2>3, <2>4, EndKeepsPlaces
<1>7. ASSUME NEW s \in Sessions, NEW u \in Users, tx[s].u = u,
             tx' = [tx EXCEPT ![s] = Idle],
             part' = [part EXCEPT ![u] = "quit"], queue' = Without(queue, {u}),
             UNCHANGED <<act, group, owed>>
      PROVE  PlacesInv' /\ KeepsOrder
  <2>1. part' \in [Users -> PartStatus] BY <1>1, <1>7 DEF PartStatus
  <2>2. \A v \in Users : part'[v] = "waitlisted" <=>
                           part[v] = "waitlisted" /\ v \notin {u}
    BY <1>1, <1>7
  <2>3. QueueSound' /\ KeepsOrder /\ NoNewWaiter BY <1>7, <2>2, LeaversLeave
  <2> QED BY <1>1, <1>7, <2>1, <2>3, EndKeepsPlaces
<1>8. ASSUME NEW s \in Sessions, CommitLeave(s) PROVE PlacesInv' /\ KeepsOrder
  <2>1. tx[s].u \in Users BY <1>8 DEF CommitLeave, PlacesInv, RequestSound
  <2> QED BY <1>7, <1>8, <2>1 DEF CommitLeave
<1>9. ASSUME NEW s \in Sessions, CommitQuit(s) PROVE PlacesInv' /\ KeepsOrder
  <2> DEFINE t == tx[s]
             count == IF t.row.count > 1 THEN t.row.count - 1 ELSE 1
  <2>1. t.op = "quit" /\ tx' = [tx EXCEPT ![s] = Idle]
    BY <1>9 DEF CommitQuit, Ready
  <2>2. t.u \in Users BY <2>1 DEF PlacesInv, RequestSound
  <2>3. t.row.count \in Nat /\ t.row.capacity \in Nat BY <1>1 DEF Tx, Act, NoAct
  <2>4. CASE t.me = "joined"
    <3>1. WriteRoster(t, {t.u}, count, t.row.capacity, TRUE)
      BY <1>9, <2>4 DEF CommitQuit
    <3>2. count \in Nat BY <2>3
    <3> HIDE DEF count, t
    <3>3. /\ act' \in Act /\ part' \in [Users -> PartStatus]
          /\ group' \in [Users -> {"none", "active", "left"}] /\ owed' \subseteq Users
          /\ QueueSound' /\ KeepsOrder /\ NoNewWaiter
      BY <2>2, <2>3, <3>1, <3>2, WriteKeepsPlaces
    <3> QED BY <2>1, <3>3, EndKeepsPlaces
  <2>5. CASE t.me # "joined"
    BY <1>7, <1>9, <2>1, <2>2, <2>5 DEF CommitQuit
  <2> QED BY <2>4, <2>5
<1>10. ASSUME NEW s \in Sessions, NEW c \in Capacities, CommitUpdate(s, c)
       PROVE  PlacesInv' /\ KeepsOrder
  <2> DEFINE t == tx[s]
  <2>1. /\ tx' = [tx EXCEPT ![s] = Idle]
        /\ WriteRoster(t, {}, t.row.count, c, t.row.status = "published")
    BY <1>10 DEF CommitUpdate, Ready
  <2>2. t.row.count \in Nat /\ c \in Nat BY <1>1 DEF Tx, Act, NoAct
  <2> HIDE DEF t
  <2>3. /\ act' \in Act /\ part' \in [Users -> PartStatus]
        /\ group' \in [Users -> {"none", "active", "left"}] /\ owed' \subseteq Users
        /\ QueueSound' /\ KeepsOrder /\ NoNewWaiter
    BY <2>1, <2>2, WriteKeepsPlaces
  <2> QED BY <2>1, <2>3, EndKeepsPlaces
<1>11. ASSUME NEW s \in Sessions, NEW op, NEW status \in {"cancelled", "published", "rejected"},
              CommitStatus(s, op, status)
       PROVE  PlacesInv' /\ KeepsOrder
  <2>1. /\ tx' = [tx EXCEPT ![s] = Idle] /\ act' \in Act
        /\ UNCHANGED <<part, queue, group, owed>>
    BY <1>1, <1>11 DEF CommitStatus, Ready, Act
  <2> QED BY <1>1, <2>1, SameQueue, EndKeepsPlaces
<1>12. ASSUME NEW s \in Sessions, Abort(s) PROVE PlacesInv' /\ KeepsOrder
  <2>1. tx' = [tx EXCEPT ![s] = Idle] /\ UNCHANGED <<act, part, queue, group, owed>>
    BY <1>12 DEF Abort, db
  <2> QED BY <1>1, <2>1, SameQueue, EndKeepsPlaces
<1>13. ASSUME UNCHANGED <<act, part, queue, tx>>, owed' \subseteq Users,
              group' \in [Users -> {"none", "active", "left"}]
       PROVE  PlacesInv' /\ KeepsOrder
  <2>1. TypeOK' BY <1>1, <1>13 DEF TypeOK
  <2>2. \A s \in Sessions : RequestSound(s)' BY <1>13 DEF PlacesInv, RequestSound
  <2> QED BY <1>13, <2>1, <2>2, SameQueue DEF PlacesInv
<1>14. ASSUME NEW u \in Users, HandleJoined(u) \/ LeaveGroup(u)
       PROVE  PlacesInv' /\ KeepsOrder
  <2>1. /\ UNCHANGED <<act, part, queue, tx>> /\ owed' \subseteq Users
        /\ group' \in [Users -> {"none", "active", "left"}]
    BY <1>1, <1>14 DEF HandleJoined, LeaveGroup
  <2> QED BY <1>13, <2>1
<1>15. CASE UNCHANGED vars BY <1>1, <1>13, <1>15 DEF vars, db
<1>16. CASE Next
  <2>1. ASSUME NEW s \in Sessions, NEW verdict \in {"published", "rejected"},
               CommitStatus(s, "review", verdict)
        PROVE  PlacesInv' /\ KeepsOrder
    BY <1>11, <2>1
  <2>2. ASSUME NEW s \in Sessions, CommitStatus(s, "cancel", "cancelled")
        PROVE  PlacesInv' /\ KeepsOrder
    BY <1>11, <2>2
  <2> QED BY <1>2, <1>3, <1>4, <1>5, <1>6, <1>8, <1>9, <1>10, <1>12, <1>14, <1>16,
             <2>1, <2>2 DEF Next
<1> QED BY <1>15, <1>16

\* Whoever goes on waiting keeps the place, whatever overlaps: joins, repeated
\* requests for a place, quits, promotions and edits by the host.
THEOREM PlacesAreKept == Spec => PlaceIsKept
<1>1. PlacesInv /\ [Next]_vars => PlacesInv' BY PlacesStep
<1>2. PlacesInv /\ [Next]_vars => [KeepsOrder]_vars BY PlacesStep
<1>3. PlaceIsKept <=> [][KeepsOrder]_vars BY PTL DEF PlaceIsKept, KeepsOrder
<1> QED BY <1>1, <1>2, <1>3, PlacesInitially, PTL DEF Spec

-----------------------------------------------------------------------------
\* Requests one at a time.
OneSession == \A s, r \in Sessions : s = r

\* What an open request has read and passed is still so when no other is open.
IsFresh(s) ==
  /\ tx[s].op # "idle" => tx[s].row = act
  /\ tx[s].op = "join" => /\ act.status = "published" /\ act.count < act.capacity
                          /\ part[tx[s].u] # "joined"
  /\ tx[s].op = "waitlist" => /\ act.status = "published" /\ act.count >= act.capacity
                              /\ part[tx[s].u] # "joined"
  /\ tx[s].op = "leave" => part[tx[s].u] = "waitlisted"
  /\ tx[s].op = "quit" /\ tx[s].locked => part[tx[s].u] = tx[s].me
  /\ tx[s].op = "review" => act.status = "pending"

\* Nobody waits for an activity that has not been published yet.
PendingIsEmpty == act.status = "pending" => queue = <<>>

\* The inductive invariant of requests one at a time.
SoloInv ==
  /\ PlacesInv
  /\ CountIsRoster /\ NoIdleSeat /\ PendingIsEmpty
  /\ \A s \in Sessions : IsFresh(s)

\* The two halves of SeatsAreGivenInTurn, of one step.
Fits == (\E u \in Users : TakesSeat(u)) => 1 + Cardinality(Seated') <= act'.capacity
InTurn ==
  \A u, v \in Users :
    TakesSeat(u) /\ part[v] = "waitlisted" /\ part'[v] = "waitlisted" =>
      \E i, j \in DOMAIN queue : i < j /\ queue[i] = u /\ queue[j] = v

LEMMA EmptyQueue == ASSUME NEW q \in Seq(Users) PROVE q = <<>> <=> Range(q) = {}
<1>1. Len(q) \in Nat /\ DOMAIN q = 1..Len(q) OBVIOUS
<1>2. ASSUME Range(q) = {} PROVE q = <<>>
  <2>1. DOMAIN q = {} BY <1>2 DEF Range
  <2>2. Len(q) = 0 BY <1>1, <2>1
  <2> QED BY <2>2
<1>3. ASSUME q = <<>> PROVE Range(q) = {} BY <1>3 DEF Range
<1> QED BY <1>2, <1>3

\* How many are promoted: as many as there is room for, or everybody who waits.
LEMMA PromotedCount ==
  ASSUME NEW w \in Seq(Users), IsInjective(w), NEW count \in Nat, NEW capacity \in Nat
  PROVE  LET P == Promoted(w, count, capacity) IN
         /\ Cardinality(P) \in Nat
         /\ P # {} => count + Cardinality(P) <= capacity
         /\ (\E u \in Range(w) : u \notin P) => count + Cardinality(P) >= capacity
<1> DEFINE P == Promoted(w, count, capacity)
           n == IF count >= capacity THEN 0
                ELSE IF Len(w) <= capacity - count THEN Len(w) ELSE capacity - count
           f == [i \in 1..n |-> w[i]]
<1>1. Len(w) \in Nat /\ DOMAIN w = 1..Len(w) OBVIOUS
<1>2. n \in Nat /\ n <= Len(w) BY <1>1
<1>3. {j \in DOMAIN w : count + j <= capacity} = 1..n BY <1>1
<1>4. P = {w[i] : i \in 1..n} BY <1>3 DEF Promoted
<1>5. /\ n > 0 => count + n <= capacity
      /\ n < Len(w) => count + n >= capacity
      /\ n = Len(w) \/ n < Len(w)
  BY <1>1
<1> HIDE DEF P, n
<1>6. f \in Bijection(1..n, P)
  <2>1. f \in [1..n -> P] BY <1>4
  <2>2. \A i \in 1..n : f[i] = w[i] /\ i \in DOMAIN w BY <1>1, <1>2
  <2>3. \A i, j \in 1..n : f[i] = f[j] => i = j BY <2>2 DEF IsInjective
  <2>4. \A u \in P : \E i \in 1..n : f[i] = u BY <1>4
  <2> HIDE DEF f
  <2>5. f \in Injection(1..n, P) BY <2>1, <2>3 DEF Injection, IsInjective
  <2> QED BY <2>1, <2>4, <2>5 DEF Bijection, Surjection
<1>7. Cardinality(P) = n BY <1>2, <1>6, FS_CountingElements DEF ExistsBijection
<1>8. P # {} => n > 0 BY <1>2, <1>4
<1>9. (\E u \in Range(w) : u \notin P) => n < Len(w)
  <2>1. ASSUME n = Len(w) PROVE Range(w) \subseteq P BY <2>1, <1>1, <1>4 DEF Range
  <2> QED BY <1>5, <2>1
<1> QED BY <1>2, <1>5, <1>7, <1>8, <1>9 DEF P

\* The seated after a flush.
LEMMA SeatedAfter ==
  ASSUME NEW P, NEW quitting \in SUBSET Seated, IsFiniteSet(P),
         \A u \in P : u \in Users /\ part[u] = "waitlisted",
         part' = [u \in Users |-> IF u \in P THEN "joined"
                                  ELSE IF u \in quitting THEN "quit" ELSE part[u]]
  PROVE  Cardinality(Seated') = Cardinality(Seated \ quitting) + Cardinality(P)
<1>1. Seated' = (Seated \ quitting) \cup P BY DEF Seated
<1>2. (Seated \ quitting) \cap P = {} BY DEF Seated
<1>3. IsFiniteSet(Seated \ quitting) BY SeatsAreFinite, FS_Difference
<1>4. Cardinality((Seated \ quitting) \cap P) = 0 BY <1>2, FS_EmptySet
<1>5. Cardinality(Seated \ quitting) \in Nat /\ Cardinality(P) \in Nat
  BY <1>3, FS_CardinalityType
<1>6. Cardinality((Seated \ quitting) \cup P) =
        Cardinality(Seated \ quitting) + Cardinality(P)
          - Cardinality((Seated \ quitting) \cap P)
  BY <1>3, FS_Union, Zenon
<1> QED BY <1>1, <1>4, <1>5, <1>6

\* A quit or an update of one session: it counts whom it seats, leaves no seat
\* idle, fits and is fair.
LEMMA FlushIsFair ==
  ASSUME SoloInv, NEW t, t.row = act, Leaving = {},
         NEW quitting \in SUBSET Seated, NEW count \in Nat, NEW capacity \in Nat,
         NEW promotes \in BOOLEAN, count = 1 + Cardinality(Seated \ quitting),
         promotes \/ act.status # "published",
         WriteRoster(t, quitting, count, capacity, promotes)
  PROVE  CountIsRoster' /\ NoIdleSeat' /\ PendingIsEmpty' /\ Fits /\ InTurn
<1> DEFINE w == Without(queue, quitting)
           P == IF promotes THEN Promoted(w, count, capacity) ELSE {}
<1>1. Flush(t, quitting, P, count, capacity)
  <2>1. PICK K \in SUBSET (Leaving \ quitting) :
          Flush(t, quitting, IF promotes
                             THEN Promoted(Without(queue, K \cup quitting), count, capacity)
                             ELSE {}, count, capacity)
    BY DEF WriteRoster
  <2>2. K \cup quitting = quitting BY <2>1
  <2> QED BY <2>1, <2>2
<1>2. /\ queue \in Seq(Users) /\ IsInjective(queue) /\ act \in Act
      /\ {u \in Users : part[u] = "waitlisted"} = Range(queue)
  BY DEF SoloInv, PlacesInv, QueueSound, TypeOK
<1>3. w \in Seq(Users) /\ IsInjective(w) /\ Range(w) = Range(queue) \ quitting
  BY <1>2, WithoutFacts
<1>4. \A u \in P : u \in Users /\ part[u] = "waitlisted"
  BY PromotedWaited DEF SoloInv
<1>5. /\ Cardinality(P) \in Nat /\ IsFiniteSet(P)
      /\ P # {} => count + Cardinality(P) <= capacity
      /\ promotes /\ (\E u \in Range(w) : u \notin P) => count + Cardinality(P) >= capacity
  <2>1. IsFiniteSet(P)
    <3>1. P \in SUBSET Users BY <1>4
    <3> QED BY <3>1, FS_Subset
  <2>2. CASE promotes
    <3>1. P = Promoted(w, count, capacity) BY <2>2
    <3> HIDE DEF P, w
    <3> QED BY <1>3, <2>1, <2>2, <3>1, PromotedCount
  <2>3. CASE ~promotes
    <3>1. P = {} BY <2>3
    <3> QED BY <2>1, <2>3, <3>1, FS_EmptySet
  <2> QED BY <2>2, <2>3
<1>6. \A k \in DOMAIN w : promotes => (w[k] \in P <=> count + k <= capacity)
  <2> SUFFICES ASSUME NEW k \in DOMAIN w, promotes
               PROVE  w[k] \in P <=> count + k <= capacity
    OBVIOUS
  <2>1. P = {w[i] : i \in {j \in DOMAIN w : count + j <= capacity}} BY DEF Promoted
  <2> HIDE DEF P, w
  <2> QED BY <1>3, <2>1 DEF IsInjective
<1> HIDE DEF P, w
<1>7. /\ part' = [u \in Users |-> IF u \in P THEN "joined"
                                  ELSE IF u \in quitting THEN "quit" ELSE part[u]]
      /\ queue' = Without(queue, P \cup quitting)
  BY <1>1 DEF Flush
<1>8. act'.status = act.status /\ act'.capacity = capacity /\ act'.count = count + Cardinality(P)
  <2>1. act' = [act EXCEPT
          !.capacity = Written(act.capacity, act.capacity, capacity),
          !.count = IF P = {} THEN Written(act.count, act.count, count)
                    ELSE count + Cardinality(P)]
    BY <1>1 DEF Flush
  <2>2. P = {} => Cardinality(P) = 0 BY FS_EmptySet
  <2>3. Written(act.capacity, act.capacity, capacity) = capacity
        /\ Written(act.count, act.count, count) = count
    BY DEF Written
  <2> QED BY <1>2, <2>1, <2>2, <2>3 DEF Act
<1>9. Cardinality(Seated') = Cardinality(Seated \ quitting) + Cardinality(P)
  BY <1>4, <1>5, <1>7, SeatedAfter
<1>10. Cardinality(Seated \ quitting) \in Nat
  BY SeatsAreFinite, FS_Difference, FS_CardinalityType
<1>11. CountIsRoster' BY <1>5, <1>8, <1>9, <1>10 DEF CountIsRoster
<1>12. Range(queue') = Range(queue) \ (P \cup quitting) /\ queue' \in Seq(Users)
  BY <1>2, <1>7, WithoutFacts
<1>13. NoIdleSeat'
  <2> SUFFICES ASSUME act'.status = "published", queue' # <<>>
               PROVE  act'.count >= act'.capacity
    BY DEF NoIdleSeat
  <2>1. promotes BY <1>8
  <2>2. PICK u : u \in Range(queue') BY <1>12, EmptyQueue
  <2>3. u \in Range(w) /\ u \notin P BY <1>3, <1>12, <2>2
  <2> QED BY <1>5, <1>8, <2>1, <2>3
<1>14. PendingIsEmpty'
  <2> SUFFICES ASSUME act'.status = "pending" PROVE queue' = <<>> BY DEF PendingIsEmpty
  <2>1. queue = <<>> BY <1>8 DEF SoloInv, PendingIsEmpty
  <2>2. Range(queue') = {} BY <1>2, <1>12, <2>1, EmptyQueue
  <2> QED BY <1>12, <2>2, EmptyQueue
<1>15. Fits
  <2> SUFFICES ASSUME NEW u \in Users, TakesSeat(u)
               PROVE  1 + Cardinality(Seated') <= act'.capacity
    BY DEF Fits
  <2>1. u \in P BY <1>7 DEF TakesSeat
  <2> QED BY <1>5, <1>8, <1>9, <1>10, <2>1
<1>16. InTurn
  <2> SUFFICES ASSUME NEW u \in Users, NEW v \in Users, TakesSeat(u),
                      part[v] = "waitlisted", part'[v] = "waitlisted"
               PROVE  \E i, j \in DOMAIN queue : i < j /\ queue[i] = u /\ queue[j] = v
    BY DEF InTurn
  <2>1. u \in P /\ v \notin P /\ v \notin quitting BY <1>7 DEF TakesSeat
  <2>2. promotes BY <2>1 DEF P
  <2>3. u \in Range(w) BY <1>2, <1>3, <1>4, <2>1 DEF Seated
  <2>4. v \in Range(w) BY <1>2, <1>3, <2>1
  <2>5. PICK k \in DOMAIN w : w[k] = u BY <2>3 DEF Range
  <2>6. PICK l \in DOMAIN w : w[l] = v BY <2>4 DEF Range
  <2>7. k \in Nat /\ l \in Nat
    <3>1. DOMAIN w = 1..Len(w) /\ Len(w) \in Nat BY <1>3
    <3> QED BY <3>1, <2>5, <2>6
  <2>8. k < l
    <3>1. count + k <= capacity BY <1>6, <2>1, <2>2, <2>5
    <3>2. ~(count + l <= capacity) BY <1>6, <2>1, <2>2, <2>6
    <3> QED BY ONLY count \in Nat, capacity \in Nat, <2>7, <3>1, <3>2
  <2>9. \E i, j \in DOMAIN queue : i < j /\ queue[i] = w[k] /\ queue[j] = w[l]
    BY <1>2, <2>5, <2>6, <2>8, WithoutAddsNoOrder DEF w
  <2> QED BY <2>5, <2>6, <2>9
<1> QED BY <1>11, <1>13, <1>14, <1>15, <1>16

LEMMA SoloInitially == Init => SoloInv
<1> SUFFICES ASSUME Init PROVE SoloInv
  OBVIOUS
<1>1. PlacesInv BY PlacesInitially
<1>2. queue = <<>> /\ act.count = 1 /\ tx = [s \in Sessions |-> Idle] /\ Seated = {}
  BY DEF Init, Seated
<1>3. CountIsRoster BY <1>2, FS_EmptySet DEF CountIsRoster
<1>4. \A s \in Sessions : IsFresh(s) BY <1>2, IdleTyped DEF IsFresh
<1> QED BY <1>1, <1>2, <1>3, <1>4 DEF SoloInv, NoIdleSeat, PendingIsEmpty

\* The table and whoever waits stay as they are.
LEMMA SameTable ==
  ASSUME SoloInv, UNCHANGED <<act, part, queue>>
  PROVE  CountIsRoster' /\ NoIdleSeat' /\ PendingIsEmpty' /\ Fits /\ InTurn
BY DEF SoloInv, CountIsRoster, Seated, NoIdleSeat, PendingIsEmpty, Fits, InTurn, TakesSeat

\* Nobody takes or leaves a seat, and the queue grows only in a full activity.
LEMMA SameSeats ==
  ASSUME SoloInv, UNCHANGED act,
         \A u \in Users : part'[u] = "joined" <=> part[u] = "joined",
         \/ queue = <<>> => queue' = <<>>
         \/ act.status = "published" /\ act.count >= act.capacity
  PROVE  CountIsRoster' /\ NoIdleSeat' /\ PendingIsEmpty' /\ Fits /\ InTurn
<1>1. Seated' = Seated BY DEF Seated
<1> QED BY <1>1
    DEF SoloInv, CountIsRoster, NoIdleSeat, PendingIsEmpty, Fits, InTurn, TakesSeat

\* The only session's request has ended.
LEMMA EndIsFresh ==
  ASSUME OneSession, NEW s \in Sessions, tx \in [Sessions -> Tx],
         tx' = [tx EXCEPT ![s] = Idle]
  PROVE  \A r \in Sessions : IsFresh(r)'
<1>1. \A r \in Sessions : tx'[r] = Idle BY DEF OneSession
<1> QED BY <1>1, IdleTyped DEF IsFresh

\* Every step of requests one at a time keeps the invariant, fits and is fair.
LEMMA SoloStep ==
  ASSUME OneSession, SoloInv, [Next]_vars
  PROVE  SoloInv' /\ Fits /\ InTurn
<1> DEFINE Table == CountIsRoster' /\ NoIdleSeat' /\ PendingIsEmpty' /\ Fits /\ InTurn
           Fresh == \A r \in Sessions : IsFresh(r)'
<1>1. PlacesInv /\ PlacesInv' BY PlacesStep DEF SoloInv
<1>2. /\ act \in Act /\ part \in [Users -> PartStatus] /\ queue \in Seq(Users)
      /\ tx \in [Sessions -> Tx] /\ queue' \in Seq(Users)
  BY <1>1 DEF PlacesInv, TypeOK
<1>3. /\ IsInjective(queue) /\ {u \in Users : part[u] = "waitlisted"} = Range(queue)
      /\ \A s \in Sessions : RequestSound(s)
  BY <1>1 DEF PlacesInv, QueueSound
<1>4. ASSUME NEW U, queue = <<>> PROVE Without(queue, U) = <<>>
  <2>1. Without(queue, U) \in Seq(Users) /\ Range(Without(queue, U)) = Range(queue) \ U
    BY <1>2, <1>3, WithoutFacts
  <2>2. Range(Without(queue, U)) = {} BY <1>2, <1>4, <2>1, EmptyQueue
  <2> QED BY <2>1, <2>2, EmptyQueue
<1>5. ASSUME NEW s \in Sessions, NEW op \in Ops, NEW u, NEW locked, Begin(s, op, u, locked),
             op = "join" => /\ act.status = "published" /\ act.count < act.capacity
                            /\ part[u] # "joined",
             op = "waitlist" => /\ act.status = "published" /\ act.count >= act.capacity
                                /\ part[u] # "joined",
             op = "leave" => part[u] = "waitlisted", op = "quit" => ~locked,
             op = "review" => act.status = "pending"
      PROVE  Table /\ Fresh
  <2>1. UNCHANGED <<act, part, queue>> BY <1>5 DEF Begin, db
  <2> DEFINE t == [op |-> op, u |-> u, row |-> act,
                   me |-> IF u \in Users THEN part[u] ELSE "none", locked |-> locked]
  <2>2. \A r \in Sessions : tx'[r] = t BY <1>2, <1>5 DEF Begin, OneSession
  <2>3. Fresh BY <1>5, <2>1, <2>2 DEF IsFresh
  <2> QED BY <2>1, <2>3, SameTable
<1>6. ASSUME NEW s \in Sessions, NEW u \in Users,
             BeginJoin(s, u) \/ BeginWaitlist(s, u) \/ BeginLeave(s, u) \/ BeginQuit(s, u)
      PROVE  Table /\ Fresh
  <2>1. CASE BeginJoin(s, u) BY <1>5, <2>1 DEF BeginJoin, Begin
  <2>2. CASE BeginWaitlist(s, u) BY <1>5, <2>2 DEF BeginWaitlist, Begin
  <2>3. CASE BeginLeave(s, u) BY <1>5, <2>3 DEF BeginLeave, Begin
  <2>4. CASE BeginQuit(s, u) BY <1>5, <2>4 DEF BeginQuit, Begin
  <2> QED BY <1>6, <2>1, <2>2, <2>3, <2>4
<1>7. ASSUME NEW s \in Sessions, BeginUpdate(s) \/ BeginCancel(s) \/ BeginReview(s)
      PROVE  Table /\ Fresh
  <2>1. CASE BeginUpdate(s) BY <1>5, <2>1 DEF BeginUpdate, Begin
  <2>2. CASE BeginCancel(s) BY <1>5, <2>2 DEF BeginCancel, Begin
  <2>3. CASE BeginReview(s) BY <1>5, <2>3 DEF BeginReview, Begin
  <2> QED BY <1>7, <2>1, <2>2, <2>3
<1>8. ASSUME NEW s \in Sessions, LockQuit(s) PROVE Table /\ Fresh
  <2> DEFINE t == tx[s]
  <2>1. UNCHANGED <<act, part, queue>> /\ t.op = "quit" BY <1>8 DEF LockQuit, db
  <2>2. tx' = [tx EXCEPT ![s].locked = TRUE, ![s].me = part[t.u]] BY <1>8 DEF LockQuit
  <2>3. t \in Tx /\ t.row = act BY <1>2, <2>1 DEF SoloInv, IsFresh
  <2>4. /\ tx'[s].op = "quit" /\ tx'[s].row = act
        /\ tx'[s].u = t.u /\ tx'[s].me = part[t.u]
    BY <1>2, <2>1, <2>2, <2>3 DEF Tx
  <2>5. ASSUME NEW r \in Sessions PROVE IsFresh(r)'
    <3>1. r = s BY DEF OneSession
    <3> QED BY <3>1, <2>1, <2>4 DEF IsFresh
  <2> QED BY <2>1, <2>5, SameTable
<1>9. ASSUME NEW s \in Sessions, CommitJoin(s) PROVE Table /\ Fresh
  <2> DEFINE t == tx[s]
  <2>1. /\ t.op = "join" /\ tx' = [tx EXCEPT ![s] = Idle]
        /\ act' = [act EXCEPT !.count = t.row.count + 1]
        /\ part' = [part EXCEPT ![t.u] = "joined"]
        /\ queue' = Without(queue, {t.u})
    BY <1>9 DEF CommitJoin, Ready
  <2>2. /\ t.u \in Users /\ t.row = act /\ act.status = "published"
        /\ act.count < act.capacity /\ part[t.u] # "joined"
    BY <1>3, <2>1 DEF RequestSound, SoloInv, IsFresh
  <2>3. act.count \in Nat /\ act.capacity \in Nat BY <1>2 DEF Act
  <2>4. queue = <<>> BY <2>2, <2>3 DEF SoloInv, NoIdleSeat
  <2>5. queue' = <<>> BY <1>4, <2>1, <2>4
  <2>6. Seated' = Seated \cup {t.u} /\ t.u \notin Seated
    BY <1>2, <2>1, <2>2 DEF Seated
  <2>7. Cardinality(Seated') = Cardinality(Seated) + 1
    BY <2>6, SeatsAreFinite, FS_AddElement
  <2>8. act'.count = act.count + 1 /\ act'.capacity = act.capacity
        /\ act'.status = "published"
    BY <1>2, <2>1, <2>2 DEF Act
  <2>9. CountIsRoster' BY <2>3, <2>7, <2>8, SeatsAreFinite DEF SoloInv, CountIsRoster
  <2>10. Fits BY <2>2, <2>3, <2>7, <2>8, SeatsAreFinite DEF Fits, SoloInv, CountIsRoster
  <2>11. InTurn
    <3>1. Range(queue) = {} BY <2>4, EmptyQueue, <1>2
    <3> QED BY <1>3, <3>1 DEF InTurn
  <2> QED BY <1>2, <2>1, <2>5, <2>8, <2>9, <2>10, <2>11, EndIsFresh
      DEF NoIdleSeat, PendingIsEmpty
<1>10. ASSUME NEW s \in Sessions, CommitWaitlist(s) PROVE Table /\ Fresh
  <2> DEFINE t == tx[s]
  <2>1. /\ t.op = "waitlist" /\ tx' = [tx EXCEPT ![s] = Idle] /\ UNCHANGED act
        /\ part' = part \/ part' = [part EXCEPT ![t.u] = "waitlisted"]
    BY <1>10 DEF CommitWaitlist, Ready
  <2>2. /\ act.status = "published" /\ act.count >= act.capacity /\ part[t.u] # "joined"
    BY <2>1 DEF SoloInv, IsFresh
  <2>3. \A u \in Users : part'[u] = "joined" <=> part[u] = "joined" BY <1>2, <2>1, <2>2
  <2> QED BY <1>2, <2>1, <2>2, <2>3, SameSeats, EndIsFresh
<1>11. ASSUME NEW s \in Sessions, NEW u, part[u] # "joined",
              tx' = [tx EXCEPT ![s] = Idle], part' = [part EXCEPT ![u] = "quit"],
              queue' = Without(queue, {u}), UNCHANGED act
       PROVE  Table /\ Fresh
  <2>1. \A v \in Users : part'[v] = "joined" <=> part[v] = "joined" BY <1>2, <1>11
  <2>2. queue = <<>> => queue' = <<>> BY <1>4, <1>11
  <2> QED BY <1>2, <1>11, <2>1, <2>2, SameSeats, EndIsFresh
<1>12. ASSUME NEW s \in Sessions, CommitLeave(s) PROVE Table /\ Fresh
  <2>1. part[tx[s].u] = "waitlisted" BY <1>12 DEF CommitLeave, SoloInv, IsFresh
  <2> QED BY <1>11, <1>12, <2>1 DEF CommitLeave
<1>13. ASSUME NEW s \in Sessions, tx[s].op # "leave" PROVE Leaving = {}
  BY <1>13 DEF Leaving, OneSession
<1>14. ASSUME NEW s \in Sessions, CommitQuit(s) PROVE Table /\ Fresh
  <2> DEFINE t == tx[s]
             count == IF t.row.count > 1 THEN t.row.count - 1 ELSE 1
  <2>1. t.op = "quit" /\ t.locked /\ tx' = [tx EXCEPT ![s] = Idle]
    BY <1>14 DEF CommitQuit, Ready
  <2>2. t.u \in Users /\ t.row = act /\ part[t.u] = t.me /\ Leaving = {}
    BY <1>3, <1>13, <2>1 DEF RequestSound, SoloInv, IsFresh
  <2>3. CASE t.me = "joined"
    <3>1. WriteRoster(t, {t.u}, count, t.row.capacity, TRUE)
      BY <1>14, <2>3 DEF CommitQuit
    <3>2. act.count \in Nat /\ act.capacity \in Nat /\ act.count = 1 + Cardinality(Seated)
      BY <1>2 DEF Act, SoloInv, CountIsRoster
    <3>3. {t.u} \in SUBSET Seated BY <2>2, <2>3 DEF Seated
    <3>4. Cardinality(Seated \ {t.u}) = Cardinality(Seated) - 1
          /\ Cardinality(Seated \ {t.u}) \in Nat
      BY <3>3, SeatsAreFinite, FS_RemoveElement, FS_CardinalityType
    <3>5. count \in Nat /\ count = 1 + Cardinality(Seated \ {t.u})
      BY <2>2, <3>2, <3>4, SeatsAreFinite
    <3> HIDE DEF count, t
    <3>6. Table BY <2>2, <3>1, <3>2, <3>3, <3>5, FlushIsFair
    <3> QED BY <1>2, <2>1, <3>6, EndIsFresh
  <2>4. CASE t.me # "joined"
    BY <1>11, <1>14, <2>1, <2>2, <2>4 DEF CommitQuit
  <2> QED BY <2>3, <2>4
<1>15. ASSUME NEW s \in Sessions, NEW c \in Capacities, CommitUpdate(s, c)
       PROVE  Table /\ Fresh
  <2> DEFINE t == tx[s]
             promotes == t.row.status = "published"
  <2>1. /\ t.op = "update" /\ tx' = [tx EXCEPT ![s] = Idle]
        /\ WriteRoster(t, {}, t.row.count, c, promotes)
    BY <1>15 DEF CommitUpdate, Ready
  <2>2. t.row = act /\ Leaving = {} BY <1>13, <2>1 DEF SoloInv, IsFresh
  <2>3. /\ t.row.count \in Nat /\ c \in Nat
        /\ t.row.count = 1 + Cardinality(Seated \ {})
    BY <1>2, <2>2 DEF Act, SoloInv, CountIsRoster
  <2>4. promotes \in BOOLEAN /\ (promotes \/ act.status # "published") BY <2>2
  <2> HIDE DEF promotes, t
  <2>5. Table BY <2>1, <2>2, <2>3, <2>4, FlushIsFair
  <2> QED BY <1>2, <2>1, <2>5, EndIsFresh
<1>16. ASSUME NEW s \in Sessions, NEW op, NEW status \in {"cancelled", "published", "rejected"},
              CommitStatus(s, op, status), op = "review" \/ status = "cancelled"
       PROVE  Table /\ Fresh
  <2>1. /\ tx[s].op = op /\ tx' = [tx EXCEPT ![s] = Idle] /\ UNCHANGED <<part, queue>>
        /\ act' = [act EXCEPT !.status = status]
    BY <1>16 DEF CommitStatus, Ready
  <2>2. /\ act'.count = act.count /\ act'.capacity = act.capacity /\ act'.status = status
    BY <1>2, <2>1 DEF Act
  <2>3. op = "review" => queue = <<>>
    BY <2>1 DEF SoloInv, IsFresh, PendingIsEmpty
  <2>4. Table
    BY <1>16, <2>1, <2>2, <2>3
    DEF SoloInv, CountIsRoster, Seated, NoIdleSeat, PendingIsEmpty, Fits, InTurn, TakesSeat
  <2> QED BY <1>2, <2>1, <2>4, EndIsFresh
<1>17. ASSUME NEW s \in Sessions, Abort(s) PROVE Table /\ Fresh
  <2>1. UNCHANGED <<act, part, queue>> /\ tx' = [tx EXCEPT ![s] = Idle]
    BY <1>17 DEF Abort, db
  <2> QED BY <1>2, <2>1, SameTable, EndIsFresh
<1>18. ASSUME UNCHANGED <<act, part, queue, tx>> PROVE Table /\ Fresh
  <2>1. Fresh BY <1>18 DEF SoloInv, IsFresh
  <2> QED BY <1>18, <2>1, SameTable
<1>19. ASSUME NEW u \in Users, HandleJoined(u) \/ LeaveGroup(u) PROVE Table /\ Fresh
  BY <1>18, <1>19 DEF HandleJoined, LeaveGroup
<1>20. CASE UNCHANGED vars
  <2>1. Table /\ Fresh BY <1>18, <1>20 DEF vars, db
  <2> QED BY <1>1, <2>1 DEF SoloInv
<1>21. CASE Next
  <2>1. ASSUME NEW s \in Sessions, NEW verdict \in {"published", "rejected"},
               CommitStatus(s, "review", verdict)
        PROVE  Table /\ Fresh
    BY <1>16, <2>1
  <2>2. ASSUME NEW s \in Sessions, CommitStatus(s, "cancel", "cancelled")
        PROVE  Table /\ Fresh
    BY <1>16, <2>2
  <2> HIDE DEF Table, Fresh
  <2>3. Table /\ Fresh
    BY <1>6, <1>7, <1>8, <1>9, <1>10, <1>12, <1>14, <1>15, <1>17, <1>19, <1>21,
       <2>1, <2>2 DEF Next
  <2> QED BY <1>1, <2>3 DEF SoloInv, Table, Fresh
<1> QED BY <1>20, <1>21

\* One request at a time: join_count counts the host and the seated, whoever
\* waits has one place and nobody else has one, through every sequence of joins,
\* quits, promotions, edits and reviews, whatever the worker does in between.
THEOREM RosterIsSound ==
  ASSUME OneSession PROVE Spec => []RosterSound
<1>1. SoloInv /\ [Next]_vars => SoloInv' BY SoloStep
<1>2. SoloInv => RosterSound
  BY DistinctLength DEF SoloInv, PlacesInv, QueueSound, RosterSound, TypeOK
<1> QED BY <1>1, <1>2, SoloInitially, PTL DEF Spec

\* One request at a time: nobody waits for an activity that has a free seat.
THEOREM NoSeatIdles ==
  ASSUME OneSession PROVE Spec => []NoIdleSeat
<1>1. SoloInv /\ [Next]_vars => SoloInv' BY SoloStep
<1>2. SoloInv => NoIdleSeat BY DEF SoloInv
<1> QED BY <1>1, <1>2, SoloInitially, PTL DEF Spec

\* One request at a time: the seats that quits, edits and joins free or take go
\* to the first who wait, and only as many as there are.
THEOREM SeatsGoInTurn ==
  ASSUME OneSession PROVE Spec => SeatsAreGivenInTurn
<1>1. SoloInv /\ [Next]_vars => SoloInv' BY SoloStep
<1>2. SoloInv /\ [Next]_vars => [Fits]_vars /\ [InTurn]_vars BY SoloStep
<1>3. SeatedWithinCapacity <=> [][Fits]_vars BY PTL DEF SeatedWithinCapacity, Fits
<1>4. NobodyOvertakes <=> [][InTurn]_vars BY PTL DEF NobodyOvertakes, InTurn
<1> QED BY <1>1, <1>2, <1>3, <1>4, SoloInitially, PTL DEF Spec, SeatsAreGivenInTurn
===============================================================================
