----------------------------- MODULE Memberships -----------------------------
(***************************************************************************)
(* The membership periods of one user: how periods that are bought one     *)
(* after the other add up, and what a refund takes away (my_membership,    *)
(* _activate_membership, _revoke_membership_for_order of                   *)
(* src/app/modules/commerce/service.py).                                   *)
(*                                                                         *)
(* The orders, their payments and refunds are in Commerce; here an order   *)
(* is paid or not, and pays for a plan of so many days.                    *)
(***************************************************************************)
EXTENDS Requests, Sequences, Functions, FiniteSetsExt

CONSTANTS
  MemberOrders,
  PlanDays,      \* duration_days of the plans
  MaxPeriods,    \* named bounds: memberships rows,
  LastMemberDay  \* and days

ASSUME MembershipsAssumption == PlanDays \subseteq Nat \ {0} /\ LastMemberDay \in Nat

VARIABLES
  date,      \* the day
  periods,   \* memberships rows: source_order_id, status and the day of expires_at
  settled,   \* orders that are paid and not refunded
  owed,      \* owed[m]: days paid for with period m and not used up (history)
  refunded,  \* some membership was refunded (history)
  memberTx   \* memberTx[o]: the open settlement or refund of order o

membershipVars == <<date, periods, settled, owed, refunded, memberTx>>

NoMemberTx == [op |-> "idle", days |-> 0, until |-> 0, rows |-> {}]

MembershipsInit ==
  /\ date = 0 /\ periods = <<>> /\ settled = {} /\ owed = <<>> /\ refunded = FALSE
  /\ memberTx = [o \in MemberOrders |-> NoMemberTx]

Good(m) == periods[m].active /\ periods[m].until > date

\* my_membership: the day the good period with the latest end ends, or 0.
Ends == Max({0} \cup {periods[m].until : m \in {m \in DOMAIN periods : Good(m)}})

BeginMember(o, t) ==
  /\ MayBegin(memberTx, o, NoMemberTx)
  /\ memberTx' = [memberTx EXCEPT ![o] = t]
  /\ UNCHANGED <<serial, blocks, date, periods, settled, owed, refunded>>

\* A plausible slip: every period starts when it is paid.
StartsNow(until) == date

\* "Extend from current expiry"
StartsAt(until) == IF until > date THEN until ELSE date

\* _on_paid of a membership order, also one that was refunded before.
BeginActivate(o, days) ==
  /\ o \notin settled
  /\ BeginMember(o, [NoMemberTx EXCEPT !.op = "activate", !.days = days, !.until = StartsAt(Ends)])

CommitActivate(o) ==
  LET t == memberTx[o] IN
  /\ t.op = "activate" /\ Len(periods) < MaxPeriods
  /\ periods' = Append(periods,
       [order |-> o, active |-> TRUE, until |-> t.until + t.days])
  /\ settled' = settled \cup {o}
  /\ owed' = Append(owed, t.days)
  /\ memberTx' = [memberTx EXCEPT ![o] = NoMemberTx]
  /\ UNCHANGED <<serial, blocks, date, refunded>>

\* complete_refund of a membership order.
BeginRevocation(o) ==
  /\ o \in settled
  /\ BeginMember(o, [NoMemberTx EXCEPT !.op = "revoke",
                       !.rows = {m \in DOMAIN periods : periods[m].order = o}])

\* _revoke_membership_for_order: the rows of this order, and no other.
CommitRevocation(o) ==
  /\ memberTx[o].op = "revoke"
  /\ periods' = [m \in DOMAIN periods |->
       IF m \in memberTx[o].rows THEN [periods[m] EXCEPT !.active = FALSE] ELSE periods[m]]
  /\ settled' = settled \ {o}
  /\ owed' = [m \in DOMAIN owed |-> IF periods[m].order = o THEN 0 ELSE owed[m]]
  /\ refunded' = TRUE
  /\ memberTx' = [memberTx EXCEPT ![o] = NoMemberTx]
  /\ UNCHANGED <<serial, blocks, date>>

\* The settlement fails, because the plan is not sold any more for instance.
AbortMember(o) ==
  /\ memberTx[o] # NoMemberTx
  /\ memberTx' = [memberTx EXCEPT ![o] = NoMemberTx]
  /\ UNCHANGED <<serial, blocks, date, periods, settled, owed, refunded>>

\* A day passes, no request being open; it is one of the oldest period that has
\* any left.
OwedOn == {m \in DOMAIN owed : owed[m] > 0}

MemberDay ==
  /\ \A o \in MemberOrders : memberTx[o] = NoMemberTx
  /\ date < LastMemberDay /\ date' = date + 1
  /\ IF OwedOn = {} THEN UNCHANGED owed
     ELSE owed' = [owed EXCEPT ![Min(OwedOn)] = @ - 1]
  /\ UNCHANGED <<serial, blocks, periods, settled, refunded, memberTx>>

MembershipsNext ==
  \/ \E o \in MemberOrders :
       \/ \E days \in PlanDays : BeginActivate(o, days)
       \/ CommitActivate(o) \/ BeginRevocation(o) \/ CommitRevocation(o) \/ AbortMember(o)
  \/ MemberDay
-----------------------------------------------------------------------------
MembershipsTypeOK ==
  /\ date \in 0..LastMemberDay /\ settled \subseteq MemberOrders
  /\ \A m \in DOMAIN periods : periods[m].until \in Nat /\ periods[m].order \in MemberOrders

DaysOwed == SumFunction(owed)

\* _activate_membership ("Extend from current expiry") and
\* _revoke_membership_for_order, where settlements do not overlap: no paid day is
\* lost, whatever else was bought, refunded and used up in whichever order; and
\* as long as nothing was refunded, none is given.  (A period that was stacked on
\* one refunded later keeps its end, and with it the days of the other.)
PaidDaysAreKept ==
  serial =>
    /\ DaysOwed > 0 => Ends - date >= DaysOwed
    /\ ~refunded => Ends = IF DaysOwed = 0 THEN 0 ELSE date + DaysOwed
=============================================================================
