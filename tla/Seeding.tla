------------------------------- MODULE Seeding --------------------------------
(***************************************************************************)
(* The two scripts that fill a deployment through its own API,             *)
(* src/scripts/seed_content.py and src/scripts/seed_pages.py.  Each looks  *)
(* for what it made before and makes what is missing, request by request;  *)
(* it may be killed, or a request may fail, between any two of them, and   *)
(* it is run again and again, while admins work through the moderation     *)
(* queue and customers book.  The scripts share no row, so that a          *)
(* behaviour follows one of them.                                          *)
(*                                                                         *)
(* Left out: profiles, avatars, likes and the other marks that are written *)
(* over what is there; orders and bookings carry an Idempotency-Key, as in *)
(* Commerce; wallet grants follow the balance.  All runs fall on one day.  *)
(***************************************************************************)
EXTENDS Integers, Sequences, FiniteSets

CONSTANTS
  Titles,        \* activities and posts are told apart by title: 1 .. Titles
  LeftPending,   \* the titles that stay unapproved, for the moderation queue
  Days,          \* days ahead that get a slot
  MaxRows        \* bound: rows of one title, slots of one day

ASSUME SeedingAssumption ==
  /\ Titles \in Nat \ {0} /\ Days \in Nat \ {0} /\ MaxRows \in Nat \ {0}
  /\ LeftPending \subseteq 1 .. Titles /\ LeftPending # 1 .. Titles

VARIABLES
  script,   \* which of the two it is
  pc,       \* the stage a run is in, "off" when killed, "done" when it ended
  at,       \* how far the stage has come
  made,     \* the row of the current title the script has just created, or 0
  listed,   \* listed[t]: the row found for title t when the stage began
  missing,  \* the days found without an open slot that have not got one yet
  rows,     \* rows[t]: the statuses of the activities or posts of title t
  helper,   \* companion_profiles.status, "none" without a row
  offers,   \* companion_services of the companion
  slots,    \* slots[d]: the slots of day d
  booking,  \* seed_pages' booking, "lapsed" when its order has expired
  friend,   \* the friendship of the first two users
  shelf     \* items on the shelf; -1 before it exists

runVars == <<pc, at, made, listed, missing>>
worldVars == <<rows, helper, offers, slots, booking, friend, shelf>>
seedVars == <<script, runVars, worldVars>>

NotFound == [row |-> 0, status |-> "none"]

SeedingInit ==
  /\ script \in {"content", "pages"} /\ pc = "off" /\ at = 0 /\ made = 0
  /\ listed = [t \in 1 .. Titles |-> NotFound] /\ missing = {}
  /\ rows = [t \in 1 .. Titles |-> <<>>] /\ slots = [d \in 1 .. Days |-> <<>>]
  /\ helper = "none" /\ offers = 0 /\ booking = "none" /\ friend = "none" /\ shelf = -1

\* main: the order of the stages.
First == IF script = "content" THEN "companion" ELSE "titles"
StageAfter(stage) ==
  CASE stage = "companion" -> IF script = "content" THEN "titles" ELSE "friends"
    [] stage = "titles" -> IF script = "content" THEN "friends" ELSE "companion"
    [] stage = "friends" -> "shelf"
    [] stage = "shelf" -> "done"

Enter(stage) ==
  /\ pc' = stage /\ at' = 0 /\ made' = 0
  /\ listed' = [t \in 1 .. Titles |-> NotFound] /\ missing' = {}
  /\ UNCHANGED <<script, worldVars>>

StartRun == pc \in {"off", "done"} /\ Enter(First)

\* The run is killed, or dies on a request that fails.
Kill == pc \notin {"off", "done"} /\ Enter("off")

Leave(stage) == pc = stage /\ Enter(StageAfter(stage))

\* A plausible slip: seed_pages leaves the status out as well.
PendingOnly(t) == {r \in DOMAIN rows[t] : rows[t][r] = "pending"}

\* Without a status the admin lists hold what is pending; seed_pages asks for all.
ShownRows(t) ==
  {r \in DOMAIN rows[t] : script = "pages" \/ rows[t][r] = "pending"}

\* The newest comes first in the list and the last of a title wins.
Listing(t) ==
  IF ShownRows(t) = {} THEN NotFound
  ELSE LET r == CHOOSE r \in ShownRows(t) : \A s \in ShownRows(t) : r <= s
       IN [row |-> r, status |-> rows[t][r]]

\* ensure_activities and ensure_posts.
ListTitles ==
  /\ pc = "titles" /\ at = 0 /\ at' = 1
  /\ listed' = [t \in 1 .. Titles |-> Listing(t)]
  /\ UNCHANGED <<script, pc, made, missing, worldVars>>

AtTitle(t) == pc = "titles" /\ at = t

CreateRow(t) ==
  /\ AtTitle(t) /\ made = 0 /\ listed[t].row = 0 /\ Len(rows[t]) < MaxRows
  /\ rows' = [rows EXCEPT ![t] = Append(@, "pending")]
  /\ made' = IF t \in LeftPending THEN 0 ELSE Len(rows[t]) + 1
  /\ at' = IF t \in LeftPending THEN t + 1 ELSE t
  /\ UNCHANGED <<script, pc, listed, missing, helper, offers, slots, booking, friend, shelf>>

SkipRow(t) ==
  /\ AtTitle(t) /\ listed[t].row # 0
  /\ t \in LeftPending \/ listed[t].status = "published"
  /\ at' = t + 1
  /\ UNCHANGED <<script, pc, made, listed, missing, worldVars>>

\* The review refuses a row that is not pending (any more), and the run dies.
Approve(t) ==
  LET r == IF made # 0 THEN made ELSE listed[t].row IN
  /\ AtTitle(t) /\ r # 0 /\ t \notin LeftPending
  /\ made = 0 => listed[t].status # "published"
  /\ rows[t][r] = "pending"
  /\ rows' = [rows EXCEPT ![t][r] = "published"]
  /\ at' = t + 1 /\ made' = 0
  /\ UNCHANGED <<script, pc, listed, missing, helper, offers, slots, booking, friend, shelf>>

LeaveTitles == at = Titles + 1 /\ Leave("titles")
-----------------------------------------------------------------------------
\* ensure_companions: apply, let the admin approve, add a service.
Apply ==
  /\ pc = "companion" /\ at = 0 /\ helper = "none" /\ helper' = "pending"
  /\ UNCHANGED <<script, runVars, rows, offers, slots, booking, friend, shelf>>

ApproveHelper ==
  /\ pc = "companion" /\ at = 0 /\ helper = "pending" /\ helper' = "active"
  /\ UNCHANGED <<script, runVars, rows, offers, slots, booking, friend, shelf>>

Offer ==
  /\ pc = "companion" /\ at = 0 /\ helper = "active" /\ offers = 0 /\ offers' = 1
  /\ UNCHANGED <<script, runVars, rows, helper, slots, booking, friend, shelf>>

OpenSlots(d) == {k \in DOMAIN slots[d] : slots[d][k] = "open"}

\* Days are told apart by their open slots: one that is booked is made again.
ListSlots ==
  /\ pc = "companion" /\ at = 0 /\ helper = "active" /\ offers > 0
  /\ at' = 1 /\ missing' = {d \in 1 .. Days : OpenSlots(d) = {}}
  /\ UNCHANGED <<script, pc, made, listed, worldVars>>

AddSlot(d) ==
  /\ pc = "companion" /\ d \in missing /\ \A e \in missing : d <= e
  /\ Len(slots[d]) < MaxRows
  /\ slots' = [slots EXCEPT ![d] = Append(@, "open")]
  /\ missing' = missing \ {d}
  /\ UNCHANGED <<script, pc, at, made, listed, rows, helper, offers, booking, friend, shelf>>

AllSlots == pc = "companion" /\ at = 1 /\ missing = {}

\* _complete_one_booking: the first open slot, once.
BookOne ==
  /\ AllSlots /\ script = "pages" /\ booking = "none"
  /\ \E d \in 1 .. Days : \E k \in OpenSlots(d) :
       /\ \A e \in 1 .. d - 1 : OpenSlots(e) = {}
       /\ slots' = [slots EXCEPT ![d][k] = "ours"]
  /\ booking' = "awaiting_payment"
  /\ UNCHANGED <<script, runVars, rows, helper, offers, friend, shelf>>

\* _advance_booking: paying a lapsed order is refused, and the run dies.
Advances == [awaiting_payment |-> "paid", paid |-> "in_progress", in_progress |-> "completed"]

AdvanceBooking ==
  /\ AllSlots /\ script = "pages" /\ booking \in DOMAIN Advances
  /\ booking' = Advances[booking]
  /\ UNCHANGED <<script, runVars, rows, helper, offers, slots, friend, shelf>>

LeaveCompanion ==
  /\ AllSlots
  /\ script = "pages" =>
       \/ booking = "completed"
       \/ booking = "none" /\ \A d \in 1 .. Days : OpenSlots(d) = {}
  /\ Leave("companion")

\* ensure_friendship_and_chat, ensure_social: a pending request is found again.
\* seed_pages goes on when one of these requests fails (_soft).
AskFriend ==
  /\ pc = "friends" /\ friend = "none" /\ friend' = "pending"
  /\ UNCHANGED <<script, runVars, rows, helper, offers, slots, booking, shelf>>

AcceptFriend ==
  /\ pc = "friends" /\ friend = "pending" /\ friend' = "active"
  /\ UNCHANGED <<script, runVars, rows, helper, offers, slots, booking, shelf>>

LeaveFriends == (script = "content" => friend = "active") /\ Leave("friends")

\* What goes on the shelf: seed_content takes what its own list shows as published.
OnShelf == {t \in 1 .. Titles \ LeftPending :
              script = "pages" \/ Listing(t).status = "published"}

\* ensure_shelves: a shelf that has an item counts as filled.
CreateShelf ==
  /\ pc = "shelf" /\ OnShelf # {} /\ shelf = -1 /\ shelf' = 0
  /\ UNCHANGED <<script, runVars, rows, helper, offers, slots, booking, friend>>

AddItem ==
  /\ pc = "shelf" /\ shelf = at /\ at < Cardinality(OnShelf)
  /\ shelf' = shelf + 1 /\ at' = at + 1
  /\ UNCHANGED <<script, pc, made, listed, missing, rows, helper, offers, slots, booking, friend>>

LeaveShelf ==
  /\ \/ at = Cardinality(OnShelf)
     \/ at = 0 /\ shelf > 0
  /\ Leave("shelf")
-----------------------------------------------------------------------------
\* An admin reviews a row that is pending, or takes a published one down.
Moderate(t) ==
  /\ \E r \in DOMAIN rows[t] :
       \/ /\ rows[t][r] = "pending"
          /\ \E s \in {"published", "gone"} : rows' = [rows EXCEPT ![t][r] = s]
       \/ /\ rows[t][r] = "published"
          /\ rows' = [rows EXCEPT ![t][r] = "gone"]
  /\ UNCHANGED <<script, runVars, helper, offers, slots, booking, friend, shelf>>

\* A customer books an open slot.
Taken(d) ==
  /\ \E k \in OpenSlots(d) : slots' = [slots EXCEPT ![d][k] = "taken"]
  /\ UNCHANGED <<script, runVars, rows, helper, offers, booking, friend, shelf>>

\* The order of the script's booking expires while no run pays it, its hold before.
LapseBooking ==
  /\ booking = "awaiting_payment" /\ booking' = "lapsed"
  /\ slots' = [d \in 1 .. Days |->
                 [k \in DOMAIN slots[d] |-> IF slots[d][k] = "ours" THEN "open" ELSE slots[d][k]]]
  /\ UNCHANGED <<script, runVars, rows, helper, offers, friend, shelf>>

SeedingNext ==
  \/ StartRun \/ Kill
  \/ ListTitles \/ LeaveTitles
  \/ \E t \in 1 .. Titles : CreateRow(t) \/ SkipRow(t) \/ Approve(t) \/ Moderate(t)
  \/ Apply \/ ApproveHelper \/ Offer \/ ListSlots
  \/ BookOne \/ AdvanceBooking \/ LeaveCompanion
  \/ AskFriend \/ AcceptFriend \/ LeaveFriends
  \/ CreateShelf \/ AddItem \/ LeaveShelf
  \/ \E d \in 1 .. Days : AddSlot(d) \/ Taken(d)
  \/ LapseBooking
-----------------------------------------------------------------------------
SeedingTypeOK ==
  /\ \A t \in 1 .. Titles :
       /\ rows[t] \in Seq({"pending", "published", "gone"}) /\ Len(rows[t]) <= MaxRows
       /\ listed[t].row \in 0 .. Len(rows[t])
  /\ \A d \in 1 .. Days : slots[d] \in Seq({"open", "ours", "taken"})
  /\ shelf \in -1 .. Titles

\* "Idempotent by stable titles; safe to re-run" (seed_content.py and seed_pages.py):
\* no title has two rows, however often a run is killed or repeated.
OneRowPerTitle == \A t \in 1 .. Titles : Len(rows[t]) <= 1

\* seed_pages keeps that promise, and a run of it that reaches its end has left
\* nothing half made by the runs that were killed before it: every title is there
\* once and through its review unless it is meant to wait, the companion is
\* approved and offers a service, the booking is finished or was never begun,
\* and the shelf is not empty (it may be short of items: a run killed while
\* filling it is not made up for).
PagesSeedOnce ==
  script = "pages" =>
    /\ OneRowPerTitle
    /\ pc = "done" =>
         /\ \A t \in 1 .. Titles :
              rows[t] # <<>> /\ (rows[t][1] = "pending" => t \in LeftPending)
         /\ helper = "active" /\ offers = 1 /\ shelf > 0
         /\ booking \in {"none", "completed"}
=============================================================================
