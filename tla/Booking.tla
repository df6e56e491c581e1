------------------------------- MODULE Booking -------------------------------
(***************************************************************************)
(* The slots of one companion, the bookings of them and the orders that    *)
(* pay for bookings (src/app/modules/companion/service.py with _on_paid of *)
(* src/app/modules/commerce/service.py).                                   *)
(*                                                                         *)
(* As in Commerce a request is a transaction that reads rows (Begin...),   *)
(* decides, and writes columns computed from what it READ when it commits  *)
(* (Commit...); no row is read FOR UPDATE.  Rows that one request reads    *)
(* with several SELECTs are read in several steps: mark_booking_paid reads *)
(* the booking, its slot and the profile (ReadBooking, ReadSlot,           *)
(* ReadProfile), a cancellation the booking and its slot, a review the     *)
(* booking and the profile.  A payment has flushed its UPDATE of the order *)
(* row by then, and holds that row's lock; the locks that later flushes    *)
(* take on bookings and slots are left out, which only adds behaviours.    *)
(*                                                                         *)
(* What Commerce says of an order is cut down to what a booking can tell:  *)
(* whether it waits for its payment, is paid, or is anything else ("off"). *)
(***************************************************************************)
EXTENDS Naturals, FiniteSets

CONSTANTS
  Slots, Bookings, Orders, Sessions,
  Channels     \* the payment channels that answer by a notification

ASSUME BookingAssumption ==
  "none" \notin Slots \cup Bookings \cup Orders \cup Channels

VARIABLES
  serial,   \* requests do not overlap (so chosen for a whole behaviour)
  slots,    \* companion_slots
  lapsed,   \* lapsed[sl]: a hold on sl has run out (history, kept where serial)
  bookings, \* companion_bookings
  orders,   \* orders of kind companion_booking
  profile,  \* order_count and rating_count of the companion's profile
  sold,     \* bookings that mark_booking_paid has marked (history)
  reviewed, \* bookings with a row in companion_reviews
  tx        \* tx[s]: the open transaction of session s

db == <<serial, slots, lapsed, bookings, orders, profile, sold, reviewed>>
vars == <<db, tx>>

SlotRow == [status : {"open", "held", "booked"}, hold : {"none", "live", "lapsed"}]
NoSlot == [status |-> "open", hold |-> "none"]
\* pending_confirm does not outlive create_booking, refunded is never set.
BookingStatus == {"absent", "awaiting_payment", "paid", "in_progress", "completed",
                  "cancelled"}
NoBooking == [status |-> "absent", slot |-> "none"]
NoOrder == [subject |-> "none", status |-> "absent", settled |-> FALSE, charges |-> {}]

\* An open transaction: its operation; the order, its status as read and the
\* channel of its payment row; the booking, and the status it will write to it;
\* the slot a new booking takes; the row it reads next ("done" if it has read all);
\* the slot row and the counter of the profile as read; the slots of a batch;
\* whether it holds the order's row.
Idle == [op |-> "idle", o |-> "none", was |-> "absent", channel |-> "none",
         b |-> "none", to |-> "absent", on |-> "none", next |-> "done", row |-> NoSlot,
         count |-> 0, batch |-> {}, holds |-> FALSE]

Init ==
  /\ serial \in BOOLEAN
  /\ slots = [sl \in Slots |-> NoSlot]
  /\ lapsed = [sl \in Slots |-> FALSE]
  /\ bookings = [b \in Bookings |-> NoBooking]
  /\ orders = [o \in Orders |-> NoOrder]
  /\ profile = [order_count |-> 0, rating_count |-> 0]
  /\ sold = {} /\ reviewed = {}
  /\ tx = [s \in Sessions |-> Idle]

\* A request may begin: where requests do not overlap, none is open.
MayBegin == serial => \A s \in Sessions : tx[s] = Idle

Begin(s, t) ==
  /\ MayBegin /\ tx[s] = Idle
  /\ tx' = [tx EXCEPT ![s] = t]
  /\ UNCHANGED db

End(s) == tx' = [tx EXCEPT ![s] = Idle]

\* SQLAlchemy writes a column only when its new value differs from the one read.
Written(current, read, new) == IF read = new THEN current ELSE new

\* The slot row after a request that read it as "read" sets both its columns.
SlotAfter(current, read, status, hold) ==
  [status |-> Written(current.status, read.status, status),
   hold   |-> Written(current.hold, read.hold, hold)]

-----------------------------------------------------------------------------
(* Booking a slot.                                                         *)

\* A plausible slip: a held slot is taken over without a look at the clock.
BookableHeld(row) == row.status \in {"open", "held"}

\* An open slot, or a held one whose hold has run out.
Bookable(row) == row.status = "open" \/ (row.status = "held" /\ row.hold = "lapsed")

FreshBooking(b) == bookings[b] = NoBooking /\ \A s \in Sessions : tx[s].b # b
FreshOrder(o) == orders[o] = NoOrder /\ \A s \in Sessions : tx[s].o # o

\* create_booking; a hit on the Idempotency-Key changes nothing.
BeginBook(s, b, o, sl) ==
  /\ FreshBooking(b) /\ FreshOrder(o)
  /\ Bookable(slots[sl])
  /\ Begin(s, [Idle EXCEPT !.op = "book", !.b = b, !.o = o, !.on = sl,
                           !.row = slots[sl]])

\* The hold is renewed; "held" is not written over a hold that had lapsed.
CommitBook(s) ==
  LET t == tx[s] IN
  /\ t.op = "book"
  /\ bookings' = [bookings EXCEPT ![t.b] = [status |-> "awaiting_payment", slot |-> t.on]]
  /\ slots' = [slots EXCEPT ![t.on] =
       [status |-> Written(@.status, t.row.status, "held"), hold |-> "live"]]
  /\ orders' = [orders EXCEPT ![t.o] =
       [NoOrder EXCEPT !.subject = t.b, !.status = "pending_payment"]]
  /\ End(s)
  /\ UNCHANGED <<serial, lapsed, profile, sold, reviewed>>

\* The clock passes hold_expires_at.
Lapse(sl) ==
  /\ slots[sl].hold = "live"
  /\ slots' = [slots EXCEPT ![sl].hold = "lapsed"]
  /\ lapsed' = [lapsed EXCEPT ![sl] = serial]
  /\ UNCHANGED <<serial, bookings, orders, profile, sold, reviewed, tx>>

\* list_slots opens the slots whose hold has run out.
BeginList(s) ==
  LET due == {sl \in Slots : slots[sl].status = "held" /\ slots[sl].hold = "lapsed"} IN
  /\ due # {}
  /\ Begin(s, [Idle EXCEPT !.op = "list", !.batch = due])

CommitList(s) ==
  /\ tx[s].op = "list"
  /\ slots' = [sl \in Slots |-> IF sl \in tx[s].batch THEN NoSlot ELSE slots[sl]]
  /\ End(s)
  /\ UNCHANGED <<serial, lapsed, bookings, orders, profile, sold, reviewed>>
-----------------------------------------------------------------------------
(* Paying for a booking.                                                   *)

\* POST /orders for a booking that exists: a further order of the booking.
PlaceOrder(o, b) ==
  /\ MayBegin /\ FreshOrder(o) /\ bookings[b].status # "absent"
  /\ orders' = [orders EXCEPT ![o] =
       [NoOrder EXCEPT !.subject = b, !.status = "pending_payment"]]
  /\ UNCHANGED <<serial, slots, lapsed, bookings, profile, sold, reviewed, tx>>

\* The same when the discount leaves nothing to pay: create_order calls _on_paid.
BeginFree(s, o, b) ==
  /\ FreshOrder(o) /\ bookings[b].status # "absent"
  /\ Begin(s, [Idle EXCEPT !.op = "settle", !.o = o, !.b = b, !.was = "created"])

\* pay_order on a channel that answers later: its payment row is pending.  A
\* second charge on one channel (whose number then names two rows, so that no
\* notification is accepted) only takes behaviours away and is left out.
Charge(o, c) ==
  /\ MayBegin /\ orders[o].status = "pending_payment" /\ c \notin orders[o].charges
  /\ orders' = [orders EXCEPT ![o].charges = @ \cup {c}]
  /\ UNCHANGED <<serial, slots, lapsed, bookings, profile, sold, reviewed, tx>>

\* pay_order with an immediate provider.
BeginPay(s, o) ==
  /\ orders[o].status = "pending_payment"
  /\ Begin(s, [Idle EXCEPT !.op = "settle", !.o = o, !.b = orders[o].subject,
                           !.was = orders[o].status])

\* handle_notify of a success; a notification that comes again later finds the
\* payment row settled and changes nothing.
BeginNotify(s, o, c) ==
  /\ c \in orders[o].charges
  /\ Begin(s, [Idle EXCEPT !.op = "settle", !.o = o, !.b = orders[o].subject,
                           !.was = orders[o].status, !.channel = c])

\* A plausible slip: a booking marked once is marked by every further payment.
MarksAgain(status, was) == status \in {"awaiting_payment", "paid"}

\* A plausible slip: only an order that was waiting is passed on to its booking.
MarksPending(status, was) == status = "awaiting_payment" /\ was # "off"

\* mark_booking_paid changes a booking that still waits for its payment only,
\* whatever the status of the order was.
Marks(status, was) == status = "awaiting_payment"

\* _on_paid leaves an order that it reads as paid alone; otherwise the order's
\* UPDATE is flushed and mark_booking_paid reads the booking.
ReadBooking(s) ==
  LET t == tx[s]
      held == [t EXCEPT !.holds = TRUE] IN
  /\ t.op = "settle" /\ t.was # "paid" /\ ~t.holds
  /\ \A r \in Sessions \ {s} : ~(tx[r].holds /\ tx[r].o = t.o)
  /\ tx' = [tx EXCEPT ![s] =
       IF Marks(bookings[t.b].status, t.was)
       THEN [held EXCEPT !.to = "paid", !.next = "slot"]
       ELSE held]
  /\ UNCHANGED db

\* Past its guard, mark_booking_paid goes on to the slot and then to the profile;
\* _release_slot reads the slot only.
ReadSlot(s) ==
  LET t == tx[s] IN
  /\ t.next = "slot"
  /\ tx' = [tx EXCEPT ![s].row = slots[bookings[t.b].slot],
                      ![s].next = IF t.op = "settle" THEN "profile" ELSE "done"]
  /\ UNCHANGED db

\* The counter that mark_booking_paid or add_review will add one to.
ReadProfile(s) ==
  /\ tx[s].next = "profile"
  /\ tx' = [tx EXCEPT ![s].next = "done",
                      ![s].count = IF tx[s].op = "settle" THEN profile.order_count
                                   ELSE profile.rating_count]
  /\ UNCHANGED db

\* _settle_payment, _on_paid and mark_booking_paid.
CommitSettle(s) ==
  LET t == tx[s] IN
  /\ t.op = "settle" /\ t.holds /\ t.next = "done"
  /\ orders' = [orders EXCEPT ![t.o] =
       [subject |-> t.b, status |-> Written(@.status, t.was, "paid"),
        settled |-> TRUE, charges |-> @.charges \ {t.channel}]]
  /\ IF t.to = "paid"
     THEN /\ bookings' = [bookings EXCEPT ![t.b].status = "paid"]
          /\ slots' = [slots EXCEPT ![bookings[t.b].slot] =
                         SlotAfter(@, t.row, "booked", "none")]
          /\ profile' = [profile EXCEPT !.order_count = t.count + 1]
          /\ sold' = sold \cup {t.b}
     ELSE UNCHANGED <<bookings, slots, profile, sold>>
  /\ End(s)
  /\ UNCHANGED <<serial, lapsed, reviewed>>

\* A notification for an order read as paid: only its payment row changes.
CommitNotifyPaid(s) ==
  LET t == tx[s] IN
  /\ t.op = "settle" /\ t.was = "paid"
  /\ orders' = [orders EXCEPT ![t.o].charges = @ \ {t.channel}]
  /\ End(s)
  /\ UNCHANGED <<serial, slots, lapsed, bookings, profile, sold, reviewed>>

\* The order is cancelled, expired, closed, refunding or refunded; a rejected
\* refund makes it paid again.  None of them touches the booking.
OrderMoves(o, status) ==
  /\ \/ status = "off" /\ orders[o].status \in {"pending_payment", "paid"}
     \/ status = "paid" /\ orders[o].status = "off" /\ orders[o].settled
  /\ MayBegin /\ \A s \in Sessions : ~(tx[s].holds /\ tx[s].o = o)
  /\ orders' = [orders EXCEPT ![o].status = status]
  /\ UNCHANGED <<serial, slots, lapsed, bookings, profile, sold, reviewed, tx>>
-----------------------------------------------------------------------------
(* transition and add_review.  confirm and reschedule only write times.    *)

\* A plausible slip: a companion may start what nobody has paid for.
FromUnpaid == [decline  |-> {"awaiting_payment", "paid"},
               start    |-> {"awaiting_payment", "paid"},
               complete |-> {"in_progress"},
               cancel   |-> {"awaiting_payment", "paid", "in_progress"}]

\* The statuses each action of transition starts from.
From == [decline  |-> {"awaiting_payment", "paid"},
         start    |-> {"paid"},
         complete |-> {"in_progress"},
         cancel   |-> {"awaiting_payment", "paid", "in_progress"}]

\* A plausible slip: a cancelled booking is taken for a refunded one.
ToRefunded == [decline |-> "cancelled", start |-> "in_progress",
               complete |-> "completed", cancel |-> "refunded"]

\* Where each of them ends.
To == [decline |-> "cancelled", start |-> "in_progress", complete |-> "completed",
       cancel |-> "cancelled"]

\* A plausible slip: only a hold is released.
ReleasableHold == {"held"}

\* The statuses that _release_slot turns into open.
Releasable == {"held", "booked"}

\* The slot is read, later, by _release_slot only.
BeginMove(s, b, op) ==
  /\ bookings[b].status \in From[op]
  /\ Begin(s, [Idle EXCEPT !.op = "move", !.b = b, !.to = To[op],
                           !.next = IF To[op] = "cancelled" THEN "slot" ELSE "done"])

CommitMove(s) ==
  LET t == tx[s] IN
  /\ t.op = "move" /\ t.next = "done"
  /\ bookings' = [bookings EXCEPT ![t.b].status = t.to]
  /\ slots' = IF t.to = "cancelled" /\ t.row.status \in Releasable
              THEN [slots EXCEPT ![bookings[t.b].slot] =
                     SlotAfter(@, t.row, "open", "none")]
              ELSE slots
  /\ End(s)
  /\ UNCHANGED <<serial, lapsed, orders, profile, sold, reviewed>>

BeginReview(s, b) ==
  /\ bookings[b].status = "completed" /\ b \notin reviewed
  /\ Begin(s, [Idle EXCEPT !.op = "review", !.b = b, !.next = "profile"])

\* booking_id is unique in companion_reviews: a second insert raises.
CommitReview(s) ==
  LET t == tx[s] IN
  /\ t.op = "review" /\ t.next = "done" /\ t.b \notin reviewed
  /\ reviewed' = reviewed \cup {t.b}
  /\ profile' = [profile EXCEPT !.rating_count = t.count + 1]
  /\ End(s)
  /\ UNCHANGED <<serial, slots, lapsed, bookings, orders, sold>>

\* The request raises or its process dies: the database rolls back.
Abort(s) == tx[s] # Idle /\ End(s) /\ UNCHANGED db
-----------------------------------------------------------------------------
Requests(s) ==
  \/ \E b \in Bookings, o \in Orders, sl \in Slots : BeginBook(s, b, o, sl)
  \/ \E b \in Bookings, o \in Orders : BeginFree(s, o, b)
  \/ \E o \in Orders : BeginPay(s, o) \/ \E c \in Channels : BeginNotify(s, o, c)
  \/ \E b \in Bookings, op \in DOMAIN From : BeginMove(s, b, op)
  \/ \E b \in Bookings : BeginReview(s, b)
  \/ BeginList(s)

Reads(s) == ReadBooking(s) \/ ReadSlot(s) \/ ReadProfile(s)

Commits(s) ==
  \/ CommitBook(s) \/ CommitList(s) \/ CommitSettle(s) \/ CommitNotifyPaid(s)
  \/ CommitMove(s) \/ CommitReview(s)

Next ==
  \/ \E s \in Sessions : Requests(s) \/ Reads(s) \/ Commits(s) \/ Abort(s)
  \/ \E o \in Orders, c \in Channels : Charge(o, c)
  \/ \E o \in Orders, status \in {"off", "paid"} : OrderMoves(o, status)
  \/ \E o \in Orders, b \in Bookings : PlaceOrder(o, b)
  \/ \E sl \in Slots : Lapse(sl)

Spec == Init /\ [][Next]_vars
-----------------------------------------------------------------------------
(* Properties.                                                             *)

Served == {"paid", "in_progress", "completed"}
Live(sl) == {b \in Bookings : /\ bookings[b].slot = sl
                              /\ bookings[b].status \in Served \cup {"awaiting_payment"}}

\* The tables, and the counters within what can be sold and reviewed.
TypeOK ==
  /\ serial \in BOOLEAN
  /\ slots \in [Slots -> SlotRow] /\ lapsed \in [Slots -> BOOLEAN]
  /\ bookings \in [Bookings -> [status : BookingStatus, slot : Slots \cup {"none"}]]
  /\ orders \in [Orders -> [subject : Bookings \cup {"none"},
                            status  : {"absent", "pending_payment", "paid", "off"},
                            settled : BOOLEAN,
                            charges : SUBSET Channels]]
  /\ profile \in [order_count : Nat, rating_count : Nat]
  /\ sold \subseteq Bookings /\ reviewed \subseteq Bookings
  /\ \A s \in Sessions : /\ tx[s].o \in Orders \cup {"none"}
                         /\ tx[s].b \in Bookings \cup {"none"}
                         /\ tx[s].row \in SlotRow

\* A slot whose holds never ran out belongs to at most one live booking, and its
\* status is that booking's: held while it waits for its payment, booked once it
\* is paid, open without one (create_booking, mark_booking_paid, _release_slot).
SlotFollowsBooking ==
  serial => \A sl \in Slots : ~lapsed[sl] =>
    \/ slots[sl].status = "open" /\ Live(sl) = {}
    \/ \E b \in Bookings :
         /\ Live(sl) = {b}
         /\ slots[sl].status = IF bookings[b].status = "awaiting_payment"
                               THEN "held" ELSE "booked"

\* Holds that ran out and payments that came late included, a slot that nobody
\* can book any more was bought by somebody whose booking still stands.
BookedSlotIsBought ==
  serial => \A sl \in Slots : slots[sl].status = "booked" =>
    \E b \in Live(sl) : bookings[b].status \in Served

\* However requests overlap, what a companion serves has been paid for: some order
\* of the booking was settled (by a payment, or by a discount that left nothing).
ServedIsPaidFor ==
  \A b \in Bookings : bookings[b].status \in Served =>
    \E o \in Orders : orders[o].subject = b /\ orders[o].settled

\* However requests overlap, money that arrived for a booking, the notification of
\* an order cancelled in the meantime included, does not leave the booking waiting.
PaidReachesBooking ==
  \A o \in Orders : orders[o].settled =>
    bookings[orders[o].subject].status # "awaiting_payment"

\* The orders that were settled, by a payment or by a discount that left nothing.
Settled == {o \in Orders : orders[o].settled}

\* order_count and rating_count, which mark_booking_paid and add_review compute
\* from the profile they read last, are exact while requests do not overlap: a
\* booking paid twice is counted once.  Overlapping requests lose counts, and two
\* payments of one booking that both find it waiting count it twice; but no order
\* adds more than one to order_count, and rating_count never runs ahead.
ProfileCounts ==
  /\ serial => /\ profile.order_count = Cardinality(sold)
               /\ profile.rating_count = Cardinality(reviewed)
  /\ profile.order_count <= Cardinality(Settled)
  /\ profile.rating_count <= Cardinality(reviewed)

\* Well-formed rows and counters that agree with them (mark_booking_paid,
\* add_review).
ProfileSound == TypeOK /\ ProfileCounts
=============================================================================
