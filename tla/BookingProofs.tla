----------------------------- MODULE BookingProofs ----------------------------
(***************************************************************************)
(* Bookings and the money for them, for any slots, bookings, orders and    *)
(* channels.                                                               *)
(*                                                                         *)
(* With any number of overlapping requests: what a companion serves has    *)
(* been paid for, and money that arrived does not leave its booking        *)
(* waiting.  No row is locked for the reader, so an open request rests on  *)
(* what does not change back: an order keeps its booking and stays         *)
(* settled, a booking never waits for its payment a second time, and rows  *)
(* that do not exist yet are made by one request only.                     *)
(*                                                                         *)
(* Where requests do not overlap: a booked slot was bought, and a slot     *)
(* follows the one live booking on it.  Two buyers who overlap break both. *)
(*                                                                         *)
(* The counters of the profile are exact without overlap.  With it, an     *)
(* order adds one at most to order_count, because whoever adds one holds   *)
(* the row of an order that was not settled before; and rating_count stays *)
(* within the reviews, because a booking is reviewed once.                 *)
(***************************************************************************)
EXTENDS Booking, FiniteSetTheorems, TLAPS

USE BookingAssumption

TxRow ==
  [op : {"idle", "book", "list", "settle", "move", "review"},
   o : Orders \cup {"none"}, was : {"absent", "created", "pending_payment", "paid", "off"},
   channel : Channels \cup {"none"}, b : Bookings \cup {"none"}, to : BookingStatus,
   on : Slots \cup {"none"}, next : {"done", "slot", "profile"}, row : SlotRow, count : Nat, batch : SUBSET Slots,
   holds : BOOLEAN]
BookingRow == [status : BookingStatus, slot : Slots \cup {"none"}]
OrderRow == [subject : Bookings \cup {"none"},
             status : {"absent", "pending_payment", "paid", "off"},
             settled : BOOLEAN, charges : SUBSET Channels]

RowsTyped ==
  /\ slots \in [Slots -> SlotRow]
  /\ bookings \in [Bookings -> BookingRow]
  /\ orders \in [Orders -> OrderRow]
  /\ profile \in [order_count : Nat, rating_count : Nat]

\* The rows point at each other: a booking at a slot, an order at a booking.
RowsRefer ==
  /\ \A b \in Bookings : bookings[b].status # "absent" => bookings[b].slot \in Slots
  /\ \A o \in Orders : orders[o] # NoOrder =>
       /\ orders[o].subject \in Bookings
       /\ bookings[orders[o].subject].status # "absent"

\* An order of b was settled.
PaidFor(b) == \E o \in Orders : orders[o].subject = b /\ orders[o].settled

\* What the transaction t of session s rests on.
Rests(s, t) ==
  /\ t.op \in {"book", "settle"} =>
       /\ t.o \in Orders /\ t.b \in Bookings
       /\ orders[t.o] = NoOrder => \A r \in Sessions \ {s} : tx[r].o # t.o
  /\ t.op = "book" =>
       /\ orders[t.o] = NoOrder /\ bookings[t.b] = NoBooking /\ t.on \in Slots
       /\ \A r \in Sessions \ {s} : tx[r].b # t.b
  /\ t.op = "settle" =>
       /\ bookings[t.b].status # "absent"
       /\ orders[t.o] = NoOrder \/ orders[t.o].subject = t.b
       /\ t.holds /\ t.to # "paid" => bookings[t.b].status # "awaiting_payment"
  /\ t.op = "move" =>
       /\ t.b \in Bookings /\ bookings[t.b].status # "absent"
       /\ t.to \in {"cancelled", "in_progress", "completed"}
       /\ t.to # "cancelled" => PaidFor(t.b)
  /\ t.op \in {"move", "review"} => t.o = "none"
  /\ t.op = "review" => t.b \in Bookings /\ bookings[t.b].status # "absent"
  /\ t.next = "slot" => t.op \in {"settle", "move"}
  /\ t.next = "profile" => t.op \in {"settle", "review"}

\* The inductive invariant.
BookInv ==
  /\ RowsTyped /\ RowsRefer
  /\ tx \in [Sessions -> TxRow]
  /\ \A s \in Sessions : Rests(s, tx[s])
  /\ ServedIsPaidFor
  /\ PaidReachesBooking

LEMMA NoneIsTyped ==
  /\ Idle \in TxRow /\ NoSlot \in SlotRow /\ NoBooking \in BookingRow /\ NoOrder \in OrderRow
  /\ NoBooking.status = "absent" /\ NoOrder.subject = "none" /\ ~NoOrder.settled
  /\ Idle.op = "idle" /\ Idle.o = "none" /\ Idle.b = "none"
  /\ Idle.next = "done" /\ ~Idle.holds
BY DEF Idle, NoSlot, NoBooking, NoOrder, TxRow, SlotRow, BookingRow, OrderRow, BookingStatus

\* A session that opens or goes on with t: nobody else is at the rows that t will
\* make.
LEMMA TxStep ==
  ASSUME BookInv, NEW s \in Sessions, NEW t \in TxRow, tx' = [tx EXCEPT ![s] = t],
         UNCHANGED <<slots, bookings, orders, profile>>, Rests(s, t),
         t.o \in Orders /\ orders[t.o] = NoOrder => \A r \in Sessions \ {s} : tx[r].o # t.o,
         t.b \in Bookings /\ bookings[t.b] = NoBooking =>
           \A r \in Sessions \ {s} : tx[r].b # t.b
  PROVE  BookInv'
<1>1. \A r \in Sessions : tx'[r] = IF r = s THEN t ELSE tx[r] BY DEF BookInv
<1>2. tx' \in [Sessions -> TxRow] BY DEF BookInv
<1>3. RowsTyped' /\ RowsRefer' BY DEF BookInv, RowsTyped, RowsRefer
<1>4. ServedIsPaidFor' /\ PaidReachesBooking'
  BY DEF BookInv, ServedIsPaidFor, PaidReachesBooking
<1>5. ASSUME NEW r \in Sessions PROVE Rests(r, tx[r])'
  <2>1. CASE r = s
    <3>1. tx'[r] = t /\ \A q \in Sessions \ {r} : tx'[q] = tx[q] BY <1>1, <2>1
    <3> QED BY <2>1, <3>1 DEF Rests, PaidFor
  <2>2. CASE r # s
    <3>1. tx'[r] = tx[r] /\ Rests(r, tx[r]) BY <1>1, <2>2 DEF BookInv
    <3>2. \A q \in Sessions \ {r} : tx'[q] = IF q = s THEN t ELSE tx[q] BY <1>1
    <3>3. tx[r].op \in {"book", "settle"} /\ orders[tx[r].o] = NoOrder => t.o # tx[r].o
      BY <2>2, <3>1 DEF Rests
    <3>4. tx[r].op = "book" => t.b # tx[r].b
      BY <2>2, <3>1 DEF Rests
    <3> QED BY <3>1, <3>2, <3>3, <3>4 DEF Rests, PaidFor
  <2> QED BY <2>1, <2>2
<1> QED BY <1>2, <1>3, <1>4, <1>5 DEF BookInv

\* A step that writes rows, ending a transaction or outside of any.
LEMMA RowsStep ==
  ASSUME BookInv, \A r \in Sessions : tx'[r] \in {tx[r], Idle},
         tx' \in [Sessions -> TxRow], RowsTyped', RowsRefer',
         ServedIsPaidFor', PaidReachesBooking',
         \A o \in Orders : orders[o] # NoOrder =>
           /\ orders'[o] # NoOrder /\ orders'[o].subject = orders[o].subject
           /\ orders[o].settled => orders'[o].settled,
         \A o \in Orders : orders[o] = NoOrder /\ orders'[o] # NoOrder =>
           \A r \in Sessions : tx'[r].o # o,
         \A b \in Bookings : bookings[b].status # "absent" =>
           /\ bookings'[b].status # "absent"
           /\ bookings'[b].status = "awaiting_payment" => bookings[b].status = "awaiting_payment",
         \A b \in Bookings : bookings[b] = NoBooking /\ bookings'[b] # NoBooking =>
           \A r \in Sessions : tx'[r].b # b
  PROVE  BookInv'
<1>1. ASSUME NEW b \in Bookings, PaidFor(b) PROVE PaidFor(b)'
  <2>1. PICK o \in Orders : orders[o].subject = b /\ orders[o].settled
    BY <1>1 DEF PaidFor
  <2>2. orders[o] # NoOrder BY <2>1, NoneIsTyped
  <2> QED BY <2>1, <2>2 DEF PaidFor
<1>2. ASSUME NEW r \in Sessions PROVE Rests(r, tx[r])'
  <2>1. CASE tx'[r] = Idle BY <2>1, NoneIsTyped DEF Rests
  <2>2. CASE tx'[r] = tx[r]
    <3> DEFINE t == tx[r]
    <3>1. Rests(r, t) BY DEF BookInv
    <3>2. \A q \in Sessions : tx'[q].o \in {tx[q].o, "none"} /\ tx'[q].b \in {tx[q].b, "none"}
      BY NoneIsTyped
    <3>3. t.op \in {"book", "settle"} =>
            /\ t.o \in Orders /\ t.b \in Bookings
            /\ orders'[t.o] = NoOrder => \A q \in Sessions \ {r} : tx'[q].o # t.o
      BY <3>1, <3>2 DEF Rests
    <3>4. t.op = "book" =>
            /\ orders'[t.o] = NoOrder /\ bookings'[t.b] = NoBooking /\ t.on \in Slots
            /\ \A q \in Sessions \ {r} : tx'[q].b # t.b
      BY <2>2, <3>1, <3>2 DEF Rests
    <3>5. t.op = "settle" =>
            /\ bookings'[t.b].status # "absent"
            /\ orders'[t.o] = NoOrder \/ orders'[t.o].subject = t.b
            /\ t.holds /\ t.to # "paid" => bookings'[t.b].status # "awaiting_payment"
      BY <2>2, <3>1 DEF Rests
    <3>6. t.op = "move" =>
            /\ t.b \in Bookings /\ bookings'[t.b].status # "absent"
            /\ t.to \in {"cancelled", "in_progress", "completed"}
            /\ t.to # "cancelled" => PaidFor(t.b)'
      <4>1. ASSUME t.op = "move", t.to # "cancelled" PROVE PaidFor(t.b)'
        <5>1. t.b \in Bookings /\ PaidFor(t.b) BY <3>1, <4>1 DEF Rests
        <5>2. PICK o \in Orders : orders[o].subject = t.b /\ orders[o].settled
          BY <5>1 DEF PaidFor
        <5>3. orders'[o].subject = t.b /\ orders'[o].settled
          BY <5>2, NoneIsTyped
        <5> QED BY <2>2, <5>3 DEF PaidFor
      <4> QED BY <3>1, <4>1 DEF Rests
    <3>7. /\ t.op \in {"move", "review"} => t.o = "none"
          /\ t.op = "review" => t.b \in Bookings /\ bookings'[t.b].status # "absent"
          /\ t.next = "slot" => t.op \in {"settle", "move"}
          /\ t.next = "profile" => t.op \in {"settle", "review"}
      BY <3>1 DEF Rests
    <3> QED BY <2>2, <3>3, <3>4, <3>5, <3>6, <3>7 DEF Rests
  <2> QED BY <2>1, <2>2
<1> QED BY <1>2 DEF BookInv

-----------------------------------------------------------------------------
(* Requests that begin or go on.                                           *)

\* Moves start from a booking that exists and, but for a cancellation, from one
\* that is served.
LEMMA Moves ==
  ASSUME NEW op \in DOMAIN From
  PROVE  /\ "absent" \notin From[op]
         /\ To[op] \in {"cancelled", "in_progress", "completed"}
         /\ To[op] # "cancelled" => From[op] \subseteq Served
<1>1. op \in {"decline", "start", "complete", "cancel"} BY DEF From
<1> QED BY <1>1 DEF From, To, Served

LEMMA BeginKeeps ==
  ASSUME BookInv, NEW s \in Sessions, Requests(s)
  PROVE  BookInv'
<1>1. ASSUME NEW t, Begin(s, t)
      PROVE  tx' = [tx EXCEPT ![s] = t] /\ UNCHANGED <<slots, bookings, orders, profile>>
  BY <1>1 DEF Begin, db
<1>2. ASSUME NEW b \in Bookings, NEW o \in Orders, NEW sl \in Slots, BeginBook(s, b, o, sl)
      PROVE  BookInv'
  <2> DEFINE t == [Idle EXCEPT !.op = "book", !.b = b, !.o = o, !.on = sl, !.row = slots[sl]]
  <2>1. /\ bookings[b] = NoBooking /\ \A r \in Sessions : tx[r].b # b
        /\ orders[o] = NoOrder /\ \A r \in Sessions : tx[r].o # o
        /\ Begin(s, t)
    BY <1>2 DEF BeginBook, FreshBooking, FreshOrder
  <2>2. slots[sl] \in SlotRow BY DEF BookInv, RowsTyped
  <2>3. /\ t \in TxRow /\ t.op = "book" /\ t.b = b /\ t.o = o /\ t.on = sl
        /\ t.next = "done"
    BY <2>2, NoneIsTyped DEF TxRow, Idle
  <2> HIDE DEF t
  <2>4. Rests(s, t) BY <2>1, <2>3 DEF Rests
  <2> QED BY <1>1, <2>1, <2>3, <2>4, TxStep
<1>3. ASSUME NEW b \in Bookings, NEW o \in Orders, BeginFree(s, o, b)
      PROVE  BookInv'
  <2> DEFINE t == [Idle EXCEPT !.op = "settle", !.o = o, !.b = b, !.was = "created"]
  <2>1. /\ orders[o] = NoOrder /\ \A r \in Sessions : tx[r].o # o
        /\ bookings[b].status # "absent" /\ Begin(s, t)
    BY <1>3 DEF BeginFree, FreshOrder
  <2>2. /\ t \in TxRow /\ t.op = "settle" /\ t.b = b /\ t.o = o /\ ~t.holds
        /\ t.next = "done"
    BY NoneIsTyped DEF TxRow, Idle
  <2> HIDE DEF t
  <2>3. Rests(s, t) BY <2>1, <2>2 DEF Rests
  <2> QED BY <1>1, <2>1, <2>2, <2>3, NoneIsTyped, TxStep
<1>4. ASSUME NEW o \in Orders, NEW t \in TxRow, Begin(s, t), orders[o] # NoOrder,
             t.op = "settle", t.o = o, t.b = orders[o].subject, ~t.holds,
             t.next = "done"
      PROVE  BookInv'
  <2>1. orders[o].subject \in Bookings /\ bookings[orders[o].subject].status # "absent"
    BY <1>4 DEF BookInv, RowsRefer
  <2>2. Rests(s, t) BY <1>4, <2>1 DEF Rests
  <2> QED BY <1>1, <1>4, <2>1, <2>2, NoneIsTyped, TxStep
<1>5. ASSUME NEW o \in Orders, BeginPay(s, o) PROVE BookInv'
  <2> DEFINE t == [Idle EXCEPT !.op = "settle", !.o = o, !.b = orders[o].subject,
                               !.was = orders[o].status]
  <2>1. orders[o] # NoOrder /\ Begin(s, t) BY <1>5 DEF BeginPay, NoOrder
  <2>2. orders[o].subject \in Bookings BY <2>1 DEF BookInv, RowsRefer
  <2>3. orders[o].status \in {"absent", "pending_payment", "paid", "off"}
    BY DEF BookInv, RowsTyped, OrderRow
  <2>4. /\ t \in TxRow /\ t.op = "settle" /\ t.o = o /\ t.b = orders[o].subject
        /\ ~t.holds /\ t.next = "done"
    BY <2>2, <2>3, NoneIsTyped DEF TxRow, Idle
  <2> HIDE DEF t
  <2> QED BY <1>4, <2>1, <2>4
<1>6. ASSUME NEW o \in Orders, NEW c \in Channels, BeginNotify(s, o, c) PROVE BookInv'
  <2> DEFINE t == [Idle EXCEPT !.op = "settle", !.o = o, !.b = orders[o].subject,
                               !.was = orders[o].status, !.channel = c]
  <2>1. orders[o] # NoOrder /\ Begin(s, t) BY <1>6 DEF BeginNotify, NoOrder
  <2>2. orders[o].subject \in Bookings BY <2>1 DEF BookInv, RowsRefer
  <2>3. orders[o].status \in {"absent", "pending_payment", "paid", "off"}
    BY DEF BookInv, RowsTyped, OrderRow
  <2>4. /\ t \in TxRow /\ t.op = "settle" /\ t.o = o /\ t.b = orders[o].subject
        /\ ~t.holds /\ t.next = "done"
    BY <2>2, <2>3, NoneIsTyped DEF TxRow, Idle
  <2> HIDE DEF t
  <2> QED BY <1>4, <2>1, <2>4
<1>7. ASSUME NEW b \in Bookings, NEW op \in DOMAIN From, BeginMove(s, b, op) PROVE BookInv'
  <2> DEFINE next == IF To[op] = "cancelled" THEN "slot" ELSE "done"
             t == [Idle EXCEPT !.op = "move", !.b = b, !.to = To[op], !.next = next]
  <2>1. bookings[b].status \in From[op] /\ Begin(s, t) BY <1>7 DEF BeginMove
  <2>2. bookings[b].status # "absent" BY <2>1, Moves
  <2>3. next \in {"slot", "done"} OBVIOUS
  <2>4. To[op] \in {"cancelled", "in_progress", "completed"} BY Moves
  <2> HIDE DEF next
  <2>5. /\ t \in TxRow /\ t.op = "move" /\ t.b = b /\ t.to = To[op] /\ t.o = "none"
        /\ t.next = next
    BY <2>3, <2>4, NoneIsTyped DEF TxRow, Idle, BookingStatus
  <2>6. t.to # "cancelled" => PaidFor(b)
    <3>1. To[op] # "cancelled" => bookings[b].status \in Served BY <2>1, Moves
    <3> QED BY <2>5, <3>1 DEF BookInv, ServedIsPaidFor, PaidFor
  <2> HIDE DEF t
  <2>7. Rests(s, t) BY <2>2, <2>3, <2>4, <2>5, <2>6 DEF Rests
  <2> QED BY <1>1, <2>1, <2>2, <2>5, <2>7, NoneIsTyped, TxStep
<1>8. ASSUME NEW b \in Bookings, BeginReview(s, b) PROVE BookInv'
  <2> DEFINE t == [Idle EXCEPT !.op = "review", !.b = b, !.next = "profile"]
  <2>1. bookings[b].status = "completed" /\ Begin(s, t) BY <1>8 DEF BeginReview
  <2>2. t \in TxRow /\ t.op = "review" /\ t.b = b /\ t.o = "none" /\ t.next = "profile"
    BY NoneIsTyped DEF TxRow, Idle
  <2> HIDE DEF t
  <2>3. Rests(s, t) BY <2>1, <2>2 DEF Rests
  <2> QED BY <1>1, <2>1, <2>2, <2>3, NoneIsTyped, TxStep
<1>9. ASSUME BeginList(s) PROVE BookInv'
  <2> DEFINE due == {sl \in Slots : slots[sl].status = "held" /\ slots[sl].hold = "lapsed"}
             t == [Idle EXCEPT !.op = "list", !.batch = due]
  <2>1. Begin(s, t) BY <1>9 DEF BeginList
  <2>2. t \in TxRow /\ t.op = "list" /\ t.b = "none" /\ t.o = "none" /\ t.next = "done"
    BY NoneIsTyped DEF TxRow, Idle
  <2> HIDE DEF t
  <2>3. Rests(s, t) BY <2>2 DEF Rests
  <2> QED BY <1>1, <2>1, <2>2, <2>3, TxStep
<1> QED BY <1>2, <1>3, <1>5, <1>6, <1>7, <1>8, <1>9 DEF Requests

LEMMA ReadKeeps ==
  ASSUME BookInv, NEW s \in Sessions, ReadBooking(s)
  PROVE  BookInv'
<1> DEFINE t == tx[s]
           held == [t EXCEPT !.holds = TRUE]
           marks == Marks(bookings[t.b].status, t.was)
           u == IF marks THEN [held EXCEPT !.to = "paid", !.next = "slot"] ELSE held
<1>1. t.op = "settle" /\ tx' = [tx EXCEPT ![s] = u] /\ UNCHANGED db
  BY DEF ReadBooking
<1>2. t \in TxRow /\ Rests(s, t) BY DEF BookInv
<1>3. /\ t.o \in Orders /\ t.b \in Bookings /\ bookings[t.b].status # "absent"
      /\ orders[t.o] = NoOrder => \A r \in Sessions \ {s} : tx[r].o # t.o
      /\ orders[t.o] = NoOrder \/ orders[t.o].subject = t.b
  BY <1>1, <1>2 DEF Rests
<1>5. u \in TxRow /\ u.op = "settle" /\ u.o = t.o /\ u.b = t.b
      /\ (u.to # "paid" => bookings[t.b].status # "awaiting_payment")
  <2> HIDE DEF marks
  <2>1. u \in TxRow /\ u.op = "settle" /\ u.o = t.o /\ u.b = t.b
    BY <1>1, <1>2 DEF TxRow, BookingStatus
  <2>2. marks => u.to = "paid" BY <1>2 DEF TxRow
  <2>3. ~marks => bookings[t.b].status # "awaiting_payment" BY DEF marks, Marks
  <2> QED BY <2>1, <2>2, <2>3
<1> HIDE DEF u
<1>6. Rests(s, u) BY <1>3, <1>5 DEF Rests
<1>7. UNCHANGED <<slots, bookings, orders, profile>> BY <1>1 DEF db
<1>8. u.b \in Bookings /\ bookings[u.b] = NoBooking => FALSE BY <1>3, <1>5, NoneIsTyped
<1> QED BY <1>1, <1>3, <1>5, <1>6, <1>7, <1>8, TxStep

\* The later reads of a request only fill in the row or the counter that it read.
LEMMA ReadsOn ==
  ASSUME BookInv, NEW s \in Sessions, ReadSlot(s) \/ ReadProfile(s)
  PROVE  \E u \in TxRow :
           /\ tx' = [tx EXCEPT ![s] = u] /\ UNCHANGED db
           /\ tx[s] # Idle /\ tx[s].op \in {"settle", "move", "review"}
           /\ u.op = tx[s].op /\ u.o = tx[s].o /\ u.b = tx[s].b /\ u.to = tx[s].to
           /\ u.holds = tx[s].holds
           /\ u.next = "slot" => FALSE
           /\ u.next = "profile" => tx[s].op = "settle"
           /\ ReadSlot(s) => u.row = slots[bookings[tx[s].b].slot]
           /\ ~ReadSlot(s) => tx[s].next = "profile" /\ u.row = tx[s].row
           /\ u.next = "done" /\ tx[s].op = "settle" => u.count = profile.order_count
           /\ u.next = "done" /\ tx[s].op = "review" => u.count = profile.rating_count
<1> DEFINE t == tx[s]
<1>1. t \in TxRow /\ Rests(s, t) BY DEF BookInv
<1>2. profile.order_count \in Nat /\ profile.rating_count \in Nat BY DEF BookInv, RowsTyped
<1>3. CASE ReadSlot(s)
  <2> DEFINE row == slots[bookings[t.b].slot]
             next == IF t.op = "settle" THEN "profile" ELSE "done"
             u == [t EXCEPT !.row = row, !.next = next]
  <2>1. t.next = "slot" /\ tx' = [tx EXCEPT ![s].row = row, ![s].next = next] /\ UNCHANGED db
    BY <1>3 DEF ReadSlot
  <2>2. tx' = [tx EXCEPT ![s] = u] BY <2>1 DEF BookInv, TxRow
  <2>3. t.op \in {"settle", "move"} /\ t.b \in Bookings /\ bookings[t.b].status # "absent"
    BY <1>1, <2>1 DEF Rests
  <2>4. row \in SlotRow BY <2>3 DEF BookInv, RowsTyped, RowsRefer
  <2>5. t # Idle BY <2>1, NoneIsTyped
  <2>6. next \in {"profile", "done"} /\ (next = "done" <=> t.op = "move") BY <2>3
  <2> HIDE DEF row, next
  <2>7. /\ u \in TxRow /\ u.op = t.op /\ u.o = t.o /\ u.b = t.b /\ u.to = t.to
        /\ u.holds = t.holds /\ u.next = next /\ u.row = row
    BY <1>1, <2>4, <2>6 DEF TxRow
  <2> HIDE DEF u
  <2> QED BY <1>3, <2>1, <2>2, <2>3, <2>5, <2>6, <2>7 DEF row
<1>4. CASE ~ReadSlot(s)
  <2> DEFINE count == IF t.op = "settle" THEN profile.order_count ELSE profile.rating_count
             u == [t EXCEPT !.next = "done", !.count = count]
  <2>1. /\ t.next = "profile" /\ UNCHANGED db
        /\ tx' = [tx EXCEPT ![s].next = "done", ![s].count = count]
    BY <1>4 DEF ReadProfile
  <2>2. tx' = [tx EXCEPT ![s] = u] BY <2>1 DEF BookInv, TxRow
  <2>3. t.op \in {"settle", "review"} BY <1>1, <2>1 DEF Rests
  <2>4. count \in Nat BY <1>2
  <2>5. t # Idle BY <2>1, NoneIsTyped
  <2>6. /\ t.op = "settle" => count = profile.order_count
        /\ t.op = "review" => count = profile.rating_count
    OBVIOUS
  <2> HIDE DEF count
  <2>7. /\ u \in TxRow /\ u.op = t.op /\ u.o = t.o /\ u.b = t.b /\ u.to = t.to
        /\ u.holds = t.holds /\ u.next = "done" /\ u.row = t.row /\ u.count = count
    BY <1>1, <2>4 DEF TxRow
  <2> HIDE DEF u
  <2> QED BY <1>4, <2>1, <2>2, <2>3, <2>5, <2>6, <2>7
<1> QED BY <1>3, <1>4

LEMMA ReadOnKeeps ==
  ASSUME BookInv, NEW s \in Sessions, ReadSlot(s) \/ ReadProfile(s)
  PROVE  BookInv'
<1> DEFINE t == tx[s]
<1>1. PICK u \in TxRow :
        /\ tx' = [tx EXCEPT ![s] = u] /\ UNCHANGED db
        /\ t.op \in {"settle", "move", "review"}
        /\ u.op = t.op /\ u.o = t.o /\ u.b = t.b /\ u.to = t.to /\ u.holds = t.holds
        /\ u.next # "slot" /\ (u.next = "profile" => t.op = "settle")
  BY ReadsOn
<1>2. Rests(s, t) /\ UNCHANGED <<slots, bookings, orders, profile>> BY <1>1 DEF BookInv, db
<1>3. Rests(s, u) BY <1>1, <1>2 DEF Rests
<1>4. u.o \in Orders /\ orders[u.o] = NoOrder => \A r \in Sessions \ {s} : tx[r].o # u.o
  <2>1. CASE t.op = "settle" BY <1>1, <1>2, <2>1 DEF Rests
  <2>2. CASE t.op # "settle"
    <3>1. u.o = "none" BY <1>1, <1>2, <2>2 DEF Rests
    <3> QED BY <3>1
  <2> QED BY <2>1, <2>2
<1>5. u.b \in Bookings /\ bookings[u.b] = NoBooking =>
        \A r \in Sessions \ {s} : tx[r].b # u.b
  BY <1>1, <1>2, NoneIsTyped DEF Rests
<1> QED BY <1>1, <1>2, <1>3, <1>4, <1>5, TxStep
-----------------------------------------------------------------------------
(* Steps that write rows.                                                  *)

\* A request that ends leaves every other one as it is.
LEMMA EndIs ==
  ASSUME BookInv, NEW s \in Sessions, End(s)
  PROVE  /\ tx' \in [Sessions -> TxRow]
         /\ \A r \in Sessions : tx'[r] = IF r = s THEN Idle ELSE tx[r]
BY NoneIsTyped DEF BookInv, End

\* The part of RowsStep that steps share which make no order and no booking, and
\* let no booking wait for its payment.
LEMMA OldRowsStep ==
  ASSUME BookInv, \A r \in Sessions : tx'[r] \in {tx[r], Idle},
         tx' \in [Sessions -> TxRow], RowsTyped',
         \A b \in Bookings : bookings'[b].slot = bookings[b].slot,
         \A b \in Bookings : bookings[b].status = "absent" => bookings'[b] = bookings[b],
         \A b \in Bookings : bookings[b].status # "absent" =>
           /\ bookings'[b].status # "absent"
           /\ bookings'[b].status = "awaiting_payment" => bookings[b].status = "awaiting_payment"
           /\ bookings'[b].status \in Served => PaidFor(b)',
         \A o \in Orders : /\ orders[o] = NoOrder => orders'[o] = NoOrder
                           /\ orders[o] # NoOrder => orders'[o] # NoOrder
                           /\ orders'[o].subject = orders[o].subject
                           /\ orders'[o].settled = orders[o].settled
  PROVE  BookInv'
<1>1. RowsRefer' BY DEF BookInv, RowsRefer
<1>2. ServedIsPaidFor'
  <2>1. \A b \in Bookings : bookings'[b].status \in Served => bookings[b].status # "absent"
    BY DEF Served
  <2> QED BY <2>1 DEF ServedIsPaidFor, PaidFor
<1>3. PaidReachesBooking'
  <2>1. ASSUME NEW o \in Orders, orders'[o].settled
        PROVE  bookings'[orders'[o].subject].status # "awaiting_payment"
    <3>1. orders[o].settled /\ orders[o] # NoOrder BY <2>1, NoneIsTyped
    <3>2. orders[o].subject \in Bookings /\ bookings[orders[o].subject].status # "absent"
      BY <3>1 DEF BookInv, RowsRefer
    <3> QED BY <3>1, <3>2 DEF BookInv, PaidReachesBooking
  <2> QED BY <2>1 DEF PaidReachesBooking
<1>4. \A b \in Bookings : bookings[b] = NoBooking => bookings'[b] = NoBooking
  BY NoneIsTyped
<1> QED BY <1>1, <1>2, <1>3, <1>4, RowsStep

\* The bookings and orders stand still; slots and counters may not.
LEMMA SideStep ==
  ASSUME BookInv, \A r \in Sessions : tx'[r] \in {tx[r], Idle},
         tx' \in [Sessions -> TxRow], RowsTyped', bookings' = bookings, orders' = orders
  PROVE  BookInv'
<1>1. ASSUME NEW b \in Bookings, bookings[b].status \in Served PROVE PaidFor(b)'
  BY <1>1 DEF BookInv, ServedIsPaidFor, PaidFor
<1> QED BY <1>1, OldRowsStep

LEMMA SideKeeps ==
  ASSUME BookInv, NEW s \in Sessions,
         CommitList(s) \/ CommitReview(s) \/ Abort(s)
  PROVE  BookInv'
<1>1. CASE CommitList(s)
  <2>1. RowsTyped' BY <1>1, NoneIsTyped DEF CommitList, BookInv, RowsTyped
  <2>2. End(s) BY <1>1 DEF CommitList
  <2> QED BY <1>1, <2>1, <2>2, EndIs, SideStep DEF CommitList
<1>2. CASE CommitReview(s)
  <2>1. tx[s].count \in Nat BY DEF BookInv, TxRow
  <2>2. RowsTyped' BY <1>2, <2>1 DEF CommitReview, BookInv, RowsTyped
  <2>3. End(s) BY <1>2 DEF CommitReview
  <2> QED BY <1>2, <2>2, <2>3, EndIs, SideStep DEF CommitReview
<1>3. CASE Abort(s)
  <2>1. RowsTyped' BY <1>3 DEF Abort, db, BookInv, RowsTyped
  <2>2. End(s) BY <1>3 DEF Abort
  <2> QED BY <1>3, <2>1, <2>2, EndIs, SideStep DEF Abort, db
<1> QED BY <1>1, <1>2, <1>3

\* A booked slot, a placed order: rows that nobody else was going to make.
LEMMA MakeKeeps ==
  ASSUME BookInv
  PROVE  /\ \A s \in Sessions : CommitBook(s) => BookInv'
         /\ \A o \in Orders, b \in Bookings : PlaceOrder(o, b) => BookInv'
<1>1. ASSUME NEW s \in Sessions, CommitBook(s) PROVE BookInv'
  <2> DEFINE t == tx[s]
             nb == [status |-> "awaiting_payment", slot |-> t.on]
             no == [NoOrder EXCEPT !.subject = t.b, !.status = "pending_payment"]
  <2>1. /\ t.op = "book" /\ End(s) /\ profile' = profile
        /\ bookings' = [bookings EXCEPT ![t.b] = nb]
        /\ orders' = [orders EXCEPT ![t.o] = no]
        /\ slots' = [slots EXCEPT ![t.on] =
             [status |-> Written(@.status, t.row.status, "held"), hold |-> "live"]]
    BY <1>1 DEF CommitBook
  <2>2. Rests(s, t) /\ t \in TxRow BY DEF BookInv
  <2>3. /\ t.o \in Orders /\ t.b \in Bookings /\ t.on \in Slots
        /\ orders[t.o] = NoOrder /\ bookings[t.b] = NoBooking
        /\ \A r \in Sessions \ {s} : tx[r].o # t.o /\ tx[r].b # t.b
    BY <2>1, <2>2 DEF Rests
  <2>4. /\ nb \in BookingRow /\ nb.status = "awaiting_payment" /\ nb.slot = t.on
        /\ no \in OrderRow /\ no.subject = t.b /\ ~no.settled /\ no # NoOrder
    BY <2>3, NoneIsTyped DEF BookingRow, BookingStatus, OrderRow, NoOrder
  <2> HIDE DEF nb, no
  <2>5. RowsTyped'
    <3>1. slots' \in [Slots -> SlotRow]
      <4>1. slots[t.on] \in SlotRow BY <2>3 DEF BookInv, RowsTyped
      <4>2. [status |-> Written(slots[t.on].status, t.row.status, "held"),
             hold |-> "live"] \in SlotRow
        BY <4>1 DEF SlotRow, Written
      <4> QED BY <2>1, <2>3, <4>2 DEF BookInv, RowsTyped
    <3> QED BY <2>1, <2>3, <2>4, <3>1 DEF BookInv, RowsTyped
  <2>6. \A b \in Bookings : bookings'[b] = IF b = t.b THEN nb ELSE bookings[b]
    BY <2>1 DEF BookInv, RowsTyped
  <2>7. \A o \in Orders : orders'[o] = IF o = t.o THEN no ELSE orders[o]
    BY <2>1 DEF BookInv, RowsTyped
  <2>8. RowsRefer' BY <2>3, <2>4, <2>6, <2>7 DEF BookInv, RowsRefer
  <2>9. \A o \in Orders : orders[o].settled =>
          orders[o].subject # t.b /\ orders[o].subject \in Bookings /\ o # t.o
    BY <2>3, NoneIsTyped DEF BookInv, RowsRefer
  <2>10. ServedIsPaidFor'
    BY <2>4, <2>6, <2>7, <2>9 DEF BookInv, ServedIsPaidFor, Served
  <2>11. PaidReachesBooking'
    BY <2>4, <2>6, <2>7, <2>9 DEF BookInv, PaidReachesBooking
  <2>12. \A r \in Sessions : tx'[r].o # t.o /\ tx'[r].b # t.b
    BY <2>1, <2>3, EndIs, NoneIsTyped
  <2> QED BY <2>1, <2>3, <2>4, <2>5, <2>6, <2>7, <2>8, <2>10, <2>11, <2>12, EndIs,
             NoneIsTyped, RowsStep
<1>2. ASSUME NEW o \in Orders, NEW b \in Bookings, PlaceOrder(o, b) PROVE BookInv'
  <2> DEFINE no == [NoOrder EXCEPT !.subject = b, !.status = "pending_payment"]
  <2>1. /\ orders[o] = NoOrder /\ \A r \in Sessions : tx[r].o # o
        /\ bookings[b].status # "absent" /\ orders' = [orders EXCEPT ![o] = no]
        /\ UNCHANGED <<slots, bookings, profile, tx>>
    BY <1>2 DEF PlaceOrder, FreshOrder
  <2>2. no \in OrderRow /\ no.subject = b /\ ~no.settled /\ no # NoOrder
    BY NoneIsTyped DEF OrderRow, NoOrder
  <2> HIDE DEF no
  <2>3. RowsTyped' BY <2>1, <2>2 DEF BookInv, RowsTyped
  <2>4. \A q \in Orders : orders'[q] = IF q = o THEN no ELSE orders[q]
    BY <2>1 DEF BookInv, RowsTyped
  <2>5. RowsRefer' BY <2>1, <2>2, <2>4 DEF BookInv, RowsRefer
  <2>6. ServedIsPaidFor' /\ PaidReachesBooking'
    BY <2>1, <2>2, <2>4, NoneIsTyped DEF BookInv, ServedIsPaidFor, PaidReachesBooking
  <2>7. tx' \in [Sessions -> TxRow] BY <2>1 DEF BookInv
  <2> QED BY <2>1, <2>2, <2>3, <2>4, <2>5, <2>6, <2>7, RowsStep
<1> QED BY <1>1, <1>2

\* An order that exists gets another status or other charges.
LEMMA OrderStep ==
  ASSUME BookInv, \A r \in Sessions : tx'[r] \in {tx[r], Idle},
         tx' \in [Sessions -> TxRow], UNCHANGED <<slots, bookings, profile>>,
         NEW o \in Orders, NEW row \in OrderRow, orders' = [orders EXCEPT ![o] = row],
         row = orders[o] \/ (orders[o] # NoOrder /\ row # NoOrder),
         row.subject = orders[o].subject, row.settled = orders[o].settled
  PROVE  BookInv'
<1>1. \A q \in Orders : orders'[q] = IF q = o THEN row ELSE orders[q]
  BY DEF BookInv, RowsTyped
<1>2. RowsTyped' BY DEF BookInv, RowsTyped
<1>3. ASSUME NEW b \in Bookings, bookings[b].status \in Served PROVE PaidFor(b)'
  BY <1>1, <1>3 DEF BookInv, ServedIsPaidFor, PaidFor
<1> QED BY <1>1, <1>2, <1>3, OldRowsStep

LEMMA OrderKeeps ==
  ASSUME BookInv
  PROVE  /\ \A o \in Orders, c \in Channels : Charge(o, c) => BookInv'
         /\ \A o \in Orders, status \in {"off", "paid"} : OrderMoves(o, status) => BookInv'
         /\ \A s \in Sessions : CommitNotifyPaid(s) => BookInv'
<1>1. ASSUME NEW o \in Orders, NEW c \in Channels, Charge(o, c) PROVE BookInv'
  <2> DEFINE row == [orders[o] EXCEPT !.charges = @ \cup {c}]
  <2>1. orders[o].status = "pending_payment" /\ orders' = [orders EXCEPT ![o] = row]
        /\ UNCHANGED <<slots, bookings, profile, tx>>
    BY <1>1 DEF Charge
  <2>2. orders[o] \in OrderRow BY DEF BookInv, RowsTyped
  <2>3. /\ row \in OrderRow /\ row.subject = orders[o].subject
        /\ row.settled = orders[o].settled /\ row.status = "pending_payment"
    BY <2>1, <2>2 DEF OrderRow
  <2>4. orders[o] # NoOrder /\ row # NoOrder BY <2>1, <2>3 DEF NoOrder
  <2> HIDE DEF row
  <2> QED BY <2>1, <2>3, <2>4, OrderStep DEF BookInv
<1>2. ASSUME NEW o \in Orders, NEW status \in {"off", "paid"}, OrderMoves(o, status)
      PROVE  BookInv'
  <2> DEFINE row == [orders[o] EXCEPT !.status = status]
  <2>1. orders[o].status # "absent" /\ orders' = [orders EXCEPT ![o] = row]
        /\ UNCHANGED <<slots, bookings, profile, tx>>
    BY <1>2 DEF OrderMoves
  <2>2. orders[o] \in OrderRow BY DEF BookInv, RowsTyped
  <2>3. /\ row \in OrderRow /\ row.subject = orders[o].subject
        /\ row.settled = orders[o].settled /\ row.status # "absent"
    BY <2>2 DEF OrderRow
  <2>4. orders[o] # NoOrder /\ row # NoOrder BY <2>1, <2>3 DEF NoOrder
  <2> HIDE DEF row
  <2> QED BY <2>1, <2>3, <2>4, OrderStep DEF BookInv
<1>3. ASSUME NEW s \in Sessions, CommitNotifyPaid(s) PROVE BookInv'
  <2> DEFINE t == tx[s]
             row == [orders[t.o] EXCEPT !.charges = @ \ {t.channel}]
  <2>1. t.op = "settle" /\ orders' = [orders EXCEPT ![t.o] = row] /\ End(s)
        /\ UNCHANGED <<slots, bookings, profile>>
    BY <1>3 DEF CommitNotifyPaid
  <2>2. t.o \in Orders BY <2>1 DEF BookInv, Rests
  <2>3. orders[t.o] \in OrderRow BY <2>2 DEF BookInv, RowsTyped
  <2>4. /\ row \in OrderRow /\ row.subject = orders[t.o].subject
        /\ row.settled = orders[t.o].settled /\ row.status = orders[t.o].status
    BY <2>3 DEF OrderRow
  <2>5. row = orders[t.o] \/ (orders[t.o] # NoOrder /\ row # NoOrder)
    <3>1. CASE orders[t.o] = NoOrder
      <4>1. row = NoOrder BY <3>1 DEF NoOrder
      <4> QED BY <3>1, <4>1
    <3>2. CASE orders[t.o] # NoOrder
      <4>1. row.subject \in Bookings BY <2>2, <2>4, <3>2 DEF BookInv, RowsRefer
      <4> QED BY <3>2, <4>1, NoneIsTyped
    <3> QED BY <3>1, <3>2
  <2> HIDE DEF row
  <2> QED BY <2>1, <2>2, <2>4, <2>5, EndIs, OrderStep
<1> QED BY <1>1, <1>2, <1>3

\* A move writes a status that it decided on; what it starts was paid for.
LEMMA MoveKeeps ==
  ASSUME BookInv, NEW s \in Sessions, CommitMove(s)
  PROVE  BookInv'
<1> DEFINE t == tx[s]
           sl == bookings[t.b].slot
<1>1. /\ t.op = "move" /\ End(s) /\ UNCHANGED <<orders, profile>>
      /\ bookings' = [bookings EXCEPT ![t.b].status = t.to]
      /\ slots' = IF t.to = "cancelled" /\ t.row.status \in Releasable
                  THEN [slots EXCEPT ![sl] = SlotAfter(@, t.row, "open", "none")]
                  ELSE slots
  BY DEF CommitMove
<1>2. /\ t \in TxRow /\ t.b \in Bookings /\ bookings[t.b].status # "absent"
      /\ t.to \in {"cancelled", "in_progress", "completed"}
      /\ t.to # "cancelled" => PaidFor(t.b)
  BY <1>1 DEF BookInv, Rests
<1>3. sl \in Slots BY <1>2 DEF BookInv, RowsRefer
<1>4. SlotAfter(slots[sl], t.row, "open", "none") \in SlotRow
  <2>1. slots[sl] \in SlotRow BY <1>3 DEF BookInv, RowsTyped
  <2> QED BY <2>1 DEF SlotAfter, Written, SlotRow
<1>5. slots' \in [Slots -> SlotRow] BY <1>1, <1>3, <1>4 DEF BookInv, RowsTyped
<1>6. \A b \in Bookings : /\ bookings'[b].slot = bookings[b].slot
                          /\ b # t.b => bookings'[b] = bookings[b]
                          /\ b = t.b => bookings'[b].status = t.to
  BY <1>1, <1>2 DEF BookInv, RowsTyped, BookingRow
<1>7. bookings' \in [Bookings -> BookingRow]
  BY <1>1, <1>2 DEF BookInv, RowsTyped, BookingRow, BookingStatus
<1>8. RowsTyped' BY <1>1, <1>5, <1>7 DEF BookInv, RowsTyped
<1>9. ASSUME NEW b \in Bookings, bookings'[b].status \in Served PROVE PaidFor(b)'
  <2>1. CASE b = t.b
    <3>1. PaidFor(b) BY <1>2, <1>6, <1>9, <2>1 DEF Served
    <3> QED BY <1>1, <3>1 DEF PaidFor
  <2>2. CASE b # t.b
    <3>1. PaidFor(b) BY <1>6, <1>9, <2>2 DEF BookInv, ServedIsPaidFor, PaidFor
    <3> QED BY <1>1, <3>1 DEF PaidFor
  <2> QED BY <2>1, <2>2
<1>10. \A b \in Bookings : bookings[b].status = "absent" => bookings'[b] = bookings[b]
  BY <1>2, <1>6
<1> QED BY <1>1, <1>2, <1>6, <1>8, <1>9, <1>10, EndIs, OldRowsStep

\* A settlement marks its booking, unless it found that the booking waits no more.
LEMMA SettleKeeps ==
  ASSUME BookInv, NEW s \in Sessions, CommitSettle(s)
  PROVE  BookInv'
<1> DEFINE t == tx[s]
           sl == bookings[t.b].slot
           row == [subject |-> t.b, status |-> Written(orders[t.o].status, t.was, "paid"),
                   settled |-> TRUE, charges |-> orders[t.o].charges \ {t.channel}]
<1>1. /\ t.op = "settle" /\ t.holds /\ End(s)
      /\ orders' = [orders EXCEPT ![t.o] = row]
      /\ t.to = "paid" =>
           /\ bookings' = [bookings EXCEPT ![t.b].status = "paid"]
           /\ slots' = [slots EXCEPT ![sl] = SlotAfter(@, t.row, "booked", "none")]
           /\ profile' = [profile EXCEPT !.order_count = t.count + 1]
      /\ t.to # "paid" => UNCHANGED <<bookings, slots, profile>>
  BY DEF CommitSettle
<1>2. /\ t \in TxRow /\ t.o \in Orders /\ t.b \in Bookings
      /\ orders[t.o] = NoOrder => \A r \in Sessions \ {s} : tx[r].o # t.o
      /\ orders[t.o] = NoOrder \/ orders[t.o].subject = t.b
      /\ bookings[t.b].status # "absent"
      /\ t.to # "paid" => bookings[t.b].status # "awaiting_payment"
  BY <1>1 DEF BookInv, Rests
<1>3. sl \in Slots BY <1>2 DEF BookInv, RowsRefer
<1>4. RowsTyped'
  <2>1. SlotAfter(slots[sl], t.row, "booked", "none") \in SlotRow
    <3>1. slots[sl] \in SlotRow BY <1>3 DEF BookInv, RowsTyped
    <3> QED BY <3>1 DEF SlotAfter, Written, SlotRow
  <2>2. slots' \in [Slots -> SlotRow] BY <1>1, <1>3, <2>1 DEF BookInv, RowsTyped
  <2>3. bookings' \in [Bookings -> BookingRow]
    BY <1>1, <1>2 DEF BookInv, RowsTyped, BookingRow, BookingStatus
  <2>4. row \in OrderRow
    <3>1. orders[t.o] \in OrderRow BY <1>2 DEF BookInv, RowsTyped
    <3> QED BY <1>2, <3>1 DEF OrderRow, Written
  <2>5. orders' \in [Orders -> OrderRow] BY <1>1, <1>2, <2>4 DEF BookInv, RowsTyped
  <2>6. profile' \in [order_count : Nat, rating_count : Nat]
    <3>1. t.count + 1 \in Nat BY <1>2 DEF TxRow
    <3> HIDE DEF t
    <3> QED BY <1>1, <3>1 DEF BookInv, RowsTyped
  <2> QED BY <2>2, <2>3, <2>5, <2>6 DEF RowsTyped
<1>5. row.subject = t.b /\ row.settled /\ row # NoOrder BY NoneIsTyped
<1> HIDE DEF row
<1>6. \A o \in Orders : orders'[o] = IF o = t.o THEN row ELSE orders[o]
  BY <1>1 DEF BookInv, RowsTyped
<1>7. \A b \in Bookings : /\ bookings'[b].slot = bookings[b].slot
                          /\ b # t.b => bookings'[b] = bookings[b]
                          /\ b = t.b => bookings'[b].status \in {bookings[b].status, "paid"}
  BY <1>1, <1>2 DEF BookInv, RowsTyped, BookingRow
<1>8. bookings'[t.b].status # "absent" /\ bookings'[t.b].status # "awaiting_payment"
  BY <1>1, <1>2 DEF BookInv, RowsTyped, BookingRow
<1>9. RowsRefer' BY <1>2, <1>5, <1>6, <1>7, <1>8 DEF BookInv, RowsRefer
<1>10. ServedIsPaidFor'
  <2>1. ASSUME NEW b \in Bookings, bookings'[b].status \in Served PROVE PaidFor(b)'
    <3>1. CASE b = t.b BY <1>2, <1>5, <1>6, <3>1 DEF PaidFor
    <3>2. CASE b # t.b
      <4>1. PICK o \in Orders : orders[o].subject = b /\ orders[o].settled
        BY <1>7, <2>1, <3>2 DEF BookInv, ServedIsPaidFor
      <4>2. o # t.o BY <1>2, <3>2, <4>1, NoneIsTyped
      <4> QED BY <1>6, <4>1, <4>2 DEF PaidFor
    <3> QED BY <3>1, <3>2
  <2> QED BY <2>1 DEF ServedIsPaidFor, PaidFor
<1>11. PaidReachesBooking'
  <2>1. ASSUME NEW o \in Orders, orders'[o].settled
        PROVE  bookings'[orders'[o].subject].status # "awaiting_payment"
    <3>1. CASE o = t.o BY <1>5, <1>6, <1>8, <3>1
    <3>2. CASE o # t.o
      <4>1. orders'[o] = orders[o] /\ orders[o].settled BY <1>6, <2>1, <3>2
      <4>2. orders[o].subject \in Bookings BY <4>1, NoneIsTyped DEF BookInv, RowsRefer
      <4>3. bookings[orders[o].subject].status # "awaiting_payment"
        BY <4>1 DEF BookInv, PaidReachesBooking
      <4> QED BY <1>7, <1>8, <4>1, <4>2, <4>3
    <3> QED BY <3>1, <3>2
  <2> QED BY <2>1 DEF PaidReachesBooking
<1>12. \A o \in Orders : orders[o] = NoOrder /\ orders'[o] # NoOrder =>
         \A r \in Sessions : tx'[r].o # o
  BY <1>1, <1>2, <1>6, EndIs, NoneIsTyped
<1>13. \A o \in Orders : orders[o] # NoOrder =>
         /\ orders'[o] # NoOrder /\ orders'[o].subject = orders[o].subject
         /\ orders[o].settled => orders'[o].settled
  BY <1>2, <1>5, <1>6
<1>14. /\ \A b \in Bookings : bookings[b].status # "absent" =>
            /\ bookings'[b].status # "absent"
            /\ bookings'[b].status = "awaiting_payment" => bookings[b].status = "awaiting_payment"
       /\ \A b \in Bookings : bookings[b] = NoBooking => bookings'[b] = NoBooking
  BY <1>2, <1>7, <1>8, NoneIsTyped
<1>15. \A r \in Sessions : tx'[r] \in {tx[r], Idle} BY <1>1, EndIs
<1>16. tx' \in [Sessions -> TxRow] BY <1>1, EndIs
<1> QED BY <1>4, <1>9, <1>10, <1>11, <1>12, <1>13, <1>14, <1>15, <1>16, RowsStep
-----------------------------------------------------------------------------
(* The invariant holds in every state.                                     *)

LEMMA BookInitially == Init => BookInv
<1> SUFFICES ASSUME Init PROVE BookInv OBVIOUS
<1>1. /\ slots = [sl \in Slots |-> NoSlot] /\ bookings = [b \in Bookings |-> NoBooking]
      /\ orders = [o \in Orders |-> NoOrder] /\ tx = [s \in Sessions |-> Idle]
      /\ profile = [order_count |-> 0, rating_count |-> 0]
  BY DEF Init
<1>2. RowsTyped /\ RowsRefer BY <1>1, NoneIsTyped DEF RowsTyped, RowsRefer
<1>3. tx \in [Sessions -> TxRow] BY <1>1, NoneIsTyped
<1>4. \A s \in Sessions : Rests(s, tx[s]) BY <1>1, NoneIsTyped DEF Rests
<1>5. ServedIsPaidFor /\ PaidReachesBooking
  BY <1>1, NoneIsTyped DEF ServedIsPaidFor, PaidReachesBooking, Served
<1> QED BY <1>2, <1>3, <1>4, <1>5 DEF BookInv

LEMMA BookInductive == BookInv /\ [Next]_vars => BookInv'
<1> SUFFICES ASSUME BookInv, [Next]_vars PROVE BookInv' OBVIOUS
<1>1. CASE UNCHANGED vars
  <2>1. /\ RowsTyped' /\ tx' \in [Sessions -> TxRow]
        /\ UNCHANGED <<bookings, orders, tx>>
    BY <1>1 DEF vars, db, BookInv, RowsTyped
  <2> QED BY <2>1, SideStep
<1>2. ASSUME NEW s \in Sessions, Requests(s) PROVE BookInv' BY <1>2, BeginKeeps
<1>3. ASSUME NEW s \in Sessions, Reads(s) PROVE BookInv'
  BY <1>3, ReadKeeps, ReadOnKeeps DEF Reads
<1>4. ASSUME NEW s \in Sessions, Commits(s) PROVE BookInv'
  BY <1>4, MakeKeeps, SideKeeps, SettleKeeps, OrderKeeps, MoveKeeps DEF Commits
<1>5. ASSUME NEW s \in Sessions, Abort(s) PROVE BookInv' BY <1>5, SideKeeps
<1>6. ASSUME NEW o \in Orders, NEW c \in Channels, Charge(o, c) PROVE BookInv'
  BY <1>6, OrderKeeps
<1>7. ASSUME NEW o \in Orders, NEW status \in {"off", "paid"}, OrderMoves(o, status)
      PROVE  BookInv'
  BY <1>7, OrderKeeps
<1>8. ASSUME NEW o \in Orders, NEW b \in Bookings, PlaceOrder(o, b) PROVE BookInv'
  BY <1>8, MakeKeeps
<1>9. ASSUME NEW sl \in Slots, Lapse(sl) PROVE BookInv'
  <2>1. RowsTyped' BY <1>9 DEF Lapse, BookInv, RowsTyped, SlotRow
  <2>2. tx' = tx /\ bookings' = bookings /\ orders' = orders BY <1>9 DEF Lapse
  <2> QED BY <2>1, <2>2, SideStep DEF BookInv
<1> QED BY <1>1, <1>2, <1>3, <1>4, <1>5, <1>6, <1>7, <1>8, <1>9 DEF Next

LEMMA BookInvariant == Spec => []BookInv
BY BookInitially, BookInductive, PTL DEF Spec

\* However requests overlap, are lost or crash, what a companion serves has been
\* paid for (mark_booking_paid, transition).
THEOREM NothingServedUnpaid == Spec => []ServedIsPaidFor
<1>1. BookInv => ServedIsPaidFor BY DEF BookInv
<1> QED BY <1>1, BookInvariant, PTL

\* However requests overlap, are lost or crash, money that arrived for a booking
\* does not leave it waiting (_on_paid, mark_booking_paid).
THEOREM PaymentsArrive == Spec => []PaidReachesBooking
<1>1. BookInv => PaidReachesBooking BY DEF BookInv
<1> QED BY <1>1, BookInvariant, PTL
-----------------------------------------------------------------------------
(* Requests that do not overlap: a booked slot was bought.                 *)

\* What the open request s, which nothing has overtaken, knows of its slot.
KnowsSlot(s) ==
  LET t == tx[s] IN
  /\ \A r \in Sessions \ {s} : tx[r] = Idle
  /\ t.op = "book" => slots[t.on].status # "booked"
  /\ t.op \in {"move", "settle"} /\ t.to \in {"paid", "cancelled"} /\ t.next # "slot" =>
       t.row.status = slots[bookings[t.b].slot].status

Bought(sl) == \E b \in Bookings : bookings[b].slot = sl /\ bookings[b].status \in Served

BoughtInv ==
  /\ BookInv
  /\ serial =>
       /\ \A s \in Sessions : tx[s] # Idle => KnowsSlot(s)
       /\ \A sl \in Slots : slots[sl].status = "booked" => Bought(sl)

LEMMA BoughtIsMeant == BoughtInv => BookedSlotIsBought
BY DEF BoughtInv, Bought, BookedSlotIsBought, Live, Served

\* A session that opens or goes on with t.
LEMMA KnowsStep ==
  ASSUME BoughtInv, BookInv', NEW s \in Sessions, NEW t, tx' = [tx EXCEPT ![s] = t],
         UNCHANGED <<serial, slots, bookings>>,
         serial => \A r \in Sessions \ {s} : tx[r] = Idle,
         t.op = "book" => slots[t.on].status # "booked",
         serial /\ t.op \in {"move", "settle"} /\ t.to \in {"paid", "cancelled"}
           /\ t.next # "slot" =>
           t.row.status = slots[bookings[t.b].slot].status
  PROVE  BoughtInv'
<1>1. \A r \in Sessions : tx'[r] = IF r = s THEN t ELSE tx[r]
  BY DEF BoughtInv, BookInv
<1>2. ASSUME serial', NEW r \in Sessions, tx'[r] # Idle PROVE KnowsSlot(r)'
  <2>1. r = s BY <1>1, <1>2
  <2> QED BY <1>1, <1>2, <2>1 DEF KnowsSlot
<1>3. ASSUME serial', NEW sl \in Slots, slots'[sl].status = "booked" PROVE Bought(sl)'
  BY <1>3 DEF BoughtInv, Bought
<1> QED BY <1>2, <1>3 DEF BoughtInv

\* The end of the one open request.
LEMMA KnowsEnd ==
  ASSUME BoughtInv, BookInv', NEW s \in Sessions, tx[s] # Idle, End(s), serial' = serial,
         serial => \A sl \in Slots : slots'[sl].status = "booked" => Bought(sl)'
  PROVE  BoughtInv'
<1>1. serial => \A r \in Sessions : tx'[r] = Idle
  BY EndIs DEF BoughtInv, KnowsSlot
<1> QED BY <1>1 DEF BoughtInv

\* Steps of the clock and of orders: no slot changes its status, no booking moves.
LEMMA KnowsRest ==
  ASSUME BoughtInv, BookInv', UNCHANGED <<serial, bookings, tx>>,
         \A sl \in Slots : slots'[sl].status = slots[sl].status
  PROVE  BoughtInv'
<1>1. ASSUME serial', NEW s \in Sessions, tx'[s] # Idle PROVE KnowsSlot(s)'
  <2>1. KnowsSlot(s) /\ Rests(s, tx[s]) BY <1>1 DEF BoughtInv, BookInv
  <2>2. tx[s].op = "book" => tx[s].on \in Slots BY <2>1 DEF Rests
  <2>3. ASSUME tx[s].op \in {"move", "settle"} PROVE bookings[tx[s].b].slot \in Slots
    BY <2>1, <2>3 DEF Rests, BoughtInv, BookInv, RowsRefer
  <2> QED BY <2>1, <2>2, <2>3 DEF KnowsSlot
<1>2. ASSUME serial', NEW sl \in Slots, slots'[sl].status = "booked" PROVE Bought(sl)'
  BY <1>2 DEF BoughtInv, Bought
<1> QED BY <1>1, <1>2 DEF BoughtInv

\* What begins has looked at its slot.
LEMMA BeginKnows ==
  ASSUME BoughtInv, BookInv', NEW s \in Sessions, Requests(s)
  PROVE  BoughtInv'
<1>1. ASSUME NEW t, Begin(s, t)
      PROVE  /\ tx' = [tx EXCEPT ![s] = t] /\ UNCHANGED <<serial, slots, bookings>>
             /\ serial => \A r \in Sessions : tx[r] = Idle
  BY <1>1 DEF Begin, MayBegin, db
<1>2. ASSUME NEW t, Begin(s, t), t.op \notin {"book", "move"}, t.to = "absent"
      PROVE  BoughtInv'
  BY <1>1, <1>2, KnowsStep
<1>3. ASSUME NEW b \in Bookings, NEW o \in Orders, NEW sl \in Slots, BeginBook(s, b, o, sl)
      PROVE  BoughtInv'
  <2> DEFINE t == [Idle EXCEPT !.op = "book", !.b = b, !.o = o, !.on = sl, !.row = slots[sl]]
  <2>1. Begin(s, t) /\ slots[sl].status # "booked" BY <1>3 DEF BeginBook, Bookable
  <2>2. t.op = "book" /\ t.on = sl BY DEF Idle
  <2> HIDE DEF t
  <2> QED BY <1>1, <2>1, <2>2, KnowsStep
<1>4. ASSUME NEW b \in Bookings, NEW o \in Orders, BeginFree(s, o, b) PROVE BoughtInv'
  <2> DEFINE t == [Idle EXCEPT !.op = "settle", !.o = o, !.b = b, !.was = "created"]
  <2>1. Begin(s, t) BY <1>4 DEF BeginFree
  <2>2. t.op = "settle" /\ t.to = "absent" BY DEF Idle
  <2> HIDE DEF t
  <2> QED BY <1>2, <2>1, <2>2
<1>5. ASSUME NEW o \in Orders, BeginPay(s, o) PROVE BoughtInv'
  <2> DEFINE t == [Idle EXCEPT !.op = "settle", !.o = o, !.b = orders[o].subject,
                               !.was = orders[o].status]
  <2>1. Begin(s, t) BY <1>5 DEF BeginPay
  <2>2. t.op = "settle" /\ t.to = "absent" BY DEF Idle
  <2> HIDE DEF t
  <2> QED BY <1>2, <2>1, <2>2
<1>6. ASSUME NEW o \in Orders, NEW c \in Channels, BeginNotify(s, o, c) PROVE BoughtInv'
  <2> DEFINE t == [Idle EXCEPT !.op = "settle", !.o = o, !.b = orders[o].subject,
                               !.was = orders[o].status, !.channel = c]
  <2>1. Begin(s, t) BY <1>6 DEF BeginNotify
  <2>2. t.op = "settle" /\ t.to = "absent" BY DEF Idle
  <2> HIDE DEF t
  <2> QED BY <1>2, <2>1, <2>2
<1>7. ASSUME NEW b \in Bookings, NEW op \in DOMAIN From, BeginMove(s, b, op) PROVE BoughtInv'
  <2> DEFINE next == IF To[op] = "cancelled" THEN "slot" ELSE "done"
             t == [Idle EXCEPT !.op = "move", !.b = b, !.to = To[op], !.next = next]
  <2>1. Begin(s, t) BY <1>7 DEF BeginMove
  <2>2. t.op = "move" /\ t.to = To[op] /\ t.next = next BY DEF Idle
  <2>3. To[op] # "paid" /\ (To[op] = "cancelled" => next = "slot") BY Moves
  <2> HIDE DEF t, next
  <2> QED BY <1>1, <2>1, <2>2, <2>3, KnowsStep
<1>8. ASSUME NEW b \in Bookings, BeginReview(s, b) PROVE BoughtInv'
  <2> DEFINE t == [Idle EXCEPT !.op = "review", !.b = b, !.next = "profile"]
  <2>1. Begin(s, t) BY <1>8 DEF BeginReview
  <2>2. t.op = "review" /\ t.to = "absent" BY DEF Idle
  <2> HIDE DEF t
  <2> QED BY <1>2, <2>1, <2>2
<1>9. ASSUME BeginList(s) PROVE BoughtInv'
  <2> DEFINE due == {sl \in Slots : slots[sl].status = "held" /\ slots[sl].hold = "lapsed"}
             t == [Idle EXCEPT !.op = "list", !.batch = due]
  <2>1. Begin(s, t) BY <1>9 DEF BeginList
  <2>2. t.op = "list" /\ t.to = "absent" BY DEF Idle
  <2> HIDE DEF t
  <2> QED BY <1>2, <2>1, <2>2
<1> QED BY <1>3, <1>4, <1>5, <1>6, <1>7, <1>8, <1>9 DEF Requests

\* A payment that marks its booking will look at the slot next.
LEMMA ReadKnows ==
  ASSUME BoughtInv, BookInv', NEW s \in Sessions, ReadBooking(s)
  PROVE  BoughtInv'
<1> DEFINE t == tx[s]
           held == [t EXCEPT !.holds = TRUE]
           marked == [held EXCEPT !.to = "paid", !.next = "slot"]
<1>1. /\ t.op = "settle" /\ UNCHANGED <<serial, slots, bookings>>
      /\ tx' \in {[tx EXCEPT ![s] = held], [tx EXCEPT ![s] = marked]}
  BY DEF ReadBooking, db
<1>2. t \in TxRow /\ t # Idle BY <1>1, NoneIsTyped DEF BoughtInv, BookInv
<1>3. serial => KnowsSlot(s) BY <1>2 DEF BoughtInv
<1>4. /\ held.op = t.op /\ held.to = t.to /\ held.row = t.row /\ held.b = t.b
      /\ held.next = t.next /\ marked.op = t.op /\ marked.next = "slot"
  BY <1>2 DEF TxRow
<1>5. serial => \A r \in Sessions \ {s} : tx[r] = Idle BY <1>3 DEF KnowsSlot
<1> HIDE DEF held, marked
<1>6. CASE tx' = [tx EXCEPT ![s] = marked]
  BY <1>1, <1>4, <1>5, <1>6, KnowsStep
<1>7. CASE tx' = [tx EXCEPT ![s] = held]
  <2>1. ASSUME serial, held.to \in {"paid", "cancelled"}, held.next # "slot"
        PROVE  held.row.status = slots[bookings[held.b].slot].status
    BY <1>1, <1>3, <1>4, <2>1 DEF KnowsSlot
  <2> QED BY <1>1, <1>4, <1>5, <1>7, <2>1, KnowsStep
<1> QED BY <1>1, <1>6, <1>7

\* The slot is known from the step that reads it on.
LEMMA ReadOnKnows ==
  ASSUME BoughtInv, BookInv', NEW s \in Sessions, ReadSlot(s) \/ ReadProfile(s)
  PROVE  BoughtInv'
<1> DEFINE t == tx[s]
<1>1. BookInv BY DEF BoughtInv
<1>2. PICK u \in TxRow :
        /\ tx' = [tx EXCEPT ![s] = u] /\ UNCHANGED db
        /\ t # Idle /\ t.op \in {"settle", "move", "review"}
        /\ u.op = t.op /\ u.b = t.b /\ u.to = t.to
        /\ ReadSlot(s) => u.row = slots[bookings[t.b].slot]
        /\ ~ReadSlot(s) => t.next = "profile" /\ u.row = t.row
  BY <1>1, ReadsOn
<1>3. UNCHANGED <<serial, slots, bookings>> BY <1>2 DEF db
<1>4. serial => KnowsSlot(s) BY <1>2 DEF BoughtInv
<1>5. ASSUME serial, u.op \in {"move", "settle"}, u.to \in {"paid", "cancelled"}
      PROVE  u.row.status = slots[bookings[u.b].slot].status
  BY <1>2, <1>4, <1>5 DEF KnowsSlot
<1>6. serial => \A r \in Sessions \ {s} : tx[r] = Idle BY <1>4 DEF KnowsSlot
<1> QED BY <1>2, <1>3, <1>5, <1>6, KnowsStep

\* A request that writes no slot and no booking, or opens slots only.
LEMMA EndKnows ==
  ASSUME BoughtInv, BookInv', NEW s \in Sessions, bookings' = bookings,
         \A sl \in Slots : slots'[sl].status \in {slots[sl].status, "open"},
         tx[s] # Idle, End(s), serial' = serial
  PROVE  BoughtInv'
<1>1. ASSUME serial, NEW sl \in Slots, slots'[sl].status = "booked" PROVE Bought(sl)'
  BY <1>1 DEF BoughtInv, Bought
<1> QED BY <1>1, KnowsEnd

LEMMA CommitKnows ==
  ASSUME BoughtInv, BookInv', NEW s \in Sessions, Commits(s) \/ Abort(s)
  PROVE  BoughtInv'
<1> DEFINE t == tx[s]
           sl == bookings[t.b].slot
<1>1. /\ t \in TxRow /\ Rests(s, t)
      /\ t.op # "idle" => t # Idle
      /\ slots \in [Slots -> SlotRow] /\ bookings \in [Bookings -> BookingRow]
  BY NoneIsTyped DEF BoughtInv, BookInv, RowsTyped
<1>2. serial /\ t # Idle => KnowsSlot(s) BY DEF BoughtInv
<1>3. CASE CommitBook(s)
  <2> DEFINE nb == [status |-> "awaiting_payment", slot |-> t.on]
             row == [status |-> Written(slots[t.on].status, t.row.status, "held"),
                     hold |-> "live"]
  <2>1. /\ t.op = "book" /\ End(s) /\ serial' = serial
        /\ bookings' = [bookings EXCEPT ![t.b] = nb] /\ slots' = [slots EXCEPT ![t.on] = row]
    BY <1>3 DEF CommitBook
  <2>2. t.b \in Bookings /\ bookings[t.b].status = "absent" /\ t # Idle
    BY <1>1, <2>1, NoneIsTyped DEF Rests
  <2>3. serial => row.status # "booked" BY <1>2, <2>1, <2>2 DEF KnowsSlot, Written
  <2> HIDE DEF row, nb
  <2>4. ASSUME serial, NEW q \in Slots, slots'[q].status = "booked" PROVE Bought(q)'
    <3>1. slots[q].status = "booked" BY <1>1, <2>1, <2>3, <2>4
    <3>2. PICK b \in Bookings : bookings[b].slot = q /\ bookings[b].status \in Served
      BY <2>4, <3>1 DEF BoughtInv, Bought
    <3>3. b # t.b BY <2>2, <3>2 DEF Served
    <3>4. bookings'[b] = bookings[b] BY <1>1, <2>1, <3>3
    <3> QED BY <3>2, <3>4 DEF Bought
  <2> QED BY <2>1, <2>2, <2>4, KnowsEnd
<1>4. CASE CommitSettle(s)
  <2>1. /\ t.op = "settle" /\ End(s) /\ serial' = serial
        /\ t.to = "paid" =>
             /\ bookings' = [bookings EXCEPT ![t.b].status = "paid"]
             /\ slots' = [slots EXCEPT ![sl] = SlotAfter(@, t.row, "booked", "none")]
        /\ t.to # "paid" => UNCHANGED <<bookings, slots>>
    BY <1>4 DEF CommitSettle
  <2>2. t # Idle /\ t.b \in Bookings BY <1>1, <2>1 DEF Rests
  <2>3. CASE t.to # "paid" BY <2>1, <2>2, <2>3, EndKnows
  <2>4. CASE t.to = "paid"
    <3>1. \A b \in Bookings : /\ bookings'[b].slot = bookings[b].slot
                              /\ bookings'[b].status = IF b = t.b THEN "paid"
                                                       ELSE bookings[b].status
      BY <1>1, <2>1, <2>2, <2>4 DEF BookingRow
    <3>2. ASSUME serial, NEW q \in Slots, slots'[q].status = "booked" PROVE Bought(q)'
      <4>1. CASE q = sl BY <2>2, <3>1, <4>1 DEF Bought, Served
      <4>2. CASE q # sl
        <5>1. slots[q].status = "booked" BY <1>1, <2>1, <2>4, <3>2, <4>2
        <5>2. PICK b \in Bookings : bookings[b].slot = q /\ bookings[b].status \in Served
          BY <3>2, <5>1 DEF BoughtInv, Bought
        <5> QED BY <3>1, <5>2 DEF Bought, Served
      <4> QED BY <4>1, <4>2
    <3> QED BY <2>1, <2>2, <3>2, KnowsEnd
  <2> QED BY <2>3, <2>4
<1>5. CASE CommitMove(s)
  <2> DEFINE free == t.to = "cancelled" /\ t.row.status \in Releasable
             row == SlotAfter(slots[sl], t.row, "open", "none")
  <2>1. /\ t.op = "move" /\ t.next = "done" /\ End(s) /\ serial' = serial
        /\ bookings' = [bookings EXCEPT ![t.b].status = t.to]
        /\ slots' = IF free THEN [slots EXCEPT ![sl] = row] ELSE slots
    BY <1>5 DEF CommitMove
  <2>2. /\ t # Idle /\ t.b \in Bookings /\ bookings[t.b].status # "absent"
        /\ t.to \in {"cancelled", "in_progress", "completed"}
    BY <1>1, <2>1 DEF Rests
  <2>3. sl \in Slots BY <2>2 DEF BoughtInv, BookInv, RowsRefer
  <2>4. serial /\ t.to = "cancelled" => t.row.status = slots[sl].status
    BY <1>2, <2>1, <2>2 DEF KnowsSlot
  <2>5. serial /\ free => row.status # "booked"
    BY <2>4 DEF SlotAfter, Written, Releasable
  <2>6. \A b \in Bookings : /\ bookings'[b].slot = bookings[b].slot
                            /\ bookings'[b].status = IF b = t.b THEN t.to
                                                     ELSE bookings[b].status
    BY <1>1, <2>1, <2>2 DEF BookingRow
  <2> HIDE DEF row
  <2>7. ASSUME serial, NEW q \in Slots, slots'[q].status = "booked" PROVE Bought(q)'
    <3>1. slots[q].status = "booked" BY <1>1, <2>1, <2>3, <2>5, <2>7
    <3>2. PICK b \in Bookings : bookings[b].slot = q /\ bookings[b].status \in Served
      BY <2>7, <3>1 DEF BoughtInv, Bought
    <3>3. CASE b # t.b BY <2>6, <3>2, <3>3 DEF Bought
    <3>4. CASE b = t.b
      <4>1. t.to = "cancelled" => free BY <2>4, <2>7, <3>1, <3>2, <3>4 DEF Releasable
      <4>2. ~free BY <1>1, <2>1, <2>3, <2>5, <2>7, <3>2, <3>4
      <4>3. t.to \in Served BY <2>2, <4>1, <4>2 DEF Served
      <4> QED BY <2>2, <2>6, <3>2, <3>4, <4>3 DEF Bought
    <3> QED BY <3>3, <3>4
  <2> QED BY <2>1, <2>2, <2>7, KnowsEnd
<1>6. CASE CommitList(s)
  <2>1. /\ t.op = "list" /\ End(s) /\ UNCHANGED <<serial, bookings>>
        /\ slots' = [q \in Slots |-> IF q \in t.batch THEN NoSlot ELSE slots[q]]
    BY <1>6 DEF CommitList
  <2>2. \A q \in Slots : slots'[q].status \in {slots[q].status, "open"}
    BY <2>1 DEF NoSlot
  <2> QED BY <1>1, <2>1, <2>2, EndKnows
<1>7. CASE CommitReview(s) \/ CommitNotifyPaid(s) \/ Abort(s)
  <2>1. t # Idle /\ End(s) /\ UNCHANGED <<serial, slots, bookings>>
    BY <1>1, <1>7 DEF CommitReview, CommitNotifyPaid, Abort, db
  <2> QED BY <2>1, EndKnows
<1> QED BY <1>3, <1>4, <1>5, <1>6, <1>7 DEF Commits

LEMMA BoughtInductive == BoughtInv /\ [Next]_vars => BoughtInv'
<1> SUFFICES ASSUME BoughtInv, [Next]_vars PROVE BoughtInv' OBVIOUS
<1>1. BookInv' BY BookInductive DEF BoughtInv
<1>2. CASE UNCHANGED vars BY <1>1, <1>2, KnowsRest DEF vars, db
<1>3. ASSUME NEW s \in Sessions, Requests(s) \/ Reads(s) \/ Commits(s) \/ Abort(s)
      PROVE  BoughtInv'
  BY <1>1, <1>3, BeginKnows, ReadKnows, ReadOnKnows, CommitKnows DEF Reads
<1>4. ASSUME NEW o \in Orders, NEW c \in Channels, Charge(o, c) PROVE BoughtInv'
  BY <1>1, <1>4, KnowsRest DEF Charge
<1>5. ASSUME NEW o \in Orders, NEW status \in {"off", "paid"}, OrderMoves(o, status)
      PROVE  BoughtInv'
  BY <1>1, <1>5, KnowsRest DEF OrderMoves
<1>6. ASSUME NEW o \in Orders, NEW b \in Bookings, PlaceOrder(o, b) PROVE BoughtInv'
  BY <1>1, <1>6, KnowsRest DEF PlaceOrder
<1>7. ASSUME NEW sl \in Slots, Lapse(sl) PROVE BoughtInv'
  <2>1. slots' = [slots EXCEPT ![sl].hold = "lapsed"] /\ UNCHANGED <<serial, bookings, tx>>
    BY <1>7 DEF Lapse
  <2>2. \A q \in Slots : slots'[q].status = slots[q].status
    BY <2>1 DEF BoughtInv, BookInv, RowsTyped, SlotRow
  <2> QED BY <1>1, <2>1, <2>2, KnowsRest
<1> QED BY <1>2, <1>3, <1>4, <1>5, <1>6, <1>7 DEF Next

\* Where requests do not overlap, a slot that nobody can book any more was bought
\* by somebody whose booking still stands, whatever holds ran out and whatever
\* payments came late (mark_booking_paid, _release_slot).
THEOREM BookedWasBought == Spec => []BookedSlotIsBought
<1>1. Init => BoughtInv
  <2>1. Init => \A sl \in Slots : slots[sl].status = "open" BY DEF Init, NoSlot
  <2>2. Init => \A s \in Sessions : tx[s] = Idle BY DEF Init
  <2> QED BY <2>1, <2>2, BookInitially DEF BoughtInv
<1> QED BY <1>1, BoughtInductive, BoughtIsMeant, PTL DEF Spec
-----------------------------------------------------------------------------
(* Requests that do not overlap: a slot whose holds never ran out follows  *)
(* its one live booking.                                                   *)

Standing == Served \cup {"awaiting_payment"}
On(b, sl) == bookings[b].slot = sl /\ bookings[b].status \in Standing

\* What the slot of a standing booking says.
Due(b) == IF bookings[b].status = "awaiting_payment" THEN "held" ELSE "booked"

Follows(sl) ==
  /\ \A b, c \in Bookings : On(b, sl) /\ On(c, sl) => b = c
  /\ \A b \in Bookings : On(b, sl) => slots[sl].status = Due(b)
  /\ slots[sl].status = "open" \/ \E b \in Bookings : On(b, sl)

\* What the open request s, which nothing has overtaken, knows of its booking, and
\* of slots that it may take or open although they are held.
KnowsBooking(s) ==
  LET t == tx[s] IN
  /\ t.op = "book" =>
       /\ t.row.status = slots[t.on].status
       /\ slots[t.on].status = "open" \/ lapsed[t.on]
  /\ t.op = "list" => \A sl \in t.batch : lapsed[sl]
  /\ t.op = "settle" /\ t.to = "paid" => bookings[t.b].status = "awaiting_payment"
  /\ t.op = "move" =>
       /\ bookings[t.b].status \in Standing
       /\ t.to # "cancelled" => bookings[t.b].status \in Served

FollowInv ==
  /\ BoughtInv
  /\ serial \in BOOLEAN /\ lapsed \in [Slots -> BOOLEAN]
  /\ serial =>
       /\ \A sl \in Slots : slots[sl].hold = "lapsed" => lapsed[sl]
       /\ \A s \in Sessions : tx[s] # Idle => KnowsBooking(s)
       /\ \A sl \in Slots : ~lapsed[sl] => Follows(sl)

LEMMA FollowsIsMeant == FollowInv => SlotFollowsBooking
<1> SUFFICES ASSUME FollowInv, serial, NEW sl \in Slots, ~lapsed[sl]
             PROVE  \/ slots[sl].status = "open" /\ Live(sl) = {}
                    \/ \E b \in Bookings :
                         /\ Live(sl) = {b}
                         /\ slots[sl].status = Due(b)
  BY DEF SlotFollowsBooking, Due
<1>1. Follows(sl) BY DEF FollowInv
<1>2. Live(sl) = {b \in Bookings : On(b, sl)} BY DEF Live, On, Standing
<1>3. CASE \E b \in Bookings : On(b, sl)
  <2>1. PICK b \in Bookings : On(b, sl) BY <1>3
  <2>2. Live(sl) = {b} BY <1>1, <1>2, <2>1 DEF Follows
  <2> QED BY <1>1, <2>1, <2>2 DEF Follows
<1>4. CASE ~\E b \in Bookings : On(b, sl) BY <1>1, <1>2, <1>4 DEF Follows
<1> QED BY <1>3, <1>4

\* A session that opens or goes on with t.
LEMMA FollowStep ==
  ASSUME FollowInv, BoughtInv', NEW s \in Sessions, NEW t, tx' = [tx EXCEPT ![s] = t],
         UNCHANGED <<serial, slots, lapsed, bookings>>,
         serial => \A r \in Sessions \ {s} : tx[r] = Idle,
         serial =>
           /\ t.op = "book" =>
                /\ t.row.status = slots[t.on].status
                /\ slots[t.on].status = "open" \/ lapsed[t.on]
           /\ t.op = "list" => \A sl \in t.batch : lapsed[sl]
           /\ t.op = "settle" /\ t.to = "paid" => bookings[t.b].status = "awaiting_payment"
           /\ t.op = "move" =>
                /\ bookings[t.b].status \in Standing
                /\ t.to # "cancelled" => bookings[t.b].status \in Served
  PROVE  FollowInv'
<1>1. \A r \in Sessions : tx'[r] = IF r = s THEN t ELSE tx[r]
  BY DEF FollowInv, BoughtInv, BookInv
<1>2. ASSUME serial', NEW r \in Sessions, tx'[r] # Idle PROVE KnowsBooking(r)'
  <2>1. r = s BY <1>1, <1>2
  <2> QED BY <1>1, <1>2, <2>1 DEF KnowsBooking
<1>3. ASSUME NEW sl \in Slots, Follows(sl) PROVE Follows(sl)'
  BY <1>3 DEF Follows, On, Due
<1> QED BY <1>2, <1>3 DEF FollowInv

\* The end of the one open request.
LEMMA FollowEnd ==
  ASSUME FollowInv, BoughtInv', NEW s \in Sessions, tx[s] # Idle, End(s),
         UNCHANGED <<serial, lapsed>>,
         serial => \A sl \in Slots : slots'[sl].hold = "lapsed" => lapsed[sl],
         serial => \A sl \in Slots : ~lapsed[sl] => Follows(sl)'
  PROVE  FollowInv'
<1>1. serial => \A r \in Sessions : tx'[r] = Idle
  BY EndIs DEF FollowInv, BoughtInv, KnowsSlot
<1> QED BY <1>1 DEF FollowInv

\* Steps of the clock and of orders.
LEMMA FollowRest ==
  ASSUME FollowInv, BoughtInv', UNCHANGED <<serial, bookings, tx>>,
         lapsed' \in [Slots -> BOOLEAN],
         \A sl \in Slots : slots'[sl].status = slots[sl].status,
         serial => \A sl \in Slots : /\ lapsed[sl] => lapsed'[sl]
                                     /\ slots'[sl].hold = "lapsed" => lapsed'[sl]
  PROVE  FollowInv'
<1>1. ASSUME serial', NEW s \in Sessions, tx'[s] # Idle PROVE KnowsBooking(s)'
  <2>1. KnowsBooking(s) /\ Rests(s, tx[s]) /\ tx[s] \in TxRow
    BY <1>1 DEF FollowInv, BoughtInv, BookInv
  <2>2. tx[s].op = "book" => tx[s].on \in Slots BY <2>1 DEF Rests
  <2>3. tx[s].batch \subseteq Slots BY <2>1 DEF TxRow
  <2> QED BY <1>1, <2>1, <2>2, <2>3 DEF KnowsBooking
<1>2. ASSUME serial', NEW sl \in Slots, ~lapsed'[sl] PROVE Follows(sl)'
  <2>1. Follows(sl) BY <1>2 DEF FollowInv
  <2> QED BY <2>1 DEF Follows, On, Due
<1> QED BY <1>1, <1>2 DEF FollowInv

\* What begins has looked at its booking and at the clock.
LEMMA BeginFollows ==
  ASSUME FollowInv, BoughtInv', NEW s \in Sessions, Requests(s)
  PROVE  FollowInv'
<1>1. ASSUME NEW t, Begin(s, t)
      PROVE  /\ tx' = [tx EXCEPT ![s] = t] /\ UNCHANGED <<serial, slots, lapsed, bookings>>
             /\ serial => \A r \in Sessions : tx[r] = Idle
  BY <1>1 DEF Begin, MayBegin, db
<1>2. ASSUME NEW t, Begin(s, t), t.op \notin {"book", "move", "list"}, t.to = "absent"
      PROVE  FollowInv'
  BY <1>1, <1>2, FollowStep
<1>3. ASSUME NEW b \in Bookings, NEW o \in Orders, NEW sl \in Slots, BeginBook(s, b, o, sl)
      PROVE  FollowInv'
  <2> DEFINE t == [Idle EXCEPT !.op = "book", !.b = b, !.o = o, !.on = sl, !.row = slots[sl]]
  <2>1. Begin(s, t) /\ Bookable(slots[sl]) BY <1>3 DEF BeginBook
  <2>2. t.op = "book" /\ t.on = sl /\ t.row = slots[sl] BY DEF Idle
  <2>3. serial => slots[sl].status = "open" \/ lapsed[sl] BY <2>1 DEF Bookable, FollowInv
  <2> HIDE DEF t
  <2> QED BY <1>1, <2>1, <2>2, <2>3, FollowStep
<1>4. ASSUME NEW b \in Bookings, NEW o \in Orders, BeginFree(s, o, b) PROVE FollowInv'
  <2> DEFINE t == [Idle EXCEPT !.op = "settle", !.o = o, !.b = b, !.was = "created"]
  <2>1. Begin(s, t) BY <1>4 DEF BeginFree
  <2>2. t.op = "settle" /\ t.to = "absent" BY DEF Idle
  <2> HIDE DEF t
  <2> QED BY <1>2, <2>1, <2>2
<1>5. ASSUME NEW o \in Orders, BeginPay(s, o) PROVE FollowInv'
  <2> DEFINE t == [Idle EXCEPT !.op = "settle", !.o = o, !.b = orders[o].subject,
                               !.was = orders[o].status]
  <2>1. Begin(s, t) BY <1>5 DEF BeginPay
  <2>2. t.op = "settle" /\ t.to = "absent" BY DEF Idle
  <2> HIDE DEF t
  <2> QED BY <1>2, <2>1, <2>2
<1>6. ASSUME NEW o \in Orders, NEW c \in Channels, BeginNotify(s, o, c) PROVE FollowInv'
  <2> DEFINE t == [Idle EXCEPT !.op = "settle", !.o = o, !.b = orders[o].subject,
                               !.was = orders[o].status, !.channel = c]
  <2>1. Begin(s, t) BY <1>6 DEF BeginNotify
  <2>2. t.op = "settle" /\ t.to = "absent" BY DEF Idle
  <2> HIDE DEF t
  <2> QED BY <1>2, <2>1, <2>2
<1>7. ASSUME NEW b \in Bookings, NEW op \in DOMAIN From, BeginMove(s, b, op) PROVE FollowInv'
  <2> DEFINE next == IF To[op] = "cancelled" THEN "slot" ELSE "done"
             t == [Idle EXCEPT !.op = "move", !.b = b, !.to = To[op], !.next = next]
  <2>1. bookings[b].status \in From[op] /\ Begin(s, t) BY <1>7 DEF BeginMove
  <2>2. t.op = "move" /\ t.b = b /\ t.to = To[op] BY DEF Idle
  <2>3. From[op] \subseteq Standing
    <3>1. op \in {"decline", "start", "complete", "cancel"} BY DEF From
    <3> QED BY <3>1 DEF From, Standing, Served
  <2>4. To[op] # "cancelled" => bookings[b].status \in Served BY <2>1, Moves
  <2> HIDE DEF t, next
  <2> QED BY <1>1, <2>1, <2>2, <2>3, <2>4, FollowStep
<1>8. ASSUME NEW b \in Bookings, BeginReview(s, b) PROVE FollowInv'
  <2> DEFINE t == [Idle EXCEPT !.op = "review", !.b = b, !.next = "profile"]
  <2>1. Begin(s, t) BY <1>8 DEF BeginReview
  <2>2. t.op = "review" /\ t.to = "absent" BY DEF Idle
  <2> HIDE DEF t
  <2> QED BY <1>2, <2>1, <2>2
<1>9. ASSUME BeginList(s) PROVE FollowInv'
  <2> DEFINE due == {sl \in Slots : slots[sl].status = "held" /\ slots[sl].hold = "lapsed"}
             t == [Idle EXCEPT !.op = "list", !.batch = due]
  <2>1. Begin(s, t) BY <1>9 DEF BeginList
  <2>2. t.op = "list" /\ t.batch = due BY DEF Idle
  <2>3. serial => \A sl \in due : lapsed[sl] BY DEF FollowInv
  <2> HIDE DEF t, due
  <2> QED BY <1>1, <2>1, <2>2, <2>3, FollowStep
<1> QED BY <1>3, <1>4, <1>5, <1>6, <1>7, <1>8, <1>9 DEF Requests

\* A payment marks a booking that waits.
LEMMA ReadFollows ==
  ASSUME FollowInv, BoughtInv', NEW s \in Sessions, ReadBooking(s)
  PROVE  FollowInv'
<1> DEFINE t == tx[s]
           held == [t EXCEPT !.holds = TRUE]
           marked == [held EXCEPT !.to = "paid", !.next = "slot"]
<1>1. /\ t.op = "settle" /\ UNCHANGED <<serial, slots, lapsed, bookings>>
      /\ \/ tx' = [tx EXCEPT ![s] = held]
         \/ tx' = [tx EXCEPT ![s] = marked] /\ bookings[t.b].status = "awaiting_payment"
  BY DEF ReadBooking, Marks, db
<1>2. t \in TxRow /\ t # Idle BY <1>1, NoneIsTyped DEF FollowInv, BoughtInv, BookInv
<1>3. serial => KnowsBooking(s) /\ \A r \in Sessions \ {s} : tx[r] = Idle
  BY <1>2 DEF FollowInv, BoughtInv, KnowsSlot
<1>4. /\ held.op = "settle" /\ held.to = t.to /\ held.b = t.b
      /\ marked.op = "settle" /\ marked.b = t.b
  BY <1>1, <1>2 DEF TxRow
<1> HIDE DEF held, marked
<1>5. CASE tx' = [tx EXCEPT ![s] = marked] /\ bookings[t.b].status = "awaiting_payment"
  BY <1>1, <1>3, <1>4, <1>5, FollowStep
<1>6. CASE tx' = [tx EXCEPT ![s] = held]
  <2>1. serial /\ held.to = "paid" => bookings[held.b].status = "awaiting_payment"
    BY <1>1, <1>3, <1>4 DEF KnowsBooking
  <2> QED BY <1>1, <1>3, <1>4, <1>6, <2>1, FollowStep
<1> QED BY <1>1, <1>5, <1>6

LEMMA ReadOnFollows ==
  ASSUME FollowInv, BoughtInv', NEW s \in Sessions, ReadSlot(s) \/ ReadProfile(s)
  PROVE  FollowInv'
<1> DEFINE t == tx[s]
<1>1. BookInv BY DEF FollowInv, BoughtInv
<1>2. PICK u \in TxRow :
        /\ tx' = [tx EXCEPT ![s] = u] /\ UNCHANGED db
        /\ t # Idle /\ t.op \in {"settle", "move", "review"}
        /\ u.op = t.op /\ u.b = t.b /\ u.to = t.to
  BY <1>1, ReadsOn
<1>3. UNCHANGED <<serial, slots, lapsed, bookings>> BY <1>2 DEF db
<1>4. serial => KnowsBooking(s) /\ \A r \in Sessions \ {s} : tx[r] = Idle
  BY <1>2 DEF FollowInv, BoughtInv, KnowsSlot
<1>5. serial => /\ u.op = "settle" /\ u.to = "paid" => bookings[u.b].status = "awaiting_payment"
                /\ u.op = "move" =>
                     /\ bookings[u.b].status \in Standing
                     /\ u.to # "cancelled" => bookings[u.b].status \in Served
  BY <1>2, <1>4 DEF KnowsBooking
<1> QED BY <1>2, <1>3, <1>4, <1>5, FollowStep

\* A request that writes no booking, and opens at most slots whose holds ran out.
LEMMA EndFollows ==
  ASSUME FollowInv, BoughtInv', NEW s \in Sessions, UNCHANGED <<serial, lapsed, bookings>>,
         \A sl \in Slots : slots'[sl] \in {slots[sl], NoSlot},
         serial => \A sl \in Slots : slots'[sl] = slots[sl] \/ lapsed[sl],
         tx[s] # Idle, End(s)
  PROVE  FollowInv'
<1>1. ASSUME serial, NEW sl \in Slots, ~lapsed[sl] PROVE Follows(sl)'
  <2>1. Follows(sl) /\ slots'[sl] = slots[sl] BY <1>1 DEF FollowInv
  <2> QED BY <2>1 DEF Follows, On, Due
<1>2. serial => \A sl \in Slots : slots'[sl].hold = "lapsed" => lapsed[sl]
  BY DEF FollowInv, NoSlot
<1> QED BY <1>1, <1>2, FollowEnd

LEMMA CommitFollows ==
  ASSUME FollowInv, BoughtInv', NEW s \in Sessions, Commits(s) \/ Abort(s)
  PROVE  FollowInv'
<1> DEFINE t == tx[s]
           sl == bookings[t.b].slot
<1>1. /\ t \in TxRow /\ Rests(s, t)
      /\ t.op # "idle" => t # Idle
      /\ slots \in [Slots -> SlotRow] /\ bookings \in [Bookings -> BookingRow]
  BY NoneIsTyped DEF FollowInv, BoughtInv, BookInv, RowsTyped
<1>2. serial /\ t # Idle => KnowsSlot(s) /\ KnowsBooking(s) BY DEF FollowInv, BoughtInv
<1>3. \A q \in Slots : serial /\ ~lapsed[q] => Follows(q) BY DEF FollowInv
<1>4. CASE CommitBook(s)
  <2> DEFINE nb == [status |-> "awaiting_payment", slot |-> t.on]
             row == [status |-> Written(slots[t.on].status, t.row.status, "held"),
                     hold |-> "live"]
  <2>1. /\ t.op = "book" /\ End(s) /\ UNCHANGED <<serial, lapsed>>
        /\ bookings' = [bookings EXCEPT ![t.b] = nb] /\ slots' = [slots EXCEPT ![t.on] = row]
    BY <1>4 DEF CommitBook
  <2>2. t.b \in Bookings /\ t.on \in Slots /\ bookings[t.b].status = "absent" /\ t # Idle
    BY <1>1, <2>1, NoneIsTyped DEF Rests
  <2>k. PICK k \in Bookings : k = t.b BY <2>2
  <2>3. row.hold = "live" /\ nb.status = "awaiting_payment" /\ nb.slot = t.on OBVIOUS
  <2>4. serial /\ ~lapsed[t.on] => slots[t.on].status = "open" /\ row.status = "held"
    BY <1>2, <2>1, <2>2 DEF KnowsBooking, Written
  <2> HIDE DEF row, nb
  <2>5. /\ \A q \in Slots : slots'[q] = IF q = t.on THEN row ELSE slots[q]
        /\ \A b \in Bookings : bookings'[b] = IF b = t.b THEN nb ELSE bookings[b]
    BY <1>1, <2>1
  <2>6. ASSUME serial, NEW q \in Slots, ~lapsed[q] PROVE Follows(q)'
    <3>1. \A b \in Bookings : On(b, q)' <=> On(b, q) \/ (b = t.b /\ q = t.on)
      BY <2>2, <2>3, <2>5 DEF On, Standing, Served
    <3>2. \A b \in Bookings : b # t.b => Due(b)' = Due(b) BY <2>5 DEF Due
    <3>3. Follows(q) BY <1>3, <2>6
    <3>4. ~On(k, q) BY <2>k, <2>2 DEF On, Standing, Served
    <3>5. CASE q = t.on
      <4>1. \A b \in Bookings : ~On(b, q)
        BY <2>4, <2>6, <3>3, <3>5 DEF Follows, Due
      <4>2. Due(k)' = "held" BY <2>k, <2>2, <2>3, <2>5 DEF Due
      <4>3. slots'[q].status = "held" BY <2>4, <2>5, <2>6, <3>5
      <4> QED BY <2>k, <2>2, <3>1, <3>5, <4>1, <4>2, <4>3 DEF Follows
    <3>6. CASE q # t.on
      <4>1. \A b \in Bookings : On(b, q)' <=> On(b, q) BY <3>1, <3>6
      <4>2. slots'[q] = slots[q] BY <2>5, <3>6
      <4> QED BY <2>k, <3>2, <3>3, <3>4, <4>1, <4>2 DEF Follows
    <3> QED BY <3>5, <3>6
  <2>7. serial => \A q \in Slots : slots'[q].hold = "lapsed" => lapsed[q]
    BY <2>3, <2>5 DEF FollowInv
  <2> QED BY <2>1, <2>2, <2>6, <2>7, FollowEnd
<1>5. CASE CommitSettle(s)
  <2> DEFINE row == SlotAfter(slots[sl], t.row, "booked", "none")
  <2>1. /\ t.op = "settle" /\ t.next = "done" /\ End(s) /\ UNCHANGED <<serial, lapsed>>
        /\ t.to = "paid" =>
             /\ bookings' = [bookings EXCEPT ![t.b].status = "paid"]
             /\ slots' = [slots EXCEPT ![sl] = row]
        /\ t.to # "paid" => UNCHANGED <<bookings, slots>>
    BY <1>5 DEF CommitSettle
  <2>2. t # Idle /\ t.b \in Bookings BY <1>1, <2>1 DEF Rests
  <2>k. PICK k \in Bookings : k = t.b BY <2>2
  <2>3. CASE t.to # "paid" BY <2>1, <2>2, <2>3, EndFollows
  <2>4. CASE t.to = "paid"
    <3>1. sl \in Slots BY <1>1, <2>1 DEF Rests, FollowInv, BoughtInv, BookInv, RowsRefer
    <3>2. serial => row.status = "booked" /\ bookings[t.b].status = "awaiting_payment"
      BY <1>2, <2>1, <2>2, <2>4 DEF KnowsSlot, KnowsBooking, SlotAfter, Written
    <3>3. row.hold \in {slots[sl].hold, "none"} BY DEF SlotAfter, Written
    <3> HIDE DEF row
    <3>4. /\ \A q \in Slots : slots'[q] = IF q = sl THEN row ELSE slots[q]
          /\ \A b \in Bookings : /\ bookings'[b].slot = bookings[b].slot
                                 /\ bookings'[b].status = IF b = t.b THEN "paid"
                                                          ELSE bookings[b].status
      BY <1>1, <2>1, <2>2, <2>4 DEF BookingRow
    <3>5. ASSUME serial, NEW q \in Slots, ~lapsed[q] PROVE Follows(q)'
      <4>1. \A b \in Bookings : On(b, q)' <=> On(b, q)
        BY <3>2, <3>4, <3>5 DEF On, Standing, Served
      <4>2. \A b \in Bookings : b # t.b => Due(b)' = Due(b) BY <3>4 DEF Due
      <4>3. Due(k)' = "booked" BY <2>k, <2>2, <3>4 DEF Due
      <4>4. Follows(q) BY <1>3, <3>5
      <4>5. CASE q = sl
        <5>1. On(k, q) BY <2>k, <3>2, <3>5, <4>5 DEF On, Standing
        <5>2. \A b \in Bookings : On(b, q) => b = t.b BY <2>k, <2>2, <4>4, <5>1 DEF Follows
        <5>3. slots'[q].status = "booked" BY <3>2, <3>4, <3>5, <4>5
        <5> QED BY <2>2, <4>1, <4>3, <5>1, <5>2, <5>3 DEF Follows
      <4>6. CASE q # sl
        <5>1. ~On(k, q) BY <2>k, <4>6 DEF On
        <5>2. slots'[q] = slots[q] BY <3>4, <4>6
        <5> QED BY <2>k, <4>1, <4>2, <4>4, <5>1, <5>2 DEF Follows
      <4> QED BY <4>5, <4>6
    <3>6. serial => \A q \in Slots : slots'[q].hold = "lapsed" => lapsed[q]
      BY <3>1, <3>3, <3>4 DEF FollowInv
    <3> QED BY <2>1, <2>2, <3>5, <3>6, FollowEnd
  <2> QED BY <2>3, <2>4
<1>6. CASE CommitMove(s)
  <2> DEFINE free == t.to = "cancelled" /\ t.row.status \in Releasable
             row == SlotAfter(slots[sl], t.row, "open", "none")
  <2>1. /\ t.op = "move" /\ t.next = "done" /\ End(s) /\ UNCHANGED <<serial, lapsed>>
        /\ bookings' = [bookings EXCEPT ![t.b].status = t.to]
        /\ slots' = IF free THEN [slots EXCEPT ![sl] = row] ELSE slots
    BY <1>6 DEF CommitMove
  <2>2. /\ t # Idle /\ t.b \in Bookings /\ bookings[t.b].status # "absent"
        /\ t.to \in {"cancelled", "in_progress", "completed"}
    BY <1>1, <2>1 DEF Rests
  <2>k. PICK k \in Bookings : k = t.b BY <2>2
  <2>3. sl \in Slots BY <2>2 DEF FollowInv, BoughtInv, BookInv, RowsRefer
  <2>4. serial => /\ t.to = "cancelled" => t.row.status = slots[sl].status
                  /\ bookings[t.b].status \in Standing
                  /\ t.to # "cancelled" => bookings[t.b].status \in Served
    BY <1>2, <2>1, <2>2 DEF KnowsSlot, KnowsBooking
  <2>5. serial /\ free => row.status = "open"
    BY <2>4 DEF SlotAfter, Written, Releasable
  <2>6. row.hold \in {slots[sl].hold, "none"} BY DEF SlotAfter, Written
  <2>7. \A b \in Bookings : /\ bookings'[b].slot = bookings[b].slot
                            /\ bookings'[b].status = IF b = t.b THEN t.to
                                                     ELSE bookings[b].status
    BY <1>1, <2>1, <2>2 DEF BookingRow
  <2> HIDE DEF row
  <2>8. \A q \in Slots : slots'[q] = IF q = sl /\ free THEN row ELSE slots[q]
    BY <1>1, <2>1
  <2>9. ASSUME serial, NEW q \in Slots, ~lapsed[q] PROVE Follows(q)'
    <3>1. Follows(q) BY <1>3, <2>9
    <3>2. \A b \in Bookings : b # t.b => Due(b)' = Due(b) /\ (On(b, q)' <=> On(b, q))
      BY <2>7 DEF Due, On
    <3>3. CASE q = sl
      <4>1. On(k, q) BY <2>k, <2>4, <2>9, <3>3 DEF On
      <4>2. \A b \in Bookings : On(b, q) => b = t.b BY <2>k, <2>2, <3>1, <4>1 DEF Follows
      <4>3. slots[q].status = Due(k) BY <2>2, <3>1, <4>1 DEF Follows
      <4>4. CASE t.to = "cancelled"
        <5>1. free BY <2>4, <2>9, <3>3, <4>3, <4>4 DEF Due, Releasable
        <5>2. slots'[q].status = "open" BY <2>5, <2>8, <2>9, <3>3, <5>1
        <5>3. ~On(k, q)' BY <2>k, <2>2, <2>7, <4>4 DEF On, Standing, Served
        <5>4. \A b \in Bookings : ~On(b, q)' BY <2>k, <3>2, <4>2, <5>3
        <5> QED BY <5>2, <5>4 DEF Follows
      <4>5. CASE t.to # "cancelled"
        <5>1. slots'[q] = slots[q] BY <2>8, <4>5
        <5>2. Due(k) = "booked" /\ Due(k)' = "booked" /\ On(k, q)'
          BY <2>k, <2>2, <2>4, <2>7, <2>9, <3>3, <4>5 DEF Due, On, Standing, Served
        <5> QED BY <2>2, <3>2, <4>2, <4>3, <5>1, <5>2 DEF Follows
      <4> QED BY <4>4, <4>5
    <3>4. CASE q # sl
      <4>1. ~On(k, q) /\ ~On(k, q)' BY <2>k, <2>2, <2>7, <3>4 DEF On
      <4>2. slots'[q] = slots[q] BY <2>8, <3>4
      <4> QED BY <2>k, <3>1, <3>2, <4>1, <4>2 DEF Follows
    <3> QED BY <3>3, <3>4
  <2>10. serial => \A q \in Slots : slots'[q].hold = "lapsed" => lapsed[q]
    BY <2>3, <2>6, <2>8 DEF FollowInv
  <2> QED BY <2>1, <2>2, <2>9, <2>10, FollowEnd
<1>7. CASE CommitList(s)
  <2>1. /\ t.op = "list" /\ End(s) /\ UNCHANGED <<serial, lapsed, bookings>>
        /\ slots' = [q \in Slots |-> IF q \in t.batch THEN NoSlot ELSE slots[q]]
    BY <1>7 DEF CommitList
  <2>2. \A q \in Slots : slots'[q] \in {slots[q], NoSlot} BY <2>1
  <2>3. serial => \A q \in Slots : slots'[q] = slots[q] \/ lapsed[q]
    BY <1>1, <1>2, <2>1 DEF KnowsBooking
  <2> QED BY <1>1, <2>1, <2>2, <2>3, EndFollows
<1>8. CASE CommitReview(s) \/ CommitNotifyPaid(s) \/ Abort(s)
  <2>1. t # Idle /\ End(s) /\ UNCHANGED <<serial, slots, lapsed, bookings>>
    BY <1>1, <1>8 DEF CommitReview, CommitNotifyPaid, Abort, db
  <2> QED BY <2>1, EndFollows
<1> QED BY <1>4, <1>5, <1>6, <1>7, <1>8 DEF Commits

LEMMA FollowInductive == FollowInv /\ [Next]_vars => FollowInv'
<1> SUFFICES ASSUME FollowInv, [Next]_vars PROVE FollowInv' OBVIOUS
<1>1. BoughtInv' BY BoughtInductive DEF FollowInv
<1>2. ASSUME UNCHANGED <<serial, slots, lapsed, bookings, tx>> PROVE FollowInv'
  BY <1>1, <1>2, FollowRest DEF FollowInv
<1>3. CASE UNCHANGED vars BY <1>2, <1>3 DEF vars, db
<1>4. ASSUME NEW s \in Sessions, Requests(s) \/ Reads(s) \/ Commits(s) \/ Abort(s)
      PROVE  FollowInv'
  BY <1>1, <1>4, BeginFollows, ReadFollows, ReadOnFollows, CommitFollows DEF Reads
<1>5. ASSUME NEW o \in Orders, NEW c \in Channels, Charge(o, c) PROVE FollowInv'
  BY <1>2, <1>5 DEF Charge
<1>6. ASSUME NEW o \in Orders, NEW status \in {"off", "paid"}, OrderMoves(o, status)
      PROVE  FollowInv'
  BY <1>2, <1>6 DEF OrderMoves
<1>7. ASSUME NEW o \in Orders, NEW b \in Bookings, PlaceOrder(o, b) PROVE FollowInv'
  BY <1>2, <1>7 DEF PlaceOrder
<1>8. ASSUME NEW sl \in Slots, Lapse(sl) PROVE FollowInv'
  <2>1. /\ slots' = [slots EXCEPT ![sl].hold = "lapsed"] /\ lapsed' = [lapsed EXCEPT ![sl] = serial]
        /\ UNCHANGED <<serial, bookings, tx>>
    BY <1>8 DEF Lapse
  <2>2. \A q \in Slots : /\ slots'[q].status = slots[q].status
                         /\ q # sl => slots'[q] = slots[q] /\ lapsed'[q] = lapsed[q]
    BY <2>1 DEF FollowInv, BoughtInv, BookInv, RowsTyped, SlotRow
  <2>3. serial => lapsed'[sl] BY <2>1 DEF FollowInv
  <2>4. lapsed' \in [Slots -> BOOLEAN] BY <2>1 DEF FollowInv
  <2> QED BY <1>1, <2>1, <2>2, <2>3, <2>4, FollowRest DEF FollowInv
<1> QED BY <1>3, <1>4, <1>5, <1>6, <1>7, <1>8 DEF Next

LEMMA FollowInitially == Init => FollowInv
<1>1. Init => BoughtInv
  <2>1. Init => \A sl \in Slots : slots[sl].status = "open" BY DEF Init, NoSlot
  <2>2. Init => \A s \in Sessions : tx[s] = Idle BY DEF Init
  <2> QED BY <2>1, <2>2, BookInitially DEF BoughtInv
<1>2. ASSUME Init PROVE FollowInv
  <2>1. \A sl \in Slots : slots[sl].status = "open" /\ slots[sl].hold = "none"
    BY <1>2 DEF Init, NoSlot
  <2>2. \A b \in Bookings : bookings[b].status = "absent" BY <1>2, NoneIsTyped DEF Init
  <2>3. \A sl \in Slots : Follows(sl)
    BY <2>1, <2>2 DEF Follows, On, Standing, Served
  <2>4. serial \in BOOLEAN /\ lapsed \in [Slots -> BOOLEAN] /\ \A s \in Sessions : tx[s] = Idle
    BY <1>2 DEF Init
  <2> QED BY <1>1, <1>2, <2>1, <2>3, <2>4 DEF FollowInv
<1> QED BY <1>2

\* Where requests do not overlap, a slot whose holds never ran out has one live
\* booking at most and says of it what it should (create_booking,
\* mark_booking_paid, _release_slot, list_slots).
THEOREM SlotHasOneHolder == Spec => []SlotFollowsBooking
BY FollowInitially, FollowInductive, FollowsIsMeant, PTL DEF Spec

-----------------------------------------------------------------------------
\* What the open transaction t rests on when it adds one to a counter: the order
\* whose row it holds was not settled before, the booking it reviews was not
\* reviewed when it read the counter.
CountRests(t) ==
  /\ t.holds => t.o \in Orders
  /\ t.op = "settle" /\ t.to = "paid" =>
       /\ t.holds /\ ~orders[t.o].settled
       /\ t.next = "done" => /\ t.count <= Cardinality(Settled)
                             /\ serial => t.count = profile.order_count
  /\ t.op = "review" /\ t.next = "done" =>
       /\ t.b \notin reviewed => t.count <= Cardinality(reviewed)
       /\ serial => t.count = profile.rating_count

\* The row of an order is locked by one request.
LocksExclude ==
  \A r, s \in Sessions : tx[r].holds /\ tx[s].holds /\ tx[r].o = tx[s].o => r = s

\* The inductive invariant of the counters.
CountInv ==
  /\ FollowInv
  /\ sold \subseteq Bookings /\ IsFiniteSet(sold)
  /\ reviewed \subseteq Bookings /\ IsFiniteSet(reviewed)
  /\ IsFiniteSet(Settled)
  /\ \A b \in sold : bookings[b].status \notin {"absent", "awaiting_payment"}
  /\ \A s \in Sessions : CountRests(tx[s])
  /\ LocksExclude
  /\ ProfileCounts

\* One more element.
LEMMA OneMore ==
  ASSUME NEW S, IsFiniteSet(S), NEW x
  PROVE  /\ IsFiniteSet(S \cup {x})
         /\ x \notin S => Cardinality(S \cup {x}) = Cardinality(S) + 1
         /\ Cardinality(S) \in Nat /\ Cardinality(S \cup {x}) \in Nat
         /\ Cardinality(S) <= Cardinality(S \cup {x})
<1>1. x \in S => S \cup {x} = S OBVIOUS
<1>2. IsFiniteSet(S \cup {x}) BY FS_AddElement
<1>3. x \notin S => Cardinality(S \cup {x}) = Cardinality(S) + 1 BY FS_AddElement
<1>4. Cardinality(S) <= Cardinality(S \cup {x}) BY <1>2, FS_Subset
<1> QED BY <1>2, <1>3, <1>4, FS_CardinalityType

\* Neither counter moves, and what was settled stays settled.
LEMMA CountsStay ==
  ASSUME CountInv, FollowInv', UNCHANGED <<serial, profile, sold, reviewed>>,
         Settled \subseteq Settled', IsFiniteSet(Settled'),
         \A b \in sold : bookings'[b].status \notin {"absent", "awaiting_payment"},
         LocksExclude',
         \A r \in Sessions :
           \/ tx'[r] = Idle
           \/ /\ tx'[r] = tx[r]
              /\ tx[r].holds => orders'[tx[r].o].settled = orders[tx[r].o].settled
           \/ CountRests(tx[r])'
  PROVE  CountInv'
<1>1. /\ Cardinality(Settled) <= Cardinality(Settled')
      /\ Cardinality(Settled) \in Nat /\ Cardinality(Settled') \in Nat
  BY FS_Subset, FS_CardinalityType DEF CountInv
<1>2. ASSUME NEW r \in Sessions PROVE CountRests(tx[r])'
  <2>1. CASE tx'[r] = Idle BY <2>1, NoneIsTyped DEF CountRests
  <2>2. CASE /\ tx'[r] = tx[r]
             /\ tx[r].holds => orders'[tx[r].o].settled = orders[tx[r].o].settled
    <3>1. CountRests(tx[r]) /\ tx[r].count \in Nat
      BY DEF CountInv, FollowInv, BoughtInv, BookInv, TxRow
    <3> QED BY <1>1, <2>2, <3>1 DEF CountRests
  <2> QED BY <2>1, <2>2
<1>3. ProfileCounts'
  <2>1. profile.order_count \in Nat
    BY DEF CountInv, FollowInv, BoughtInv, BookInv, RowsTyped
  <2> QED BY <1>1, <2>1 DEF CountInv, ProfileCounts
<1> QED BY <1>2, <1>3 DEF CountInv

\* The locks of a step that goes on with t, or ends.
LEMMA LocksStay ==
  ASSUME CountInv, NEW s \in Sessions, NEW t,
         \A r \in Sessions : tx'[r] = IF r = s THEN t ELSE tx[r],
         t.holds => /\ ~tx[s].holds => \A r \in Sessions \ {s} :
                                         ~(tx[r].holds /\ tx[r].o = t.o)
                    /\ t.o = tx[s].o
  PROVE  LocksExclude'
BY DEF CountInv, LocksExclude

\* A step that settles no order and sells, reviews and counts nothing.
LEMMA NothingCounts ==
  ASSUME CountInv, FollowInv', UNCHANGED <<serial, profile, sold, reviewed>>,
         \A o \in Orders : orders'[o].settled = orders[o].settled,
         \A b \in sold : bookings'[b].status \notin {"absent", "awaiting_payment"},
         LocksExclude',
         \A r \in Sessions : tx'[r] \in {tx[r], Idle} \/ CountRests(tx[r])'
  PROVE  CountInv'
<1>1. Settled' = Settled BY DEF Settled
<1>2. \A r \in Sessions : tx[r].holds => tx[r].o \in Orders BY DEF CountInv, CountRests
<1>3. IsFiniteSet(Settled') BY <1>1 DEF CountInv
<1> QED BY <1>1, <1>2, <1>3, CountsStay

\* Whoever begins holds no order and has read no counter.
LEMMA BeginCounts ==
  ASSUME CountInv, FollowInv', NEW s \in Sessions, Requests(s)
  PROVE  CountInv'
<1>1. ASSUME NEW t, Begin(s, t), ~t.holds, t.to = "absent" \/ t.op # "settle",
             t.next = "profile" \/ t.op # "review"
      PROVE  CountInv'
  <2>1. UNCHANGED <<serial, bookings, orders, profile, sold, reviewed>> BY <1>1 DEF Begin, db
  <2>2. \A r \in Sessions : tx'[r] = IF r = s THEN t ELSE tx[r]
    BY <1>1 DEF Begin, CountInv, FollowInv, BoughtInv, BookInv
  <2>3. LocksExclude' BY <1>1, <2>2, LocksStay
  <2>4. CountRests(tx[s])' BY <1>1, <2>2 DEF CountRests
  <2> QED BY <2>1, <2>2, <2>3, <2>4, NothingCounts DEF CountInv
<1>2. ASSUME NEW op \in {"book", "list", "move", "settle", "review"},
             NEW t, Begin(s, t), ~t.holds, t.op = op,
             op = "settle" => t.to = "absent", op = "review" => t.next = "profile"
      PROVE  CountInv'
  BY <1>1, <1>2
<1>3. ASSUME NEW b \in Bookings, NEW o \in Orders, NEW sl \in Slots, BeginBook(s, b, o, sl)
      PROVE  CountInv'
  <2> DEFINE t == [Idle EXCEPT !.op = "book", !.b = b, !.o = o, !.on = sl, !.row = slots[sl]]
  <2>1. Begin(s, t) BY <1>3 DEF BeginBook
  <2>2. t.op = "book" /\ ~t.holds BY DEF Idle
  <2> HIDE DEF t
  <2> QED BY <1>2, <2>1, <2>2
<1>4. ASSUME NEW b \in Bookings, NEW o \in Orders, BeginFree(s, o, b) PROVE CountInv'
  <2> DEFINE t == [Idle EXCEPT !.op = "settle", !.o = o, !.b = b, !.was = "created"]
  <2>1. Begin(s, t) BY <1>4 DEF BeginFree
  <2>2. t.op = "settle" /\ t.to = "absent" /\ ~t.holds BY DEF Idle
  <2> HIDE DEF t
  <2> QED BY <1>2, <2>1, <2>2
<1>5. ASSUME NEW o \in Orders, BeginPay(s, o) PROVE CountInv'
  <2> DEFINE t == [Idle EXCEPT !.op = "settle", !.o = o, !.b = orders[o].subject,
                               !.was = orders[o].status]
  <2>1. Begin(s, t) BY <1>5 DEF BeginPay
  <2>2. t.op = "settle" /\ t.to = "absent" /\ ~t.holds BY DEF Idle
  <2> HIDE DEF t
  <2> QED BY <1>2, <2>1, <2>2
<1>6. ASSUME NEW o \in Orders, NEW c \in Channels, BeginNotify(s, o, c) PROVE CountInv'
  <2> DEFINE t == [Idle EXCEPT !.op = "settle", !.o = o, !.b = orders[o].subject,
                               !.was = orders[o].status, !.channel = c]
  <2>1. Begin(s, t) BY <1>6 DEF BeginNotify
  <2>2. t.op = "settle" /\ t.to = "absent" /\ ~t.holds BY DEF Idle
  <2> HIDE DEF t
  <2> QED BY <1>2, <2>1, <2>2
<1>7. ASSUME NEW b \in Bookings, NEW op \in DOMAIN From, BeginMove(s, b, op) PROVE CountInv'
  <2> DEFINE next == IF To[op] = "cancelled" THEN "slot" ELSE "done"
             t == [Idle EXCEPT !.op = "move", !.b = b, !.to = To[op], !.next = next]
  <2>1. Begin(s, t) BY <1>7 DEF BeginMove
  <2>2. t.op = "move" /\ ~t.holds BY DEF Idle
  <2> HIDE DEF t, next
  <2> QED BY <1>2, <2>1, <2>2
<1>8. ASSUME NEW b \in Bookings, BeginReview(s, b) PROVE CountInv'
  <2> DEFINE t == [Idle EXCEPT !.op = "review", !.b = b, !.next = "profile"]
  <2>1. Begin(s, t) BY <1>8 DEF BeginReview
  <2>2. t.op = "review" /\ t.next = "profile" /\ ~t.holds BY DEF Idle
  <2> HIDE DEF t
  <2> QED BY <1>2, <2>1, <2>2
<1>9. ASSUME BeginList(s) PROVE CountInv'
  <2> DEFINE due == {sl \in Slots : slots[sl].status = "held" /\ slots[sl].hold = "lapsed"}
             t == [Idle EXCEPT !.op = "list", !.batch = due]
  <2>1. Begin(s, t) BY <1>9 DEF BeginList
  <2>2. t.op = "list" /\ ~t.holds BY DEF Idle
  <2> HIDE DEF t, due
  <2> QED BY <1>2, <2>1, <2>2
<1> QED BY <1>3, <1>4, <1>5, <1>6, <1>7, <1>8, <1>9 DEF Requests

\* A payment that marks has found its booking waiting, so its order unsettled.
LEMMA ReadCounts ==
  ASSUME CountInv, FollowInv', NEW s \in Sessions, ReadBooking(s)
  PROVE  CountInv'
<1> DEFINE t == tx[s]
           held == [t EXCEPT !.holds = TRUE]
           marked == [held EXCEPT !.to = "paid", !.next = "slot"]
<1>1. /\ t.op = "settle" /\ ~t.holds
      /\ UNCHANGED <<serial, bookings, orders, profile, sold, reviewed>>
      /\ \A r \in Sessions \ {s} : ~(tx[r].holds /\ tx[r].o = t.o)
      /\ \/ tx' = [tx EXCEPT ![s] = held]
         \/ tx' = [tx EXCEPT ![s] = marked] /\ bookings[t.b].status = "awaiting_payment"
  BY DEF ReadBooking, Marks, db
<1>2. t \in TxRow /\ tx \in [Sessions -> TxRow] /\ Rests(s, t) /\ PaidReachesBooking
  BY DEF CountInv, FollowInv, BoughtInv, BookInv
<1>3. /\ held.op = "settle" /\ held.to = t.to /\ held.holds /\ held.o = t.o
      /\ marked.op = "settle" /\ marked.next = "slot" /\ marked.holds /\ marked.o = t.o
      /\ marked.to = "paid"
  BY <1>1, <1>2 DEF TxRow
<1>4. t.o \in Orders BY <1>1, <1>2 DEF Rests
<1> HIDE DEF held, marked
<1>5. PICK u \in {held, marked} :
        /\ tx' = [tx EXCEPT ![s] = u]
        /\ u = marked => bookings[t.b].status = "awaiting_payment"
  <2>1. t.to # "paid" BY <1>1 DEF CountInv, CountRests
  <2>2. held # marked BY <1>3, <2>1
  <2> QED BY <1>1, <2>2
<1>6. \A r \in Sessions : tx'[r] = IF r = s THEN u ELSE tx[r] BY <1>2, <1>5
<1>7. CountRests(u)'
  <2>1. CASE u = held
    <3>1. t.to # "paid" BY <1>1 DEF CountInv, CountRests
    <3> QED BY <1>3, <1>4, <2>1, <3>1 DEF CountRests
  <2>2. CASE u = marked
    <3>1. bookings[t.b].status = "awaiting_payment" BY <1>5, <2>2
    <3>2. ~orders[t.o].settled
      BY <1>1, <1>2, <1>4, <3>1, NoneIsTyped DEF Rests, PaidReachesBooking
    <3> QED BY <1>1, <1>3, <1>4, <2>2, <3>2 DEF CountRests
  <2> QED BY <1>5, <2>1, <2>2
<1>8. LocksExclude' BY <1>1, <1>3, <1>5, <1>6, LocksStay
<1> QED BY <1>1, <1>6, <1>7, <1>8, NothingCounts DEF CountInv

\* The counter that is read is within its bound.
LEMMA ReadOnCounts ==
  ASSUME CountInv, FollowInv', NEW s \in Sessions, ReadSlot(s) \/ ReadProfile(s)
  PROVE  CountInv'
<1> DEFINE t == tx[s]
<1>1. BookInv BY DEF CountInv, FollowInv, BoughtInv
<1>2. PICK u \in TxRow :
        /\ tx' = [tx EXCEPT ![s] = u] /\ UNCHANGED db
        /\ t.op \in {"settle", "move", "review"}
        /\ u.op = t.op /\ u.o = t.o /\ u.b = t.b /\ u.to = t.to /\ u.holds = t.holds
        /\ u.next = "done" /\ t.op = "settle" => u.count = profile.order_count
        /\ u.next = "done" /\ t.op = "review" => u.count = profile.rating_count
  BY <1>1, ReadsOn
<1>3. UNCHANGED <<serial, bookings, orders, profile, sold, reviewed>> BY <1>2 DEF db
<1>4. \A r \in Sessions : tx'[r] = IF r = s THEN u ELSE tx[r] BY <1>1, <1>2 DEF BookInv
<1>5. CountRests(t) /\ ProfileCounts BY DEF CountInv
<1>6. CountRests(u)
  BY <1>2, <1>5 DEF CountRests, ProfileCounts
<1>7. CountRests(tx[s])' BY <1>3, <1>4, <1>6 DEF CountRests, Settled
<1>8. LocksExclude' BY <1>2, <1>4, LocksStay
<1> QED BY <1>3, <1>4, <1>7, <1>8, NothingCounts DEF CountInv

\* A counter moves by one, and the set that bounds it grows by one element.
LEMMA CommitCounts ==
  ASSUME CountInv, FollowInv', NEW s \in Sessions, Commits(s) \/ Abort(s)
  PROVE  CountInv'
<1> DEFINE t == tx[s]
<1>1. /\ t \in TxRow /\ Rests(s, t) /\ CountRests(t)
      /\ tx \in [Sessions -> TxRow] /\ bookings \in [Bookings -> BookingRow]
      /\ orders \in [Orders -> OrderRow]
      /\ profile \in [order_count : Nat, rating_count : Nat]
      /\ t.op # "idle" => t # Idle
  BY NoneIsTyped DEF CountInv, FollowInv, BoughtInv, BookInv, RowsTyped
<1>2. End(s) /\ \A r \in Sessions : tx'[r] = IF r = s THEN Idle ELSE tx[r]
  <2>1. End(s)
    BY DEF Commits, CommitBook, CommitList, CommitNotifyPaid, CommitMove, Abort, CommitSettle,
           CommitReview
  <2> QED BY <1>1, <2>1 DEF End
<1>3. serial /\ t # Idle => \A r \in Sessions \ {s} : tx[r] = Idle
  BY DEF CountInv, FollowInv, BoughtInv, KnowsSlot
<1>4. LocksExclude' BY <1>2, NoneIsTyped, LocksStay
<1>5. CASE CommitBook(s) \/ CommitList(s) \/ CommitNotifyPaid(s) \/ CommitMove(s) \/ Abort(s)
  <2>1. UNCHANGED <<serial, profile, sold, reviewed>>
    BY <1>5 DEF CommitBook, CommitList, CommitNotifyPaid, CommitMove, Abort, db
  <2>2. ASSUME NEW b \in sold PROVE bookings'[b].status \notin {"absent", "awaiting_payment"}
    <3>1. b \in Bookings /\ bookings[b].status \notin {"absent", "awaiting_payment"}
      BY DEF CountInv
    <3>2. CASE UNCHANGED bookings BY <3>1, <3>2
    <3>3. CASE CommitBook(s)
      <4>1. bookings[t.b] = NoBooking /\ t.b \in Bookings
        BY <1>1, <3>3 DEF CommitBook, Rests
      <4>2. b # t.b BY <3>1, <4>1, NoneIsTyped
      <4> QED BY <1>1, <3>1, <3>3, <4>2 DEF CommitBook
    <3>4. CASE CommitMove(s)
      <4>1. /\ bookings' = [bookings EXCEPT ![t.b].status = t.to]
            /\ t.to \in {"cancelled", "in_progress", "completed"}
        BY <1>1, <3>4 DEF CommitMove, Rests
      <4> QED BY <1>1, <3>1, <4>1 DEF BookingRow
    <3> QED BY <1>5, <3>2, <3>3, <3>4 DEF CommitList, CommitNotifyPaid, Abort, db
  <2>3. ASSUME NEW o \in Orders PROVE orders'[o].settled = orders[o].settled
    <3>1. CASE UNCHANGED orders BY <3>1
    <3>2. CASE CommitBook(s)
      <4>1. orders[t.o] = NoOrder BY <1>1, <3>2 DEF CommitBook, Rests
      <4>2. o = t.o => orders'[o].settled = FALSE BY <1>1, <3>2 DEF CommitBook, NoOrder
      <4>3. o # t.o => orders'[o] = orders[o] BY <1>1, <3>2 DEF CommitBook
      <4>4. NoOrder.settled = FALSE BY DEF NoOrder
      <4> QED BY <4>1, <4>2, <4>3, <4>4
    <3>3. CASE CommitNotifyPaid(s)
      <4> DEFINE row == [orders[t.o] EXCEPT !.charges = @ \ {t.channel}]
      <4>1. t.op = "settle" /\ orders' = [orders EXCEPT ![t.o] = row]
        BY <3>3 DEF CommitNotifyPaid
      <4>2. t.o \in Orders BY <1>1, <4>1 DEF Rests
      <4>3. row.settled = orders[t.o].settled BY <1>1, <4>2 DEF OrderRow
      <4> HIDE DEF row
      <4> QED BY <1>1, <4>1, <4>3
    <3> QED BY <1>5, <3>1, <3>2, <3>3 DEF CommitList, CommitMove, Abort, db
  <2> QED BY <1>2, <1>4, <2>1, <2>2, <2>3, NothingCounts
<1>6. CASE CommitSettle(s)
  <2>1. /\ t.op = "settle" /\ t.holds /\ t.next = "done" /\ UNCHANGED <<serial, reviewed>>
        /\ orders' = [orders EXCEPT ![t.o] =
             [subject |-> t.b, status |-> Written(@.status, t.was, "paid"),
              settled |-> TRUE, charges |-> @.charges \ {t.channel}]]
    BY <1>6 DEF CommitSettle
  <2>2. t.o \in Orders /\ t.b \in Bookings /\ t # Idle /\ t.count \in Nat
    BY <1>1, <2>1 DEF Rests, TxRow
  <2>3. \A o \in Orders : IF o = t.o THEN orders'[o].settled ELSE orders'[o] = orders[o]
    BY <1>1, <2>1
  <2>4. Settled' = Settled \cup {t.o} BY <2>2, <2>3 DEF Settled
  <2>5. IsFiniteSet(Settled) BY DEF CountInv
  <2>6. IsFiniteSet(Settled') BY <2>4, <2>5, OneMore
  <2>7. ASSUME NEW r \in Sessions, tx[r].holds, r # s
        PROVE  orders'[tx[r].o].settled = orders[tx[r].o].settled
    <3>1. tx[r].o # t.o BY <2>1, <2>7 DEF CountInv, LocksExclude
    <3>2. tx[r].o \in Orders BY <2>7 DEF CountInv, CountRests
    <3> QED BY <2>3, <3>1, <3>2
  <2>8. CASE t.to # "paid"
    <3>1. UNCHANGED <<bookings, profile, sold>> BY <1>6, <2>8 DEF CommitSettle
    <3>2. \A b \in sold : bookings'[b].status \notin {"absent", "awaiting_payment"}
      BY <3>1 DEF CountInv
    <3> QED BY <1>2, <1>4, <2>1, <2>4, <2>6, <2>7, <3>1, <3>2, CountsStay
  <2>9. CASE t.to = "paid"
    <3>1. /\ bookings' = [bookings EXCEPT ![t.b].status = "paid"]
          /\ profile' = [profile EXCEPT !.order_count = t.count + 1]
          /\ sold' = sold \cup {t.b}
      BY <1>6, <2>9 DEF CommitSettle
    <3>2. /\ profile'.order_count = t.count + 1 /\ profile'.rating_count = profile.rating_count
          /\ profile.order_count \in Nat
      BY <1>1, <3>1
    <3>3. /\ ~orders[t.o].settled /\ t.count <= Cardinality(Settled)
          /\ serial => t.count = profile.order_count
      BY <1>1, <2>1, <2>9 DEF CountRests
    <3>4. t.o \notin Settled BY <3>3 DEF Settled
    <3>5. /\ Cardinality(Settled') = Cardinality(Settled) + 1
          /\ Cardinality(Settled) \in Nat
      BY <2>4, <2>5, <3>4, OneMore
    <3>6. IsFiniteSet(sold) BY DEF CountInv
    <3>7. serial => t.b \notin sold
      BY <2>1, <2>2, <2>9 DEF CountInv, FollowInv, KnowsBooking
    <3>8. ProfileCounts'
      <4>1. profile'.order_count <= Cardinality(Settled') BY <2>2, <3>2, <3>3, <3>5
      <4>2. ASSUME serial PROVE profile'.order_count = Cardinality(sold')
        <5>1. Cardinality(sold') = Cardinality(sold) + 1 BY <3>1, <3>6, <3>7, <4>2, OneMore
        <5>2. profile.order_count = Cardinality(sold) BY <4>2 DEF CountInv, ProfileCounts
        <5> QED BY <3>2, <3>3, <4>2, <5>1, <5>2
      <4> QED BY <2>1, <3>2, <4>1, <4>2 DEF CountInv, ProfileCounts
    <3>9. ASSUME NEW r \in Sessions PROVE CountRests(tx[r])'
      <4>1. CASE tx'[r] = Idle BY <4>1, NoneIsTyped DEF CountRests
      <4>2. CASE tx'[r] # Idle
        <5>1. r # s /\ tx'[r] = tx[r] /\ tx[r] # Idle BY <1>2, <4>2
        <5>2. ~serial /\ CountRests(tx[r]) /\ tx[r].count \in Nat
          BY <1>1, <1>3, <2>2, <5>1 DEF CountInv, TxRow
        <5>3. tx[r].holds => orders'[tx[r].o].settled = orders[tx[r].o].settled
          BY <2>7, <5>1
        <5>4. reviewed' = reviewed /\ serial' = serial BY <2>1
        <5>5. tx[r].next = "done" /\ tx[r].count <= Cardinality(Settled) =>
                tx[r].count <= Cardinality(Settled')
          BY <3>5, <5>2
        <5> QED BY <5>1, <5>2, <5>3, <5>4, <5>5 DEF CountRests
      <4> QED BY <4>1, <4>2
    <3>10. \A b \in sold' : bookings'[b].status \notin {"absent", "awaiting_payment"}
      BY <1>1, <2>2, <3>1 DEF CountInv, BookingRow
    <3>11. sold' \subseteq Bookings /\ IsFiniteSet(sold')
      BY <2>2, <3>1, <3>6, OneMore DEF CountInv
    <3> QED BY <1>4, <2>1, <2>6, <3>8, <3>9, <3>10, <3>11 DEF CountInv
  <2> QED BY <2>8, <2>9
<1>7. CASE CommitReview(s)
  <2>1. /\ t.op = "review" /\ t.next = "done" /\ t.b \notin reviewed
        /\ UNCHANGED <<serial, bookings, orders, sold>>
        /\ profile' = [profile EXCEPT !.rating_count = t.count + 1]
        /\ reviewed' = reviewed \cup {t.b}
    BY <1>7 DEF CommitReview
  <2>2. /\ t.b \in Bookings /\ t # Idle /\ t.count \in Nat
        /\ t.count <= Cardinality(reviewed)
        /\ serial => t.count = profile.rating_count
    BY <1>1, <2>1 DEF CountRests, TxRow, Rests
  <2>3. /\ profile'.rating_count = t.count + 1 /\ profile'.order_count = profile.order_count
        /\ profile.rating_count \in Nat
    BY <1>1, <2>1
  <2>4. IsFiniteSet(reviewed) /\ Settled' = Settled BY <2>1 DEF CountInv, Settled
  <2>5. /\ Cardinality(reviewed') = Cardinality(reviewed) + 1
        /\ Cardinality(reviewed) \in Nat /\ IsFiniteSet(reviewed')
    BY <2>1, <2>4, OneMore
  <2>6. ProfileCounts' BY <2>1, <2>2, <2>3, <2>4, <2>5 DEF CountInv, ProfileCounts
  <2>7. ASSUME NEW r \in Sessions PROVE CountRests(tx[r])'
    <3>1. CASE tx'[r] = Idle BY <3>1, NoneIsTyped DEF CountRests
    <3>2. CASE tx'[r] # Idle
      <4>1. r # s /\ tx'[r] = tx[r] /\ tx[r] # Idle BY <1>2, <3>2
      <4>2. ~serial /\ CountRests(tx[r]) /\ tx[r].count \in Nat
        BY <1>1, <1>3, <2>2, <4>1 DEF CountInv, TxRow
      <4> QED BY <2>1, <2>4, <2>5, <4>1, <4>2 DEF CountRests
    <3> QED BY <3>1, <3>2
  <2>8. reviewed' \subseteq Bookings BY <2>1, <2>2 DEF CountInv
  <2> QED BY <1>4, <2>1, <2>4, <2>5, <2>6, <2>7, <2>8 DEF CountInv
<1> QED BY <1>5, <1>6, <1>7 DEF Commits

LEMMA CountInductive == CountInv /\ [Next]_vars => CountInv'
<1> SUFFICES ASSUME CountInv, [Next]_vars PROVE CountInv' OBVIOUS
<1>1. FollowInv' BY FollowInductive DEF CountInv
<1>2. ASSUME UNCHANGED <<serial, bookings, profile, sold, reviewed, tx>>,
             \A o \in Orders : orders'[o].settled = orders[o].settled
      PROVE  CountInv'
  <2>1. LocksExclude' BY <1>2 DEF CountInv, LocksExclude
  <2> QED BY <1>1, <1>2, <2>1, NothingCounts DEF CountInv
<1>o. orders \in [Orders -> OrderRow] BY DEF CountInv, FollowInv, BoughtInv, BookInv, RowsTyped
<1>3. CASE UNCHANGED vars BY <1>2, <1>3 DEF vars, db
<1>4. ASSUME NEW s \in Sessions, Requests(s) \/ Reads(s) \/ Commits(s) \/ Abort(s)
      PROVE  CountInv'
  BY <1>1, <1>4, BeginCounts, ReadCounts, ReadOnCounts, CommitCounts DEF Reads
<1>5. ASSUME NEW o \in Orders, NEW c \in Channels, Charge(o, c) PROVE CountInv'
  BY <1>2, <1>o, <1>5 DEF Charge, OrderRow
<1>6. ASSUME NEW o \in Orders, NEW status \in {"off", "paid"}, OrderMoves(o, status)
      PROVE  CountInv'
  BY <1>2, <1>o, <1>6 DEF OrderMoves, OrderRow
<1>7. ASSUME NEW o \in Orders, NEW b \in Bookings, PlaceOrder(o, b) PROVE CountInv'
  <2>1. /\ orders[o] = NoOrder /\ UNCHANGED <<serial, bookings, profile, sold, reviewed, tx>>
        /\ orders' = [orders EXCEPT ![o] =
             [NoOrder EXCEPT !.subject = b, !.status = "pending_payment"]]
    BY <1>7 DEF PlaceOrder, FreshOrder
  <2>2. \A q \in Orders : orders'[q].settled = orders[q].settled
    BY <1>o, <2>1 DEF NoOrder
  <2> QED BY <1>2, <2>1, <2>2
<1>8. ASSUME NEW sl \in Slots, Lapse(sl) PROVE CountInv'
  BY <1>2, <1>8 DEF Lapse
<1> QED BY <1>3, <1>4, <1>5, <1>6, <1>7, <1>8 DEF Next

\* Without overlap order_count and rating_count are what was sold and reviewed;
\* however requests overlap, no order adds more than one to order_count and
\* rating_count never runs ahead of the reviews (mark_booking_paid, add_review).
\* The rows are well formed.
THEOREM CountersAreSound == Spec => []ProfileSound
<1>1. Init => CountInv
  <2> SUFFICES ASSUME Init PROVE CountInv OBVIOUS
  <2>1. FollowInv BY FollowInitially
  <2>2. /\ profile = [order_count |-> 0, rating_count |-> 0] /\ sold = {} /\ reviewed = {}
        /\ \A s \in Sessions : tx[s] = Idle
        /\ \A o \in Orders : orders[o] = NoOrder
    BY DEF Init
  <2>3. \A s \in Sessions : CountRests(tx[s]) BY <2>2, NoneIsTyped DEF CountRests
  <2>4. Settled = {} BY <2>2, NoneIsTyped DEF Settled
  <2>5. ProfileCounts BY <2>2, <2>4, FS_EmptySet DEF ProfileCounts
  <2>6. LocksExclude BY <2>2, NoneIsTyped DEF LocksExclude
  <2> QED BY <2>1, <2>2, <2>3, <2>4, <2>5, <2>6, FS_EmptySet DEF CountInv
<1>2. CountInv => ProfileSound
  <2> SUFFICES ASSUME CountInv PROVE TypeOK BY DEF ProfileSound, CountInv
  <2>1. \A s \in Sessions : tx[s] \in TxRow BY DEF CountInv, FollowInv, BoughtInv, BookInv
  <2>2. \A s \in Sessions : /\ tx[s].o \in Orders \cup {"none"}
                            /\ tx[s].b \in Bookings \cup {"none"} /\ tx[s].row \in SlotRow
    BY <2>1 DEF TxRow
  <2> QED BY <2>2
      DEF CountInv, FollowInv, BoughtInv, BookInv, RowsTyped, TypeOK, BookingRow, OrderRow
<1> QED BY <1>1, <1>2, CountInductive, PTL DEF Spec
===============================================================================
