----------------------------- MODULE MCBooking -----------------------------
EXTENDS Booking, TLC

\* Slots, bookings, orders and sessions are interchangeable.
MCSymmetry == Permutations(Slots) \cup Permutations(Bookings)
              \cup Permutations(Orders) \cup Permutations(Sessions)

\* Bound: where requests overlap, one order fewer is in use.
MCUsedOrders ==
  {o \in Orders : orders[o] # NoOrder \/ \E s \in Sessions : tx[s].o = o}
MCOverlapBound == serial \/ MCUsedOrders' # Orders
=============================================================================
