\* One slot, two bookings and three orders of them, overlapping or not.
SPECIFICATION Spec
CONSTANTS
  Slots = {sl1}
  Bookings = {b1, b2}
  Orders = {o1, o2, o3}
  Sessions = {s1, s2}
  Channels = {wechat}
ACTION_CONSTRAINT MCOverlapBound
SYMMETRY MCSymmetry
INVARIANTS
  SlotFollowsBooking
  BookedSlotIsBought
  ServedIsPaidFor
  PaidReachesBooking
  ProfileSound
CHECK_DEADLOCK FALSE
