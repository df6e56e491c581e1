\* Joins that overlap with each other, with the waitlist and with the
\* host and the admin; nobody gives a seat back and the capacity stays.
SPECIFICATION Spec
CONSTANTS
  Users = {u1, u2, u3}
  Capacities = {2, 3}
  Sessions = {s1, s2, s3}
  Ops = {"join", "waitlist", "leave", "cancel", "review"}
SYMMETRY MCSymmetry
INVARIANTS
  CountCoversRoster
PROPERTIES
  SeatedWithinCapacity
  PlaceIsKept
CHECK_DEADLOCK FALSE
