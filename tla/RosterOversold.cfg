\* A quit that overlaps with a join.
SPECIFICATION Spec
CONSTANTS
  Users = {u1, u2, u3}
  Capacities = {2, 3}
  Sessions = {s1, s2}
  Ops = {"join", "quit", "review"}
SYMMETRY MCSymmetry
PROPERTIES
  SeatedWithinCapacity
CHECK_DEADLOCK FALSE
