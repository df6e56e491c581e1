\* Requests one at a time, beside the worker and the group.
SPECIFICATION Spec
CONSTANTS
  Users = {u1, u2, u3, u4}
  Capacities = {2, 4}
  Sessions = {s1}
  Ops = {"join", "waitlist", "leave", "quit", "update", "cancel", "review"}
SYMMETRY MCSymmetry
INVARIANTS
  RosterSound
  NoIdleSeat
PROPERTIES
  SeatsAreGivenInTurn
CHECK_DEADLOCK FALSE
