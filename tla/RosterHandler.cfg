\* Requests one at a time, beside the handler of ACTIVITY_JOINED.
SPECIFICATION Spec
CONSTANTS
  Users = {u1, u2}
  Capacities = {2}
  Sessions = {s1}
  Ops = {"join", "waitlist", "leave", "quit", "update", "cancel", "review"}
SYMMETRY MCSymmetry
PROPERTIES
  HandlerChangesNothing
CHECK_DEADLOCK FALSE
