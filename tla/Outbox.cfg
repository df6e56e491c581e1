\* Two drains that overlap, batches of two, crashes and failing handlers.
SPECIFICATION LiveSpec
CONSTANTS
  Events = {e1, e2, e3}
  Notifying = {e1, e2}
  Drains = {w1, w2}
  BatchSize = 2
  MaxAttempts = 2
  MaxCrashes = 1
INVARIANTS
  NotifiedOnce
  GivenUpAfterMaxAttempts
PROPERTIES
  EveryEventSettles
  DeliversAsPromised
CHECK_DEADLOCK FALSE
