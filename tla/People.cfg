\* The parts in which users meet, one moving at a time, overlapping or not.
SPECIFICATION PeopleSpec
CONSTANTS
  u1 = u1
  u2 = u2
  a1 = a1
  a2 = a2
  t1 = t1
  t2 = t2
  Users = {u1, u2}
  Members = {m1, m2, m3}
  Assets = {a1, a2}
  TransferIds = {t1, t2}
  MaxConsults = 2
  LikeLimit = 1
  SeededCount = 1
  Comments = 2
  Sums = {1, 2}
  Welcome = 2
CONSTRAINT MCSmall
SYMMETRY MCSymmetry
INVARIANTS
  PeopleTypeOK
  MatchesHold
  GroupHasItsOwner
  ConversationsHold
  CountersCount
  ShownAsMeant
PROPERTIES
  NoContactAcrossABlock
  TransfersAreEscrow
CHECK_DEADLOCK FALSE
