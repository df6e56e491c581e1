\* Two sessions that overlap, each serving clients and the cron of the worker.
SPECIFICATION Spec
CONSTANTS
  Welcome = 1
  Users = {u1}
  Orders = {o1}
  Clients = {s1, s2}
  Workers = {s1, s2}
  Keys = {}
  NoKey = NoKey
  Kinds = {"membership"}
  Channels = {"wechat"}
  Prices = {1}
  MaxPayments = 1
  MaxRefunds = 1
  MaxRows = 1
SYMMETRY MCSymmetry
INVARIANTS
  LedgerReconciles
CHECK_DEADLOCK FALSE
