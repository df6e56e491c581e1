\* Requests that do not overlap: one session serves clients and worker.
SPECIFICATION Spec
CONSTANTS
  Welcome = 1
  Users = {u1}
  Orders = {o1, o2}
  Clients = {s1}
  Workers = {s1}
  Keys = {k1}
  NoKey = NoKey
  Kinds = {"membership", "wallet_topup"}
  Channels = {"wechat"}
  Prices = {1}
  MaxPayments = 2
  MaxRefunds = 2
  MaxRows = 1
SYMMETRY MCSymmetry
INVARIANTS
  LedgerReconciles
  RefundsCovered
  OverIsOver
  OneOrderPerKey
CHECK_DEADLOCK FALSE
