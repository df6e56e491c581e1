\* The worker beside one client session, two orders, under fairness.
SPECIFICATION LiveSpec
CONSTANTS
  Welcome = 1
  Users = {u1}
  Orders = {o1, o2}
  Clients = {s1}
  Workers = {w1}
  Keys = {}
  NoKey = NoKey
  Kinds = {"membership"}
  Channels = {"wechat"}
  Prices = {1}
  MaxPayments = 1
  MaxRefunds = 1
  MaxRows = 0
PROPERTIES
  NeverPayableAgain
  DueOrdersAreClosed
CHECK_DEADLOCK FALSE
