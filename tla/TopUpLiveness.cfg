SPECIFICATION FairSpec
CONSTANTS
  card = card  alipay = alipay  wrong = wrong  h1 = h1  h2 = h2  n1 = n1  n2 = n2
  Nobody = Nobody  NoOrder = NoOrder
  Orders = {card}
  Stripe = {card}
  Mismatched = {}
  Handlers = {h1, h2}
  Nodes = {n1}
  NodeOf <- Together
  Shards = {0}
  ShardOf <- OneShard
  RowLocks = TRUE
  DbFaults = TRUE  Lossy = TRUE  MaxCrashes = 1
PROPERTIES PaymentArrives LocksAreReleased
