SPECIFICATION Spec
CONSTANTS
  card = card  alipay = alipay  wrong = wrong  h1 = h1  h2 = h2  n1 = n1  n2 = n2
  Nobody = Nobody  NoOrder = NoOrder
  Orders = {card, alipay}
  Stripe = {card}
  Mismatched = {card}
  Handlers = {h1, h2}
  Nodes = {n1, n2}
  NodeOf <- Apart
  Shards = {0}
  ShardOf <- OneShard
  RowLocks = FALSE
  DbFaults = TRUE  Lossy = TRUE  MaxCrashes = 1
INVARIANTS TypeOK CreditedOnce CreditIsPaidFor AckedIsCredited
PROPERTIES StatusIsFinal
