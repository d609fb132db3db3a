SPECIFICATION FairSpec
CONSTANTS
  c1 = c1  c2 = c2  c3 = c3  refund = refund  cache = cache  log = log  ticker = ticker  w1 = w1  w2 = w2
  NoTask = NoTask
  Tasks = {refund, cache, log, ticker}
  Clients = {c1, c2, c3}
  Submits <- MCSubmits
  ChildOf <- MCChildOf
  Nested = {refund}
  Endless = {ticker}
  Workers = {w1, w2}
  QueueSize = 2
  IdleExits = TRUE
INVARIANTS TypeOK EachTaskOnce WaitIsExact
PROPERTIES TasksRunOrAreLeft SubmissionsReturn NextSubmissionRevives
CHECK_DEADLOCK FALSE
