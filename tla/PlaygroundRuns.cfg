\* The playground's messages and streams, and the page that lags behind them.
SPECIFICATION Spec
CONSTANTS
  MaxRequests = 3
  MaxOverlapped = 2
INVARIANTS TypeOK OwnAnswers UnfinishedCanBeStopped
PROPERTY FinishedStays
