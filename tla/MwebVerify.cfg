CONSTANTS
  Chains <- WellFormed
  Served <- MCServed
  Mine = {1, 3, 4, 6, 99}
  Phantom <- MCPhantom
  BatchSizes = {2, 4}
  MAX_BUFFERED_ENTRIES = 4
  Tip = Tip
  Stale = Stale
SPECIFICATION Spec
INVARIANTS AcceptedBatchIsTrue HonestIsAccepted AnchoredPassIsExact
CHECK_DEADLOCK FALSE
