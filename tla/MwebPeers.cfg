CONSTANTS
  Addresses <- MCAddresses
  Healths <- MCHealths
  WANT_PEERS = 2
  MWEB_SERVE_BURST = 2
  MAX_CONSECUTIVE_THROTTLED_ROUNDS = 2
  MAX_ATTEMPTS = 2
  BatchSize = 2
  LeavesAt <- MCLeavesAt
  MaxTip = 2
  None = None
SPECIFICATION Spec
INVARIANTS NoLeafSkipped BansAreDeserved
PROPERTIES FailoverFindsGoodPeer NewTipIsSynced
CHECK_DEADLOCK FALSE
