CONSTANTS
  g = g
  x = x
  a1 = a1
  a2 = a2
  a3 = a3
  b2 = b2
  b3 = b3
  b4 = b4
  t1 = t1
  t2 = t2
  t3 = t3
  t4 = t4
  None = None
  Keep = Keep
  MaxHeight = 4
  Genesis = g
  Foreign = x
  Block <- MCBlock
  Branches <- MCBranches
  Parent <- MCParent
  Linked <- NoneLinked
  Tx = {t1, t2, t3, t4}
  TxsIn <- TxsInSameHeight
  SpksOf <- MCSpksOf
  SpenderOf <- MCSpenderOf
  StartTip = 2
  StartBranch <- BranchA
  InMempool = {t2}
  MaxMoves = 2
  MaxJobs = 2
  LastSpk = 5
  LastRevealed = 1
  StopGap = 2
  BatchSize = 3
  CHAIN_SUFFIX_LENGTH = 2
  AskedTxs = {t2}
  AskedOuts = {t2}
  StartHeights = {0, 4}
  Wallets <- MCWallets
SPECIFICATION Spec
INVARIANT AnchorsAreCurrent
CHECK_DEADLOCK FALSE
