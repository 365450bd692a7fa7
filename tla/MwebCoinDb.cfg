CONSTANTS
  OutputId = {m, n}
  CoinHeight = {1, 2}
  Leaf = {0}
  None = None
  Backend = "sqlite"
  MayUnspend = TRUE
SPECIFICATION BookSpec
INVARIANTS ReloadMatches
