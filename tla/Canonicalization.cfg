CONSTANTS
  Txid = {1, 2, 3, 4, 5}
  Spk = {"spk"}
  Vout = {0, 1}
  Time = {1, 2}
  None = None
  COINBASE_MATURITY = 2
  Block <- MCBlock
  Setups <- MCSetups
SPECIFICATION Spec
INVARIANTS NoDoubleSpend DecidedByPrecedence BalanceAddsUp PositionsAreBacked
PROPERTIES Terminates
