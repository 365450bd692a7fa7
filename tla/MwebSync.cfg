CONSTANTS
  g = g
  a1 = a1
  a2 = a2
  a3 = a3
  b2 = b2
  b3 = b3
  m1 = m1
  m2 = m2
  m3 = m3
  m4 = m4
  x = x
  None = None
  OutputId <- MCOutputId
  CoinHeight = {0, 1, 2, 3}
  Leaf = {0, 1, 2, 3, 4}
  Blocks <- MCBlocks
  Chain <- MCChain
  Outputs <- MCOutputs
  Unspent <- MCUnspent
  Pending = {m2}
  Rewind = 1
  Setups <- MCSetups
SPECIFICATION Spec
INVARIANTS NoCoinMissed NeverDatedEarly
PROPERTY NoPhantomCoinOnGrowingChain
