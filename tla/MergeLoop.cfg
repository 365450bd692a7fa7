CONSTANTS
  g = g
  x = x
  a1 = a1
  a2 = a2
  a3 = a3
  b1 = b1
  b2 = b2
  c2 = c2
  None = None
  Keep = Keep
  MaxHeight = 3
  Genesis = g
  Foreign = x
  Block <- MCBlock
  Branches <- MCBranches
  Parent <- MCParent
  Linked <- Headers
SPECIFICATION LoopSpec
INVARIANTS LoopComputesMerge LoopKeepsPromises
PROPERTIES Terminates
CHECK_DEADLOCK FALSE
