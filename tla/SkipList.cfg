CONSTANTS
  MaxIndex = 18
  FirstHeights = {0, 2}
  FreeGaps = {1, 4}
  FreeNodes = 4
  EvenGap = 2
  Gaps <- MCGaps
  NoNode = NoNode
SPECIFICATION SkipSpec
INVARIANTS SkipsWired StepsAreFew
PROPERTIES FloorIsLinearScan
