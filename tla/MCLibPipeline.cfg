CONSTANTS
  NoBlock = NoBlock
  NoExit = NoExit
  MaxHeight = 5
  ForkAt = 1
  StartBlock = 0
  MaxReorgDepth = 5
  ReorgCheckThreshold = 5
  MaxFaults = 2
  PipelineSize = 2
  ExitHeights = {NoExit, 4}
  Blocks <- MCBlocks
  Height <- MCHeight
  Parent <- MCParent
  Keys <- MCKeys
  Updates <- MCUpdates
SPECIFICATION FairLibSpec
INVARIANTS
  LibOneChain
  LibCursorNotAhead
  LibStopsAtExit
PROPERTY LibCatchesUp
