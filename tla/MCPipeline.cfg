CONSTANTS
  NoBlock = NoBlock
  NoExit = NoExit
  MaxHeight = 5
  ForkAt = 2
  StartBlock = 0
  MaxReorgDepth = 3
  ReorgCheckThreshold = 2
  MaxFaults = 1
  PrefetchRequested = 5
  ExitHeights = {NoExit, 5}
  Blocks <- MCBlocks
  Height <- MCHeight
  Parent <- MCParent
  Keys <- MCKeys
  Updates <- MCUpdates
SPECIFICATION FairPipeSpec
INVARIANTS
  PipelineOneChain
  NoErrorWithoutCause
  InFlightBounded
  StopsAtExit
PROPERTY PipelineCatchesUp
