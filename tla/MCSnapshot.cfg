CONSTANTS
  NoBlock = NoBlock
  MaxHeight = 4
  ForkAt = 2
  StartBlock = 1
  MaxReorgDepth = 4
  ReorgCheckThreshold = 4
  MaxFaults = 2
  Drivers = {"loop", "next", "repo"}
  Interval = 2
  MaxTracked = 3
  CheckInterval = 3
  MaxAttempts = 2
  ExitAt = 4
  FreshTips = {0, 1}
  Blocks <- MCBlocks
  Height <- MCHeight
  Parent <- MCParent
  Keys <- MCKeys
  Updates <- MCUpdates
SPECIFICATION FairSnapSpec
INVARIANTS
  RestoredMatches
  SnapOneChain
PROPERTY SnapCatchesUp
