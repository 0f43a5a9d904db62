CONSTANTS
  NoBlock = NoBlock
  MaxHeight = 3
  ForkAt = 1
  StartBlock = 1
  RollbackFloor = 1
  MaxReorgDepth = 2
  HashScanWindow = 2
  ReorgCheckThreshold = 3
  MaxAttempts = 2
  MaxFaults = 1
  MovePhases = {"next"}
  FirstBlockFails = FALSE
  Shrink = FALSE
  FlipBack = FALSE
  WriteFaults = FALSE
  Blocks <- MCBlocks
  Height <- MCHeight
  Parent <- MCParent
  Keys <- MCKeys
  Updates <- MCUpdates
SPECIFICATION FairSpec
PROPERTY CatchesUp
