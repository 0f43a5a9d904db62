CONSTANTS
  NoBlock = NoBlock
  MaxHeight = 3
  ForkAt = 1
  StartBlock = 1
  RollbackFloor = 1
  MaxReorgDepth = 2
  HashScanWindow = 2
  ReorgCheckThreshold = 1
  MaxAttempts = 2
  MaxFaults = 5
  MovePhases = {"down", "heal", "healing", "next", "reorg", "undo", "fetch", "apply"}
  FirstBlockFails = FALSE
  Shrink = TRUE
  FlipBack = FALSE
  WriteFaults = FALSE
  Blocks <- MCBlocks
  Height <- MCHeight
  Parent <- MCParent
  Keys <- MCKeys
  Updates <- MCUpdates
SPECIFICATION FairSpec
PROPERTIES
  RestartRecovers
  CommitsOntoParent
