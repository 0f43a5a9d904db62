CONSTANTS
  NoBlock = NoBlock
  MaxHeight = 3
  ForkAt = 0
  StartBlock = 0
  RollbackFloor = 0
  MaxReorgDepth = 2
  HashScanWindow = 2
  ReorgCheckThreshold = 1
  MaxAttempts = 2
  MaxFaults = 4
  MovePhases = {"down", "heal", "healing", "next", "reorg", "undo", "fetch", "apply"}
  FirstBlockFails = FALSE
  Shrink = TRUE
  FlipBack = FALSE
  WriteFaults = TRUE
  Blocks <- MCBlocks
  Height <- MCHeight
  Parent <- MCParent
  Keys <- MCKeys
  Updates <- MCUpdates
SPECIFICATION EngineSpec
INVARIANTS
  OneChain
  BestChainComplete
  WalksEndOnRecords
PROPERTIES
  StoreSpec
  HealReconciles
