CONSTANTS
  NoBlock = NoBlock
  MaxHeight = 3
  StartBlock = 1
  RollbackFloor = 1
  Blocks <- MCBlocks
  Height <- MCHeight
  Parent <- MCParent
  Keys <- MCKeys
  Updates <- MCUpdates
SPECIFICATION ReaderSpec
CONSTRAINT
  Undamaged
INVARIANTS
  ListsOrdered
  NoOrphanedUpdate
  ManifestsCover
  NoLostUpdate
  StaleBatchRejected
  ReadsMatchChain
  RInv
PROPERTIES
  NeverSkipsABlock
  LogSpec
