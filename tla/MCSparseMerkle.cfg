SPECIFICATION TreeSpec
CONSTANTS
  a = a
  b = b
  c = c
  NoValue = NoValue
  Empty = Empty
  Keys <- MCKeys
  Bits <- MCBits
  v = v
  w = w
  Values <- MCValues
  MaxHeight = 2
  MaxPuts = 4
  MaxRollbacks = 1
  KeysPerBlock = 2
  KeysPerBatch = 1
  FirstIncremental = FALSE
  CachedOverInternals = FALSE
SYMMETRY ValueSymmetry
INVARIANTS RootCanonical LeavesFound RootsPredicted
