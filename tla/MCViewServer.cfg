CONSTANTS
  NoValue = NoValue
  MaxHeight = 2
  MaxRollbacks = 1
  Requests = {r1, r2}
  Methods = {"view", "preview", "storage"}
  ViewConcurrency = 1
  Forked = FALSE
SPECIFICATION FairHostSpec
INVARIANTS
  PermitsBalance
  ViewsConsistent
PROPERTY NoOrphans
