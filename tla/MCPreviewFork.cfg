CONSTANTS
  NoValue = NoValue
  MaxHeight = 2
  MaxRollbacks = 0
  Requests = {r1, r2}
  Methods = {"view", "preview", "storage"}
  ViewConcurrency = 1
  Forked = TRUE
SPECIFICATION HostSpec
INVARIANT ViewsConsistent
