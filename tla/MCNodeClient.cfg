CONSTANTS
  Callers = {c1, c2}
  Blocks = {x, y}
  Nobody = Nobody
  Attempts = 3
  MaxFaults = 2
  MaxRotations = 1
SPECIFICATION Spec
INVARIANTS
  BlockIsTheOneNamed
  FailsForCause
  TunnelsBounded
PROPERTIES
  Served
