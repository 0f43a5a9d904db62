CONSTANTS
  NoValue = NoValue
  Keys <- MCKeys
  Programs <- MCPrograms
  MaxHeight = 3
  MaxFaults = 3
SPECIFICATION FairRunnerSpec
INVARIANT EffectsExact
PROPERTY IndexCompletes
