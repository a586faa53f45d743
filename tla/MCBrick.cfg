SPECIFICATION FairSpec
CONSTANTS
  Outputs = 2
  Hardware <- BrokenHardware
  CountMod = 4
  RetryMax = 2
  MaxCuts = 0
  MaxFaults = 0
  MaxUploads = 0
PROPERTIES
  FaultyOutputIsolated
