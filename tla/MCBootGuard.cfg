SPECIFICATION FairSpec
CONSTANTS
  Outputs = 2
  Hardware <- MCHardware
  CountMod = 4
  RetryMax = 2
  MaxCuts = 2
  MaxFaults = 1
  MaxUploads = 2
INVARIANTS
  IInv
  CrashesCounted
  FallbackExists
PROPERTIES
  RollbackEarned
  DeviceComesUp
  TrialEnds
