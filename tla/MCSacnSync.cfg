SPECIFICATION FairSpec
CONSTANTS
  Outputs = 2
  Universe = {0, 1, 2}
  Configs <- MCConfigs
  SyncValues = {0}
  SocketCap = 1
  PollLimit = 1
  RingCap = 2
  ClockMod = 5
  Grace = 1
  FrameMod = 3
  Endless = FALSE
  MaxEdits = 1
INVARIANTS
  IInv
PROPERTIES
  NeverOlder
  NoEarlyCommit
  StagedFrameLeaves
CHECK_DEADLOCK FALSE
