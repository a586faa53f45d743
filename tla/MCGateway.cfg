SPECIFICATION FairSpec
CONSTANTS
  Byte = {0, 1, 255}
  LastChannel = 2
  LutMax = 6
  MaxSym = 20
  Outputs = 2
  Datagrams <- MCDatagrams
  Configs <- MCConfigs
  RxCap = 1
  MaxPerTick = 2
  MaxArrivals = 2
  MaxFaults = 1
INVARIANTS
  IInv
  LineIsDatagram
PROPERTIES
  LatestReachesLine
  KeepsRefreshing
