SPECIFICATION Spec
CONSTANTS
  desk = desk
  tower = tower
  phone = phone
  none = none
  Outputs = 2
  Slots = 2
  LastChannel = 2
  MaxLevel = 2
  Ip <- MCIp
  NoIp = none
  Universe = {0, 1}
  Packets <- MCPackets
  Configs <- MCConfigs
  Settings <- MCSettings
  ClockMod = 8
  MaxTicks = 3
  MaxPackets = 3
  MaxEdits = 1
INVARIANTS
  IInv
  CacheIsLastPacket
PROPERTIES
  MergeFollowsSources
  EvictionSparesActive
CHECK_DEADLOCK FALSE
