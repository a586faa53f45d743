SPECIFICATION RingFairSpec
CONSTANTS
  Cap = 3
  Laps = 2
  Cell = {1, 2}
  Byte = {0, 1}
  NoPacket = NoPacket
INVARIANTS
  RingIInv
PROPERTIES
  HeadLeaves
  RefinesQueue
