SPECIFICATION Spec
CONSTANTS
  g = g
  s = s
  a = a
  c = c
  Global <- MCGlobal
  Secret = {s}
  Own <- MCOwn
  Legacy = {a, c}
  Val = {0, 1, 2}
  InRange <- MCInRange
  Older <- MCOlder
  Kind <- MCKind
  Chip = "ESP32S3"
  Psram = TRUE
  BaseLines <- MCBaseLines
  BoardLines <- MCBoardLines
  BoardLed <- MCBoardLed
  Mask = 1
  Absent = Absent
  MaxCuts = 1
  MaxFaults = 1
INVARIANTS
  IInv
  ExportImports
PROPERTIES
  StartRestores
