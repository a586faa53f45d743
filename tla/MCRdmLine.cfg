SPECIFICATION LineSpec
CONSTANTS
  UidMax = 65535
  UidBytes = 2
  Devices = {23, 4101, 4102, 65535}
  MaxDevices = 3
  Capacity = 17
  Half <- MCHalf
  Extra = 8
  Controller = 77
  MaxFaults = 2
INVARIANTS
  LineIInv
  QuietSweepComplete
  OneFaultNoPhantom
PROPERTIES
  RefinesSweep
  SweepEnds
CHECK_DEADLOCK FALSE
