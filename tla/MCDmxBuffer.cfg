SPECIFICATION FairSpec
CONSTANTS
  dmxTx = dmxTx
  httpd = httpd
  Readers = {dmxTx}
  LastSlot = 1
  Byte = {0, 1}
  SeqMod = 8
  MaxRetries = 2
  MaxLag = 3
  TornMod = 2
  NoFrame = NoFrame
INVARIANTS
  IInv
PROPERTIES
  SnapshotIsWhole
  RefinesAtomicFrame
  SnapshotTerminates
  QuietBufferIsReadable
CHECK_DEADLOCK FALSE
