SPECIFICATION FairSpec
CONSTANTS
  Ssids = {"home", "a long name", "many blanks"}
  Psks = {"key", "64 digits", ""}
  Encoded <- MCEncoded
  Wide = {"many++blanks", "64 digits"}
  Clip <- MCClip
  Long = {"a+long+name"}
  Empty = ""
  None = None
  Air <- MCAir
  MaxRetry = 2
  MaxEvents = 3
  MaxPosts = 1
  MaxScans = 1
  MaxCuts = 1
  MaxFaults = 1
INVARIANTS
  IInv
  StationIsAssociated
  FallbackReady
PROPERTIES
  ConnectsAsAccepted
  AcceptedIsTried
  Rejoins
