CONSTANTS
  PortCount <- MCWide
  DevIds <- MCFourIds
  MaxDevices = 7
  Fragile <- MCFragile
  MayVanish = FALSE
  MayBounce = FALSE
  MaxChanges = 1
  MaxFailures = 2
SPECIFICATION FairSpec
INVARIANTS
  TreeSound
  PassDone
PROPERTY CallsReturn
