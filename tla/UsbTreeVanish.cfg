CONSTANTS
  PortCount <- MCLeafOnly
  DevIds <- MCTwoIds
  MaxDevices = 2
  Fragile = {}
  MayVanish = TRUE
  MayBounce = FALSE
  MaxChanges = 1
  MaxFailures = 0
SPECIFICATION Spec
INVARIANTS
  NoFurtherRequests
CHECK_DEADLOCK FALSE
