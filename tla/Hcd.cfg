CONSTANTS
  Messages <- MCMessages
  Lengths <- MCLengths
  Addresses <- MCAddresses
  MaxPortEvents = 1
SPECIFICATION MCSpec
CHECK_DEADLOCK FALSE
INVARIANTS
  MessageSound
PROPERTIES
  PortUndisturbed
  CallsReturn
