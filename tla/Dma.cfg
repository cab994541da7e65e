CONSTANTS
  Irqs <- MCIrqs
  NumIrqs <- MCNumIrqs
  Drivers <- MCChannels
  NoCallback = NoCallback
  Channels <- MCChannels
  LineOf <- MCLineOf
  Pages <- MCPages
  MaxStarts = 3
SPECIFICATION Spec
CHECK_DEADLOCK FALSE
INVARIANTS
  WaitSound
  PatientServed
PROPERTY
  CallsReturn
