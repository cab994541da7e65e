CONSTANTS
  Irqs <- MCIrqs
  NumIrqs <- MCNumIrqs
  Drivers = {d1, d2}
  NoCallback = NoCallback
  MaxRaises = 2
SPECIFICATION MCSpec
INVARIANTS
  ActivationsSound
PROPERTIES
  RaisedIsServed
  ProgramResumed
