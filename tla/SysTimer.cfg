CONSTANTS
  W <- MCW
  Horizon <- MCHorizon
  Delays <- MCDelays
SPECIFICATION TimerSpec
INVARIANTS
  TickNotTorn
  DelayElapsed
  DifferenceIsElapsed
PROPERTY
  TimerReturns
