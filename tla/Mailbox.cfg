CONSTANTS
  Words = 32
  LongBytes = 16
  Depth = 2
  Requests <- MCRequests
  MaxCalls = 2
  MaxOthers = 2
SPECIFICATION Spec
CHECK_DEADLOCK FALSE
INVARIANTS
  ServedAsAsked
  TakenIsAnswer
PROPERTIES
  ProcessReturns
