CONSTANTS
  W <- MCW
  HeapBase <- MCHeapBase
  HeapSize <- MCHeapSize
  NumEntries <- MCNumEntries
  Requests <- MCRequests
SPECIFICATION Spec
INVARIANTS
  TableSound
  CallersDisjoint
