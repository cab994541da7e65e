CONSTANTS
  W <- MCW
  Base <- MCBase
  Size <- MCSize
  PageReserve <- MCPageReserve
  InitialReserve <- MCInitialReserve
  HdrSize <- MCHdrSize
  BlockAlign <- MCBlockAlign
  BucketSizes <- MCBucketSizes
  Requests <- MCRequests
SPECIFICATION Spec
INVARIANTS
  BlocksDisjoint
  FreePointersSound
  FreeListsComplete
  ReserveIntact
PROPERTY
  ImplementsHeap
