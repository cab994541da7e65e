CONSTANTS
  BannerLength = 7
  Digits = 1
  SizeBytes = 2
  FileLength = 2
  OtherSizes = {0, 1, 3}
  RxDepth = 2
  BUF_SIZE = 2
  MaxTroubles = 3
SPECIFICATION Spec
CHECK_DEADLOCK FALSE
INVARIANTS
  KernelWhole
  OnlyWhenAsked
  InputKept
PROPERTIES
  LoadEnds
