CONSTANTS
  Numbers = {1, 2, 3}
  Models <- MCModels
  LitBy <- MCLitBy
  MaxOfKind = 2
  MaxKeys = 2
  LedChoices = {{}, {2, 9}}
  Half = 2
SPECIFICATION MCSpec
CHECK_DEADLOCK FALSE
INVARIANTS
  RegistryAgrees
  KeysAsReported
  LedsAsAsked
  DescribedAsMeant
  FieldsFit
