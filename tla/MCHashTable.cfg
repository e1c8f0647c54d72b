CONSTANTS
  Keys <- MCKeys
  Values = {NULL, a}
  NULL = NULL
  InitialCapacity = 5
SPECIFICATION TableSpec
INVARIANTS
  TableTypeOK
  SizeCounts
  LookupFinds
PROPERTIES
  ImplementsMap
CHECK_DEADLOCK FALSE
