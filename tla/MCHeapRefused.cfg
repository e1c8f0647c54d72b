CONSTANTS
  SpaceSize = 64
  SegSize = 16
  HeaderSize = 8
  NumSpaces = 4
  StructSizes = {4}
  RawSizes = {50}
SPECIFICATION Spec
PROPERTIES
  RefusedOnlyWhenFull
CHECK_DEADLOCK FALSE
