CONSTANTS
  SpaceSize = 96
  SegSize = 16
  HeaderSize = 8
  NumSpaces = 4
  StructSizes = {16}
  RawSizes = {}
  Slots = 2
  Offsets = {0}
  SizeMod = 24
  MaxObjs = 2
  MaxGcs = 1
SPECIFICATION GcSpec
INVARIANTS NewObjectElsewhere
CHECK_DEADLOCK FALSE
