CONSTANTS
  SpaceSize = 96
  SegSize = 16
  HeaderSize = 8
  NumSpaces = 4
  StructSizes = {12,16}
  RawSizes = {8, 24}
  Slots = 3
  Offsets = {0}
  SizeMod = 24
  MaxObjs = 3
  MaxGcs = 2
SPECIFICATION GcSpec
INVARIANTS
  GcTypeOK HeaderFound CleanRootsMoved CleanNeverStuck CleanCollects DeleteKillsPointers
CHECK_DEADLOCK FALSE
