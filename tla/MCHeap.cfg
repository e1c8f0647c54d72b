CONSTANTS
  SpaceSize = 64
  SegSize = 16
  HeaderSize = 8
  NumSpaces = 4
  StructSizes = {4, 20, 40}
  RawSizes = {8, 50, 256}
SPECIFICATION Spec
INVARIANTS
  TypeOK
  WindowTiles
  StructsInActiveSpaces
  SpaceIndexInBounds
  OverrunBounded
  DataPointerMapped
  MapBelowTop
PROPERTIES
  FrontSteps
  NoStructOutsideActive
  ImplementsArena
CHECK_DEADLOCK FALSE
