CONSTANTS
  SpaceSize = 64
  SegSize = 16
  HeaderSize = 8
  NumSpaces = 4
  StructSizes = {4, 8, 20, 40}
  RawSizes = {50}
SPECIFICATION Spec
INVARIANTS
  FreshPointerIsValid
