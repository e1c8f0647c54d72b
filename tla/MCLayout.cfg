CONSTANTS
  SizeMod = 32
  LayoutSpan = 64
  FooterTag = 162
  MaxBytes = 32
  MaxLayoutBits = 6
  Counts = {0, 1, 3}
  MaxTokens = 3
  MaxMoves = 2
  Addresses = {0, 20, 33}
SPECIFICATION Spec
INVARIANTS
  TypeOK PointersKept SizeKept NeverLost HeaderIsNoFooter ForwardFound
CHECK_DEADLOCK FALSE
