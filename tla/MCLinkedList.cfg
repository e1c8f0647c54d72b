CONSTANTS
  Values = {a, b}
  MaxLinks = 4
SPECIFICATION ListSpec
SYMMETRY Symmetry
INVARIANTS
  ListTypeOK
  WalksStayInside
  OneHiddenAtMost
PROPERTIES
  ImplementsList
CHECK_DEADLOCK FALSE
