CONSTANTS
  Values = {a, b}
  MaxLinks = 4
SPECIFICATION ListSpec
SYMMETRY Symmetry
PROPERTIES
  AppendsAtEnd
CHECK_DEADLOCK FALSE
