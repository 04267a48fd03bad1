SPECIFICATION Spec
CONSTANTS
  Attempt = {a1}
  NoOne = no_one
  Overlapping = FALSE
PROPERTY ForeignAlwaysPreserved
CHECK_DEADLOCK FALSE
