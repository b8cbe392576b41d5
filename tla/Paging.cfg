CONSTANTS
  a = a  b = b  c = c
  Rows = {a, b, c}
  Sizes = {1, 2}
  MaxClock = 3

SPECIFICATION Spec
SYMMETRY Ids
INVARIANTS
  MissesNothing
  RepeatsBounded
