CONSTANTS
  Chars = {"/", "a"}
  MaxLen = 3
SPECIFICATION Spec
INVARIANT SeparatorsFound
CHECK_DEADLOCK FALSE
