SPECIFICATION Spec
CONSTANTS
  MaxLength = 2
  MaxItems = 2
  Words = 8
INVARIANT UnwrapStart
