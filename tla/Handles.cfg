SPECIFICATION Spec
CONSTANTS
  Bits = 3
  MaxSize = 4
PROPERTIES BlocksReadExactly NothingElseRead
