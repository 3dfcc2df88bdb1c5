SPECIFICATION RequestSpec
CONSTANTS
  Offsets = {o1, o2, o3}
  Null = null
  Empty = empty
  Zero = word
  word = word
  junk = junk
  Absent = absent
  Text <- MCText
  Bytes <- MCBytes
  Config <- MCConfig
  Imports <- MCImports
  Trapping <- HostTraps
  Disciplined = FALSE
INVARIANT GuestBlocksKept
PROPERTY ImplementsVarStore
