SPECIFICATION LastSpec
CONSTANTS
  Offsets = {o1, o2, o3}
  Null = null
  Empty = empty
  Zero = word
  word = word
  junk = junk
  Absent = absent
  Text <- MCText
  Bytes <- MCBytes
  Config <- MCConfig
  Imports <- OnlyConfig
  Trapping <- CallTraps
  Disciplined = TRUE
  MaxFrames = 3
SYMMETRY Blocks
INVARIANTS CallsKeepGuestBlocks InputsIntact OutputsIntact InputNeverDangles
PROPERTIES ReturnsOwnOutput ImplementsCallResults
