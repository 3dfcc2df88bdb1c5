SPECIFICATION Spec
CONSTANTS
  Offsets = {o1, o2, o3}
  Null = null
  Empty = empty
  Zero = word
  word = word
  junk = junk
  Absent = absent
  Text <- MCText
  Bytes <- MCBytes
  Config <- MCConfig
  Imports <- MCImports
  Trapping <- NoTraps
  Disciplined = TRUE
  MaxFrames = 2
SYMMETRY Blocks
INVARIANTS TypeOK InputRegister
PROPERTIES HarmIsStaleOutput LossCauses
