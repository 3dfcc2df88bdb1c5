SPECIFICATION AnswerSpec
CONSTANTS
  Offsets = {o1}
  Null = null
  Empty = empty
  Zero = word
  word = word
  junk = junk
  Absent = absent
  Text <- MCText
  Bytes <- MCText
  Config <- MCConfig
  Imports <- OnlyVars
  Trapping <- NoTraps
  Disciplined = TRUE
  MaxFrames = 3
INVARIANT AnswersKept
