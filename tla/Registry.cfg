SPECIFICATION Spec
CONSTANTS
  Threads = {t1, t2}
  Plugins = {p1, p2, p3}
  Contexts = {c1, c2}
  NoThread = none
  MaxCalls = 2
CHECK_DEADLOCK FALSE
SYMMETRY Symmetry
INVARIANTS GuestsAtHome CallableAtHome StraysExplained
PROPERTY FrozenWhileBorrowed
