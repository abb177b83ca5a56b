\* Two calls, a capability and a confirmation of an admin's, over two days.
CONSTANTS
  Calls = {c1, c2}
  Grants = {g1}
  Extra = {k1}
  Boxes = {ann, bob}
  Callers = {x}
  Payloads = {p1, p2}
  Limits = {0, 1}
  DayLength = 1
  Life = {1}
  Window = 1
  SubjectOf <- MCSubjectOf
  LookBack = 1
  MaxRows = 1
  MaxMoves = 1
  MaxClock = 1
  None = None
SYMMETRY Symmetry
CHECK_DEADLOCK FALSE
SPECIFICATION Spec
INVARIANTS
  TypeOK
  ConfirmedOnce
  WithinBudget
  NoStaleReply
  NoBlindRepeat
PROPERTIES
  KeepsOneTime
