\* Three requests race on one key, with every crash, panic and lost reply.
CONSTANTS
  Requests = {r1, r2, r3}
  Callers = {alice}
  Keys = {k1}
  Payloads = {p1, p2}
  NoKey = NoKey
  BadKey = BadKey
  None = None
  Lease = 0
  MaxClock = 1
SYMMETRY Symmetry
CHECK_DEADLOCK FALSE
SPECIFICATION RaceSpec
INVARIANTS
  TypeOK
  SingleOwner
  KeyBinds
PROPERTIES
  RowsSettle
  KeepsPromise
