\* At most one hand-over per key, as migration 035 says.
CONSTANTS
  Requests = {r1, r2}
  Callers = {alice}
  Keys = {k1}
  Payloads = {p1}
  NoKey = NoKey
  BadKey = BadKey
  None = None
  Lease = 1
  MaxClock = 2
CHECK_DEADLOCK FALSE
SPECIFICATION RaceSpec
INVARIANTS
  AtMostOnce
