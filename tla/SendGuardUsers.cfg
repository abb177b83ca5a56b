\* Two requests of up to two users, with and without keys, under the fairness of the scheduler.
CONSTANTS
  Requests = {r1, r2}
  Callers = {alice, bob}
  Keys = {k1}
  Payloads = {p1}
  NoKey = NoKey
  BadKey = BadKey
  None = None
  Lease = 1
  MaxClock = 2
CHECK_DEADLOCK FALSE
SPECIFICATION FairSpec
INVARIANTS
  ReplayIsGenuine
PROPERTIES
  Settles
