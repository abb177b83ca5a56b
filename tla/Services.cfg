CONSTANTS
  b1 = b1
  b2 = b2
  a1 = a1
  a2 = a2
  k1 = k1
  s1 = s1
  s2 = s2
  s0 = s0
  t1 = t1
  c1 = c1
  Boxes = {b1, b2}
  Addresses = {a1, a2}
  Passwords = {p1, p2}
  Keys = {k1, k2}
  Calls = {r1, r2}
  Msgs = {1, 2, 3, 4, 5}
  Mail = {1, 2, 3, 4, 5}
  Letters <- MCLetters
  Senders = {s1, s2, s0}
  NoSender = s0
  Patterns <- MCPatterns
  Workers = {w1, w2}
  Batch = 1
  Endpoints = {e1, e2}
  MaxSubs = 1
  Chats = {c1}
  MinGap = 2
  MaxWait = 2
  Retention = 1
  Cooldown = 2
  MaxTime = 4
  Scenes <- MCScenes
  None = None
  Gone = Gone
SYMMETRY Symmetry
SPECIFICATION Spec
INVARIANTS TypeOK CredentialsAgree TabsHonest PushToOwner GapKept
CHECK_DEADLOCK FALSE
