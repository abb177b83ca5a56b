CONSTANTS
  b1 = b1
  b2 = b2
  s1 = s1
  h1 = h1
  h2 = h2
  i1 = i1
  i2 = i2
  Boxes = {b1, b2}
  Subjects = {s1}
  Msgs = {1, 2, 3, 4}
  Handlers = {h1, h2}
  Imports = {i1, i2}
  Files <- MCFiles
  MaxTime = 2
  MaxTask = 3
  Scenes <- MCScenes
  None = None
  Gone = Gone
SPECIFICATION Spec
INVARIANTS TypeOK FlagHonest MirrorFollows InOnePlace ImportComplete
CHECK_DEADLOCK FALSE
