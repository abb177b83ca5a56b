CONSTANTS
  b1 = b1
  b2 = b2
  loop = loop
  now = now
  e1 = e1
  g1 = g1
  Boxes = {b1, b2}
  Passes = {loop, now}
  Loops = {loop}
  Locals = {e1}
  Theirs = {g1}
  RowIds = {r1, r2, r3}
  MaxAccount = 2
  MaxChange = 2
  MaxPost = 2
  MaxFault = 1
  Scenes <- MCScenes
  None = None
SPECIFICATION FairSpec
INVARIANTS TypeOK TokenCovers NoDoublesNorOrphans
PROPERTIES LocalGetsOut
CHECK_DEADLOCK FALSE
