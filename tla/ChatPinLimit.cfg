CONSTANTS
  u1 = u1
  u2 = u2
  s1 = s1
  s2 = s2
  t1 = t1
  t2 = t2
  t3 = t3
  o1 = o1
  o2 = o2
  None = None
  Users = {u1, u2}
  Creator = u1
  Kinds = {"group"}
  Contents = {"text", "single", "multi", "list"}
  MaxId = 2
  MaxBoards = 1
  Options = {o1, o2}
  Tasks = {t1, t2}
  MaxTasks = 2
  MaxPins = 1
  Sessions = {s1, s2}
SPECIFICATION Spec
INVARIANT PinLimit
CHECK_DEADLOCK FALSE
CONSTRAINT SmallOverlaps
SYMMETRY Symmetry
