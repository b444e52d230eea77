CONSTANTS
  c1 = c1
  c2 = c2
  s1 = s1
  s2 = s2
  a = a
  b = b
  g = g
  none = none
  here = here
  Default = c1
  Contexts = {c1}
  Subjects = {s1, s2}
  Here = here
  Empty = none
  CanRead <- AllRead
  Drafts <- LatestRefs
  Modes = {}
  Levels = {}
  SetScopes <- NoScopes
  DefaultLevel = "NONE"
  MaxVersion = 3
  MaxId = 3
SPECIFICATION Spec
INVARIANTS RefbyExact HashSound NoDangling PlanAgrees
CHECK_DEADLOCK FALSE
