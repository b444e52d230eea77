CONSTANTS
  c1 = c1
  c2 = c2
  s1 = s1
  s2 = s2
  a = a
  b = b
  g = g
  none = none
  here = here
  Default = c1
  Contexts = {c1, c2}
  Subjects = {s1}
  Here = here
  Empty = none
  CanRead <- AllRead
  Drafts <- OnePlain
  Modes = {"READWRITE", "READONLY", "READONLY_OVERRIDE", "IMPORT"}
  Levels = {"NONE"}
  SetScopes <- MixedScopes
  DefaultLevel = "BACKWARD"
  MaxVersion = 2
  MaxId = 2
SPECIFICATION Spec
PROPERTIES ReadonlyFreezes
CHECK_DEADLOCK FALSE
