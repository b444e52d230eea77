CONSTANTS
  c1 = c1
  c2 = c2
  s1 = s1
  s2 = s2
  a = a
  b = b
  g = g
  none = none
  here = here
  Default = c1
  Contexts = {c1}
  Subjects = {s1, s2}
  Here = here
  Empty = none
  CanRead <- AllRead
  Drafts <- Imports
  Modes = {"READWRITE", "IMPORT"}
  Levels = {}
  SetScopes <- SubjectScope
  DefaultLevel = "NONE"
  MaxVersion = 2
  MaxId = 2
SPECIFICATION Spec
INVARIANTS NoGarbage NumberTracksVersion
PROPERTIES ContentFixed
CHECK_DEADLOCK FALSE
