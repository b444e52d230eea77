CONSTANTS
  c1 = c1
  c2 = c2
  s1 = s1
  s2 = s2
  a = a
  b = b
  g = g
  none = none
  here = here
  Default = c1
  Contexts = {c1}
  Subjects = {s1, s2}
  Here = here
  Empty = none
  CanRead <- SomeRead
  Drafts <- Numbered
  Modes = {}
  Levels = {}
  SetScopes <- NoScopes
  DefaultLevel = "BACKWARD_TRANSITIVE"
  MaxVersion = 3
  MaxId = 3
SPECIFICATION Spec
SYMMETRY AnySubject
INVARIANTS TransitivelyCompatible
PROPERTIES Idempotent
CHECK_DEADLOCK FALSE
