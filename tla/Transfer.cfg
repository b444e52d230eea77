CONSTANTS
  c1 = c1
  s1 = s1
  s2 = s2
  a = a
  b = b
  n = n
  none = none
  here = here
  Default = c1
  Contexts = {c1}
  Subjects = {s1, s2}
  Here = here
  Empty = none
  CanRead <- MCRead
  Drafts <- MCDrafts
  Modes = {"READONLY_OVERRIDE"}
  Levels = {"FULL"}
  SetScopes <- MCScopes
  DefaultLevel = "NONE"
  MaxVersion = 2
  MaxId = 3
  ContextOrder <- MCContexts
  SubjectOrder <- MCOrder
  Normal <- MCNormal
  Tools = {"local", "remote", "migrate"}
  Requests = 4
  Attempts = 2
  Losses = 1
SPECIFICATION TransferSpec
INVARIANTS CopyIsComplete RefusedOnlyForCause TextKept
CHECK_DEADLOCK FALSE
