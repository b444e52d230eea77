SPECIFICATION Spec
CONSTANTS
  Procs = {1, 2}
  Requests <- MCRequests
  Users <- MCUsers
  Routes <- MCRoutes
  Aliases <- MCAliases
  Slots = 1
  CacheLimit = 1
INVARIANTS
  ChallengedRightly
  ListingsAgree
  PatternsMean
  ContextKept
PROPERTY EveryLoginEnds
