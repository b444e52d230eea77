CONSTANTS
    w1 = w1  w2 = w2  c1 = c1  c2 = c2  c3 = c3  s1 = s1  s2 = s2
    Writers = {w1, w2}
    Contexts = {c1, c2, c3}
    Stripes = {s1, s2}
    Stripe <- MCStripe
    Global = Global
    Exporters = Exporters
    NoOne = NoOne
    MaxMutations = 3
    MaxCrashes = 1
    MaxEvents = 2
SPECIFICATION FairSpec
INVARIANTS FreshPlans LogDense
PROPERTIES ImplementsLedger EveryMutationEnds
CHECK_DEADLOCK FALSE
