SPECIFICATION FairSpec
CONSTANTS
    x1 = x1
    d1 = d1
    Names = {x1}
    Keys <- TwoSubjects
    Refs <- BReferencesA
    Selected <- TwoSubjects
    Purged <- TwoSubjects
    Taken <- OnlyB
    Dests = {d1}
    Ops <- All
    Batch = 2
    MaxLog = 4
    MaxOps = 3
    MaxWork = 5
    MaxFaults = 1
INVARIANTS TrimmedOnlyAtZero CaughtUp
PROPERTIES WaitsForOperator Converges
