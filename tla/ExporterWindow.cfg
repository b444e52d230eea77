SPECIFICATION Spec
CONSTANTS
    x1 = x1
    d1 = d1
    Names = {x1}
    Keys <- TwoSubjects
    Refs <- BReferencesA
    Selected <- TwoSubjects
    Purged <- TwoSubjects
    Taken = {}
    Dests = {d1}
    Ops = {"create"}
    Batch = 2
    MaxLog = 1
    MaxOps = 1
    MaxWork = 5
    MaxFaults = 0
INVARIANT CopiesEveryVersion
