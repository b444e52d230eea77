SPECIFICATION Spec
CONSTANTS
    Families <- MCFamilies
    Directories <- MCDirectories
    BatchRows = 1
    SyncWrites = FALSE
    MaxUnsynced = 1
    MaxCrashes = 1
    Contents <- OtherContent
    Slots = {"s1", "s2"}
    Readers = {"r1"}
    NoSlot = "-"
    Nobody = Nobody
    MaxEntries = 2
INVARIANT ParseIsOfRecord
