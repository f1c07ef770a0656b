SPECIFICATION SyncSpec
CONSTANTS
    p1 = p1
    Port = {p1}
    MaxBuild = 2
    MaxCrash = 0
    AddFails = TRUE
    MaxOther = 1
    Obsolete <- StatusFile
INVARIANTS NeverOlder QueueKeepsWork SyncInv
PROPERTIES MarksEndMerges
