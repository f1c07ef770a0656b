SPECIFICATION FairSpec
CONSTANTS
    Port = {p1}
    MaxBuild = 2
    MaxCrash = 2
    AddFails = TRUE
INVARIANTS NoLostWork QueueInv
PROPERTIES CommitMatchesMessage ImplementsLedger EventuallyCommitted QueueDrains
