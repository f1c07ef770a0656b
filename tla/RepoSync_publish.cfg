SPECIFICATION FairSyncSpec
CONSTANTS
    p1 = p1
    Port = {p1}
    MaxBuild = 1
    MaxCrash = 1
    AddFails = FALSE
    MaxOther = 1
    Obsolete <- PortTree
PROPERTIES PublishedOrStuck
