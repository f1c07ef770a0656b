SPECIFICATION FairTreeSpec
CONSTANTS
    Path = {"a", "b", "c"}
    Version = {1, 2}
    History <- ThreeSnapshots
    Refuse = {"c"}
    MaxCrash = 0
    TornGzip = FALSE
    Chosen = {"b"}
    MaxKill = 1
INVARIANTS CompleteSnapshot TreeAgrees
PROPERTIES NeverDowngrades TreeCatchesUp
