SPECIFICATION Spec
CONSTANTS
    Path = {"a", "b"}
    Version = {1, 2, 3}
    History <- ThreeSnapshots
    Refuse = {}
    MaxCrash = 1
    TornGzip = FALSE
INVARIANTS IndexNeverEmptied
