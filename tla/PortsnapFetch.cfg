SPECIFICATION FairSpec
CONSTANTS
    Path = {"a", "b"}
    Version = {1, 2}
    History <- SecondAgain
    Refuse = {}
    MaxCrash = 4
    TornGzip = TRUE
INVARIANTS IndexNeverEmptied CompleteWhenResumed
PROPERTIES CatchesUp
