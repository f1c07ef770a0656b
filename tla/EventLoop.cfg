SPECIFICATION FairSpec
CONSTANTS
    w1 = w1
    w2 = w2
    w3 = w3
    Timer = {t1, t2}
    Watcher = {w1, w2, w3}
    Number <- TwoSignals
    File = {f1}
    MaxNow = 3
    MaxDelay = 2
    MaxOp = 5
INVARIANTS NoUseAfterFree KnoteNamesLive TimerIsArmed SignalReachesAll
PROPERTIES TimersComeDue
CHECK_DEADLOCK FALSE
