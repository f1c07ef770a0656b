SPECIFICATION FairSpec
CONSTANT MaxKill = 3
INVARIANTS PhaseIsComplete
PROPERTIES FinishedStays GetsDone
