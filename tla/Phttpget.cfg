SPECIFICATION FairSpec
CONSTANTS
    argc = 4
    Room = 1
    Kind <- Replies
    Network = {"polite", "chunking", "failing"}
INVARIANTS RightFiles Outstanding NeverGivesUp
PROPERTIES Finishes Terminates
