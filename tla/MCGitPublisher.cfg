SPECIFICATION GitSpec
CONSTANTS
    Path = {"mine", "theirs"}
    Covered = {"mine"}
    Content = {1, 2}
    Absent = 0
    MaxCalls = 2
    MaxSteps = 4
INVARIANTS
    TaskCommitsAreConfined
    ReturnedIsPublished
    ReturnedHoldsTheWork
CHECK_DEADLOCK FALSE
