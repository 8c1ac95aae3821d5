SPECIFICATION GateSpec
CONSTANTS
    Scale = 60
    Num = 3
    Den = 5
    Benchmark <- MCBenchmark
    Contains <- MCContains
    Canonical <- MCCanonical
    Invalid = "invalid"
    Bundles <- MCBundles
    Spare <- MCSpare
    MaxWrites = 2
INVARIANTS
    PassedIsClean
    TargetCoversEveryClass
    OverallIsMeanOfTasks
    AcceptedIsJudged
CHECK_DEADLOCK FALSE
