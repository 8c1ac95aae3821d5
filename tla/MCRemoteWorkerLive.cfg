SPECIFICATION FairSpec
CONSTANTS
    c1 = c1
    c2 = c2
    d1 = d1
    d2 = d2
    Caller <- MCCaller
    Doc = {d1}
    NoDoc = NoDoc
    MaxChildren = 1
    MaxLaunches = 2
    MaxWrites = 1
PROPERTY
    RecordedJobsSettle
