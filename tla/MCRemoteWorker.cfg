SPECIFICATION Spec
CONSTANTS
    c1 = c1
    c2 = c2
    d1 = d1
    d2 = d2
    Caller <- MCCaller
    Doc <- MCDoc
    NoDoc = NoDoc
    MaxChildren = 2
    MaxLaunches = 2
    MaxWrites = 2
SYMMETRY MCSymmetry
INVARIANTS
    EvidenceFrozen
PROPERTIES
    QuietSuccessStays
    ImplementsJobService
