SPECIFICATION Spec
CONSTANTS
    a1 = a1
    a2 = a2
    Proc = {a1}
    Content = {1}
    Missing = Missing
    Inputs = 4
    Train = 1
    Manifest = 2
    Base = 3
    Source = 4
    Frozen = {1}
    Views = 1
    V1Pin = 1
    Pinned <- MCPinned
    Audited <- MCAudited
    Tensor <- MCTensor
    Expected = 2
    MaxWrites = 0
INVARIANT TrainedJobSucceeds
CHECK_DEADLOCK FALSE
