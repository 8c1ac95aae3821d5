SPECIFICATION Spec
CONSTANTS
    w1 = w1
    w2 = w2
    x = x
    Proc = {w1, w2, x}
    Runner = {w1, w2}
    Operator = {x}
    Target = {"v1.0", "v1.0-pre-eval"}
    Measured = "v1.0"
    Input = {"manifest", "weights"}
    Checks <- MCChecks
    Weights = {"weights"}
    Cites <- MCCites
    Links <- MCLinks
    Artifact = {"card", "weights"}
    Card = "card"
    CardText = 1
    RunManifest = "manifest"
    Content = {1, 2}
    Missing = Missing
    MaxEvents = 3
INVARIANTS
    ManifestDescribes
    SuccessIsBound
    ReadyIsEvaluated
SYMMETRY Interchangeable
PROPERTIES
    ImplementsReleases
    OutputIsFinal
CHECK_DEADLOCK FALSE
