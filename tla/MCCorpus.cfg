SPECIFICATION Spec
CONSTANTS
    Text <- MCText
    Form <- MCForm
    Redacted <- MCRedacted
    ViewOf <- MCViewOf
    Group <- MCGroup
    Bucket <- MCBucket
    Source <- MCSource
    Licence <- MCLicence
    BenchmarkSource = "bench"
    Rescanned <- MCRescanned
    Benchmark <- MCBenchmark
    Within <- MCWithin
    Corpora <- MCCorpora
    Registries <- MCRegistries
    ValidationAfter = 2
    TestAfter = 3
    Tampered <- MCTampered
    MaxEdits = 2
INVARIANTS
    WithheldContentStaysOut
    ContentIsKept
    TrainedIsApproved
    TrainedWasSearched
    InputsAreDescribed
CHECK_DEADLOCK FALSE
