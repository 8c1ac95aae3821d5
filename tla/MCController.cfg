SPECIFICATION FairSpec
CONSTANTS
    NumTasks = 3
    RemoteTasks <- MCRemoteTasks
    DependsOn <- MCDependsOn
    MaxAttempts <- MCMaxAttempts
    MaxInterruptions = 2
    MaxHead = 2
INVARIANTS
    FreshRunId
    HandleIsLaunched
    AttemptsBounded
    OneReleasePerTask
    ReleaseHasSucceededJob
    SucceededIsReal
PROPERTIES
    ImplementsWorkflow
    Settles
