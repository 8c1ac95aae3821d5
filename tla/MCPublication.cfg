SPECIFICATION Spec
CONSTANTS
    p1 = p1
    p2 = p2
    shot = shot
    pre = pre
    given = given
    Publisher <- MCPublisher
    OneShot = {shot}
    Resumable = {pre}
    Frozen = {given}
    Nobody = Nobody
    MaxHub = 3
SYMMETRY MCSymmetry
INVARIANTS
    ManifestExplainsCommit
    CommitsAreSound
    ReceiptsAreEarned
PROPERTIES
    ImplementsLedger
