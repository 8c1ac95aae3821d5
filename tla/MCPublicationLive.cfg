SPECIFICATION FairSpec
CONSTANTS
    p1 = p1
    p2 = p2
    shot = shot
    pre = pre
    given = given
    Publisher = {p1}
    OneShot = {}
    Resumable = {pre}
    Frozen = {given}
    Nobody = Nobody
    MaxHub = 3
PROPERTY
    RetriesCommit
