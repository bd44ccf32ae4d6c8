SPECIFICATION FairSpec
CONSTANTS
    Caller = {a1, a2, a3}
    Session = {s1, s2, s3}
    None = None
INVARIANTS
    TypeOK
    OneHandshake
    NoDeadReplay
PROPERTIES
    GetsReturn
