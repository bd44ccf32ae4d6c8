SPECIFICATION Spec
CONSTANTS
    Cam = {c1, c2}
    Gen = {g1, g2}
    Task = {t1, t2}
    Client = {k1, k2}
    None = None
    MaxBurst = 2
SYMMETRY Symmetry
INVARIANTS
    TypeOK
    PortsMatchServers
    CachedIsListening
    NoClientOutlivesServer
    ReportedOnce
PROPERTIES
    NewerGenerationSurvives
    ImplementsLease
