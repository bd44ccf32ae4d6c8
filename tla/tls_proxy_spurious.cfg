SPECIFICATION FairSpec
CONSTANTS
    Cam = {c1}
    Gen = {g1, g2}
    Task = {t1}
    Client = {k1, k2}
    None = None
    MaxBurst = 2
PROPERTIES
    NoSpuriousRebuild
