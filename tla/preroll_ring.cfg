SPECIFICATION Spec
CONSTANTS
    Caller = {p1, p2}
    MaxSegments = 2
    MaxFile = 4
INVARIANTS TypeOK
PROPERTIES KeepsNewest TrueMeansFinalized
SYMMETRY Symmetry
