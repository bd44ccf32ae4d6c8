SPECIFICATION Spec
CONSTANTS
    k1 = k1
    k2 = k2
    v1 = v1
    v2 = v2
    Writer = {w1, w2}
    Key = {k1, k2}
    Value = {v1, v2}
    Change <- MCChange
    Body <- MCBody
    Slot = {s1, s2}
    None = None
INVARIANT TypeOK
PROPERTY UndoesOnlyOverlapping
SYMMETRY Symmetry
