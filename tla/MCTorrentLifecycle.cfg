SPECIFICATION Spec
SYMMETRY MCSymmetry
CONSTANTS
    x1 = x1
    x2 = x2
    h1 = h1
    h2 = h2
    Indexers = {x1, x2}
    Hashes = {h1, h2}
    Items <- MCItems
    Clients = {c1, c2}
    Deleters = {d1, d2}
    NoItem = NoItem
    NoOne = NoOne
INVARIANTS
    NoOrphan
PROPERTIES
    OnlyRollbackStrands
