SPECIFICATION FairSpec
CONSTANTS
    x1 = x1
    x2 = x2
    h1 = h1
    h2 = h2
    Indexers = {x1, x2}
    Hashes = {h1, h2}
    Items <- MCItems
    Clients = {c1}
    Deleters = {d1}
    NoItem = NoItem
    NoOne = NoOne
PROPERTY PinnedSpared
