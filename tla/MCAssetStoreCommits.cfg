CONSTANTS
    a1 = a1 a2 = a2 h1 = h1 h2 = h2 u1 = u1 g1 = g1 g2 = g2
    Shas = {a1}
    Committers = {h1, h2}
    Uploaders = {u1}
    Collectors = {g1, g2}
    Absent = Absent
    MaxHead = 2
    MaxFaults = 1
SPECIFICATION StoreSpec
CHECK_DEADLOCK FALSE
SYMMETRY Symmetry
INVARIANTS IInv CompleteUnlessExposed
