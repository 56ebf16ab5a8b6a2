CONSTANTS
    a1 = a1 a2 = a2 h1 = h1 h2 = h2 u1 = u1 g1 = g1 g2 = g2
    Shas = {a1}
    Committers = {h1}
    Uploaders = {u1}
    Collectors = {g1}
    Absent = Absent
    MaxHead = 1
    MaxFaults = 0
SPECIFICATION StoreSpec
CHECK_DEADLOCK FALSE
INVARIANT LiveKept
