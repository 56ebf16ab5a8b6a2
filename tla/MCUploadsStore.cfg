CONSTANTS
    a1 = a1 a2 = a2 u1 = u1 u2 = u2 s1 = s1 s2 = s2
    g1 = g1 h1 = h1 h2 = h2 c1 = c1 c2 = c2
    Shas = {a1}
    Users = {u1}
    Sessions = {s1, s2}
    Handlers = {h1, h2}
    Collectors = {g1}
    Chunks = {c1}
    Bytes = {"good", "bad"}
    ShortGrace = TRUE
    None = None
    MaxFaults = 1
SPECIFICATION Spec
CHECK_DEADLOCK FALSE
SYMMETRY Symmetry
INVARIANTS IInv DocHasFileUnlessSwept StoredVerifiesUnlessLate ResumeTruth
