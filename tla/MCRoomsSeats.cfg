CONSTANTS
    p1 = p1 p2 = p2 u1 = u1 s1 = s1 s2 = s2 h1 = h1 h2 = h2
    Packs = {p1, p2}
    Users = {u1}
    Sockets = {s1, s2}
    UserOf <- OneUser
    Handlers = {h1, h2}
    None = None
    MaxJoins = 2
    MaxRevocations = 1
    Edited = {p1}
    MaxVersion = 1
SPECIFICATION Spec
CHECK_DEADLOCK FALSE
SYMMETRY Symmetry
INVARIANTS IInv NoMissedCommit RevokedOutUnlessLate
PROPERTY SweepCatches
