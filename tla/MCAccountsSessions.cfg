CONSTANTS
    admin = admin user = user c1 = c1 d1 = d1 d2 = d2 q1 = q1 q2 = q2
    Users = {admin, user}
    EnvAdmins = {admin}
    Codes = {c1}
    Devices = {d1, d2}
    Requests = {q1, q2}
    None = None
    Stored <- Approved
    MaxToken = 3
    MaxServed = 3
SPECIFICATION Spec
CHECK_DEADLOCK FALSE
SYMMETRY Symmetry
INVARIANTS IInv LockEndsSessionsUnlessLate
PROPERTY ImplementsChain
