CONSTANTS
    e1 = e1 d1 = d1 d2 = d2 d3 = d3 u1 = u1 u2 = u2 r1 = r1 r2 = r2
    Entries = {e1}
    Devices = {d1, d2, d3}
    UserOf <- ThreeDevices
    Requests = {r1, r2}
    Ops = {"acquire", "heartbeat", "delete", "force"}
    LockTTL = 1
    None = None
    MaxTime = 1
    MaxServed = 3
    MaxLeaves = 1
    MaxSeats = 1
SPECIFICATION Spec
CHECK_DEADLOCK FALSE
SYMMETRY Symmetry
INVARIANTS IInv GrantsKept LastWord
