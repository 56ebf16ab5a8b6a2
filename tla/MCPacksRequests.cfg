CONSTANTS
    admin = admin ann = ann p1 = p1 p2 = p2 q1 = q1 q2 = q2
    Users = {admin, ann}
    Admins = {admin}
    Packs = {p1, p2}
    Requests = {q1, q2}
    Bases <- Names
    None = None
    MaxNumber = 3
    MaxRev = 2
    MaxServed = 4
SPECIFICATION Spec
CHECK_DEADLOCK FALSE
SYMMETRY Symmetry
INVARIANTS IInv RolesAsGrantedUnlessTorn ListedAndBuiltExist
