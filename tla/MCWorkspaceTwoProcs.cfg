CONSTANTS
    o1 = o1  o2 = o2  c1 = c1  c2 = c2  e1 = e1
    h1 = h1  h2 = h2  p1 = p1  p2 = p2  None = None  s1 = s1 s2 = s2
    Ops = {o1, o2}
    Seeds = {s1, s2}
    Clients = {c1, c2}
    Entities = {}
    Handlers = {h1, h2}
    Procs = {p1, p2}
    Author <- McAuthor
    Touches <- McUntouched
    ProcOf <- TwoProcs
    RingLimit = 1
    Attempts = 2
    MaxVersion = 3
    MaxCrashes = 1
    MaxOutages = 1
SPECIFICATION Spec
INVARIANTS IInv DedupWindow AnswersHold
PROPERTY ImplementsLog
