CONSTANTS
    g1 = g1
    d1 = d1
    d2 = d2
    x1 = x1
    t1 = t1
    jacket = jacket
    heels = heels
    gown = gown
    cap = cap
    addon = addon
    swap = swap
    five = five
    sha1 = sha1
    sha2 = sha2
    size1 = size1
    size2 = size2
    ink = ink
    dye = dye
    junk = junk
    None = None
    Groups = {g1}
    Drawables = {d1, d2}
    Tattoos = {t1}
    Loose = {x1}
    Parts = {"sha256", "size"}
    Atoms <- MCAtoms
    Fields <- MCFields
    Shapes <- MCShapes
    Sent <- MCSent
    Patches <- MCPatches
    Limit <- MCLimit
    Names = {"ok"}
    BadNames = {""}
    Batches <- MCBatches
    SplitAt = 2
    Attr <- MCAttr
    Seeds <- MCSeeds
    Frozen <- MCFrozen
    MaxEdits = 1
SPECIFICATION Spec
INVARIANTS
    DeletesAccepted
    RetriesHarmless
    OnlyTouchedChange
    IndependentEditsCommute
    PlanMatchesReference
    ShippedAsPlanned
