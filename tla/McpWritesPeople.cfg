CONSTANTS
    None = None
    ana = ana
    berta = berta
    Proposals = {p1}
    Users = {ana, berta}
    Families = {f1, f2}
    Person <- TwoPeople
    Threads = {g1, g2}
    Tabs = {t1}
    MatterStates = {s1, s2}
    MaxCode = 1
    MaxEra = 1
    MaxMishaps = 3
    RecentWindow = FALSE
SPECIFICATION Spec
SYMMETRY Symmetry
INVARIANTS
    SavedOnce
    SavedAsApproved
PROPERTIES
    ImplementsApprovedChange
