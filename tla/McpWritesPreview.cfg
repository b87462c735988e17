CONSTANTS
    None = None
    ana = ana
    berta = berta
    Proposals = {p1}
    Users = {ana}
    Families = {f1}
    Person <- OnePerson
    Threads = {g1}
    Tabs = {t1}
    MatterStates = {s1, s2}
    MaxCode = 1
    MaxEra = 1
    MaxMishaps = 3
    RecentWindow = FALSE
SPECIFICATION Spec
SYMMETRY Symmetry
INVARIANTS
    SavedOverPreview
