CONSTANTS
    None = None
    ana = ana
    berta = berta
    Proposals = {p1, p2}
    Users = {ana}
    Families = {f1}
    Person <- OnePerson
    Threads = {g1, g2}
    Tabs = {t1}
    MatterStates = {s1}
    MaxCode = 1
    MaxEra = 1
    MaxMishaps = 1
    RecentWindow = TRUE
SPECIFICATION FairSpec
CHECK_DEADLOCK FALSE
PROPERTIES
    CommitsEnd
INVARIANTS
    OneCodeOneApproval
