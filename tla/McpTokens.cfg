CONSTANTS
    None = None
    Families = {f1}
    Requests = {r1, r2}
    MaxPairs = 2
    MaxEra = 2
    MaxEpoch = 1
SPECIFICATION Spec
SYMMETRY Symmetry
INVARIANTS
    OneLiveRefresh
    RevokedGrantIsOver
    HolderEndsFamily
    WritesUnderConsent
