CONSTANTS
    d1 = d1
    None = None
    Sweeper = Sweeper
    MaxDrawn = 1
    MaxForms = 2
    MaxFiles = 3
    MaxPosts = 3
    MaxStaged = 2
    MaxAttempts = 1
    Readers = {d1}
SPECIFICATION FairSpec
INVARIANTS
    FormSavedOnce
    UsableIsWhole
    QuotaHeld
    PressedIsFiled
PROPERTIES
    TextGoes
