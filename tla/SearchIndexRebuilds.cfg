SPECIFICATION Spec
CONSTANTS
    Matters = {m}
    Children = {e}
    Files = {}
    Writers = {w1, w2}
    Rebuilders = {worker, operator}
    Worker = worker
    MaxText = 1
    MaxNames = 1
    MaxMerges = 1
    MaxGen = 4
    MaxFailures = 1
    None = none
SYMMETRY Symmetry
INVARIANTS
    ReadersComplete
    ChildNamesOwed
    SavedIsFound
CHECK_DEADLOCK FALSE
