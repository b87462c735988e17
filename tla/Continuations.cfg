CONSTANTS
    w1 = w1
    w2 = w2
    NoWriter = NoWriter
    Matters <- MCMatters
    Writers <- MCWriters
    Starts <- MCStarts
    MaxHops = 3
    MaxRows = 1
    MaxActs = 3
SPECIFICATION Spec
SYMMETRY Symmetry
INVARIANTS
    NoContinuationCycle
    NoPointerToTombstone
    NoWaitCycle
CHECK_DEADLOCK FALSE
