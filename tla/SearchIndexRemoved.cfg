SPECIFICATION Spec
CONSTANTS
    Matters = {}
    Children = {}
    Files = {d}
    Writers = {w1, w2}
    Rebuilders = {worker}
    Worker = worker
    MaxText = 1
    MaxNames = 0
    MaxMerges = 0
    MaxGen = 2
    MaxFailures = 0
    None = none
INVARIANT RemovedIsWithdrawn
CHECK_DEADLOCK FALSE
