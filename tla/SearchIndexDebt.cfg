SPECIFICATION FairSpec
CONSTANTS
    Matters = {m}
    Children = {}
    Files = {d}
    Writers = {w1}
    Rebuilders = {worker}
    Worker = worker
    MaxText = 1
    MaxNames = 2
    MaxMerges = 0
    MaxGen = 4
    MaxFailures = 1
    None = none
PROPERTY DebtIsPaid
CHECK_DEADLOCK FALSE
