CONSTANTS
    NoWorker = NoWorker
    Workers = {w1, w2, w3}
    Versions = {1}
    ParseKinds <- TextOrOcr
    Ordinals = {1}
    MaxAttempts = 2
    MaxForce = 2
SYMMETRY WorkerSymmetry
SPECIFICATION Spec
INVARIANTS
    NewestServes
    OneOutcomePerPass
    NoAttachmentTwice
    ClaimsPerRequest
PROPERTIES
    ImplementsServedText
    VerdictStands
