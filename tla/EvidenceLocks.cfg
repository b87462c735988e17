SPECIFICATION Spec
CONSTANTS
    w1 = w1
    w2 = w2
    d1 = d1
    d2 = d2
    s1 = s1
    s2 = s2
    Writers <- TwoWriters
    Documents <- TwoDocuments
    Submissions <- TwoSubmissions
    NoVersion = NoVersion
    MaxVersions = 2
    Rebuild = Rebuild
    Nobody = Nobody
    MaxActs = 2
SYMMETRY Alike
INVARIANTS
    NoWaitCycle
    EvidenceAsRestricted
    EvidenceKept
PROPERTIES
    SentStaysAsSent
    ImplementsSentEvidence
