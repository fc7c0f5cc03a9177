SPECIFICATION Spec
CONSTANTS
    MaxAttempts = 2
    Polls <- Overlapping
    MaxTroubles = 1
    None = None
INVARIANTS
    TypeOK
    StatusTellsTruth
    CandidatesKept
