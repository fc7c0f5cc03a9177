SPECIFICATION Spec
CONSTANTS
    s1 = s1
    r1 = r1
    r2 = r2
    t1 = t1
    t2 = t2
    Sources = {s1}
    MaxRank = 1
    Requests = {r1, r2}
    Ranges <- MCRanges
    Texts = {t1, t2}
    Proposals <- MCProposals
    Kinds = {"mentions"}
    MaxTime = 1
    MaxRequests = 4
    MaxFaults = 1
    None = None
    Broken = Broken
SYMMETRY Symmetry
VIEW View
INVARIANTS
    TypeOK
    NoOrphans
    AnalyzingMeansWorking
    GapMeansUpdate
    ReadyMeansPosted
    ScheduledIsQueued
    ClipWithinTimes
PROPERTY
    PostsCurrentText
    PostsItsClip
