SPECIFICATION FairSpec
CONSTANTS
    m1 = m1
    d1 = d1
    p1 = p1
    s1 = s1
    e1 = e1
    e2 = e2
    Cmd = {m1, p1, s1}
    Kind <- MCKind
    Evictor = {e1, e2}
    None = None
    MaxSends <- MCSends
    MaxFaults = 1
    TornWrites = FALSE
INVARIANTS TypeOK AtMostOnce RejectedNeverRuns JournalAgrees OverlapNeedsEarlierFence PreparedIsQuiet
PROPERTY EveryCommandAnswered
CHECK_DEADLOCK FALSE
