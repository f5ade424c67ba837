SPECIFICATION FairSpec
CONSTANTS
    c = c
    d = d
    f = f
    g = g
    p = p
    s = s
    Act = {c, d, f, s}
    Steer = {s}
    Rank <- MCRank
    Command = {c}
    Visible = {f, s}
    AllMode = {}
    Busy = {"compaction", "userBash", "refine"}
    Env = {"quietClear"}
    Faults = {}
    MaxEvents = 2
    None = None
PROPERTY NothingStranded
CHECK_DEADLOCK FALSE
