SPECIFICATION FairSpec
CONSTANTS
    c = c
    d = d
    f = f
    g = g
    p = p
    s = s
    Act = {d, f}
    Steer = {}
    Rank <- MCRank
    Command = {}
    Visible = {f}
    AllMode = {}
    Busy = {}
    Env = {"workPause"}
    Faults = {}
    MaxEvents = 2
    None = None
PROPERTY NothingStranded
CHECK_DEADLOCK FALSE
