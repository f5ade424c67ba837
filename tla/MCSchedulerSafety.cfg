SPECIFICATION Spec
CONSTANTS
    c = c
    d = d
    f = f
    g = g
    p = p
    s = s
    Act = {d, f, g, p}
    Steer = {}
    Rank <- MCRank
    Command = {}
    Visible = {f, g, p}
    AllMode = {"follow"}
    Busy = {"compaction", "refine", "executeBash"}
    Env = {"abort", "inputPause", "workPause", "clear", "waiter"}
    Faults = {"events", "dispatch", "prepare"}
    MaxEvents = 2
    None = None
INVARIANTS TypeOK NothingHalfWay LaneFifo
PROPERTIES HandoffIsClear NoIllegalTransition
CHECK_DEADLOCK FALSE
