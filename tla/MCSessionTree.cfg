SPECIFICATION Spec
CONSTANTS
    f1 = f1
    f2 = f2
    File = {f1, f2}
    Kinds = {"message", "assistant", "state", "label", "git", "compaction"}
    Faults = {"crash", "error", "delete"}
    MaxEntries = 3
    MaxFaults = 1
INVARIANTS TypeOK SavedIsLoadable FlushedIsFaithful
PROPERTIES ForkKeepsBranches BranchKeepsContext
SYMMETRY FileSymmetry
CHECK_DEADLOCK FALSE
