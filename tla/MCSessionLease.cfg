SPECIFICATION FairSpec
CONSTANTS
    a = a
    b = b
    c = c
    Proc = {a, b, c}
    Pid <- MCPid
    StartId <- MCStartId
    NoStart = NoStart
    None = None
    MaxGrants = 2
    GuardCanExpire = FALSE
INVARIANTS TypeOK LeaseExclusive HolderOnDisk
PROPERTY EveryCallReturns
CHECK_DEADLOCK FALSE
