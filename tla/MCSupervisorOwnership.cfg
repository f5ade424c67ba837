SPECIFICATION Spec
CONSTANTS
    s1 = s1
    s2 = s2
    s3 = s3
    u1 = u1
    u2 = u2
    Supervisor = {s1, s2}
    Updater = {u1, u2}
    Socket <- OneSocket
    DescDir <- OneDir
    None = None
    MaxSteals = 1
    MaxFences = 1
INVARIANTS OwnersExclusive OwnerOnDisk OneFreshAdmission
PROPERTIES NoStartDuringShutdown StoppedNeverRewritten
SYMMETRY ProcSymmetry
CHECK_DEADLOCK FALSE
