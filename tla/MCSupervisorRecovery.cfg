SPECIFICATION FairSpec
CONSTANTS
    s1 = s1
    s2 = s2
    s3 = s3
    u1 = u1
    u2 = u2
    Supervisor = {s1, s2, s3}
    Updater = {u1}
    Socket <- OneSocket
    DescDir <- OneDir
    None = None
    MaxSteals = 0
    MaxFences = 1
PROPERTY StarterRecovers
CHECK_DEADLOCK FALSE
