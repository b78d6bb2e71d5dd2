SPECIFICATION FairSpec
CONSTANTS
    User = {u1, u2}
    Request = {r1}
    None = None
    MaxLogs = 4
    TestReset = TRUE
INVARIANT
    OneLiveLog
PROPERTY
    ExpiredLockIsFreed
