CONSTANTS
    i1 = i1
    i2 = i2
    m1 = m1
    m2 = m2
    Instance = {i1, i2}
    Broadcasts = {m1}
    Unicasts = {m2}
    MaxConn = 2
SPECIFICATION FairSpec
INVARIANTS UnicastOnce ExactlyOnce
PROPERTY Settles
CHECK_DEADLOCK FALSE
