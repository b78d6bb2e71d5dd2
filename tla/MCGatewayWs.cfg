CONSTANTS
    s1 = s1
    s2 = s2
    Sessions = {s1, s2}
    MaxConnections = 1
    Candidates = 2
    MaxFrames = 2
SPECIFICATION FairSpec
INVARIANTS ConnectionsBounded BackendIsCounted ClientIsAnswered FramesInOrder
PROPERTY LeavingEndsSession
CHECK_DEADLOCK FALSE
