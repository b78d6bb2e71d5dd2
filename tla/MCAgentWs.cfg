CONSTANTS
    a1 = a1
    a2 = a2
    s1 = s1
    s2 = s2
    s3 = s3
    None = None
    Agent = {a1}
    Socket = {s1, s2}
    Owner <- OneOwner
    MaxConn = 2
    InitialHost = {"busy"}
    Contended = {}
SPECIFICATION FairSpec
INVARIANTS NoUnwatchedConnection OneDisconnect
PROPERTIES HeardIsKept LostIsDropped ImplementsRegistry
