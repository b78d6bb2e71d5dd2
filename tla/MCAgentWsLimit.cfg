CONSTANTS
    a1 = a1
    a2 = a2
    s1 = s1
    s2 = s2
    s3 = s3
    None = None
    Agent = {a1, a2}
    Socket = {s1, s3}
    Owner <- TwoOwners
    MaxConn = 1
    InitialHost = {"busy"}
    Contended = {a2}
SPECIFICATION Spec
INVARIANT RegisteredIsOpen
