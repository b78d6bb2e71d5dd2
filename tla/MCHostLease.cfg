SPECIFICATION Spec
CONSTANTS
    User = {u1, u2}
    Request = {r1, r2}
    None = None
    MaxLogs = 2
    TestReset = FALSE
SYMMETRY HostLeaseSymmetry
INVARIANT
    LockedIsTimed
PROPERTY
    ImplementsLedger
