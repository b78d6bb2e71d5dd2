SPECIFICATION Spec
CONSTANTS
    Host = {h1, h2}
    Approval = {p1, p2}
    None = None
    MaxRecs = 2
    MaxExternal = 2
SYMMETRY Symmetry
INVARIANTS
    ChangeIsPending
    PointsToApproved
    PointsToOwnEntry
    CreatorHoldsLock
