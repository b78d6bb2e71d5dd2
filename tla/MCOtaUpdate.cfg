CONSTANTS
    i1 = i1
    v1 = v1
    v2 = v2
    r1 = r1
    r2 = r2
    q1 = q1
    None = none
    none = none
    Instance = {i1}
    Version = {v1, v2}
    Reports = {r1, r2}
    Queries = {q1}
    MaxRow = 2
SPECIFICATION FairSpec
INVARIANT ReportSupersedes
PROPERTY DeploymentIsSeen
CHECK_DEADLOCK FALSE
