CONSTANTS
    c1 = c1
    c2 = c2
    Caller = {c1, c2}
    Query = {c1}
    Threshold = 2
    Window = 1
    Recovery = 1
    Host = {1, 2, 3}
    Bad = Bad
    Lists <- ThreeLists
    Limit = 2
    PageSize = 2
    MaxStuck = 2
    MaxPages = 3
SPECIFICATION DiscoverySpec
INVARIANTS ClosedIsTolerable ListedOnce ShortAnswerIsComplete
PROPERTIES OpensOnStreak OpenRecovers
