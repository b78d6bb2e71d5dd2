CONSTANTS
    k1 = k1
    k2 = k2
    r1 = r1
    Calls = {k1, k2}
    HttpRequests = {r1}
    AccessTtl = 1
    RefreshTtl = 3
    MarkerTtl = 1
    MaxRow = 1
    MaxNow = 7
SPECIFICATION GatewaySpec
PROPERTIES ReuseIsRefused LogoutIsFinal DeletedHostStaysOut
SYMMETRY CallSymmetry
CHECK_DEADLOCK FALSE
