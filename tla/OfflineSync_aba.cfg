SPECIFICATION Spec
CONSTANTS
    Branches = {b1}
    Customers = {c1}
    HomeBranch <- MCHomeBranch
    Products = {p1}
    Prices = {10}
    Uuids = {k1, k2}
    Amounts = {1}
    NoOne = NoOne
    NaN = NaN
    NoBalance = NoBalance
    RawPayloads <- MCNoRaw
    Endpoints = {"rewards"}
    ReplayWindow = 1
    InitialBackoff = 1
    MaxBackoff = 2
    MaxRetryAttempts = 2
    WarnAge = 2
    Minimums = {1}
    InitialPoints <- MCNoPoints
    MaxQueue = 2
    MaxOnline = 0
    MaxPoints = 1
    LastRequest = 0
    Horizon = 2
INVARIANT ReplayIsIdempotent
CHECK_DEADLOCK FALSE
