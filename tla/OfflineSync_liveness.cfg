SPECIFICATION FairSpec
CONSTANTS
    Branches = {b1}
    Customers = {c1}
    HomeBranch <- MCHomeBranch
    Products = {p1}
    Prices = {10}
    Uuids = {k1, k2}
    Amounts = {1}
    NoOne = NoOne
    NaN = NaN
    NoBalance = NoBalance
    RawPayloads <- MCNoRaw
    Endpoints = {"offline/loyalty/queue", "inventory/action", "offline/reconcile", "feature-flags", "offline/alerts"}
    ReplayWindow = 2
    InitialBackoff = 1
    MaxBackoff = 2
    MaxRetryAttempts = 2
    WarnAge = 2
    Minimums = {1}
    InitialPoints <- MCInitialPoints
    MaxQueue = 2
    MaxOnline = 0
    MaxPoints = 1
    LastRequest = 0
    Horizon = 5
PROPERTY NoSilentStall
CHECK_DEADLOCK FALSE
