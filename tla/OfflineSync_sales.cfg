SPECIFICATION Spec
CONSTANTS
    Branches = {b1}
    Customers = {c1}
    HomeBranch <- MCHomeBranch
    Products = {p1}
    Prices = {10, 20}
    Uuids = {k1, k2, k3}
    Amounts = {1}
    NoOne = NoOne
    NaN = NaN
    NoBalance = NoBalance
    RawPayloads <- MCRawEvents
    Endpoints = {"sales/checkout", "inventory/action", "sync/queue", "products", "conflicts"}
    ReplayWindow = 1
    InitialBackoff = 1
    MaxBackoff = 2
    MaxRetryAttempts = 2
    WarnAge = 2
    Minimums = {1}
    InitialPoints <- MCNoPoints
    MaxQueue = 2
    MaxOnline = 1
    MaxPoints = 1
    LastRequest = 1
    Horizon = 3
SYMMETRY Interchangeable
INVARIANTS
    TypeOK
    AtMostOneTransactionPerKey
    UnconfirmedIsUncommitted
    ConfirmedIsAccountedFor
    ConflictsMatchQueue
PROPERTIES
    SettledForever
    StaleSalesNotReplayed
CHECK_DEADLOCK FALSE
