SPECIFICATION Spec
CONSTANTS
    Branches = {b1}
    Products = {p1}
    Uuids = {k1}
    Quantities = {1, 2}
    NoKey = NoKey
    Opening <- MCOpening
    MaxStock = 2
    MaxSales = 1
INVARIANT NoNegativeStock
CHECK_DEADLOCK FALSE
