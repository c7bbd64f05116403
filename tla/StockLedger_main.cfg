SPECIFICATION Spec
CONSTANTS
    Branches = {b1, b2}
    Products = {p1}
    Uuids = {k1}
    Quantities = {1}
    NoKey = NoKey
    Opening <- MCOpening
    MaxStock = 3
    MaxSales = 2
SYMMETRY Interchangeable
INVARIANTS
    TypeOK
    StockExplained
    SoldOncePerKey
PROPERTY OverdrawnBySplitLinesOnly
CHECK_DEADLOCK FALSE
