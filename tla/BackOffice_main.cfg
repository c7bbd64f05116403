SPECIFICATION MCSpec
CONSTANTS
    Branches <- Bs
    TenantOf <- Tenant1
    Sessions <- MCSessions
    StockAlert = 0
    MaxStock = 1
    Deltas = {10}
    NotedModes = {"BLOCK"}
    Outcomes <- MCOutcomes
    Uuids = {"k1"}
    Scenes <- MCScenes
    MaxNotes = 2
    Readers <- MCReaders
    SlaForecasts <- MCSla
    TrendForecasts <- MCTrend
    Asked = {"b2", "unknown", "anywhere"}
    Nobody = "nobody"
    Anywhere = "anywhere"
    MaxActions = 2
    RiskBranches <- RiskBs
    Tenants = {"t1", "t2"}
    RiskTenantOf <- Tenant2
    Officers <- MCOfficers
    SeedPolicies <- Seed
    AskedModes = {"WARN", "BLOCK"}
    AskedConditions <- MCConditions
    MaxPolicies = 2
    MaxEvents = 1
    DiscountPolicies <- MCPolicies
    Carts <- MCCarts
    Clerks = {"CASHIER", "MANAGER"}
    ManualRates = {0, 7, 20}
    PointTiers = {0, 150, 1000}
    Last = 2
    MaxHistory = 1
INVARIANTS
    EventsAnnouncedOnce
    DecisionsStand
    TwiceOnlyReopened
    MoreRiskIsNeverLooser
    AddedBenefitNeverRaisesPrice
PROPERTY WaitingIsDelivered
