SPECIFICATION Spec
CONSTANTS
    b1 = b1
    b2 = b2
    b3 = b3
    t1 = t1
    t2 = t2
    Branches = {b1, b2, b3}
    TenantOf <- MCTenantOf
    Roles = {"TENANT_OWNER"}
    AuditTtl = 1
    ComplianceTtl = 1
    MinDays = 2
    MaxDays = 4
    InitialPolicy <- MCInitialPolicy
    AskedPolicies <- MCAskedPolicies
    Routes <- MCRoutes
    MaxRecords = 1
    MaxHolds = 1
    MaxJobs = 1
    MaxSales = 1
    MaxAudit = 2
    Horizon = 3
INVARIANTS
    AuditExportComplete
    HoldsShownInTime
    YoungRecordsKept
    ChainVerifies
    SnapshotCoversRequest
PROPERTY TimersCatchUp
CHECK_DEADLOCK FALSE
