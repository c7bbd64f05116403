SPECIFICATION Spec
CONSTANTS
    manager = manager
    owner = owner
    boss = boss
    new = new
    a1 = a1
    a2 = a2
    b1 = b1
    A = A
    B = B
    m1 = m1
    m2 = m2
    m3 = m3
    UserIds = {manager, owner, boss, new}
    BranchIds = {a1, a2, b1}
    Tenants = {A, B}
    ConflictIds = {c1}
    Names = {m1, m2, m3}
    Codes = {m1, m2}
    Brands = {m1}
    Absent = Absent
    InitialUsers <- MCUsers
    InitialBranches <- MCBranches
    AskedModes = {"WARN", "BLOCK"}
    AskedRoles = {"APPLICATION_OWNER", "MANAGER", "INVENTORY_STAFF"}
    AskedEmails <- MCEmails
    AskedCodes <- MCCodes
    MaxChanges = 1
PROPERTY LockLiftedByManagers
