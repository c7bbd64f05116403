----------------------------- MODULE AccessControl -----------------------------
(***************************************************************************)
(* Who may do what: the middleware every request passes (middleware/       *)
(* auth.ts), the permission table (config/permissions.ts), the users,      *)
(* branches and brands a dashboard administers (dashboardService.ts), the  *)
(* flag that turns risk enforcement on, and the conflicts that lock a      *)
(* branch (memoryStore.ts).                                                *)
(*                                                                         *)
(* A request is one step: its session s = [user, branch, mode] comes from  *)
(* the headers, "mode" being the risk mode they simulate; its tenant is    *)
(* the branch's.  What a request does to goods and customers is only told  *)
(* by "served", the request being answered: who asked, in which tenant,    *)
(* whether the mode was restrictive, and the branches whose goods and      *)
(* sales it changed ("wrote") or which received goods ("supplied").        *)
(* Requests that only read, and refusals of a handler that change nothing, *)
(* are left out.  "changes" counts what administrators were granted, up to *)
(* the bound MaxChanges.                                                   *)
(***************************************************************************)
EXTENDS Integers, FiniteSets

CONSTANTS UserIds, BranchIds, Tenants, ConflictIds,
          Names, Codes,             \* of e-mail boxes and of branches
          Brands, Absent,
          InitialUsers, InitialBranches,
          AskedModes, AskedRoles, AskedEmails, AskedCodes,    \* what requests ask for
          MaxChanges                \* bound on the changes by administrators

Roles == {"APPLICATION_OWNER", "TENANT_OWNER", "MANAGER", "CASHIER", "INVENTORY_STAFF"}
Modes == {"ALLOW", "WARN", "READ_ONLY", "BLOCK"}

(* What is written in either case: an address or a branch code *)
Written(set) == [text : set, caps : BOOLEAN]
Lower(w) == [w EXCEPT !.caps = FALSE]

User == [tenant : Tenants, home : BranchIds, role : Roles, email : Written(Names),
         active : BOOLEAN]
Branch == [tenant : Tenants, code : Written(Codes)]
Conflict == [branch : BranchIds, status : {"OPEN", "RESOLVED", "ESCALATED"}]

ASSUME AccessAssumption ==
    /\ InitialUsers \in [UserIds -> User \cup {Absent}]
    /\ InitialBranches \in [BranchIds -> Branch \cup {Absent}]
    /\ \A u \in UserIds : InitialUsers[u] # Absent =>
          /\ InitialBranches[InitialUsers[u].home] # Absent
          /\ InitialBranches[InitialUsers[u].home].tenant = InitialUsers[u].tenant
          /\ InitialUsers[u].email = Lower(InitialUsers[u].email)
    /\ \A u, v \in UserIds :
          /\ InitialUsers[u] # Absent /\ InitialUsers[v] # Absent
          /\ InitialUsers[u].tenant = InitialUsers[v].tenant
          /\ InitialUsers[u].email = InitialUsers[v].email
          => u = v
    /\ \A a, b \in BranchIds :
          /\ InitialBranches[a] # Absent /\ InitialBranches[b] # Absent
          /\ InitialBranches[a].tenant = InitialBranches[b].tenant
          /\ InitialBranches[a].code = InitialBranches[b].code
          => a = b
    /\ AskedModes \subseteq Modes /\ AskedRoles \subseteq Roles
    /\ AskedEmails \subseteq Written(Names) /\ AskedCodes \subseteq Written(Codes)
    /\ MaxChanges \in Nat
    /\ Absent \notin User \cup Branch \cup Conflict \cup UserIds

VARIABLES
    users,      \* store.users, by their id; the others are Absent
    access,     \* store.userBranchAccess
    branches,   \* store.branches
    conflicts,  \* store.conflicts
    enforced,   \* the tenants whose flag risk_enforcement is set
    brand,      \* store.tenantBrands
    served,     \* the request that was just handled, until it is answered
    changes

org == <<users, access, branches>>
vars == <<org, conflicts, enforced, brand, served, changes>>

NoRequest == [by |-> Absent, tenant |-> Absent, restrictive |-> FALSE,
              wrote |-> {}, supplied |-> {}]

Init ==
    /\ users = InitialUsers
    /\ access = {<<u, InitialUsers[u].home>> : u \in {v \in UserIds : InitialUsers[v] # Absent}}
    /\ branches = InitialBranches
    /\ conflicts = [c \in ConflictIds |-> Absent]
    /\ enforced \in SUBSET Tenants
    /\ brand \in [Tenants -> Brands]
    /\ served = NoRequest
    /\ changes = 0

-----------------------------------------------------------------------------
(* The middleware *)

Owners == {"APPLICATION_OWNER", "TENANT_OWNER"}
Managers == Owners \cup {"MANAGER"}
LockedRoles == {"CASHIER", "INVENTORY_STAFF"}

(* The permission table, as far as its actions write. *)
May(role, action) ==
    CASE action \in {"branch.write", "brand.write", "feature.flag.write"} -> role \in Owners
      [] action \in {"user.write", "conflict.resolve", "sales.void", "loyalty.redeem",
                     "discount.override"} -> role \in Managers
      [] action = "sales.checkout" -> role \in {"MANAGER", "CASHIER"}
      [] action = "customer.write" -> role \in Managers \cup {"CASHIER"}
      [] action \in {"product.write", "inventory.mutate"} -> role \in Managers \cup {"INVENTORY_STAFF"}
      [] action \in {"queue.enqueue", "queue.sync", "conflict.escalate"} -> role \in Roles

Sessions == [user : UserIds, branch : BranchIds, mode : AskedModes]
TenantOf(s) == branches[s.branch].tenant
RoleOf(s) == users[s.user].role

(* requireContext.  Mutants: a user who is not active is found all the same; *)
(* access to the branch is not asked for.                                    *)
KnownEvenInactive(s) ==
    /\ users[s.user] # Absent
    /\ branches[s.branch] # Absent
    /\ RoleOf(s) # "APPLICATION_OWNER" =>
          /\ users[s.user].tenant = TenantOf(s)
          /\ <<s.user, s.branch>> \in access
KnownAnyTenant(s) ==
    /\ users[s.user] # Absent /\ users[s.user].active
    /\ branches[s.branch] # Absent
Known(s) ==
    /\ users[s.user] # Absent /\ users[s.user].active
    /\ branches[s.branch] # Absent
    /\ RoleOf(s) # "APPLICATION_OWNER" =>
          /\ users[s.user].tenant = TenantOf(s)
          /\ <<s.user, s.branch>> \in access

(* evaluateRiskPolicy, for a request that writes: the flag is the one of the *)
(* session's tenant, and under BLOCK the brand's route is exempt.  Mutant:   *)
(* all the routes under /config are exempt.                                  *)
Restrictive(s) == s.mode \in {"READ_ONLY", "BLOCK"}
Restricted(s) == TenantOf(s) \in enforced /\ Restrictive(s)
PassesRiskAlsoFlags(s, action) ==
    Restricted(s) => s.mode = "BLOCK" /\ action \in {"brand.write", "feature.flag.write"}
PassesRisk(s, action) == Restricted(s) => s.mode = "BLOCK" /\ action = "brand.write"

(* requireTenantPathMatch, and assertTenantScope of the services *)
PathMatches(s, t) ==
    IF RoleOf(s) = "APPLICATION_OWNER"
    THEN \E b \in BranchIds : branches[b] # Absent /\ branches[b].tenant = t
    ELSE t = TenantOf(s)

(* enforceReadOnlyFallback, which the routes of these actions pass *)
BranchWrites == {"sales.checkout", "sales.void", "inventory.mutate", "product.write",
                 "customer.write", "loyalty.redeem", "discount.override", "queue.enqueue"}
HasOpenConflicts(b) ==
    \E c \in ConflictIds : conflicts[c] # Absent /\ conflicts[c] = [branch |-> b, status |-> "OPEN"]
(* Mutant: only cashiers are locked. *)
UnlockedForStaff(s) == RoleOf(s) = "CASHIER" => ~HasOpenConflicts(s.branch)
Unlocked(s) == RoleOf(s) \in LockedRoles => ~HasOpenConflicts(s.branch)

Admitted(s, t, action) ==
    /\ Known(s) /\ PassesRisk(s, action) /\ PathMatches(s, t) /\ May(RoleOf(s), action)
    /\ action \in BranchWrites => Unlocked(s)

Log(s, wrote, supplied) ==
    served' = [by |-> s.user, tenant |-> TenantOf(s), restrictive |-> Restrictive(s),
             wrote |-> wrote, supplied |-> supplied]
Served(s) == Log(s, {}, {}) /\ UNCHANGED changes
Granted(s) == /\ changes < MaxChanges
              /\ changes' = changes + 1
              /\ Log(s, {}, {})

(* deny: an audit entry and the refusal *)
Deny(s, t, action) ==
    /\ users[s.user] # Absent /\ branches[s.branch] # Absent
    /\ ~Admitted(s, t, action)
    /\ Log(s, {}, {})
    /\ UNCHANGED <<org, conflicts, enforced, brand, changes>>

-----------------------------------------------------------------------------
(* The dashboard.  t is the tenant of the path. *)

CodeTaken(t, code, except) ==
    \E b \in BranchIds \ {except} : branches[b] # Absent /\ branches[b].tenant = t /\ branches[b].code = code

(* A new code is compared without regard to case. *)
CreateBranch(s, t, b, code) ==
    /\ Admitted(s, t, "branch.write")
    /\ branches[b] = Absent
    /\ \A caps \in BOOLEAN : ~CodeTaken(t, [code EXCEPT !.caps = caps], b)
    /\ branches' = [branches EXCEPT ![b] = [tenant |-> t, code |-> code]]
    /\ Granted(s)
    /\ UNCHANGED <<users, access, conflicts, enforced, brand>>

(* A changed code is compared as it is written. *)
UpdateBranch(s, t, b, code) ==
    /\ Admitted(s, t, "branch.write")
    /\ branches[b] # Absent /\ branches[b].tenant = t
    /\ code # branches[b].code => ~CodeTaken(t, code, b)
    /\ branches' = [branches EXCEPT ![b].code = code]
    /\ Granted(s)
    /\ UNCHANGED <<users, access, conflicts, enforced, brand>>

(* assertCanManageUser.  Mutant: a tenant owner may manage every role. *)
CanManageAsOwner(role, target) == role = "MANAGER" => target \notin Owners
CanManage(role, target) ==
    /\ role = "MANAGER" => target \notin Owners
    /\ role = "TENANT_OWNER" => target # "APPLICATION_OWNER"

EmailTaken(t, email, except) ==
    \E u \in UserIds \ {except} : users[u] # Absent /\ users[u].tenant = t /\ users[u].email = email

IsBranchOf(b, t) == branches[b] # Absent /\ branches[b].tenant = t

CreateUser(s, t, u, email, role, b) ==
    /\ Admitted(s, t, "user.write")
    /\ CanManage(RoleOf(s), role)
    /\ IsBranchOf(b, t)
    /\ users[u] = Absent
    /\ ~EmailTaken(t, Lower(email), u)
    /\ users' = [users EXCEPT ![u] = [tenant |-> t, home |-> b, role |-> role,
                                      email |-> Lower(email), active |-> TRUE]]
    /\ access' = access \cup {<<u, b>>}
    /\ Granted(s)
    /\ UNCHANGED <<branches, conflicts, enforced, brand>>

Target(s, t, u) ==
    Admitted(s, t, "user.write") /\ users[u] # Absent /\ users[u].tenant = t

(* The branch is assigned, with access to it, before the address is looked   *)
(* at: a request refused for its address has moved the user all the same.    *)
(* Either input may be Absent.  Mutant: access is given only once the        *)
(* address is accepted.                                                      *)
EmailRefused(t, u, email) == email # Absent /\ EmailTaken(t, Lower(email), u)

AccessOnceAccepted(u, b, refused) ==
    IF b = Absent \/ refused THEN access ELSE access \cup {<<u, b>>}
AccessAfter(u, b, refused) == IF b = Absent THEN access ELSE access \cup {<<u, b>>}

UserAfter(u, b, email, refused) ==
    [users[u] EXCEPT !.home = IF b = Absent THEN @ ELSE b,
                     !.email = IF refused \/ email = Absent THEN @ ELSE Lower(email)]

UpdateUser(s, t, u, b, email) ==
    /\ Target(s, t, u)
    /\ b # Absent => IsBranchOf(b, t)
    /\ LET refused == EmailRefused(t, u, email)
       IN  /\ users' = [users EXCEPT ![u] = UserAfter(u, b, email, refused)]
           /\ access' = AccessAfter(u, b, refused)
           /\ Granted(s)
    /\ UNCHANGED <<branches, conflicts, enforced, brand>>

(* Whose status may be changed does not depend on the role of either. *)
SetUserStatus(s, t, u, active) ==
    /\ Target(s, t, u)
    /\ users' = [users EXCEPT ![u].active = active]
    /\ Granted(s)
    /\ UNCHANGED <<access, branches, conflicts, enforced, brand>>

SetUserRole(s, t, u, role) ==
    /\ Target(s, t, u)
    /\ CanManage(RoleOf(s), role) /\ CanManage(RoleOf(s), users[u].role)
    /\ users' = [users EXCEPT ![u].role = role]
    /\ Granted(s)
    /\ UNCHANGED <<access, branches, conflicts, enforced, brand>>

UpdateTenantBrand(s, t, theme) ==
    /\ Admitted(s, t, "brand.write")
    /\ brand' = [brand EXCEPT ![t] = theme]
    /\ Granted(s)
    /\ UNCHANGED <<org, conflicts, enforced>>

(* PATCH feature-flags/risk_enforcement *)
SetRiskEnforcement(s, t, on) ==
    /\ Admitted(s, t, "feature.flag.write")
    /\ enforced' = IF on THEN enforced \cup {t} ELSE enforced \ {t}
    /\ Granted(s)
    /\ UNCHANGED <<org, conflicts, brand>>

-----------------------------------------------------------------------------
(* The point of sale.  Its handlers work on the session's tenant and branch. *)

WriteInBranch(s, action) ==
    /\ Admitted(s, TenantOf(s), action)
    /\ Log(s, {s.branch}, {})
    /\ UNCHANGED <<org, conflicts, enforced, brand, changes>>

(* A transfer asks for no access to its destination, nor whether that is     *)
(* locked.                                                                   *)
Transfer(s, b) ==
    /\ Admitted(s, TenantOf(s), "inventory.mutate")
    /\ IsBranchOf(b, TenantOf(s))
    /\ Log(s, {s.branch}, {b})
    /\ UNCHANGED <<org, conflicts, enforced, brand, changes>>

(* sync/retry is not locked.  What it replays was accepted before and is not *)
(* told again; it may find a conflict.                                       *)
SyncQueue(s) ==
    /\ Admitted(s, TenantOf(s), "queue.sync")
    /\ \/ UNCHANGED conflicts
       \/ \E c \in ConflictIds :
             /\ conflicts[c] = Absent
             /\ conflicts' = [conflicts EXCEPT ![c] = [branch |-> s.branch, status |-> "OPEN"]]
    /\ Served(s)
    /\ UNCHANGED <<org, enforced, brand>>

(* A conflict is looked up by its id alone and in any status. *)
ResolveConflict(s, c) ==
    /\ Admitted(s, TenantOf(s), "conflict.resolve")
    /\ conflicts[c] # Absent
    /\ conflicts' = [conflicts EXCEPT ![c].status = "RESOLVED"]
    /\ Served(s)
    /\ UNCHANGED <<org, enforced, brand>>

(* Mutant: the status is one the program does not know. *)
EscalateConflictUnknown(s, c) ==
    /\ Admitted(s, TenantOf(s), "conflict.escalate")
    /\ conflicts[c] # Absent
    /\ conflicts' = [conflicts EXCEPT ![c].status = "WAITING"]
    /\ Served(s)
    /\ UNCHANGED <<org, enforced, brand>>
EscalateConflict(s, c) ==
    /\ Admitted(s, TenantOf(s), "conflict.escalate")
    /\ conflicts[c] # Absent
    /\ conflicts' = [conflicts EXCEPT ![c].status = "ESCALATED"]
    /\ Served(s)
    /\ UNCHANGED <<org, enforced, brand>>

-----------------------------------------------------------------------------
ManageUsers(s, t) ==
    \E u \in UserIds :
        \/ \E email \in AskedEmails, role \in AskedRoles, b \in BranchIds :
              CreateUser(s, t, u, email, role, b)
        \/ \E b \in BranchIds \cup {Absent}, email \in AskedEmails \cup {Absent} :
              UpdateUser(s, t, u, b, email)
        \/ \E active \in BOOLEAN : SetUserStatus(s, t, u, active)
        \/ \E role \in AskedRoles : SetUserRole(s, t, u, role)

ManageTenant(s, t) ==
    \/ \E b \in BranchIds, code \in AskedCodes : CreateBranch(s, t, b, code) \/ UpdateBranch(s, t, b, code)
    \/ \E theme \in Brands : UpdateTenantBrand(s, t, theme)
    \/ \E on \in BOOLEAN : SetRiskEnforcement(s, t, on)

Operate(s) ==
    \/ \E action \in BranchWrites : WriteInBranch(s, action)
    \/ \E b \in BranchIds : Transfer(s, b)
    \/ SyncQueue(s)
    \/ \E c \in ConflictIds : ResolveConflict(s, c) \/ EscalateConflict(s, c)

Request ==
    \/ \E s \in {q \in Sessions : Known(q)} :
          Operate(s) \/ \E t \in Tenants : ManageUsers(s, t) \/ ManageTenant(s, t)
    \/ \E s \in Sessions, t \in Tenants, action \in {"user.write", "inventory.mutate"} : Deny(s, t, action)

Answer == served # NoRequest /\ served' = NoRequest /\ UNCHANGED <<org, conflicts, enforced, brand, changes>>

Next == (served = NoRequest /\ Request) \/ Answer

Spec == Init /\ [][Next]_vars

-----------------------------------------------------------------------------
(***************************************************************************)
(* Properties                                                              *)
(***************************************************************************)
TypeOK ==
    /\ users \in [UserIds -> User \cup {Absent}]
    /\ access \subseteq UserIds \X BranchIds
    /\ branches \in [BranchIds -> Branch \cup {Absent}]
    /\ conflicts \in [ConflictIds -> Conflict \cup {Absent}]
    /\ enforced \subseteq Tenants
    /\ brand \in [Tenants -> Brands]
    /\ served \in [by : UserIds \cup {Absent}, tenant : Tenants \cup {Absent},
                 restrictive : BOOLEAN, wrote : SUBSET BranchIds, supplied : SUBSET BranchIds]
    /\ changes \in 0 .. MaxChanges

(* Nobody is locked out by a move: whatever was granted or refused halfway,  *)
(* a user's branch is one of the user's tenant and open to the user.         *)
HomeIsAccessible ==
    \A u \in UserIds : users[u] # Absent =>
        IsBranchOf(users[u].home, users[u].tenant) /\ <<u, users[u].home>> \in access

(* Within a tenant an address belongs to one user, in whatever case it was   *)
(* entered, at creation or in an update.                                     *)
EmailsDistinct ==
    \A u, v \in UserIds :
        /\ users[u] # Absent /\ users[v] # Absent
        /\ users[u].tenant = users[v].tenant
        /\ Lower(users[u].email) = Lower(users[v].email)
        => u = v

(* Within a tenant no two branches have the same code.  (Codes that differ   *)
(* in case alone are refused at creation but reached by an update.)          *)
CodesDistinct ==
    \A a, b \in BranchIds :
        /\ branches[a] # Absent /\ branches[b] # Absent
        /\ branches[a].tenant = branches[b].tenant
        /\ branches[a].code = branches[b].code
        => a = b

(* By no sequence of grants do the others make themselves owners: an owner's *)
(* role comes from an active owner, an application owner's from one of them. *)
OwnersMadeByOwners ==
    [][\A u \in UserIds :
          /\ users'[u] # Absent /\ users'[u].role \in Owners
          /\ users[u] # Absent => users[u].role # users'[u].role
          => LET giver == users[served'.by]
             IN  /\ giver # Absent /\ giver.active /\ giver.role \in Owners
                 /\ users'[u].role = "APPLICATION_OWNER" => giver.role = "APPLICATION_OWNER"]_vars

(* A tenant that has someone to administer its users only loses the last of  *)
(* them by that one's own request, or the application owner's: a manager who *)
(* was deactivated cannot do it, nor two managers by deactivating each other.*)
Administrators(t) ==
    {u \in UserIds : /\ users[u] # Absent /\ users[u].tenant = t
                     /\ users[u].active /\ users[u].role \in Managers}
LastAdministratorLeavesAlone ==
    [][\A t \in Tenants :
          Administrators(t) # {} /\ Administrators(t)' = {}
          => \/ Administrators(t) = {served'.by}
             \/ users[served'.by].role = "APPLICATION_OWNER"]_vars

(* What anyone but an application owner changes belongs to the own tenant:   *)
(* its users, branches, brand and flag, the records of its branches.  (The   *)
(* conflicts are left out, as their handlers look at nothing but an id.)     *)
OthersKeepToTheirTenant ==
    [][LET asker == users[served'.by]
           own == {b \in BranchIds : IsBranchOf(b, asker.tenant)}
       IN  served' # NoRequest /\ asker.role # "APPLICATION_OWNER" =>
           /\ served'.wrote \cup served'.supplied \subseteq own
           /\ \A u \in UserIds : users'[u] # users[u] => users'[u].tenant = asker.tenant
           /\ \A b \in BranchIds : branches'[b] # branches[b] => branches'[b].tenant = asker.tenant
           /\ \A t \in Tenants \ {asker.tenant} :
                 brand'[t] = brand[t] /\ (t \in enforced' <=> t \in enforced)]_vars

(* As long as a branch has an open conflict, no request of a cashier or of   *)
(* inventory staff, from whatever branch, changes its goods and sales; only  *)
(* a transfer brings goods in from a branch that is not locked, and a sync   *)
(* replays what was queued before.                                           *)
LockedBranchOnlyReceives ==
    [][\A b \in BranchIds :
          HasOpenConflicts(b) /\ b \in served'.wrote
          => users[served'.by].role \notin LockedRoles]_vars

(* Where risk is enforced a session in a restrictive mode changes neither    *)
(* organisation nor flag nor goods, so it cannot lift its own restriction;   *)
(* it may only come from another tenant, where risk is not enforced.         *)
RestrictionHoldsItself ==
    [][\A t \in enforced :
          served'.restrictive /\ served'.tenant = t
          => UNCHANGED <<org, conflicts, enforced>> /\ served'.wrote \cup served'.supplied = {}]_vars

(* "Open conflicts require manager resolution before mutation actions."      *)
(* (middleware/auth.ts:29): a conflict is settled by who may resolve it.     *)
LockLiftedByManagers ==
    [][\A c \in ConflictIds :
          /\ conflicts[c] # Absent /\ conflicts[c].status = "OPEN"
          /\ conflicts'[c].status # "OPEN"
          => users[served'.by].role \in Managers]_vars
=============================================================================
