------------------------- MODULE AccessControl_proofs -------------------------
(***************************************************************************)
(* Theorems about AccessControl, for every value of its constants.         *)
(***************************************************************************)
EXTENDS AccessControl, TLAPS

(***************************************************************************)
(* The inductive invariant.  Addresses are kept in lower case, which is    *)
(* why comparing them as they are kept is enough.                          *)
(***************************************************************************)
EmailsLower == \A u \in UserIds : users[u] # Absent => Lower(users[u].email) = users[u].email

IInv == TypeOK /\ HomeIsAccessible /\ EmailsLower /\ EmailsDistinct /\ CodesDistinct

(***************************************************************************)
(* A step changes one user, or one branch, or neither.  What it makes of   *)
(* the one is fit to stand beside the others.                              *)
(***************************************************************************)
SetsUser(u, r) ==
    /\ u \in UserIds /\ r \in User
    /\ Lower(r.email) = r.email
    /\ \A v \in UserIds \ {u} :
          users[v] # Absent /\ users[v].tenant = r.tenant => users[v].email # r.email
    /\ IsBranchOf(r.home, r.tenant)
    /\ users' = [users EXCEPT ![u] = r]
    /\ access \subseteq access' /\ access' \subseteq UserIds \X BranchIds
    /\ <<u, r.home>> \in access'
    /\ UNCHANGED branches

SetsBranch(b, r) ==
    /\ b \in BranchIds /\ r \in Branch
    /\ branches[b] # Absent => branches[b].tenant = r.tenant
    /\ \A a \in BranchIds \ {b} :
          branches[a] # Absent /\ branches[a].tenant = r.tenant => branches[a].code # r.code
    /\ branches' = [branches EXCEPT ![b] = r]
    /\ UNCHANGED <<users, access>>

-----------------------------------------------------------------------------
LEMMA Lowered ==
    ASSUME NEW S, NEW w \in Written(S)
    PROVE  Lower(w) \in Written(S) /\ Lower(Lower(w)) = Lower(w)
  BY DEF Lower, Written

LEMMA SomeUser ==
    ASSUME TypeOK, NEW u \in UserIds, users[u] # Absent
    PROVE  users[u] \in User
  BY DEF TypeOK

LEMMA SomeBranch ==
    ASSUME TypeOK, NEW b \in BranchIds, branches[b] # Absent
    PROVE  branches[b] \in Branch
  BY DEF TypeOK

LEMMA ServedType ==
    ASSUME TypeOK, NEW s \in Sessions, branches[s.branch] # Absent,
           NEW wrote \in SUBSET BranchIds, NEW supplied \in SUBSET BranchIds,
           Log(s, wrote, supplied)
    PROVE  served' \in [by : UserIds \cup {Absent}, tenant : Tenants \cup {Absent},
                        restrictive : BOOLEAN,
                        wrote : SUBSET BranchIds, supplied : SUBSET BranchIds]
<1>1. s.user \in UserIds /\ s.branch \in BranchIds
  BY DEF Sessions
<1>2. TenantOf(s) \in Tenants
  BY <1>1, SomeBranch DEF Branch, TenantOf
<1>3. Restrictive(s) \in BOOLEAN
  BY DEF Restrictive
<1> QED
  BY <1>1, <1>2, <1>3 DEF Log

LEMMA AdmittedIsKnown ==
    ASSUME NEW s, NEW t, NEW action, Admitted(s, t, action)
    PROVE  Known(s)
  BY DEF Admitted

LEMMA KnownExists ==
    ASSUME NEW s, Known(s)
    PROVE  /\ users[s.user] # Absent /\ users[s.user].active
           /\ branches[s.branch] # Absent
  BY DEF Known

-----------------------------------------------------------------------------
(* What a step can be *)

LEMMA StepCases ==
    ASSUME [Next]_vars
    PROVE  \/ UNCHANGED vars
           \/ Answer
           \/ \E s \in Sessions, t \in Tenants :
                \/ \E action \in {"user.write", "inventory.mutate"} : Deny(s, t, action)
                \/ \E b \in BranchIds, code \in AskedCodes : CreateBranch(s, t, b, code)
                \/ \E b \in BranchIds, code \in AskedCodes : UpdateBranch(s, t, b, code)
                \/ \E u \in UserIds, email \in AskedEmails, role \in AskedRoles, b \in BranchIds :
                      CreateUser(s, t, u, email, role, b)
                \/ \E u \in UserIds, b \in BranchIds \cup {Absent}, email \in AskedEmails \cup {Absent} :
                      UpdateUser(s, t, u, b, email)
                \/ \E u \in UserIds, active \in BOOLEAN : SetUserStatus(s, t, u, active)
                \/ \E u \in UserIds, role \in AskedRoles : SetUserRole(s, t, u, role)
                \/ \E theme \in Brands : UpdateTenantBrand(s, t, theme)
                \/ \E on \in BOOLEAN : SetRiskEnforcement(s, t, on)
           \/ \E s \in Sessions :
                \/ \E action \in BranchWrites : WriteInBranch(s, action)
                \/ \E b \in BranchIds : Transfer(s, b)
                \/ SyncQueue(s)
                \/ \E c \in ConflictIds : ResolveConflict(s, c)
                \/ \E c \in ConflictIds : EscalateConflict(s, c)
<1>1. UNCHANGED vars \/ Next
  OBVIOUS
<1>2. CASE UNCHANGED vars
  BY <1>2
<1>3. CASE Answer
  BY <1>3
<1>4. ASSUME NEW s \in Sessions, Operate(s)
      PROVE  \/ \E action \in BranchWrites : WriteInBranch(s, action)
             \/ \E b \in BranchIds : Transfer(s, b)
             \/ SyncQueue(s)
             \/ \E c \in ConflictIds : ResolveConflict(s, c)
             \/ \E c \in ConflictIds : EscalateConflict(s, c)
  BY <1>4 DEF Operate
<1>5. ASSUME NEW s \in Sessions, NEW t \in Tenants, ManageUsers(s, t)
      PROVE  \/ \E u \in UserIds, email \in AskedEmails, role \in AskedRoles, b \in BranchIds :
                      CreateUser(s, t, u, email, role, b)
             \/ \E u \in UserIds, b \in BranchIds \cup {Absent}, email \in AskedEmails \cup {Absent} :
                      UpdateUser(s, t, u, b, email)
             \/ \E u \in UserIds, active \in BOOLEAN : SetUserStatus(s, t, u, active)
             \/ \E u \in UserIds, role \in AskedRoles : SetUserRole(s, t, u, role)
  BY <1>5 DEF ManageUsers
<1>6. ASSUME NEW s \in Sessions, NEW t \in Tenants, ManageTenant(s, t)
      PROVE  \/ \E b \in BranchIds, code \in AskedCodes : CreateBranch(s, t, b, code)
             \/ \E b \in BranchIds, code \in AskedCodes : UpdateBranch(s, t, b, code)
             \/ \E theme \in Brands : UpdateTenantBrand(s, t, theme)
             \/ \E on \in BOOLEAN : SetRiskEnforcement(s, t, on)
  BY <1>6 DEF ManageTenant
<1>7. CASE Request
  <2>1. \/ \E s \in Sessions : Operate(s)
        \/ \E s \in Sessions, t \in Tenants : ManageUsers(s, t)
        \/ \E s \in Sessions, t \in Tenants : ManageTenant(s, t)
        \/ \E s \in Sessions, t \in Tenants, action \in {"user.write", "inventory.mutate"} : Deny(s, t, action)
    BY <1>7 DEF Request
  <2>2. CASE \E s \in Sessions : Operate(s)
    BY <2>2, <1>4
  <2>3. CASE \E s \in Sessions, t \in Tenants : ManageUsers(s, t)
    BY <2>3, <1>5
  <2>4. CASE \E s \in Sessions, t \in Tenants : ManageTenant(s, t)
    BY <2>4, <1>6
  <2>5. CASE \E s \in Sessions, t \in Tenants, action \in {"user.write", "inventory.mutate"} : Deny(s, t, action)
    BY <2>5
  <2> QED
    BY <2>1, <2>2, <2>3, <2>4, <2>5
<1> QED
  BY <1>1, <1>2, <1>3, <1>7 DEF Next

-----------------------------------------------------------------------------
(* The changes of one branch *)

LEMMA NewBranch ==
    ASSUME IInv, NEW s, NEW t \in Tenants, NEW b \in BranchIds, NEW code \in AskedCodes,
           CreateBranch(s, t, b, code)
    PROVE  SetsBranch(b, [tenant |-> t, code |-> code])
<1> DEFINE r == [tenant |-> t, code |-> code]
<1>1. code \in Written(Codes)
  BY AccessAssumption
<1>2. r \in Branch
  BY <1>1 DEF Branch
<1>3. code.caps \in BOOLEAN /\ [code EXCEPT !.caps = code.caps] = code
  BY <1>1 DEF Written
<1>4. ~CodeTaken(t, code, b)
  BY <1>3 DEF CreateBranch
<1> QED
  BY <1>2, <1>4 DEF SetsBranch, CreateBranch, CodeTaken

LEMMA ChangedBranch ==
    ASSUME IInv, NEW s, NEW t \in Tenants, NEW b \in BranchIds, NEW code \in AskedCodes,
           UpdateBranch(s, t, b, code)
    PROVE  SetsBranch(b, [branches[b] EXCEPT !.code = code])
<1> DEFINE r == [branches[b] EXCEPT !.code = code]
<1>1. code \in Written(Codes)
  BY AccessAssumption
<1>2. branches[b] # Absent /\ branches[b].tenant = t
  BY DEF UpdateBranch
<1>3. branches[b] \in Branch
  BY <1>2, SomeBranch DEF IInv
<1>4. r \in Branch /\ r.tenant = t /\ r.code = code
  BY <1>1, <1>2, <1>3 DEF Branch
<1>5. \A a \in BranchIds \ {b} : branches[a] # Absent /\ branches[a].tenant = t => branches[a].code # code
  <2>1. CASE code = branches[b].code
    BY <2>1, <1>2 DEF IInv, CodesDistinct
  <2>2. CASE code # branches[b].code
    BY <2>2 DEF UpdateBranch, CodeTaken
  <2> QED
    BY <2>1, <2>2
<1>6. branches' = [branches EXCEPT ![b] = r] /\ UNCHANGED <<users, access>>
  BY DEF UpdateBranch
<1> QED
  BY <1>2, <1>4, <1>5, <1>6 DEF SetsBranch

-----------------------------------------------------------------------------
(* The changes of one user *)

LEMMA OthersEmails ==
    ASSUME IInv, NEW u \in UserIds, users[u] # Absent
    PROVE  /\ users[u] \in User
           /\ Lower(users[u].email) = users[u].email
           /\ \A v \in UserIds \ {u} :
                 users[v] # Absent /\ users[v].tenant = users[u].tenant => users[v].email # users[u].email
           /\ IsBranchOf(users[u].home, users[u].tenant)
           /\ <<u, users[u].home>> \in access
<1>1. users[u] \in User
  BY SomeUser DEF IInv
<1> QED
  BY <1>1 DEF IInv, EmailsLower, EmailsDistinct, HomeIsAccessible

LEMMA NewUser ==
    ASSUME IInv, NEW s, NEW t \in Tenants, NEW u \in UserIds, NEW email \in AskedEmails,
           NEW role \in AskedRoles, NEW b \in BranchIds,
           CreateUser(s, t, u, email, role, b)
    PROVE  SetsUser(u, [tenant |-> t, home |-> b, role |-> role, email |-> Lower(email), active |-> TRUE])
<1> DEFINE r == [tenant |-> t, home |-> b, role |-> role, email |-> Lower(email), active |-> TRUE]
<1>1. email \in Written(Names) /\ role \in Roles
  BY AccessAssumption
<1>2. Lower(email) \in Written(Names) /\ Lower(Lower(email)) = Lower(email)
  BY <1>1, Lowered
<1>3. r \in User
  BY <1>1, <1>2 DEF User
<1>4. \A v \in UserIds \ {u} : users[v] # Absent /\ users[v].tenant = t => users[v].email # Lower(email)
  BY DEF CreateUser, EmailTaken
<1>5. access \subseteq UserIds \X BranchIds
  BY DEF IInv, TypeOK
<1> QED
  BY <1>2, <1>3, <1>4, <1>5 DEF SetsUser, CreateUser

LEMMA ChangedUser ==
    ASSUME IInv, NEW s, NEW t \in Tenants, NEW u \in UserIds,
           NEW b \in BranchIds \cup {Absent}, NEW email \in AskedEmails \cup {Absent},
           UpdateUser(s, t, u, b, email)
    PROVE  SetsUser(u, UserAfter(u, b, email, EmailRefused(t, u, email)))
<1> DEFINE refused == EmailRefused(t, u, email)
           r == UserAfter(u, b, email, refused)
<1>1. users[u] # Absent /\ users[u].tenant = t
  BY DEF UpdateUser, Target
<1>2. /\ users[u] \in User
      /\ Lower(users[u].email) = users[u].email
      /\ \A v \in UserIds \ {u} : users[v] # Absent /\ users[v].tenant = t => users[v].email # users[u].email
      /\ IsBranchOf(users[u].home, t) /\ <<u, users[u].home>> \in access
  BY <1>1, OthersEmails
<1>3. email # Absent => /\ email \in Written(Names)
                        /\ Lower(email) \in Written(Names) /\ Lower(Lower(email)) = Lower(email)
  BY Lowered, AccessAssumption
<1>4. r.email = IF refused \/ email = Absent THEN users[u].email ELSE Lower(email)
  BY <1>2 DEF UserAfter, User
<1>5. r.home = IF b = Absent THEN users[u].home ELSE b
  BY <1>2 DEF UserAfter, User
<1>6. r.tenant = t /\ r \in User
  <2>1. users[u].email \in Written(Names) /\ users[u].home \in BranchIds
    BY <1>2 DEF User
  <2>2. \A h \in BranchIds, e \in Written(Names) : [users[u] EXCEPT !.home = h, !.email = e] \in User
    BY <1>2 DEF User
  <2>3. r = [users[u] EXCEPT !.home = r.home, !.email = r.email]
    BY <1>4, <1>5, <1>2 DEF UserAfter, User
  <2>4. r.email \in Written(Names) /\ r.home \in BranchIds
    BY <1>3, <1>4, <1>5, <2>1
  <2>5. r.tenant = users[u].tenant
    BY <1>2 DEF UserAfter, User
  <2> QED
    BY <2>2, <2>3, <2>4, <2>5, <1>1
<1>7. Lower(r.email) = r.email
  BY <1>2, <1>3, <1>4
<1>8. \A v \in UserIds \ {u} : users[v] # Absent /\ users[v].tenant = t => users[v].email # r.email
  <2>1. CASE refused \/ email = Absent
    BY <2>1, <1>2, <1>4
  <2>2. CASE ~refused /\ email # Absent
    BY <2>2, <1>4 DEF EmailRefused, EmailTaken
  <2> QED
    BY <2>1, <2>2
<1>9. IsBranchOf(r.home, t)
  BY <1>2, <1>5 DEF UpdateUser
<1>10. users' = [users EXCEPT ![u] = r] /\ UNCHANGED branches
  BY DEF UpdateUser
<1>11. access' = IF b = Absent THEN access ELSE access \cup {<<u, b>>}
  BY DEF UpdateUser, AccessAfter
<1>12. access \subseteq UserIds \X BranchIds
  BY DEF IInv, TypeOK
<1>13. access \subseteq access' /\ access' \subseteq UserIds \X BranchIds /\ <<u, r.home>> \in access'
  BY <1>2, <1>5, <1>11, <1>12
<1> QED
  BY <1>6, <1>7, <1>8, <1>9, <1>10, <1>13 DEF SetsUser

LEMMA ChangedStatus ==
    ASSUME IInv, NEW s, NEW t \in Tenants, NEW u \in UserIds, NEW active \in BOOLEAN,
           SetUserStatus(s, t, u, active)
    PROVE  SetsUser(u, [users[u] EXCEPT !.active = active])
<1> DEFINE r == [users[u] EXCEPT !.active = active]
<1>1. users[u] # Absent
  BY DEF SetUserStatus, Target
<1>2. users[u] \in User
  BY <1>1, OthersEmails
<1>3. r \in User /\ r.email = users[u].email /\ r.home = users[u].home /\ r.tenant = users[u].tenant
  BY <1>2 DEF User
<1>4. access \subseteq UserIds \X BranchIds
  BY DEF IInv, TypeOK
<1>5. users' = [users EXCEPT ![u] = r] /\ UNCHANGED <<access, branches>>
  BY DEF SetUserStatus
<1> QED
  BY <1>1, <1>3, <1>4, <1>5, OthersEmails DEF SetsUser

LEMMA ChangedRole ==
    ASSUME IInv, NEW s, NEW t \in Tenants, NEW u \in UserIds, NEW role \in AskedRoles,
           SetUserRole(s, t, u, role)
    PROVE  SetsUser(u, [users[u] EXCEPT !.role = role])
<1> DEFINE r == [users[u] EXCEPT !.role = role]
<1>1. users[u] # Absent
  BY DEF SetUserRole, Target
<1>2. users[u] \in User /\ role \in Roles
  BY <1>1, OthersEmails, AccessAssumption
<1>3. r \in User /\ r.email = users[u].email /\ r.home = users[u].home /\ r.tenant = users[u].tenant
  BY <1>2 DEF User
<1>4. access \subseteq UserIds \X BranchIds
  BY DEF IInv, TypeOK
<1>5. users' = [users EXCEPT ![u] = r] /\ UNCHANGED <<access, branches>>
  BY DEF SetUserRole
<1> QED
  BY <1>1, <1>3, <1>4, <1>5, OthersEmails DEF SetsUser

-----------------------------------------------------------------------------
(* Every step, by what it changes of the organisation *)

LEMMA OrgStep ==
    ASSUME IInv, [Next]_vars
    PROVE  \/ UNCHANGED org
           \/ \E u \in UserIds, r \in User : SetsUser(u, r)
           \/ \E b \in BranchIds, r \in Branch : SetsBranch(b, r)
<1>1. ASSUME UNCHANGED vars \/ Answer
      PROVE  UNCHANGED org
  BY <1>1 DEF vars, Answer, org
<1>2. ASSUME NEW s \in Sessions, NEW t \in Tenants
      PROVE  /\ \A action : Deny(s, t, action) => UNCHANGED org
             /\ \A theme : UpdateTenantBrand(s, t, theme) => UNCHANGED org
             /\ \A on : SetRiskEnforcement(s, t, on) => UNCHANGED org
  BY DEF Deny, UpdateTenantBrand, SetRiskEnforcement
<1>3. ASSUME NEW s \in Sessions
      PROVE  /\ \A action : WriteInBranch(s, action) => UNCHANGED org
             /\ \A b : Transfer(s, b) => UNCHANGED org
             /\ SyncQueue(s) => UNCHANGED org
             /\ \A c : ResolveConflict(s, c) \/ EscalateConflict(s, c) => UNCHANGED org
  BY DEF WriteInBranch, Transfer, SyncQueue, ResolveConflict, EscalateConflict
<1>4. \A u, r : SetsUser(u, r) => u \in UserIds /\ r \in User
  BY DEF SetsUser
<1>5. \A b, r : SetsBranch(b, r) => b \in BranchIds /\ r \in Branch
  BY DEF SetsBranch
<1>6. ASSUME NEW s \in Sessions, NEW t \in Tenants, NEW b \in BranchIds, NEW code \in AskedCodes,
             CreateBranch(s, t, b, code) \/ UpdateBranch(s, t, b, code)
      PROVE  \E c \in BranchIds, r \in Branch : SetsBranch(c, r)
  BY <1>5, <1>6, NewBranch, ChangedBranch
<1>7. ASSUME NEW s \in Sessions, NEW t \in Tenants, NEW u \in UserIds, NEW email \in AskedEmails,
             NEW role \in AskedRoles, NEW b \in BranchIds, CreateUser(s, t, u, email, role, b)
      PROVE  \E v \in UserIds, r \in User : SetsUser(v, r)
  <2>1. SetsUser(u, [tenant |-> t, home |-> b, role |-> role, email |-> Lower(email), active |-> TRUE])
    BY <1>7, NewUser
  <2> QED
    BY <1>4, <2>1
<1>8. ASSUME NEW s \in Sessions, NEW t \in Tenants, NEW u \in UserIds,
             NEW b \in BranchIds \cup {Absent}, NEW email \in AskedEmails \cup {Absent},
             UpdateUser(s, t, u, b, email)
      PROVE  \E v \in UserIds, r \in User : SetsUser(v, r)
  BY <1>4, <1>8, ChangedUser
<1>9. ASSUME NEW s \in Sessions, NEW t \in Tenants, NEW u \in UserIds, NEW active \in BOOLEAN,
             SetUserStatus(s, t, u, active)
      PROVE  \E v \in UserIds, r \in User : SetsUser(v, r)
  BY <1>4, <1>9, ChangedStatus
<1>10. ASSUME NEW s \in Sessions, NEW t \in Tenants, NEW u \in UserIds, NEW role \in AskedRoles,
              SetUserRole(s, t, u, role)
       PROVE  \E v \in UserIds, r \in User : SetsUser(v, r)
  BY <1>4, <1>10, ChangedRole
<1>11. CASE UNCHANGED vars \/ Answer
  BY <1>1, <1>11
<1>12. CASE \E s \in Sessions :
                \/ \E action \in BranchWrites : WriteInBranch(s, action)
                \/ \E b \in BranchIds : Transfer(s, b)
                \/ SyncQueue(s)
                \/ \E c \in ConflictIds : ResolveConflict(s, c)
                \/ \E c \in ConflictIds : EscalateConflict(s, c)
  BY <1>3, <1>12
<1>13. ASSUME NEW s \in Sessions, NEW t \in Tenants,
              \/ \E action \in {"user.write", "inventory.mutate"} : Deny(s, t, action)
              \/ \E theme \in Brands : UpdateTenantBrand(s, t, theme)
              \/ \E on \in BOOLEAN : SetRiskEnforcement(s, t, on)
       PROVE  UNCHANGED org
  BY <1>2, <1>13
<1>14. ASSUME NEW s \in Sessions, NEW t \in Tenants,
              \E b \in BranchIds, code \in AskedCodes : CreateBranch(s, t, b, code) \/ UpdateBranch(s, t, b, code)
       PROVE  \E b \in BranchIds, r \in Branch : SetsBranch(b, r)
  BY <1>6, <1>14
<1>15. ASSUME NEW s \in Sessions, NEW t \in Tenants,
              \/ \E u \in UserIds, email \in AskedEmails, role \in AskedRoles, b \in BranchIds :
                    CreateUser(s, t, u, email, role, b)
              \/ \E u \in UserIds, b \in BranchIds \cup {Absent}, email \in AskedEmails \cup {Absent} :
                    UpdateUser(s, t, u, b, email)
              \/ \E u \in UserIds, active \in BOOLEAN : SetUserStatus(s, t, u, active)
              \/ \E u \in UserIds, role \in AskedRoles : SetUserRole(s, t, u, role)
       PROVE  \E u \in UserIds, r \in User : SetsUser(u, r)
  BY <1>7, <1>8, <1>9, <1>10, <1>15
<1> QED
  BY <1>11, <1>12, <1>13, <1>14, <1>15, StepCases

LEMMA OrgTypes ==
    ASSUME IInv, UNCHANGED org \/ (\E u, r : SetsUser(u, r)) \/ (\E b, r : SetsBranch(b, r))
    PROVE  /\ users' \in [UserIds -> User \cup {Absent}]
           /\ access' \subseteq UserIds \X BranchIds
           /\ branches' \in [BranchIds -> Branch \cup {Absent}]
<1>1. /\ users \in [UserIds -> User \cup {Absent}]
      /\ access \subseteq UserIds \X BranchIds
      /\ branches \in [BranchIds -> Branch \cup {Absent}]
  BY DEF IInv, TypeOK
<1>2. CASE UNCHANGED org
  BY <1>1, <1>2 DEF org
<1>3. ASSUME NEW u, NEW r, SetsUser(u, r)
      PROVE  /\ users' \in [UserIds -> User \cup {Absent}]
             /\ access' \subseteq UserIds \X BranchIds
             /\ branches' = branches
  BY <1>1, <1>3 DEF SetsUser
<1>4. ASSUME NEW b, NEW r, SetsBranch(b, r)
      PROVE  /\ branches' \in [BranchIds -> Branch \cup {Absent}]
             /\ UNCHANGED <<users, access>>
  BY <1>1, <1>4 DEF SetsBranch
<1> QED
  BY <1>1, <1>2, <1>3, <1>4

(* A user that is fit to stand beside the others keeps them fit. *)
LEMMA UserPreserves ==
    ASSUME IInv, NEW u, NEW r, SetsUser(u, r)
    PROVE  HomeIsAccessible' /\ EmailsLower' /\ EmailsDistinct' /\ CodesDistinct'
<1>1. /\ u \in UserIds /\ users' \in [UserIds -> User \cup {Absent}]
      /\ users'[u] = r /\ \A v \in UserIds \ {u} : users'[v] = users[v]
  BY DEF SetsUser, IInv, TypeOK
<1>2. HomeIsAccessible'
  BY <1>1 DEF SetsUser, HomeIsAccessible, IInv, IsBranchOf
<1>3. EmailsLower'
  BY <1>1 DEF SetsUser, EmailsLower, IInv
<1>4. EmailsDistinct'
  <2> SUFFICES ASSUME NEW v \in UserIds, NEW w \in UserIds,
                      users'[v] # Absent, users'[w] # Absent, users'[v].tenant = users'[w].tenant,
                      Lower(users'[v].email) = Lower(users'[w].email)
               PROVE  v = w
    BY DEF EmailsDistinct
  <2>1. users'[v].email = users'[w].email
    BY <1>3 DEF EmailsLower
  <2>2. CASE v = u
    BY <1>1, <2>1, <2>2 DEF SetsUser
  <2>3. CASE w = u
    BY <1>1, <2>1, <2>3 DEF SetsUser
  <2>4. CASE v # u /\ w # u
    BY <1>1, <2>4 DEF IInv, EmailsDistinct
  <2> QED
    BY <2>2, <2>3, <2>4
<1>5. CodesDistinct'
  BY DEF SetsUser, CodesDistinct, IInv
<1> QED
  BY <1>2, <1>3, <1>4, <1>5

LEMMA BranchPreserves ==
    ASSUME IInv, NEW b, NEW r, SetsBranch(b, r)
    PROVE  HomeIsAccessible' /\ EmailsLower' /\ EmailsDistinct' /\ CodesDistinct'
<1>1. /\ b \in BranchIds /\ branches'[b] = r /\ r # Absent
      /\ \A a \in BranchIds \ {b} : branches'[a] = branches[a]
  BY AccessAssumption DEF SetsBranch, IInv, TypeOK
<1>2. \A a, t : a \in BranchIds /\ IsBranchOf(a, t) => IsBranchOf(a, t)'
  BY <1>1 DEF SetsBranch, IsBranchOf
<1>3. \A u \in UserIds : users[u] # Absent => users[u].home \in BranchIds
  BY SomeUser DEF User, IInv
<1>4. HomeIsAccessible'
  BY <1>2, <1>3 DEF SetsBranch, HomeIsAccessible, IInv
<1>5. EmailsLower' /\ EmailsDistinct'
  BY DEF SetsBranch, EmailsLower, EmailsDistinct, IInv
<1>6. CodesDistinct'
  <2> SUFFICES ASSUME NEW a \in BranchIds, NEW c \in BranchIds,
                      branches'[a] # Absent, branches'[c] # Absent,
                      branches'[a].tenant = branches'[c].tenant, branches'[a].code = branches'[c].code
               PROVE  a = c
    BY DEF CodesDistinct
  <2>1. CASE a = b
    BY <1>1, <2>1 DEF SetsBranch
  <2>2. CASE c = b
    BY <1>1, <2>2 DEF SetsBranch
  <2>3. CASE a # b /\ c # b
    BY <1>1, <2>3 DEF IInv, CodesDistinct
  <2> QED
    BY <2>1, <2>2, <2>3
<1> QED
  BY <1>4, <1>5, <1>6

LEMMA SamePreserves ==
    ASSUME IInv, UNCHANGED org
    PROVE  HomeIsAccessible' /\ EmailsLower' /\ EmailsDistinct' /\ CodesDistinct'
  BY DEF IInv, org, HomeIsAccessible, IsBranchOf, EmailsLower, EmailsDistinct, CodesDistinct

-----------------------------------------------------------------------------
(* Every step, by what it does besides *)

Recorded ==
    /\ served' \in [by : UserIds \cup {Absent}, tenant : Tenants \cup {Absent},
                    restrictive : BOOLEAN,
                    wrote : SUBSET BranchIds, supplied : SUBSET BranchIds]
    /\ changes' \in 0 .. MaxChanges

LEMMA GrantedType ==
    ASSUME TypeOK, NEW s \in Sessions, NEW t, NEW action, Admitted(s, t, action),
           Granted(s)
    PROVE  Recorded
<1>1. branches[s.branch] # Absent
  BY AdmittedIsKnown, KnownExists
<1>2. Log(s, {}, {}) /\ changes' = changes + 1 /\ changes < MaxChanges
  BY DEF Granted
<1>3. changes' \in 0 .. MaxChanges
  BY <1>2, AccessAssumption DEF TypeOK
<1> QED
  BY <1>1, <1>2, <1>3, ServedType DEF Recorded

LEMMA LoggedType ==
    ASSUME TypeOK, NEW s \in Sessions, NEW t, NEW action, Admitted(s, t, action),
           NEW wrote \in SUBSET BranchIds, NEW supplied \in SUBSET BranchIds,
           Log(s, wrote, supplied), UNCHANGED changes
    PROVE  Recorded
<1>1. branches[s.branch] # Absent
  BY AdmittedIsKnown, KnownExists
<1> QED
  BY <1>1, ServedType DEF TypeOK, Recorded

Rest == /\ conflicts' \in [ConflictIds -> Conflict \cup {Absent}]
        /\ enforced' \subseteq Tenants
        /\ brand' \in [Tenants -> Brands]
        /\ Recorded

LEMMA RestAdministered ==
    ASSUME IInv, NEW s \in Sessions, NEW t \in Tenants
    PROVE  /\ \A action : Deny(s, t, action) => Rest
           /\ \A b, code : CreateBranch(s, t, b, code) \/ UpdateBranch(s, t, b, code) => Rest
           /\ \A u, email, role, b : CreateUser(s, t, u, email, role, b) => Rest
           /\ \A u, b, email : UpdateUser(s, t, u, b, email) => Rest
           /\ \A u, active : SetUserStatus(s, t, u, active) => Rest
           /\ \A u, role : SetUserRole(s, t, u, role) => Rest
           /\ \A theme \in Brands : UpdateTenantBrand(s, t, theme) => Rest
           /\ \A on : SetRiskEnforcement(s, t, on) => Rest
<1>1. /\ conflicts \in [ConflictIds -> Conflict \cup {Absent}]
      /\ enforced \subseteq Tenants /\ brand \in [Tenants -> Brands]
      /\ changes \in 0 .. MaxChanges
  BY DEF IInv, TypeOK
<1>2. ASSUME NEW action, Deny(s, t, action)
      PROVE  Rest
  <2>1. branches[s.branch] # Absent /\ Log(s, {}, {}) /\ UNCHANGED <<conflicts, enforced, brand, changes>>
    BY <1>2 DEF Deny
  <2>2. {} \in SUBSET BranchIds /\ TRUE \in BOOLEAN /\ TypeOK
    BY DEF IInv
  <2>3. served' \in [by : UserIds \cup {Absent}, tenant : Tenants \cup {Absent},
                    restrictive : BOOLEAN,
                    wrote : SUBSET BranchIds, supplied : SUBSET BranchIds]
    BY <2>1, <2>2, ServedType
  <2> QED
    BY <1>1, <2>1, <2>3 DEF Rest, Recorded
<1>3. ASSUME NEW b, NEW code, CreateBranch(s, t, b, code)
      PROVE  Rest
  BY <1>1, <1>3, GrantedType DEF CreateBranch, Rest, IInv
<1>4. ASSUME NEW b, NEW code, UpdateBranch(s, t, b, code)
      PROVE  Rest
  BY <1>1, <1>4, GrantedType DEF UpdateBranch, Rest, IInv
<1>5. ASSUME NEW u, NEW email, NEW role, NEW b, CreateUser(s, t, u, email, role, b)
      PROVE  Rest
  BY <1>1, <1>5, GrantedType DEF CreateUser, Rest, IInv
<1>6. ASSUME NEW u, NEW b, NEW email, UpdateUser(s, t, u, b, email)
      PROVE  Rest
  <2>1. EmailRefused(t, u, email) \in BOOLEAN
    BY DEF EmailRefused
  <2> QED
    BY <1>1, <1>6, <2>1, GrantedType DEF UpdateUser, Target, Rest, IInv
<1>7. ASSUME NEW u, NEW active, SetUserStatus(s, t, u, active)
      PROVE  Rest
  BY <1>1, <1>7, GrantedType DEF SetUserStatus, Target, Rest, IInv
<1>8. ASSUME NEW u, NEW role, SetUserRole(s, t, u, role)
      PROVE  Rest
  BY <1>1, <1>8, GrantedType DEF SetUserRole, Target, Rest, IInv
<1>9. ASSUME NEW theme \in Brands, UpdateTenantBrand(s, t, theme)
      PROVE  Rest
  BY <1>1, <1>9, GrantedType DEF UpdateTenantBrand, Rest, IInv
<1>10. ASSUME NEW on, SetRiskEnforcement(s, t, on)
       PROVE  Rest
  BY <1>1, <1>10, GrantedType DEF SetRiskEnforcement, Rest, IInv
<1> QED
  BY <1>2, <1>3, <1>4, <1>5, <1>6, <1>7, <1>8, <1>9, <1>10

LEMMA RestOperated ==
    ASSUME IInv, NEW s \in Sessions
    PROVE  /\ \A action : WriteInBranch(s, action) => Rest
           /\ \A b \in BranchIds : Transfer(s, b) => Rest
           /\ SyncQueue(s) => Rest
           /\ \A c \in ConflictIds : ResolveConflict(s, c) \/ EscalateConflict(s, c) => Rest
<1>1. /\ conflicts \in [ConflictIds -> Conflict \cup {Absent}]
      /\ enforced \subseteq Tenants /\ brand \in [Tenants -> Brands]
      /\ changes \in 0 .. MaxChanges
  BY DEF IInv, TypeOK
<1>2. s.branch \in BranchIds
  BY DEF Sessions
<1>3. ASSUME NEW action, WriteInBranch(s, action)
      PROVE  Rest
  <2>1. Admitted(s, TenantOf(s), action) /\ Log(s, {s.branch}, {}) /\ UNCHANGED <<conflicts, enforced, brand, changes>>
    BY <1>3 DEF WriteInBranch
  <2>2. {s.branch} \in SUBSET BranchIds /\ {} \in SUBSET BranchIds
    BY <1>2
  <2>3. Recorded
    BY <2>1, <2>2, LoggedType DEF IInv
  <2> QED
    BY <1>1, <2>1, <2>3 DEF Rest
<1>4. ASSUME NEW b \in BranchIds, Transfer(s, b)
      PROVE  Rest
  <2>1. Admitted(s, TenantOf(s), "inventory.mutate") /\ Log(s, {s.branch}, {b}) /\ UNCHANGED <<conflicts, enforced, brand, changes>>
    BY <1>4 DEF Transfer
  <2>2. {s.branch} \in SUBSET BranchIds /\ {b} \in SUBSET BranchIds
    BY <1>2
  <2>3. Recorded
    BY <2>1, <2>2, LoggedType DEF IInv
  <2> QED
    BY <1>1, <2>1, <2>3 DEF Rest
<1>5. ASSUME SyncQueue(s)
      PROVE  Rest
  <2>1. conflicts' \in [ConflictIds -> Conflict \cup {Absent}]
    BY <1>1, <1>2, <1>5 DEF SyncQueue, Conflict
  <2>2. Admitted(s, TenantOf(s), "queue.sync") /\ Log(s, {}, {}) /\ UNCHANGED <<enforced, brand, changes>>
    BY <1>5 DEF SyncQueue, Served
  <2>3. {} \in SUBSET BranchIds /\ TypeOK
    BY DEF IInv
  <2>4. Recorded
    BY <2>2, <2>3, LoggedType
  <2> QED
    BY <1>1, <2>1, <2>2, <2>4 DEF Rest
<1>6. ASSUME NEW c \in ConflictIds, NEW status \in {"RESOLVED", "ESCALATED"}, conflicts[c] # Absent,
             conflicts' = [conflicts EXCEPT ![c].status = status]
      PROVE  conflicts' \in [ConflictIds -> Conflict \cup {Absent}]
  <2>1. conflicts[c] \in Conflict
    BY <1>1, <1>6
  <2>2. [conflicts[c] EXCEPT !.status = status] \in Conflict
    BY <2>1 DEF Conflict
  <2> QED
    BY <1>1, <1>6, <2>2
<1>7. ASSUME NEW c \in ConflictIds, ResolveConflict(s, c)
      PROVE  Rest
  <2>1. conflicts' \in [ConflictIds -> Conflict \cup {Absent}]
    BY <1>6, <1>7 DEF ResolveConflict
  <2>2. Admitted(s, TenantOf(s), "conflict.resolve") /\ Log(s, {}, {}) /\ UNCHANGED <<enforced, brand, changes>>
    BY <1>7 DEF ResolveConflict, Served
  <2>3. {} \in SUBSET BranchIds /\ TypeOK
    BY DEF IInv
  <2>4. Recorded
    BY <2>2, <2>3, LoggedType
  <2> QED
    BY <1>1, <2>1, <2>2, <2>4 DEF Rest
<1>8. ASSUME NEW c \in ConflictIds, EscalateConflict(s, c)
      PROVE  Rest
  <2>1. conflicts' \in [ConflictIds -> Conflict \cup {Absent}]
    BY <1>6, <1>8 DEF EscalateConflict
  <2>2. Admitted(s, TenantOf(s), "conflict.escalate") /\ Log(s, {}, {}) /\ UNCHANGED <<enforced, brand, changes>>
    BY <1>8 DEF EscalateConflict, Served
  <2>3. {} \in SUBSET BranchIds /\ TypeOK
    BY DEF IInv
  <2>4. Recorded
    BY <2>2, <2>3, LoggedType
  <2> QED
    BY <1>1, <2>1, <2>2, <2>4 DEF Rest
<1> QED
  BY <1>3, <1>4, <1>5, <1>7, <1>8

LEMMA RestStep ==
    ASSUME IInv, [Next]_vars
    PROVE  Rest
<1>1. CASE UNCHANGED vars
  BY <1>1 DEF vars, Rest, Recorded, IInv, TypeOK
<1>2. CASE Answer
  BY <1>2 DEF Answer, NoRequest, Rest, Recorded, IInv, TypeOK
<1>3. CASE ~UNCHANGED vars /\ ~Answer
  BY <1>3, StepCases, RestAdministered, RestOperated
<1> QED
  BY <1>1, <1>2, <1>3

-----------------------------------------------------------------------------
(* The invariant *)

LEMMA InitInv ==
    ASSUME Init
    PROVE  IInv
<1>1. TypeOK
  <2>1. \A u \in UserIds : InitialUsers[u] # Absent => InitialUsers[u].home \in BranchIds
    BY AccessAssumption DEF User
  <2>2. access \subseteq UserIds \X BranchIds
    BY <2>1 DEF Init
  <2> QED
    BY <2>2, AccessAssumption DEF Init, TypeOK, NoRequest
<1>2. HomeIsAccessible
  BY AccessAssumption DEF Init, HomeIsAccessible, IsBranchOf
<1>3. EmailsLower
  BY AccessAssumption DEF Init, EmailsLower
<1>4. EmailsDistinct
  BY AccessAssumption DEF Init, EmailsDistinct
<1>5. CodesDistinct
  BY AccessAssumption DEF Init, CodesDistinct
<1> QED
  BY <1>1, <1>2, <1>3, <1>4, <1>5 DEF IInv

LEMMA StepInv ==
    ASSUME IInv, [Next]_vars
    PROVE  IInv'
<1>1. TypeOK'
  BY OrgStep, OrgTypes, RestStep DEF Rest, Recorded, TypeOK
<1>2. HomeIsAccessible' /\ EmailsLower' /\ EmailsDistinct' /\ CodesDistinct'
  BY OrgStep, UserPreserves, BranchPreserves, SamePreserves
<1> QED
  BY <1>1, <1>2 DEF IInv

THEOREM Invariant == Spec => []IInv
<1>1. Init => IInv
  BY InitInv
<1>2. IInv /\ [Next]_vars => IInv'
  BY StepInv
<1> QED
  BY <1>1, <1>2, PTL DEF Spec

(* Every value a variable takes is of its type: in particular no request     *)
(* gives a user an unknown role or a conflict an unknown status.             *)
THEOREM AccessTypes == Spec => []TypeOK
  BY Invariant, PTL DEF IInv

(* No grant, move or half-refused update leaves a user without access to the *)
(* branch that is the user's own, in the user's own tenant.                  *)
THEOREM HomesAccessible == Spec => []HomeIsAccessible
  BY Invariant, PTL DEF IInv

(* assertUniqueEmail keeps addresses distinct within a tenant, in any case,  *)
(* through every order of creations and updates.                             *)
THEOREM OneUserPerAddress == Spec => []EmailsDistinct
  BY Invariant, PTL DEF IInv

(* createBranch and updateBranch keep the codes of a tenant distinct.        *)
THEOREM OneBranchPerCode == Spec => []CodesDistinct
  BY Invariant, PTL DEF IInv

-----------------------------------------------------------------------------
(* What a step may not do.  Every step but an answer is a request by a       *)
(* session, denied or admitted to one action of the permission table.        *)

Refusal(s) == Log(s, {}, {}) /\ UNCHANGED <<org, conflicts, enforced, brand>>

UserChange(s, t) ==
    \E u \in UserIds :
        /\ Admitted(s, t, "user.write")
        /\ \/ users[u] = Absent
           \/ users[u] # Absent /\ users[u].tenant = t
        /\ \A v \in UserIds \ {u} : users'[v] = users[v]
        /\ users'[u] # Absent /\ users'[u].tenant = t
        /\ \/ users[u] # Absent /\ users'[u].role = users[u].role
           \/ CanManage(RoleOf(s), users'[u].role)
        /\ Log(s, {}, {})

TenantChange(s, t) ==
    \E action \in {"branch.write", "brand.write", "feature.flag.write"} :
        /\ Admitted(s, t, action)
        /\ Log(s, {}, {})
        /\ UNCHANGED users
        /\ action = "brand.write" => UNCHANGED <<org, conflicts, enforced>>

Operation(s) ==
    \E action \in BranchWrites \cup {"queue.sync", "conflict.resolve", "conflict.escalate"},
       wrote \in {{}, {s.branch}}, supplied \in SUBSET BranchIds :
        /\ Admitted(s, TenantOf(s), action)
        /\ Log(s, wrote, supplied)
        /\ UNCHANGED org
        /\ wrote # {} => action \in BranchWrites

LEMMA UserChanges ==
    ASSUME IInv, NEW s \in Sessions, NEW t \in Tenants, NEW u \in UserIds
    PROVE  /\ \A email \in AskedEmails, role \in AskedRoles, b \in BranchIds :
                 CreateUser(s, t, u, email, role, b) => UserChange(s, t)
           /\ \A b \in BranchIds \cup {Absent}, email \in AskedEmails \cup {Absent} :
                 UpdateUser(s, t, u, b, email) => UserChange(s, t)
           /\ \A active \in BOOLEAN : SetUserStatus(s, t, u, active) => UserChange(s, t)
           /\ \A role \in AskedRoles : SetUserRole(s, t, u, role) => UserChange(s, t)
<1>1. users \in [UserIds -> User \cup {Absent}]
  BY DEF IInv, TypeOK
<1>2. ASSUME NEW email \in AskedEmails, NEW role \in AskedRoles, NEW b \in BranchIds,
             CreateUser(s, t, u, email, role, b)
      PROVE  UserChange(s, t)
  <2>1. SetsUser(u, [tenant |-> t, home |-> b, role |-> role, email |-> Lower(email), active |-> TRUE])
    BY <1>2, NewUser
  <2>2. users'[u] # Absent
    BY <1>1, <2>1, AccessAssumption DEF SetsUser
  <2> QED
    BY <1>1, <1>2, <2>2 DEF CreateUser, Granted, UserChange
<1>3. ASSUME NEW b \in BranchIds \cup {Absent}, NEW email \in AskedEmails \cup {Absent},
             UpdateUser(s, t, u, b, email)
      PROVE  UserChange(s, t)
  <2> DEFINE refused == EmailRefused(t, u, email)
  <2>1. Target(s, t, u) /\ Granted(s) /\ users' = [users EXCEPT ![u] = UserAfter(u, b, email, refused)]
    BY <1>3 DEF UpdateUser
  <2>2. SetsUser(u, UserAfter(u, b, email, refused))
    BY <1>3, ChangedUser
  <2>3. users'[u] # Absent
    BY <1>1, <2>1, <2>2, AccessAssumption DEF SetsUser
  <2>4. users[u] \in User
    BY <1>1, <2>1 DEF Target
  <2>5. users'[u].role = users[u].role /\ users'[u].tenant = users[u].tenant
    BY <1>1, <2>1, <2>4 DEF UserAfter, User
  <2>6. refused \in BOOLEAN
    BY DEF EmailRefused
  <2>7. \A v \in UserIds \ {u} : users'[v] = users[v]
    BY <1>1, <2>1
  <2> QED
    BY <2>1, <2>3, <2>5, <2>6, <2>7 DEF Target, Granted, UserChange
<1>4. ASSUME NEW active \in BOOLEAN, SetUserStatus(s, t, u, active)
      PROVE  UserChange(s, t)
  <2>1. Target(s, t, u) /\ Granted(s) /\ users' = [users EXCEPT ![u].active = active]
    BY <1>4 DEF SetUserStatus
  <2>2. SetsUser(u, [users[u] EXCEPT !.active = active])
    BY <1>4, ChangedStatus
  <2>3. users'[u] # Absent
    BY <1>1, <2>1, <2>2, AccessAssumption DEF SetsUser
  <2>4. users[u] \in User
    BY <1>1, <2>1 DEF Target
  <2>5. users'[u].role = users[u].role /\ users'[u].tenant = users[u].tenant
    BY <1>1, <2>1, <2>4 DEF User
  <2> QED
    BY <1>1, <2>1, <2>3, <2>5 DEF Target, Granted, UserChange
<1>5. ASSUME NEW role \in AskedRoles, SetUserRole(s, t, u, role)
      PROVE  UserChange(s, t)
  <2>1. /\ Target(s, t, u) /\ Granted(s) /\ users' = [users EXCEPT ![u].role = role]
        /\ CanManage(RoleOf(s), role)
    BY <1>5 DEF SetUserRole
  <2>2. SetsUser(u, [users[u] EXCEPT !.role = role])
    BY <1>5, ChangedRole
  <2>3. users'[u] # Absent
    BY <1>1, <2>1, <2>2, AccessAssumption DEF SetsUser
  <2>4. users[u] \in User
    BY <1>1, <2>1 DEF Target
  <2>5. users'[u].role = role /\ users'[u].tenant = users[u].tenant
    BY <1>1, <2>1, <2>4 DEF User
  <2> QED
    BY <1>1, <2>1, <2>3, <2>5 DEF Target, Granted, UserChange
<1> QED
  BY <1>2, <1>3, <1>4, <1>5

LEMMA TenantChanges ==
    ASSUME NEW s \in Sessions, NEW t \in Tenants
    PROVE  /\ \A b, code : CreateBranch(s, t, b, code) \/ UpdateBranch(s, t, b, code) => TenantChange(s, t)
           /\ \A theme : UpdateTenantBrand(s, t, theme) => TenantChange(s, t)
           /\ \A on : SetRiskEnforcement(s, t, on) => TenantChange(s, t)
  BY DEF CreateBranch, UpdateBranch, UpdateTenantBrand, SetRiskEnforcement, Granted, TenantChange, org

LEMMA Operations ==
    ASSUME NEW s \in Sessions
    PROVE  /\ \A action \in BranchWrites : WriteInBranch(s, action) => Operation(s)
           /\ \A b \in BranchIds : Transfer(s, b) => Operation(s)
           /\ SyncQueue(s) => Operation(s)
           /\ \A c \in ConflictIds : ResolveConflict(s, c) \/ EscalateConflict(s, c) => Operation(s)
<1>1. "inventory.mutate" \in BranchWrites
  BY DEF BranchWrites
<1>2. {} \in SUBSET BranchIds /\ \A b \in BranchIds : {b} \in SUBSET BranchIds
  OBVIOUS
<1>3. ASSUME NEW action \in BranchWrites, WriteInBranch(s, action)
      PROVE  Operation(s)
  BY <1>2, <1>3 DEF WriteInBranch, Operation
<1>4. ASSUME NEW b \in BranchIds, Transfer(s, b)
      PROVE  Operation(s)
  BY <1>1, <1>2, <1>4 DEF Transfer, Operation
<1>5. ASSUME SyncQueue(s)
      PROVE  Operation(s)
  BY <1>2, <1>5 DEF SyncQueue, Served, Operation
<1>6. ASSUME NEW c \in ConflictIds, ResolveConflict(s, c)
      PROVE  Operation(s)
  BY <1>2, <1>6 DEF ResolveConflict, Served, Operation
<1>7. ASSUME NEW c \in ConflictIds, EscalateConflict(s, c)
      PROVE  Operation(s)
  BY <1>2, <1>7 DEF EscalateConflict, Served, Operation
<1> QED
  BY <1>3, <1>4, <1>5, <1>6, <1>7

LEMMA RequestCases ==
    ASSUME IInv, [Next]_vars
    PROVE  \/ UNCHANGED vars
           \/ Answer
           \/ \E s \in Sessions : Refusal(s)
           \/ \E s \in Sessions, t \in Tenants : UserChange(s, t)
           \/ \E s \in Sessions, t \in Tenants : TenantChange(s, t)
           \/ \E s \in Sessions : Operation(s)
<1>1. ASSUME NEW s \in Sessions, NEW t \in Tenants
      PROVE  \A action : Deny(s, t, action) => Refusal(s)
  BY DEF Deny, Refusal, org
<1>2. CASE \E s \in Sessions :
                \/ \E action \in BranchWrites : WriteInBranch(s, action)
                \/ \E b \in BranchIds : Transfer(s, b)
                \/ SyncQueue(s)
                \/ \E c \in ConflictIds : ResolveConflict(s, c)
                \/ \E c \in ConflictIds : EscalateConflict(s, c)
  BY <1>2, Operations
<1>3. ASSUME NEW s \in Sessions, NEW t \in Tenants,
             \E action \in {"user.write", "inventory.mutate"} : Deny(s, t, action)
      PROVE  Refusal(s)
  BY <1>1, <1>3
<1>4. ASSUME NEW s \in Sessions, NEW t \in Tenants,
             \/ \E b \in BranchIds, code \in AskedCodes : CreateBranch(s, t, b, code) \/ UpdateBranch(s, t, b, code)
             \/ \E theme \in Brands : UpdateTenantBrand(s, t, theme)
             \/ \E on \in BOOLEAN : SetRiskEnforcement(s, t, on)
      PROVE  TenantChange(s, t)
  BY <1>4, TenantChanges
<1>5. ASSUME NEW s \in Sessions, NEW t \in Tenants,
             \/ \E u \in UserIds, email \in AskedEmails, role \in AskedRoles, b \in BranchIds :
                   CreateUser(s, t, u, email, role, b)
             \/ \E u \in UserIds, b \in BranchIds \cup {Absent}, email \in AskedEmails \cup {Absent} :
                   UpdateUser(s, t, u, b, email)
             \/ \E u \in UserIds, active \in BOOLEAN : SetUserStatus(s, t, u, active)
             \/ \E u \in UserIds, role \in AskedRoles : SetUserRole(s, t, u, role)
      PROVE  UserChange(s, t)
  BY <1>5, UserChanges
<1> QED
  BY <1>2, <1>3, <1>4, <1>5, StepCases

(* enforceReadOnlyFallback: while a branch has an open conflict, no request   *)
(* of a cashier or of inventory staff changes its goods and sales.            *)
THEOREM LockHolds == Spec => LockedBranchOnlyReceives
<1>1. IInv /\ [Next]_vars =>
        \/ \A b \in BranchIds :
              HasOpenConflicts(b) /\ b \in served'.wrote => users[served'.by].role \notin LockedRoles
        \/ UNCHANGED vars
  <2> SUFFICES ASSUME IInv, [Next]_vars, ~UNCHANGED vars,
                      NEW b \in BranchIds, HasOpenConflicts(b), b \in served'.wrote
               PROVE  users[served'.by].role \notin LockedRoles
    OBVIOUS
  <2>1. CASE Answer
    BY <2>1 DEF Answer, NoRequest
  <2>2. CASE \E s \in Sessions : Refusal(s)
    BY <2>2 DEF Refusal, Log
  <2>3. CASE \E s \in Sessions, t \in Tenants : UserChange(s, t)
    BY <2>3 DEF UserChange, Log
  <2>4. CASE \E s \in Sessions, t \in Tenants : TenantChange(s, t)
    BY <2>4 DEF TenantChange, Log
  <2>5. ASSUME NEW s \in Sessions, Operation(s)
        PROVE  users[served'.by].role \notin LockedRoles
    <3>1. PICK action \in BranchWrites \cup {"queue.sync", "conflict.resolve", "conflict.escalate"},
               wrote \in {{}, {s.branch}}, supplied \in SUBSET BranchIds :
             /\ Admitted(s, TenantOf(s), action) /\ Log(s, wrote, supplied)
             /\ wrote # {} => action \in BranchWrites
      BY <2>5 DEF Operation
    <3>2. served'.by = s.user /\ served'.wrote = wrote
      BY <3>1 DEF Log
    <3>3. b = s.branch /\ action \in BranchWrites
      BY <3>1, <3>2
    <3>4. Unlocked(s)
      BY <3>1, <3>3 DEF Admitted
    <3> QED
      BY <3>2, <3>3, <3>4 DEF Unlocked, RoleOf
  <2> QED
    BY <2>1, <2>2, <2>3, <2>4, <2>5, RequestCases
<1> QED
  BY <1>1, Invariant, PTL DEF Spec, LockedBranchOnlyReceives

(* evaluateRiskPolicy: a restrictive session of a tenant that enforces risk   *)
(* cannot lift the enforcement, nor change the organisation or the goods.     *)
THEOREM RestrictionHolds == Spec => RestrictionHoldsItself
<1>1. IInv /\ [Next]_vars =>
        \/ \A t \in enforced :
              served'.restrictive /\ served'.tenant = t
              => UNCHANGED <<org, conflicts, enforced>> /\ served'.wrote \cup served'.supplied = {}
        \/ UNCHANGED vars
  <2> SUFFICES ASSUME IInv, [Next]_vars, ~UNCHANGED vars,
                      served'.restrictive, served'.tenant \in enforced
               PROVE  UNCHANGED <<org, conflicts, enforced>> /\ served'.wrote \cup served'.supplied = {}
    OBVIOUS
  <2>1. ASSUME NEW s, NEW t, NEW action, NEW wrote, NEW supplied,
               Admitted(s, t, action), Log(s, wrote, supplied)
        PROVE  action = "brand.write"
    <3>1. Restrictive(s) /\ TenantOf(s) \in enforced
      BY <2>1 DEF Log
    <3> QED
      BY <2>1, <3>1 DEF Admitted, PassesRisk, Restricted
  <2>2. CASE Answer
    BY <2>2 DEF Answer, NoRequest
  <2>3. CASE \E s \in Sessions : Refusal(s)
    BY <2>3 DEF Refusal, Log
  <2>4. CASE \E s \in Sessions, t \in Tenants : UserChange(s, t)
    BY <2>1, <2>4 DEF UserChange
  <2>5. ASSUME NEW s \in Sessions, NEW t \in Tenants, TenantChange(s, t)
        PROVE  UNCHANGED <<org, conflicts, enforced>> /\ served'.wrote \cup served'.supplied = {}
    <3>1. PICK action \in {"branch.write", "brand.write", "feature.flag.write"} :
             /\ Admitted(s, t, action) /\ Log(s, {}, {})
             /\ action = "brand.write" => UNCHANGED <<org, conflicts, enforced>>
      BY <2>5 DEF TenantChange
    <3>2. action = "brand.write"
      BY <2>1, <3>1
    <3> QED
      BY <3>1, <3>2 DEF Log
  <2>6. ASSUME NEW s \in Sessions, Operation(s)
        PROVE  FALSE
    <3>1. PICK action \in BranchWrites \cup {"queue.sync", "conflict.resolve", "conflict.escalate"} :
             Admitted(s, TenantOf(s), action) /\ \E wrote, supplied : Log(s, wrote, supplied)
      BY <2>6 DEF Operation
    <3>2. PICK wrote, supplied : Log(s, wrote, supplied)
      BY <3>1
    <3>3. action # "brand.write"
      BY <3>1 DEF BranchWrites
    <3> QED
      BY <2>1, <3>1, <3>2, <3>3
  <2> QED
    BY <2>2, <2>3, <2>4, <2>5, <2>6, RequestCases
<1> QED
  BY <1>1, Invariant, PTL DEF Spec, RestrictionHoldsItself

(* Who is admitted to write users administers them, or owns the application.  *)
LEMMA WriterAdministers ==
    ASSUME IInv, NEW s \in Sessions, NEW t \in Tenants, Admitted(s, t, "user.write")
    PROVE  s.user \in Administrators(t) \/ RoleOf(s) = "APPLICATION_OWNER"
<1>1. /\ Known(s) /\ PathMatches(s, t) /\ May(RoleOf(s), "user.write")
      /\ s.user \in UserIds
  BY DEF Admitted, Sessions
<1>2. users[s.user] # Absent /\ users[s.user].active
  BY <1>1, KnownExists
<1>3. RoleOf(s) # "APPLICATION_OWNER" => users[s.user].tenant = TenantOf(s) /\ t = TenantOf(s)
  BY <1>1 DEF Known, PathMatches
<1>4. RoleOf(s) \in Managers
  BY <1>1 DEF May
<1> QED
  BY <1>1, <1>2, <1>3, <1>4 DEF Administrators, RoleOf

(* setUserStatus and setUserRole: a tenant loses the last who administers its *)
(* users only by that one's own request or an application owner's.            *)
THEOREM AdministratorsRemain == Spec => LastAdministratorLeavesAlone
<1>1. IInv /\ [Next]_vars =>
        \/ \A t \in Tenants :
              Administrators(t) # {} /\ Administrators(t)' = {}
              => \/ Administrators(t) = {served'.by}
                 \/ users[served'.by].role = "APPLICATION_OWNER"
        \/ UNCHANGED vars
  <2> SUFFICES ASSUME IInv, [Next]_vars, ~UNCHANGED vars, NEW t \in Tenants,
                      Administrators(t) # {}, Administrators(t)' = {}
               PROVE  \/ Administrators(t) = {served'.by}
                      \/ users[served'.by].role = "APPLICATION_OWNER"
    OBVIOUS
  <2>1. ~(users' = users)
    BY DEF Administrators
  <2>2. ASSUME NEW s \in Sessions, NEW q \in Tenants, UserChange(s, q)
        PROVE  \/ Administrators(t) = {served'.by}
               \/ users[served'.by].role = "APPLICATION_OWNER"
    <3>1. PICK u \in UserIds :
             /\ Admitted(s, q, "user.write")
             /\ users[u] # Absent => users[u].tenant = q
             /\ \A v \in UserIds \ {u} : users'[v] = users[v]
             /\ Log(s, {}, {})
      BY <2>2 DEF UserChange
    <3>2. served'.by = s.user
      BY <3>1 DEF Log
    <3>3. ASSUME NEW v \in UserIds \ {u}
          PROVE  v \notin Administrators(t)
      <4>1. users'[v] = users[v]
        BY <3>1
      <4>2. v \in Administrators(t) <=> v \in Administrators(t)'
        BY <4>1 DEF Administrators
      <4> QED
        BY <4>2
    <3>4. Administrators(t) = {u}
      BY <3>3 DEF Administrators
    <3>5. q = t
      BY <3>1, <3>4 DEF Administrators
    <3>6. s.user \in Administrators(t) \/ RoleOf(s) = "APPLICATION_OWNER"
      BY <3>1, <3>5, WriterAdministers
    <3> QED
      BY <3>2, <3>4, <3>6 DEF RoleOf
  <2> QED
    BY <2>1, <2>2, RequestCases DEF Answer, Refusal, TenantChange, Operation, org
<1> QED
  BY <1>1, Invariant, PTL DEF Spec, LastAdministratorLeavesAlone

(* assertCanManageUser: whatever the others grant, an owner's role is given   *)
(* by an active owner, an application owner's by one of them.                 *)
THEOREM OwnersFromOwners == Spec => OwnersMadeByOwners
<1>1. IInv /\ [Next]_vars =>
        \/ \A u \in UserIds :
              /\ users'[u] # Absent /\ users'[u].role \in Owners
              /\ users[u] # Absent => users[u].role # users'[u].role
              => LET giver == users[served'.by]
                 IN  /\ giver # Absent /\ giver.active /\ giver.role \in Owners
                     /\ users'[u].role = "APPLICATION_OWNER" => giver.role = "APPLICATION_OWNER"
        \/ UNCHANGED vars
  <2> SUFFICES ASSUME IInv, [Next]_vars, ~UNCHANGED vars, NEW u \in UserIds,
                      users'[u] # Absent, users'[u].role \in Owners,
                      users[u] # Absent => users[u].role # users'[u].role
               PROVE  /\ users[served'.by] # Absent /\ users[served'.by].active
                      /\ users[served'.by].role \in Owners
                      /\ users'[u].role = "APPLICATION_OWNER" => users[served'.by].role = "APPLICATION_OWNER"
    OBVIOUS
  <2>1. ~(users' = users)
    <3>1. CASE users' = users
      <4>1. users'[u] = users[u]
        BY <3>1
      <4> QED
        BY <4>1
    <3> QED
      BY <3>1
  <2>2. ASSUME NEW s \in Sessions, NEW q \in Tenants, UserChange(s, q)
        PROVE  /\ users[served'.by] # Absent /\ users[served'.by].active
               /\ users[served'.by].role \in Owners
               /\ users'[u].role = "APPLICATION_OWNER" => users[served'.by].role = "APPLICATION_OWNER"
    <3>1. /\ Admitted(s, q, "user.write")
          /\ CanManage(RoleOf(s), users'[u].role)
          /\ served'.by = s.user
      BY <2>2 DEF UserChange, Log
    <3>2. users[s.user] # Absent /\ users[s.user].active
      BY <3>1, AdmittedIsKnown, KnownExists
    <3>3. RoleOf(s) \in Managers
      BY <3>1 DEF Admitted, May
    <3> QED
      BY <3>1, <3>2, <3>3 DEF CanManage, Managers, Owners, RoleOf
  <2> QED
    BY <2>1, <2>2, RequestCases DEF Answer, Refusal, TenantChange, Operation, org
<1> QED
  BY <1>1, Invariant, PTL DEF Spec, OwnersMadeByOwners

-----------------------------------------------------------------------------
(* A step that leaves all tenants but t as they are. *)

KeepsTo(t) ==
    /\ served'.wrote \cup served'.supplied \subseteq {b \in BranchIds : IsBranchOf(b, t)}
    /\ \A u \in UserIds : users'[u] # users[u] => users'[u].tenant = t
    /\ \A b \in BranchIds : branches'[b] # branches[b] => branches'[b].tenant = t
    /\ \A o \in Tenants \ {t} : brand'[o] = brand[o] /\ (o \in enforced' <=> o \in enforced)

(* Whoever is not an application owner is admitted to the own tenant only. *)
LEMMA AdmittedAtHome ==
    ASSUME NEW s, NEW t, NEW action, Admitted(s, t, action), RoleOf(s) # "APPLICATION_OWNER"
    PROVE  /\ TenantOf(s) = users[s.user].tenant /\ t = TenantOf(s)
           /\ branches[s.branch] # Absent
  BY DEF Admitted, Known, PathMatches

LEMMA KeepsUsers ==
    ASSUME UNCHANGED <<branches, brand, enforced>>, NEW s, NEW t, UserChange(s, t)
    PROVE  KeepsTo(t) /\ served'.by = s.user
<1>1. served'.wrote = {} /\ served'.supplied = {} /\ served'.by = s.user
  BY DEF UserChange, Log
<1>2. \A u \in UserIds : users'[u] # users[u] => users'[u].tenant = t
  BY DEF UserChange
<1> QED
  BY <1>1, <1>2 DEF KeepsTo

LEMMA KeepsTenant ==
    ASSUME IInv, NEW s \in Sessions, NEW t \in Tenants
    PROVE  /\ \A b \in BranchIds, code \in AskedCodes :
                 CreateBranch(s, t, b, code) \/ UpdateBranch(s, t, b, code)
                 => KeepsTo(t) /\ served'.by = s.user
           /\ \A theme \in Brands : UpdateTenantBrand(s, t, theme) => KeepsTo(t) /\ served'.by = s.user
           /\ \A on \in BOOLEAN : SetRiskEnforcement(s, t, on) => KeepsTo(t) /\ served'.by = s.user
<1>1. branches \in [BranchIds -> Branch \cup {Absent}] /\ brand \in [Tenants -> Brands]
  BY DEF IInv, TypeOK
<1>2. ASSUME Granted(s)
      PROVE  served'.wrote = {} /\ served'.supplied = {} /\ served'.by = s.user
  BY <1>2 DEF Granted, Log
<1>3. ASSUME NEW b \in BranchIds, NEW code \in AskedCodes, CreateBranch(s, t, b, code)
      PROVE  KeepsTo(t) /\ served'.by = s.user
  <2>1. /\ branches' = [branches EXCEPT ![b] = [tenant |-> t, code |-> code]]
        /\ Granted(s) /\ UNCHANGED <<users, enforced, brand>>
    BY <1>3 DEF CreateBranch
  <2>2. \A a \in BranchIds : branches'[a] # branches[a] => branches'[a].tenant = t
    BY <1>1, <2>1
  <2> QED
    BY <1>2, <2>1, <2>2 DEF KeepsTo
<1>4. ASSUME NEW b \in BranchIds, NEW code \in AskedCodes, UpdateBranch(s, t, b, code)
      PROVE  KeepsTo(t) /\ served'.by = s.user
  <2>1. /\ branches' = [branches EXCEPT ![b].code = code]
        /\ branches[b] # Absent /\ branches[b].tenant = t
        /\ Granted(s) /\ UNCHANGED <<users, enforced, brand>>
    BY <1>4 DEF UpdateBranch
  <2>2. branches[b] \in Branch
    BY <1>1, <2>1
  <2>3. branches'[b].tenant = t /\ \A a \in BranchIds \ {b} : branches'[a] = branches[a]
    BY <1>1, <2>1, <2>2 DEF Branch
  <2> QED
    BY <1>2, <2>1, <2>3 DEF KeepsTo
<1>5. ASSUME NEW theme \in Brands, UpdateTenantBrand(s, t, theme)
      PROVE  KeepsTo(t) /\ served'.by = s.user
  BY <1>1, <1>2, <1>5 DEF UpdateTenantBrand, KeepsTo, org
<1>6. ASSUME NEW on \in BOOLEAN, SetRiskEnforcement(s, t, on)
      PROVE  KeepsTo(t) /\ served'.by = s.user
  BY <1>2, <1>6 DEF SetRiskEnforcement, KeepsTo, org
<1> QED
  BY <1>3, <1>4, <1>5, <1>6

LEMMA KeepsOperated ==
    ASSUME NEW s \in Sessions, branches[s.branch] # Absent
    PROVE  /\ \A action \in BranchWrites : WriteInBranch(s, action) => KeepsTo(TenantOf(s))
           /\ \A b \in BranchIds : Transfer(s, b) => KeepsTo(TenantOf(s))
           /\ SyncQueue(s) => KeepsTo(TenantOf(s))
           /\ \A c \in ConflictIds :
                 ResolveConflict(s, c) \/ EscalateConflict(s, c) => KeepsTo(TenantOf(s))
<1>1. s.branch \in BranchIds /\ IsBranchOf(s.branch, TenantOf(s))
  BY DEF Sessions, IsBranchOf, TenantOf
<1>2. ASSUME NEW wrote \in SUBSET BranchIds, NEW supplied \in SUBSET BranchIds,
             Log(s, wrote, supplied), UNCHANGED <<org, enforced, brand>>,
             \A b \in wrote \cup supplied : IsBranchOf(b, TenantOf(s))
      PROVE  KeepsTo(TenantOf(s))
  <2>1. served'.wrote = wrote /\ served'.supplied = supplied
    BY <1>2 DEF Log
  <2> QED
    BY <1>2, <2>1 DEF KeepsTo, org
<1>3. {} \in SUBSET BranchIds /\ {s.branch} \in SUBSET BranchIds
  BY <1>1
<1>4. ASSUME NEW action \in BranchWrites, WriteInBranch(s, action)
      PROVE  KeepsTo(TenantOf(s))
  <2>1. Log(s, {s.branch}, {}) /\ UNCHANGED <<org, enforced, brand>>
    BY <1>4 DEF WriteInBranch
  <2> QED
    BY <1>1, <1>2, <1>3, <2>1
<1>5. ASSUME NEW b \in BranchIds, Transfer(s, b)
      PROVE  KeepsTo(TenantOf(s))
  <2>1. /\ Log(s, {s.branch}, {b}) /\ UNCHANGED <<org, enforced, brand>>
        /\ IsBranchOf(b, TenantOf(s)) /\ {b} \in SUBSET BranchIds
    BY <1>5 DEF Transfer
  <2> QED
    BY <1>1, <1>2, <1>3, <2>1
<1>6. ASSUME \/ SyncQueue(s)
             \/ \E c \in ConflictIds : ResolveConflict(s, c) \/ EscalateConflict(s, c)
      PROVE  KeepsTo(TenantOf(s))
  <2>1. Log(s, {}, {}) /\ UNCHANGED <<org, enforced, brand>>
    BY <1>6 DEF SyncQueue, ResolveConflict, EscalateConflict, Served
  <2> QED
    BY <1>2, <1>3, <2>1
<1> QED
  BY <1>4, <1>5, <1>6

(* What is asked by anyone but an application owner stays in the asker's     *)
(* tenant. *)
StaysHome ==
    served' # NoRequest /\ users[served'.by].role # "APPLICATION_OWNER"
    => KeepsTo(users[served'.by].tenant)

LEMMA StepStaysHome ==
    ASSUME IInv, [Next]_vars
    PROVE  StaysHome \/ UNCHANGED vars
<1>1. CASE Answer
  BY <1>1 DEF Answer, StaysHome
<1>2. ASSUME NEW s \in Sessions, NEW t \in Tenants, NEW action, Admitted(s, t, action),
             KeepsTo(t), served'.by = s.user
      PROVE  StaysHome
  BY <1>2, AdmittedAtHome DEF StaysHome, RoleOf
<1>3. ASSUME NEW s \in Sessions, NEW t \in Tenants,
             \E action \in {"user.write", "inventory.mutate"} : Deny(s, t, action)
      PROVE  StaysHome
  <2>1. served'.wrote = {} /\ served'.supplied = {} /\ UNCHANGED <<org, brand, enforced>>
    BY <1>3 DEF Deny, Log
  <2>2. \A o : KeepsTo(o)
    BY <2>1 DEF KeepsTo, org
  <2> QED
    BY <2>2 DEF StaysHome
<1>4. ASSUME NEW s \in Sessions, NEW t \in Tenants,
             \/ \E b \in BranchIds, code \in AskedCodes : CreateBranch(s, t, b, code)
             \/ \E b \in BranchIds, code \in AskedCodes : UpdateBranch(s, t, b, code)
             \/ \E theme \in Brands : UpdateTenantBrand(s, t, theme)
             \/ \E on \in BOOLEAN : SetRiskEnforcement(s, t, on)
      PROVE  StaysHome
  <2>1. KeepsTo(t) /\ served'.by = s.user
    BY <1>4, KeepsTenant
  <2>2. \E action : Admitted(s, t, action)
    BY <1>4 DEF CreateBranch, UpdateBranch, UpdateTenantBrand, SetRiskEnforcement
  <2> QED
    BY <1>2, <2>1, <2>2
<1>5. ASSUME NEW s \in Sessions, NEW t \in Tenants,
             \/ \E u \in UserIds, email \in AskedEmails, role \in AskedRoles, b \in BranchIds :
                   CreateUser(s, t, u, email, role, b)
             \/ \E u \in UserIds, b \in BranchIds \cup {Absent}, email \in AskedEmails \cup {Absent} :
                   UpdateUser(s, t, u, b, email)
             \/ \E u \in UserIds, active \in BOOLEAN : SetUserStatus(s, t, u, active)
             \/ \E u \in UserIds, role \in AskedRoles : SetUserRole(s, t, u, role)
      PROVE  StaysHome
  <2>1. UserChange(s, t)
    BY <1>5, UserChanges
  <2>2. UNCHANGED <<branches, brand, enforced>>
    BY <1>5 DEF CreateUser, UpdateUser, SetUserStatus, SetUserRole
  <2>3. KeepsTo(t) /\ served'.by = s.user
    BY <2>1, <2>2, KeepsUsers
  <2> QED
    BY <1>2, <2>1, <2>3 DEF UserChange
<1>6. ASSUME NEW s \in Sessions,
             \/ \E action \in BranchWrites : WriteInBranch(s, action)
             \/ \E b \in BranchIds : Transfer(s, b)
             \/ SyncQueue(s)
             \/ \E c \in ConflictIds : ResolveConflict(s, c)
             \/ \E c \in ConflictIds : EscalateConflict(s, c)
      PROVE  StaysHome
  <2>1. \E action : Admitted(s, TenantOf(s), action)
    BY <1>6 DEF WriteInBranch, Transfer, SyncQueue, ResolveConflict, EscalateConflict
  <2>2. served'.by = s.user
    BY <1>6 DEF WriteInBranch, Transfer, SyncQueue, ResolveConflict, EscalateConflict, Served, Log
  <2>3. branches[s.branch] # Absent
    BY <2>1 DEF Admitted, Known
  <2>4. KeepsTo(TenantOf(s))
    BY <1>6, <2>3, KeepsOperated
  <2> QED
    BY <2>1, <2>2, <2>4, AdmittedAtHome DEF StaysHome, RoleOf
<1> QED
  BY <1>1, <1>3, <1>4, <1>5, <1>6, StepCases

(* requireContext, requireTenantPathMatch and assertTenantScope together:    *)
(* by no request does anyone but an application owner change users,          *)
(* branches, brand, flag, goods or sales of another tenant.                  *)
THEOREM TenantsApart == Spec => OthersKeepToTheirTenant
<1>1. IInv /\ [Next]_vars =>
        \/ LET asker == users[served'.by]
               own == {b \in BranchIds : IsBranchOf(b, asker.tenant)}
           IN  served' # NoRequest /\ asker.role # "APPLICATION_OWNER" =>
               /\ served'.wrote \cup served'.supplied \subseteq own
               /\ \A u \in UserIds : users'[u] # users[u] => users'[u].tenant = asker.tenant
               /\ \A b \in BranchIds : branches'[b] # branches[b] => branches'[b].tenant = asker.tenant
               /\ \A t \in Tenants \ {asker.tenant} :
                     brand'[t] = brand[t] /\ (t \in enforced' <=> t \in enforced)
        \/ UNCHANGED vars
  BY StepStaysHome DEF StaysHome, KeepsTo
<1> QED
  BY <1>1, Invariant, PTL DEF Spec, OthersKeepToTheirTenant
=============================================================================
