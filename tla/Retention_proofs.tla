---------------------------- MODULE Retention_proofs ----------------------------
(***************************************************************************)
(* Theorems about Retention, for every value of its constants.             *)
(***************************************************************************)
EXTENDS Retention, TLAPS, FiniteSetTheorems, SequenceTheorems

Recorded == [id : Int, kind : Kept \cup {"SNAPSHOT"}, branch : Branches, at : Int, total : Int]
Job == [branch : Branches, status : {"QUEUED", "SUCCEEDED", "TIMEOUT"}, asked : Int, sim : BOOLEAN,
        result : Int, ended : Int]

TypeOK ==
    /\ now \in Int
    /\ policy \in [Tenants -> [Terms -> MinDays .. MaxDays]]
    /\ recorded \subseteq Recorded /\ IsFiniteSet(recorded)
    /\ jobs \in Seq(Job)
    /\ sales \in [Branches -> Int]

(***************************************************************************)
(* What a purge may not touch is exactly what YoungRecordsKept says, given *)
(* that every policy in force was once accepted.                           *)
(***************************************************************************)
IInv == TypeOK /\ YoungRecordsKept

(* What a step may do to the records, the clock and the policies. *)
NothingRemoved == UNCHANGED <<now, policy, recorded, records>>
Recording == \E r \in Recorded : /\ recorded' = recorded \cup {r} /\ records' = records \cup {r}
                                 /\ UNCHANGED <<now, policy>>

-----------------------------------------------------------------------------
LEMMA TermsKnown ==
    ASSUME NEW kind \in Kept \cup {"SNAPSHOT"}
    PROVE  TermOf(kind) \in Terms
  BY DEF Kept, TermOf, Terms

LEMMA NewRecord ==
    ASSUME TypeOK, NEW kind \in Kept \cup {"SNAPSHOT"}, NEW b \in Branches, NEW total \in Int
    PROVE  Record(kind, b, total) \in Recorded
<1>1. Cardinality(recorded) \in Int
  BY FS_CardinalityType DEF TypeOK
<1> QED
  BY <1>1 DEF Record, Recorded, TypeOK

(* What has expired is older than the shortest term of an accepted policy. *)
LEMMA ExpiredIsOld ==
    ASSUME TypeOK, NEW r \in recorded, Expired(r)
    PROVE  now - r.at > MinDays
<1>1. r.kind \in Kept \cup {"SNAPSHOT"} /\ r.branch \in Branches /\ r.at \in Int /\ now \in Int
  BY DEF TypeOK, Recorded
<1>2. TermOf(r.kind) \in Terms /\ TenantOf[r.branch] \in Tenants
  BY <1>1, TermsKnown DEF Tenants
<1> DEFINE days == policy[TenantOf[r.branch]][TermOf(r.kind)]
<1>3. days \in MinDays .. MaxDays
  BY <1>2 DEF TypeOK
<1>4. MinDays \in Nat \ {0} /\ MaxDays \in Nat
  BY RetentionAssumption
<1>5. AtLeast1(days) = days
  BY <1>3, <1>4 DEF AtLeast1
<1>6. r.at < now - days
  BY <1>5 DEF Expired
<1> QED
  BY <1>1, <1>3, <1>4, <1>6

-----------------------------------------------------------------------------
(* Every step, by what it does to the records *)

LEMMA JobStep ==
    ASSUME TypeOK, NEW i \in DOMAIN jobs, ExecuteJob(i)
    PROVE  /\ NothingRemoved \/ Recording
           /\ jobs' \in Seq(Job) /\ UNCHANGED sales
<1> DEFINE j == jobs[i]
           snapshot == Record("SNAPSHOT", j.branch, Sold(j))
<1>1. j \in Job /\ jobs \in Seq(Job) /\ now \in Int
  BY DEF TypeOK
<1>2. snapshot \in Recorded
  <2>1. j.branch \in Branches /\ Sold(j) \in Int
    BY <1>1 DEF Job, Sold, TypeOK
  <2> QED
    BY <2>1, NewRecord
<1>3. snapshot.id \in Int
  BY <1>2 DEF Recorded
<1>4. UNCHANGED <<now, policy, sales>>
  BY DEF ExecuteJob
<1>5. CASE jobs' = [jobs EXCEPT ![i] = TimedOut(j)] /\ UNCHANGED <<recorded, records>>
  <2>1. TimedOut(j) \in Job
    BY <1>1 DEF TimedOut, Job
  <2> QED
    BY <1>1, <1>4, <1>5, <2>1 DEF NothingRemoved
<1>6. CASE /\ jobs' = [jobs EXCEPT ![i] = [j EXCEPT !.status = "SUCCEEDED", !.ended = now,
                                                   !.result = snapshot.id]]
           /\ recorded' = recorded \cup {snapshot} /\ records' = records \cup {snapshot}
  <2>1. [j EXCEPT !.status = "SUCCEEDED", !.ended = now, !.result = snapshot.id] \in Job
    BY <1>1, <1>3 DEF Job
  <2> QED
    BY <1>1, <1>2, <1>4, <1>6, <2>1 DEF Recording
<1> QED
  BY <1>5, <1>6 DEF ExecuteJob

LEMMA RequestStep ==
    ASSUME TypeOK, NEW b \in Branches, Request(b)
    PROVE  /\ \/ NothingRemoved
              \/ Recording
              \/ \E days : /\ Acceptable(days) /\ days \in AskedPolicies
                           /\ policy' = [policy EXCEPT ![TenantOf[b]] = days]
                           /\ UNCHANGED <<now, recorded, records>>
           /\ jobs' \in Seq(Job) /\ sales' \in [Branches -> Int]
<1>1. jobs \in Seq(Job) /\ sales \in [Branches -> Int]
  BY DEF TypeOK
<1>2. ASSUME NEW days \in AskedPolicies, UpdateRetentionPolicy(b, days)
      PROVE  /\ Acceptable(days) /\ days \in AskedPolicies
             /\ policy' = [policy EXCEPT ![TenantOf[b]] = days]
             /\ UNCHANGED <<now, recorded, records, jobs, sales>>
  BY <1>2 DEF UpdateRetentionPolicy
<1>3. ASSUME NEW sim \in BOOLEAN, Enqueue(b, sim)
      PROVE  NothingRemoved /\ jobs' \in Seq(Job) /\ UNCHANGED sales
  <2> DEFINE j == [branch |-> b, status |-> "QUEUED", asked |-> sales[b], sim |-> sim,
                   result |-> -1, ended |-> -1]
  <2>1. j \in Job
    BY <1>1 DEF Job
  <2>2. jobs' = Append(jobs, j) /\ UNCHANGED <<now, policy, recorded, records, sales>>
    BY <1>3 DEF Enqueue
  <2> QED
    BY <1>1, <2>1, <2>2, AppendProperties DEF NothingRemoved
<1>4. ASSUME NEW kind \in Kept, RecordEvent(kind, b)
      PROVE  Recording /\ UNCHANGED <<jobs, sales>>
  <2>1. Record(kind, b, 0) \in Recorded
    BY NewRecord
  <2> QED
    BY <1>4, <2>1 DEF RecordEvent, Recording
<1>5. ASSUME Sell(b)
      PROVE  NothingRemoved /\ UNCHANGED jobs /\ sales' \in [Branches -> Int]
  BY <1>1, <1>5 DEF Sell, NothingRemoved
<1>6. \/ \/ \E role \in Roles : ExportAudit(b, role)
         \/ \E category \in {"SECURITY", "COMPLIANCE"} \cap used : ExportRows(b, category)
         \/ \E scope \in {"TENANT", "BRANCH"} : CreateLegalHold(b, scope)
         \/ \E i \in DOMAIN holds : ReleaseLegalHold(b, i)
         \/ \E prefix \in {"audit", "compliance"} : EvictByPrefix(b, prefix)
      \/ \E days \in AskedPolicies : UpdateRetentionPolicy(b, days)
      \/ \E sim \in BOOLEAN : Enqueue(b, sim)
      \/ \E kind \in Kept : RecordEvent(kind, b)
      \/ Sell(b)
  BY DEF Request
<1>7. CASE \E days \in AskedPolicies : UpdateRetentionPolicy(b, days)
  BY <1>1, <1>2, <1>7
<1>8. CASE \E sim \in BOOLEAN : Enqueue(b, sim)
  BY <1>1, <1>3, <1>8
<1>9. CASE \E kind \in Kept : RecordEvent(kind, b)
  BY <1>1, <1>4, <1>9
<1>10. CASE \/ \E role \in Roles : ExportAudit(b, role)
            \/ \E category \in {"SECURITY", "COMPLIANCE"} \cap used : ExportRows(b, category)
            \/ \E scope \in {"TENANT", "BRANCH"} : CreateLegalHold(b, scope)
            \/ \E i \in DOMAIN holds : ReleaseLegalHold(b, i)
            \/ \E prefix \in {"audit", "compliance"} : EvictByPrefix(b, prefix)
  <2>1. NothingRemoved
    BY <1>10 DEF ExportAudit, ExportRows, CreateLegalHold, ReleaseLegalHold, EvictByPrefix, NothingRemoved
  <2>2. jobs' = jobs /\ sales' = sales
    BY <1>10 DEF ExportAudit, ExportRows, CreateLegalHold, ReleaseLegalHold, EvictByPrefix
  <2>3. jobs' \in Seq(Job) /\ sales' \in [Branches -> Int]
    BY <1>1, <2>2
  <2> QED
    BY <2>1, <2>3
<1>11. CASE Sell(b)
  BY <1>1, <1>5, <1>11
<1> QED
  BY <1>6, <1>7, <1>8, <1>9, <1>10, <1>11

LEMMA RecordingKeeps ==
    ASSUME IInv, Recording
    PROVE  /\ recorded' \subseteq Recorded /\ IsFiniteSet(recorded')
           /\ YoungRecordsKept'
<1>1. PICK r \in Recorded : /\ recorded' = recorded \cup {r} /\ records' = records \cup {r}
                            /\ UNCHANGED <<now, policy>>
  BY DEF Recording
<1>2. recorded \subseteq Recorded /\ IsFiniteSet(recorded) /\ YoungRecordsKept
  BY DEF IInv, TypeOK
<1>3. IsFiniteSet(recorded')
  BY <1>1, <1>2, FS_AddElement
<1>4. YoungRecordsKept'
  BY <1>1, <1>2 DEF YoungRecordsKept
<1> QED
  BY <1>1, <1>2, <1>3, <1>4

LEMMA StepInv ==
    ASSUME IInv, [Next]_vars
    PROVE  IInv'
<1>1. TypeOK /\ YoungRecordsKept
  BY DEF IInv
<1>2. CASE UNCHANGED vars
  BY <1>1, <1>2 DEF vars, IInv, TypeOK, YoungRecordsKept
<1>3. ASSUME NEW b \in Branches, Request(b)
      PROVE  IInv'
  <2>1. jobs' \in Seq(Job) /\ sales' \in [Branches -> Int]
    BY <1>1, <1>3, RequestStep
  <2>2. CASE NothingRemoved
    BY <1>1, <2>1, <2>2 DEF NothingRemoved, IInv, TypeOK, YoungRecordsKept
  <2>3. CASE Recording
    BY <1>1, <2>1, <2>3, RecordingKeeps DEF Recording, IInv, TypeOK
  <2>4. ASSUME NEW days, Acceptable(days), days \in AskedPolicies,
               policy' = [policy EXCEPT ![TenantOf[b]] = days], UNCHANGED <<now, recorded, records>>
        PROVE  IInv'
    <3>1. days \in [Terms -> MinDays .. MaxDays]
      BY <2>4, RetentionAssumption DEF Acceptable
    <3>2. policy' \in [Tenants -> [Terms -> MinDays .. MaxDays]]
      BY <1>1, <2>4, <3>1 DEF TypeOK
    <3> QED
      BY <1>1, <2>1, <2>4, <3>2 DEF IInv, TypeOK, YoungRecordsKept
  <2> QED
    BY <1>1, <1>3, <2>2, <2>3, <2>4, RequestStep
<1>4. ASSUME NEW flag, NEW enabled, SetFeatureFlag(flag, enabled)
      PROVE  IInv'
  BY <1>1, <1>4 DEF SetFeatureFlag, IInv, TypeOK, YoungRecordsKept
<1>5. ASSUME NEW i \in DOMAIN jobs, ExecuteJob(i)
      PROVE  IInv'
  <2>1. (NothingRemoved \/ Recording) /\ jobs' \in Seq(Job) /\ UNCHANGED sales
    BY <1>1, <1>5, JobStep
  <2>2. CASE NothingRemoved
    BY <1>1, <2>1, <2>2 DEF NothingRemoved, IInv, TypeOK, YoungRecordsKept
  <2>3. CASE Recording
    BY <1>1, <2>1, <2>3, RecordingKeeps DEF Recording, IInv, TypeOK
  <2> QED
    BY <2>1, <2>2, <2>3
<1>6. CASE RunOnce
  <2>1. /\ records' = {r \in records : ~Expired(r)}
        /\ UNCHANGED <<now, policy, recorded, jobs, sales>>
    BY <1>6 DEF RunOnce
  <2>2. YoungRecordsKept'
    <3> SUFFICES ASSUME NEW r \in recorded, now - r.at <= MinDays
                 PROVE  r \in records'
      BY <2>1 DEF YoungRecordsKept
    <3>1. r \in records
      BY <1>1 DEF YoungRecordsKept
    <3>2. now \in Int /\ r.at \in Int /\ MinDays \in Int
      BY <1>1, RetentionAssumption DEF TypeOK, Recorded
    <3>3. ~Expired(r)
      BY <1>1, <3>2, ExpiredIsOld
    <3> QED
      BY <2>1, <3>1, <3>3
  <2> QED
    BY <1>1, <2>1, <2>2 DEF IInv, TypeOK
<1>7. CASE Tick
  <2>1. now' = now + 1 /\ UNCHANGED <<policy, recorded, records, jobs, sales>>
    BY <1>7 DEF Tick
  <2>2. now \in Int /\ MinDays \in Int /\ \A r \in recorded : r.at \in Int
    BY <1>1, RetentionAssumption DEF TypeOK, Recorded
  <2> QED
    BY <1>1, <2>1, <2>2 DEF IInv, TypeOK, YoungRecordsKept
<1> QED
  BY <1>2, <1>3, <1>4, <1>5, <1>6, <1>7 DEF Next

LEMMA InitInv ==
    ASSUME Init
    PROVE  IInv
<1>1. recorded = {} /\ IsFiniteSet({})
  BY FS_EmptySet DEF Init
<1>2. jobs \in Seq(Job)
  BY DEF Init
<1> QED
  BY <1>1, <1>2, RetentionAssumption DEF Init, IInv, TypeOK, YoungRecordsKept

THEOREM Invariant == Spec => []IInv
<1>1. Init => IInv
  BY InitInv
<1>2. IInv /\ [Next]_vars => IInv'
  BY StepInv
<1> QED
  BY <1>1, <1>2, PTL DEF Spec

(* retentionPurgeJobService and updateRetentionPolicy: whatever policies are  *)
(* asked for, and whenever the timer fires, no event and no snapshot is       *)
(* purged before the shortest term a policy may have.                         *)
THEOREM YoungAreKept == Spec => []YoungRecordsKept
  BY Invariant, PTL DEF IInv

-----------------------------------------------------------------------------
(* The chain of the audit trail *)

IsSequence(log) == \E S : log \in Seq(S)
Chained(log) == \A i \in DOMAIN log : log[i].prev = IF i = 1 THEN <<>> ELSE Digest(log[i - 1])
ChainInv == IsSequence(audit) /\ Chained(audit)

LEMMA EntryChains ==
    ASSUME NEW log, IsSequence(log), Chained(log), NEW b
    PROVE  IsSequence(AddAudit(log, b)) /\ Chained(AddAudit(log, b))
<1> DEFINE n == Len(log)
           e == [seq |-> n + 1, branch |-> b, at |-> now,
                 prev |-> IF n + 1 = 1 THEN <<>> ELSE Digest(log[(n + 1) - 1])]
<1>1. PICK S : log \in Seq(S)
  BY DEF IsSequence
<1>2. log \in Seq(S \cup {e}) /\ n \in Nat
  BY <1>1
<1>3. AddAudit(log, b) = Append(log, e)
  BY DEF AddAudit
<1>4. /\ Append(log, e) \in Seq(S \cup {e})
      /\ DOMAIN Append(log, e) = 1 .. n + 1
      /\ Append(log, e)[n + 1] = e
      /\ \A i \in 1 .. n : Append(log, e)[i] = log[i]
      /\ DOMAIN log = 1 .. n
  <2> HIDE DEF e
  <2> QED
    BY <1>2
<1>5. ASSUME NEW i \in DOMAIN Append(log, e)
      PROVE  Append(log, e)[i].prev = IF i = 1 THEN <<>> ELSE Digest(Append(log, e)[i - 1])
  <2>1. CASE i = n + 1
    <3>1. e.prev = IF n + 1 = 1 THEN <<>> ELSE Digest(log[(n + 1) - 1])
      OBVIOUS
    <3>2. n + 1 # 1 => (n + 1) - 1 \in 1 .. n
      BY <1>2
    <3> HIDE DEF e
    <3> QED
      BY <1>2, <1>4, <2>1, <3>1, <3>2
  <2>2. CASE i # n + 1
    <3> HIDE DEF e
    <3>1. i \in 1 .. n /\ (i # 1 => i - 1 \in 1 .. n)
      BY <1>2, <1>4, <2>2
    <3> QED
      BY <1>4, <3>1 DEF Chained
  <2> QED
    BY <2>1, <2>2
<1> HIDE DEF e
<1> QED
  BY <1>3, <1>4, <1>5 DEF IsSequence, Chained

(* auditService.verifyChainIntegrity: at any time the whole trail would pass  *)
(* the check the program makes when it starts, as no purge shortens it.       *)
THEOREM ChainAlwaysVerifies == Spec => []ChainVerifies
<1>1. Init => ChainInv
  BY DEF Init, ChainInv, IsSequence, Chained
<1>2. ChainInv /\ [Next]_vars => ChainInv'
  <2> SUFFICES ASSUME ChainInv, [Next]_vars
               PROVE  ChainInv'
    OBVIOUS
  <2>1. audit' = audit \/ \E b : audit' = AddAudit(audit, b)
    <3>1. CASE UNCHANGED vars
      BY <3>1 DEF vars
    <3>2. ASSUME NEW b \in Branches, Request(b)
          PROVE  audit' = audit \/ audit' = AddAudit(audit, b)
      BY <3>2 DEF Request, ExportAudit, ExportRows, CreateLegalHold, ReleaseLegalHold, UpdateRetentionPolicy,
                  Enqueue, RecordEvent, Sell, EvictByPrefix, Audited
    <3>3. ASSUME NEW i \in DOMAIN jobs, ExecuteJob(i)
          PROVE  audit' = AddAudit(audit, jobs[i].branch)
      BY <3>3 DEF ExecuteJob
    <3>4. CASE RunOnce
      BY <3>4 DEF RunOnce, AuditAfterPurge
    <3>5. CASE Tick \/ \E flag \in Switches \cap used, enabled \in BOOLEAN : SetFeatureFlag(flag, enabled)
      BY <3>5 DEF Tick, SetFeatureFlag
    <3> QED
      BY <3>1, <3>2, <3>3, <3>4, <3>5 DEF Next
  <2>2. CASE audit' = audit
    BY <2>2 DEF ChainInv, IsSequence, Chained
  <2>3. ASSUME NEW b, audit' = AddAudit(audit, b)
        PROVE  ChainInv'
    BY <2>3, EntryChains DEF ChainInv
  <2> QED
    BY <2>1, <2>2, <2>3
<1>3. ChainInv => ChainVerifies
  BY DEF ChainInv, Chained, ChainVerifies, VerifyChainIntegrity
<1> QED
  BY <1>1, <1>2, <1>3, PTL DEF Spec

-----------------------------------------------------------------------------
(* Jobs and what their snapshots count *)

(* Job j asked for no more than was sold by now; if it succeeded, its        *)
(* snapshot was recorded when it ended and counts what it asked for.         *)
Counted(j, rec, sold) ==
    /\ j.asked <= sold[j.branch]
    /\ j.status = "SUCCEEDED" =>
          \E r \in rec : /\ r.id = j.result /\ r.kind = "SNAPSHOT" /\ r.at = j.ended
                         /\ r.total \in j.asked .. sold[j.branch]
JobsCounted == \A i \in DOMAIN jobs : Counted(jobs[i], recorded, sales)

(* Sales and records only become more. *)
Grow == recorded \subseteq recorded' /\ \A b \in Branches : sales[b] <= sales'[b]

LEMMA CountedStays ==
    ASSUME TypeOK, TypeOK', NEW j \in Job, Counted(j, recorded, sales), Grow
    PROVE  Counted(j, recorded', sales')
<1>1. /\ j.asked \in Int /\ sales[j.branch] \in Int /\ sales'[j.branch] \in Int
      /\ sales[j.branch] <= sales'[j.branch]
  BY DEF Job, TypeOK, Grow
<1>2. \A r \in recorded : r \in recorded' /\ r.total \in Int
  BY DEF TypeOK, Recorded, Grow
<1> QED
  BY <1>1, <1>2 DEF Counted

(* Where no job changes, all stay counted. *)
LEMMA OtherStepCounts ==
    ASSUME TypeOK, TypeOK', JobsCounted, Grow, UNCHANGED jobs
    PROVE  JobsCounted'
<1>1. \A i \in DOMAIN jobs : jobs[i] \in Job
  BY DEF TypeOK
<1> QED
  BY <1>1, CountedStays DEF JobsCounted

LEMMA EnqueueCounts ==
    ASSUME TypeOK, TypeOK', JobsCounted, NEW b \in Branches, NEW sim \in BOOLEAN, Enqueue(b, sim)
    PROVE  JobsCounted'
<1> DEFINE j == [branch |-> b, status |-> "QUEUED", asked |-> sales[b], sim |-> sim,
                 result |-> -1, ended |-> -1]
           n == Len(jobs) + 1
<1>1. jobs' = Append(jobs, j) /\ UNCHANGED <<recorded, sales>>
  BY DEF Enqueue
<1>2. j \in Job /\ jobs \in Seq(Job) /\ sales[b] \in Int
  BY DEF Job, TypeOK
<1>3. Counted(j, recorded, sales)
  BY <1>2 DEF Counted
<1> HIDE DEF j
<1>4. /\ DOMAIN jobs' = DOMAIN jobs \cup {n} /\ jobs'[n] = j
      /\ \A i \in DOMAIN jobs : jobs'[i] = jobs[i]
  BY <1>1, <1>2
<1> HIDE DEF n
<1> QED
  BY <1>1, <1>3, <1>4 DEF JobsCounted

LEMMA ExecuteCounts ==
    ASSUME TypeOK, TypeOK', JobsCounted, NEW i \in DOMAIN jobs, ExecuteJob(i)
    PROVE  JobsCounted'
<1> DEFINE j == jobs[i]
           snapshot == Record("SNAPSHOT", j.branch, Sold(j))
<1>1. /\ j \in Job /\ jobs \in Seq(Job) /\ now \in Int /\ sales[j.branch] \in Int
      /\ Counted(j, recorded, sales)
  <2>1. j \in Job /\ jobs \in Seq(Job) /\ now \in Int /\ sales \in [Branches -> Int]
    BY DEF TypeOK
  <2>2. j.branch \in Branches
    BY <2>1 DEF Job
  <2> QED
    BY <2>1, <2>2 DEF JobsCounted
<1>2. UNCHANGED sales
  BY DEF ExecuteJob
<1>3. \A b \in Branches : sales[b] <= sales'[b]
  BY <1>2 DEF TypeOK
<1>4. CASE jobs' = [jobs EXCEPT ![i] = TimedOut(j)] /\ UNCHANGED <<recorded, records>>
  <2>1. Counted(TimedOut(j), recorded, sales)
    BY <1>1 DEF TimedOut, Counted, Job
  <2> HIDE DEF j
  <2>2. /\ DOMAIN jobs' = DOMAIN jobs /\ jobs'[i] = TimedOut(j)
        /\ \A n \in DOMAIN jobs : n # i => jobs'[n] = jobs[n]
    BY <1>1, <1>4
  <2> QED
    BY <1>2, <1>4, <2>1, <2>2 DEF JobsCounted
<1>5. CASE /\ jobs' = [jobs EXCEPT ![i] = [j EXCEPT !.status = "SUCCEEDED", !.ended = now,
                                                   !.result = snapshot.id]]
           /\ recorded' = recorded \cup {snapshot}
  <2> DEFINE done == [j EXCEPT !.status = "SUCCEEDED", !.ended = now, !.result = snapshot.id]
  <2>1. /\ done.asked = j.asked /\ done.branch = j.branch /\ done.status = "SUCCEEDED"
        /\ done.ended = now /\ done.result = snapshot.id
    BY <1>1 DEF Job
  <2>2. snapshot.kind = "SNAPSHOT" /\ snapshot.at = now /\ snapshot.total = sales[j.branch]
    BY DEF Record, Sold
  <2>3. j.asked \in Int /\ j.asked <= sales[j.branch]
    BY <1>1 DEF Job, Counted
  <2>4. snapshot.total \in j.asked .. sales[j.branch] /\ snapshot \in recorded'
    BY <1>1, <1>5, <2>2, <2>3
  <2> HIDE DEF done, snapshot
  <2>5. Counted(done, recorded', sales')
    BY <1>2, <2>1, <2>2, <2>3, <2>4 DEF Counted
  <2>6. jobs' = [jobs EXCEPT ![i] = done]
    BY <1>5 DEF done
  <2>7. /\ DOMAIN jobs' = DOMAIN jobs /\ jobs'[i] = done
        /\ \A n \in DOMAIN jobs : n # i => jobs'[n] = jobs[n]
    BY <1>1, <2>6
  <2>8. Grow
    BY <1>3, <1>5 DEF Grow
  <2>9. \A n \in DOMAIN jobs : jobs[n] \in Job /\ Counted(jobs[n], recorded, sales)
    BY <1>1 DEF JobsCounted
  <2> QED
    BY <2>5, <2>7, <2>8, <2>9, CountedStays DEF JobsCounted
<1> QED
  BY <1>4, <1>5 DEF ExecuteJob

LEMMA StepCounts ==
    ASSUME IInv, IInv', JobsCounted, [Next]_vars
    PROVE  JobsCounted'
<1>1. TypeOK /\ TypeOK'
  BY DEF IInv
<1>2. \A b \in Branches : sales[b] \in Int
  BY <1>1 DEF TypeOK
<1>3. CASE UNCHANGED <<jobs, sales>> /\ recorded \subseteq recorded'
  BY <1>1, <1>2, <1>3, OtherStepCounts DEF Grow
<1>4. ASSUME NEW b \in Branches, Request(b)
      PROVE  JobsCounted'
  <2>1. CASE \E sim \in BOOLEAN : Enqueue(b, sim)
    BY <1>1, <2>1, EnqueueCounts
  <2>2. CASE Sell(b)
    <3>1. Grow /\ UNCHANGED jobs
      BY <1>1, <1>2, <2>2 DEF Sell, Grow, TypeOK
    <3> QED
      BY <1>1, <3>1, OtherStepCounts
  <2>3. CASE \/ \E role \in Roles : ExportAudit(b, role)
             \/ \E category \in {"SECURITY", "COMPLIANCE"} \cap used : ExportRows(b, category)
             \/ \E scope \in {"TENANT", "BRANCH"} : CreateLegalHold(b, scope)
             \/ \E n \in DOMAIN holds : ReleaseLegalHold(b, n)
             \/ \E days \in AskedPolicies : UpdateRetentionPolicy(b, days)
             \/ \E kind \in Kept : RecordEvent(kind, b)
             \/ \E prefix \in {"audit", "compliance"} : EvictByPrefix(b, prefix)
    BY <1>3, <2>3 DEF ExportAudit, ExportRows, CreateLegalHold, ReleaseLegalHold,
       UpdateRetentionPolicy, RecordEvent, EvictByPrefix
  <2> QED
    BY <1>4, <2>1, <2>2, <2>3 DEF Request
<1>5. ASSUME NEW i \in DOMAIN jobs, ExecuteJob(i)
      PROVE  JobsCounted'
  BY <1>1, <1>5, ExecuteCounts
<1>6. CASE \/ RunOnce \/ Tick \/ UNCHANGED vars
           \/ \E flag \in Switches \cap used, enabled \in BOOLEAN : SetFeatureFlag(flag, enabled)
  BY <1>3, <1>6 DEF RunOnce, Tick, vars, SetFeatureFlag
<1> QED
  BY <1>4, <1>5, <1>6 DEF Next

(* aggregationJobService.executeJob: however requests, sales, the timers and *)
(* the purge interleave, the snapshot of a job counts at least what was sold *)
(* when the job was asked for, and is kept as long as every policy demands.  *)
THEOREM SnapshotsCover == Spec => []SnapshotCoversRequest
<1>1. Init => JobsCounted
  BY DEF Init, JobsCounted
<1>2. IInv /\ IInv' /\ JobsCounted /\ [Next]_vars => JobsCounted'
  BY StepCounts
<1>3. IInv /\ JobsCounted => SnapshotCoversRequest
  <2> SUFFICES ASSUME IInv, JobsCounted, NEW i \in DOMAIN jobs, jobs[i].status = "SUCCEEDED"
               PROVE  /\ \E r \in recorded : /\ r.id = jobs[i].result /\ r.kind = "SNAPSHOT"
                                             /\ r.total \in jobs[i].asked .. sales[jobs[i].branch]
                      /\ now - jobs[i].ended <= MinDays => \E r \in records : r.id = jobs[i].result
    BY DEF SnapshotCoversRequest
  <2>1. PICK r \in recorded : /\ r.id = jobs[i].result /\ r.kind = "SNAPSHOT" /\ r.at = jobs[i].ended
                              /\ r.total \in jobs[i].asked .. sales[jobs[i].branch]
    BY DEF JobsCounted, Counted
  <2>2. now - r.at <= MinDays => r \in records
    BY DEF IInv, YoungRecordsKept
  <2> QED
    BY <2>1, <2>2
<1> QED
  BY <1>1, <1>2, <1>3, Invariant, PTL DEF Spec

-----------------------------------------------------------------------------
(* Answers from the cache.  An entry was loaded as long before it expires as *)
(* it may live; what it says was true then, and what has happened since is   *)
(* told apart by its time.                                                   *)

Hold == [branch : Branches, scope : {"TENANT", "BRANCH"}, active : BOOLEAN,
         createdAt : Int, releasedAt : Int]

AuditFresh(b, e) ==
    /\ e.expiresAt - AuditTtl <= now
    /\ e.value \subseteq AuditRows(TenantOf[b])
    /\ \A i \in AuditRows(TenantOf[b]) : audit[i].at < e.expiresAt - AuditTtl => i \in e.value

RowFresh(row, since) ==
    /\ (\E i \in DOMAIN holds : Covers(holds[i], row.branch) /\ holds[i].active
                                /\ holds[i].createdAt < since) => row.held
    /\ row.held => \E i \in DOMAIN holds : Covers(holds[i], row.branch)
                                           /\ (holds[i].active \/ holds[i].releasedAt >= since)
RowsFresh(b, category, rows, since) ==
    /\ \A row \in rows : RowFresh(row, since)
    /\ \A r \in records : /\ r.kind = category /\ TenantOf[r.branch] = TenantOf[b]
                          /\ r.at < since
                          => \E row \in rows : row.id = r.id
ComplianceFresh(b, category, e) ==
    /\ e.expiresAt - ComplianceTtl <= now
    /\ RowsFresh(b, category, e.value, e.expiresAt - ComplianceTtl)

Fresh(k, e) == /\ e.expiresAt \in Int
               /\ k[1] = "audit" => AuditFresh(k[2], e)
               /\ k[1] = "compliance" => ComplianceFresh(k[2], k[3], e)

CacheInv ==
    /\ TypeOK
    /\ records \subseteq recorded
    /\ holds \in Seq(Hold)
    /\ IsSequence(audit) /\ \A i \in DOMAIN audit : audit[i].at \in Int
    /\ \A k \in DOMAIN cache : Fresh(k, cache[k])

(* What a step does to what is answered from. *)
AuditStep == audit' = audit \/ \E b : audit' = AddAudit(audit, b)
HoldsStep ==
    \/ holds' = holds
    \/ \E b \in Branches, scope \in {"TENANT", "BRANCH"} :
          holds' = Append(holds, [branch |-> b, scope |-> scope, active |-> TRUE,
                                  createdAt |-> now, releasedAt |-> -1])
    \/ \E i \in DOMAIN holds :
          holds' = [holds EXCEPT ![i].active = FALSE, ![i].releasedAt = now]
RecordsStep == \/ records' \subseteq records /\ UNCHANGED recorded
               \/ \E r : /\ r.at = now
                         /\ recorded' = recorded \cup {r} /\ records' = records \cup {r}
CacheShrinks == \A k \in DOMAIN cache' : k \in DOMAIN cache /\ cache'[k] = cache[k]
CacheStep ==
    \/ CacheShrinks
    \/ \E b, role : cache' = With(<<"audit", b, role>>, AuditRows(TenantOf[b]), now + AuditTtl)
    \/ \E b, category : cache' = With(<<"compliance", b, category>>,
                                      ComplianceRows(TenantOf[b], category), now + ComplianceTtl)
Past == AuditStep /\ HoldsStep /\ RecordsStep /\ now' \in {now, now + 1}

LEMMA RequestPast ==
    ASSUME NEW b \in Branches, Request(b)
    PROVE  Past /\ CacheStep
<1>1. ASSUME NEW role \in Roles, ExportAudit(b, role)
      PROVE  Past /\ CacheStep
  <2>1. CacheStep
    BY <1>1 DEF ExportAudit, ReadWithCache, Read, CacheStep, CacheShrinks
  <2> QED
    BY <1>1, <2>1 DEF ExportAudit, Audited, Past, AuditStep, HoldsStep, RecordsStep
<1>2. ASSUME NEW category \in {"SECURITY", "COMPLIANCE"} \cap used, ExportRows(b, category)
      PROVE  Past /\ CacheStep
  <2>1. CacheStep
    BY <1>2 DEF ExportRows, ReadWithTenantHint, Read, CacheStep, CacheShrinks
  <2> QED
    BY <1>2, <2>1 DEF ExportRows, Past, AuditStep, HoldsStep, RecordsStep
<1>3. ASSUME NEW scope \in {"TENANT", "BRANCH"}, CreateLegalHold(b, scope)
      PROVE  Past /\ CacheStep
  BY <1>3 DEF CreateLegalHold, Audited, Past, AuditStep, HoldsStep, RecordsStep, CacheStep, CacheShrinks
<1>4. ASSUME NEW i \in DOMAIN holds, ReleaseLegalHold(b, i)
      PROVE  Past /\ CacheStep
  BY <1>4 DEF ReleaseLegalHold, Audited, Past, AuditStep, HoldsStep, RecordsStep, CacheStep, CacheShrinks
<1>5. ASSUME NEW kind \in Kept, RecordEvent(kind, b)
      PROVE  Past /\ CacheStep
  BY <1>5 DEF RecordEvent, Record, Past, AuditStep, HoldsStep, RecordsStep, CacheStep, CacheShrinks
<1>6. ASSUME \/ \E days \in AskedPolicies : UpdateRetentionPolicy(b, days)
             \/ \E sim \in BOOLEAN : Enqueue(b, sim)
             \/ Sell(b)
      PROVE  Past /\ CacheStep
  BY <1>6 DEF UpdateRetentionPolicy, Enqueue, Sell, Audited, Past, AuditStep, HoldsStep,
     RecordsStep, CacheStep, CacheShrinks
<1>7. ASSUME NEW prefix, EvictByPrefix(b, prefix)
      PROVE  Past /\ CacheStep
  <2>1. CacheShrinks
    BY <1>7 DEF EvictByPrefix, CacheShrinks
  <2> QED
    BY <1>7, <2>1 DEF EvictByPrefix, Past, AuditStep, HoldsStep, RecordsStep, CacheStep
<1> QED
  BY <1>1, <1>2, <1>3, <1>4, <1>5, <1>6, <1>7 DEF Request

LEMMA StepPast ==
    ASSUME [Next]_vars
    PROVE  Past /\ CacheStep
<1>1. CASE UNCHANGED vars
  BY <1>1 DEF vars, Past, AuditStep, HoldsStep, RecordsStep, CacheStep, CacheShrinks
<1>2. ASSUME NEW b \in Branches, Request(b)
      PROVE  Past /\ CacheStep
  BY <1>2, RequestPast
<1>3. ASSUME NEW flag, NEW enabled, SetFeatureFlag(flag, enabled)
      PROVE  Past /\ CacheStep
  BY <1>3 DEF SetFeatureFlag, Past, AuditStep, HoldsStep, RecordsStep, CacheStep, CacheShrinks
<1>4. ASSUME NEW i \in DOMAIN jobs, ExecuteJob(i)
      PROVE  Past /\ CacheStep
  <2> DEFINE r == Record("SNAPSHOT", jobs[i].branch, Sold(jobs[i]))
  <2>1. /\ \/ UNCHANGED <<recorded, records>>
           \/ recorded' = recorded \cup {r} /\ records' = records \cup {r}
        /\ audit' = AddAudit(audit, jobs[i].branch) /\ UNCHANGED <<now, holds, cache>>
    BY <1>4 DEF ExecuteJob
  <2>2. r.at = now
    BY DEF Record
  <2> HIDE DEF r
  <2> QED
    BY <2>1, <2>2 DEF Past, AuditStep, HoldsStep, RecordsStep, CacheStep, CacheShrinks
<1>5. CASE RunOnce
  BY <1>5 DEF RunOnce, AuditAfterPurge, Past, AuditStep, HoldsStep, RecordsStep, CacheStep, CacheShrinks
<1>6. CASE Tick
  <2>1. CacheShrinks
    BY <1>6 DEF Tick, CacheShrinks
  <2> QED
    BY <1>6, <2>1 DEF Tick, Past, AuditStep, HoldsStep, RecordsStep, CacheStep
<1> QED
  BY <1>1, <1>2, <1>3, <1>4, <1>5, <1>6 DEF Next

-----------------------------------------------------------------------------
(* What has happened since an entry was loaded is as young as it must be. *)

LEMMA AuditGrows ==
    ASSUME IsSequence(audit), \A i \in DOMAIN audit : audit[i].at \in Int, now \in Int, AuditStep
    PROVE  /\ IsSequence(audit') /\ \A i \in DOMAIN audit' : audit'[i].at \in Int
           /\ DOMAIN audit \subseteq DOMAIN audit'
           /\ \A i \in DOMAIN audit : audit'[i] = audit[i]
           /\ \A i \in DOMAIN audit' \ DOMAIN audit : audit'[i].at = now
<1>1. CASE audit' = audit
  BY <1>1
<1>2. ASSUME NEW b, audit' = AddAudit(audit, b)
      PROVE  /\ IsSequence(audit') /\ \A i \in DOMAIN audit' : audit'[i].at \in Int
             /\ DOMAIN audit \subseteq DOMAIN audit'
             /\ \A i \in DOMAIN audit : audit'[i] = audit[i]
             /\ \A i \in DOMAIN audit' \ DOMAIN audit : audit'[i].at = now
  <2> DEFINE n == Len(audit) + 1
             entry == [seq |-> n, branch |-> b, at |-> now,
                       prev |-> IF n = 1 THEN <<>> ELSE Digest(audit[n - 1])]
  <2>1. audit' = Append(audit, entry) /\ entry.at = now
    BY <1>2 DEF AddAudit
  <2> HIDE DEF entry
  <2>2. PICK S : audit \in Seq(S)
    BY DEF IsSequence
  <2>3. audit \in Seq(S \cup {entry})
    BY <2>2
  <2>4. /\ audit' \in Seq(S \cup {entry}) /\ DOMAIN audit' = DOMAIN audit \cup {n}
        /\ audit'[n] = entry /\ \A i \in DOMAIN audit : audit'[i] = audit[i]
    BY <2>1, <2>3
  <2> HIDE DEF n
  <2> QED
    BY <2>1, <2>4 DEF IsSequence
<1> QED
  BY <1>1, <1>2 DEF AuditStep

LEMMA HoldsGrow ==
    ASSUME holds \in Seq(Hold), now \in Int, HoldsStep
    PROVE  /\ holds' \in Seq(Hold) /\ DOMAIN holds \subseteq DOMAIN holds'
           /\ \A i \in DOMAIN holds :
                 /\ holds'[i].branch = holds[i].branch /\ holds'[i].scope = holds[i].scope
                 /\ holds'[i].createdAt = holds[i].createdAt
                 /\ holds'[i].active => holds[i].active
                 /\ holds[i].active => holds'[i].active \/ holds'[i].releasedAt = now
                 /\ holds'[i].releasedAt \in {holds[i].releasedAt, now}
           /\ \A i \in DOMAIN holds' \ DOMAIN holds : holds'[i].createdAt = now
<1>1. CASE holds' = holds
  BY <1>1
<1>2. ASSUME NEW b \in Branches, NEW scope \in {"TENANT", "BRANCH"},
             holds' = Append(holds, [branch |-> b, scope |-> scope, active |-> TRUE,
                                     createdAt |-> now, releasedAt |-> -1])
      PROVE  /\ holds' \in Seq(Hold) /\ DOMAIN holds \subseteq DOMAIN holds'
             /\ \A i \in DOMAIN holds : holds'[i] = holds[i]
             /\ \A i \in DOMAIN holds' \ DOMAIN holds : holds'[i].createdAt = now
  <2> DEFINE h == [branch |-> b, scope |-> scope, active |-> TRUE, createdAt |-> now, releasedAt |-> -1]
             n == Len(holds) + 1
  <2>1. h \in Hold /\ h.createdAt = now /\ holds' = Append(holds, h)
    BY <1>2 DEF Hold
  <2> HIDE DEF h
  <2>2. /\ holds' \in Seq(Hold) /\ DOMAIN holds' = DOMAIN holds \cup {n}
        /\ holds'[n] = h /\ \A i \in DOMAIN holds : holds'[i] = holds[i]
    BY <2>1
  <2> HIDE DEF n
  <2> QED
    BY <2>1, <2>2
<1>3. ASSUME NEW i \in DOMAIN holds,
             holds' = [holds EXCEPT ![i].active = FALSE, ![i].releasedAt = now]
      PROVE  /\ holds' \in Seq(Hold) /\ DOMAIN holds' = DOMAIN holds
             /\ \A n \in DOMAIN holds : n # i => holds'[n] = holds[n]
             /\ holds'[i].branch = holds[i].branch /\ holds'[i].scope = holds[i].scope
             /\ holds'[i].createdAt = holds[i].createdAt
             /\ ~holds'[i].active /\ holds'[i].releasedAt = now
  <2> DEFINE h == [holds[i] EXCEPT !.active = FALSE, !.releasedAt = now]
  <2>1. holds[i] \in Hold
    OBVIOUS
  <2>2. /\ h \in Hold /\ h.branch = holds[i].branch /\ h.scope = holds[i].scope
        /\ h.createdAt = holds[i].createdAt /\ h.active = FALSE /\ h.releasedAt = now
    BY <2>1 DEF Hold
  <2>3. holds' = [holds EXCEPT ![i] = h]
    BY <1>3
  <2> HIDE DEF h
  <2> QED
    BY <2>2, <2>3
<1> QED
  BY <1>1, <1>2, <1>3 DEF HoldsStep

LEMMA RowStays ==
    ASSUME holds \in Seq(Hold), now \in Int, HoldsStep,
           NEW row, NEW since \in Int, since <= now, RowFresh(row, since)
    PROVE  RowFresh(row, since)'
<1>1. \A i \in DOMAIN holds' : holds'[i].createdAt \in Int
  <2>1. holds' \in Seq(Hold)
    BY HoldsGrow
  <2>2. \A i \in DOMAIN holds' : holds'[i] \in Hold
    BY <2>1
  <2> QED
    BY <2>2 DEF Hold
<1>2. ASSUME NEW i \in DOMAIN holds', Covers(holds'[i], row.branch), holds'[i].active,
             holds'[i].createdAt < since
      PROVE  row.held
  <2>1. i \in DOMAIN holds
    BY <1>1, <1>2, HoldsGrow
  <2>2. holds[i].active /\ holds[i].createdAt < since /\ Covers(holds[i], row.branch)
    BY <1>2, <2>1, HoldsGrow DEF Covers
  <2> QED
    BY <2>1, <2>2 DEF RowFresh
<1>3. ASSUME row.held
      PROVE  \E i \in DOMAIN holds' : Covers(holds'[i], row.branch)
                                      /\ (holds'[i].active \/ holds'[i].releasedAt >= since)
  <2>1. PICK i \in DOMAIN holds : Covers(holds[i], row.branch)
                                  /\ (holds[i].active \/ holds[i].releasedAt >= since)
    BY <1>3 DEF RowFresh
  <2>2. i \in DOMAIN holds' /\ Covers(holds'[i], row.branch)
    BY <2>1, HoldsGrow DEF Covers
  <2>3. holds'[i].active \/ holds'[i].releasedAt >= since
    BY <2>1, HoldsGrow
  <2> QED
    BY <2>2, <2>3
<1> QED
  BY <1>2, <1>3 DEF RowFresh

LEMMA FreshStays ==
    ASSUME CacheInv, Past, NEW k, NEW e, Fresh(k, e)
    PROVE  Fresh(k, e)'
<1>1. /\ now \in Int /\ now' \in Int /\ now <= now' /\ e.expiresAt \in Int
      /\ AuditTtl \in Int /\ ComplianceTtl \in Int
  BY RetentionAssumption DEF CacheInv, TypeOK, Past, Fresh
<1>2. ASSUME AuditFresh(k[2], e)
      PROVE  AuditFresh(k[2], e)'
  <2> DEFINE since == e.expiresAt - AuditTtl
             t == TenantOf[k[2]]
  <2>1. since \in Int /\ since <= now /\ since <= now'
    BY <1>1, <1>2 DEF AuditFresh
  <2>2. AuditRows(t) \subseteq AuditRows(t)'
    BY <1>1, AuditGrows DEF AuditRows, CacheInv, Past
  <2>3. ASSUME NEW i \in AuditRows(t)', audit'[i].at < since
        PROVE  i \in e.value
    <3>1. i \in DOMAIN audit'
      BY DEF AuditRows
    <3>2. i \in DOMAIN audit
      BY <1>1, <2>1, <2>3, <3>1, AuditGrows DEF CacheInv, Past
    <3>3. audit'[i] = audit[i]
      BY <1>1, <3>2, AuditGrows DEF CacheInv, Past
    <3>4. i \in AuditRows(t) /\ audit[i].at < since
      BY <2>3, <3>2, <3>3 DEF AuditRows
    <3> QED
      BY <1>2, <3>4 DEF AuditFresh
  <2>4. e.value \subseteq AuditRows(t)
    BY <1>2 DEF AuditFresh
  <2> QED
    BY <2>1, <2>2, <2>3, <2>4 DEF AuditFresh
<1>3. ASSUME ComplianceFresh(k[2], k[3], e)
      PROVE  ComplianceFresh(k[2], k[3], e)'
  <2> DEFINE since == e.expiresAt - ComplianceTtl
  <2>1. since \in Int /\ since <= now /\ since <= now'
    BY <1>1, <1>3 DEF ComplianceFresh
  <2>2. RowsFresh(k[2], k[3], e.value, since)
    BY <1>3 DEF ComplianceFresh
  <2> HIDE DEF since
  <2>3. ASSUME NEW row \in e.value
        PROVE  RowFresh(row, since)'
    <3>1. RowFresh(row, since)
      BY <2>2 DEF RowsFresh
    <3> QED
      BY <1>1, <2>1, <3>1, RowStays DEF CacheInv, Past
  <2>4. ASSUME NEW r \in records', r.at < since
        PROVE  r \in records
    BY <1>1, <2>1, <2>4 DEF Past, RecordsStep
  <2>5. RowsFresh(k[2], k[3], e.value, since)'
    BY <2>2, <2>3, <2>4 DEF RowsFresh
  <2> QED
    BY <2>1, <2>5 DEF ComplianceFresh, since
<1> QED
  BY <1>1, <1>2, <1>3 DEF Fresh

(* What is loaded now is fresh. *)
LEMMA LoadedFresh ==
    ASSUME CacheInv, NEW b, NEW e
    PROVE  /\ e.value = AuditRows(TenantOf[b]) /\ e.expiresAt = now + AuditTtl
              => e.expiresAt \in Int /\ now <= e.expiresAt /\ AuditFresh(b, e)
           /\ \A category :
                 e.value = ComplianceRows(TenantOf[b], category) /\ e.expiresAt = now + ComplianceTtl
                 => e.expiresAt \in Int /\ now <= e.expiresAt /\ ComplianceFresh(b, category, e)
<1>1. now \in Int /\ AuditTtl \in Nat /\ ComplianceTtl \in Nat
  BY RetentionAssumption DEF CacheInv, TypeOK
<1>2. ASSUME e.value = AuditRows(TenantOf[b]), e.expiresAt = now + AuditTtl
      PROVE  e.expiresAt \in Int /\ now <= e.expiresAt /\ AuditFresh(b, e)
  BY <1>1, <1>2 DEF AuditFresh
<1>3. ASSUME NEW category, e.value = ComplianceRows(TenantOf[b], category),
             e.expiresAt = now + ComplianceTtl
      PROVE  e.expiresAt \in Int /\ now <= e.expiresAt /\ ComplianceFresh(b, category, e)
  <2>1. e.expiresAt - ComplianceTtl = now
    BY <1>1, <1>3
  <2>2. ASSUME NEW row \in e.value
        PROVE  RowFresh(row, now)
    <3>1. row.held = LegalHoldActive(row.branch)
      BY <1>3 DEF ComplianceRows
    <3> QED
      BY <3>1 DEF RowFresh, LegalHoldActive
  <2>3. ASSUME NEW r \in records, r.kind = category, TenantOf[r.branch] = TenantOf[b]
        PROVE  \E row \in e.value : row.id = r.id
    <3> DEFINE row == [id |-> r.id, branch |-> r.branch, held |-> LegalHoldActive(r.branch)]
    <3>1. row \in e.value
      BY <1>3, <2>3 DEF ComplianceRows
    <3>2. row.id = r.id
      OBVIOUS
    <3> QED
      BY <3>1, <3>2
  <2> QED
    BY <1>1, <1>3, <2>1, <2>2, <2>3 DEF ComplianceFresh, RowsFresh
<1> QED
  BY <1>2, <1>3

-----------------------------------------------------------------------------
(* A read answers with what is fresh, and keeps only what is fresh. *)

(* What was answered was loaded as an entry that may still be answered. *)
Answered ==
    /\ answer.to = "audit" =>
          \E e : /\ e.value = answer.rows /\ e.expiresAt \in Int /\ now <= e.expiresAt
                 /\ AuditFresh(answer.branch, e)
    /\ answer.to = "compliance" =>
          \E e : /\ e.value = answer.rows /\ e.expiresAt \in Int /\ now <= e.expiresAt
                 /\ ComplianceFresh(answer.branch, answer.category, e)

LEMMA AnswerIsComplete ==
    ASSUME CacheInv, Answered
    PROVE  AuditExportComplete /\ HoldsShownInTime
<1>1. now \in Int /\ AuditTtl \in Nat /\ ComplianceTtl \in Nat
  BY RetentionAssumption DEF CacheInv, TypeOK
<1>2. ASSUME answer.to = "audit"
      PROVE  AuditExportComplete
  <2>1. PICK e : /\ e.value = answer.rows /\ e.expiresAt \in Int /\ now <= e.expiresAt
                 /\ AuditFresh(answer.branch, e)
    BY <1>2 DEF Answered
  <2>2. \A i \in AuditRows(TenantOf[answer.branch]) : audit[i].at \in Int
    BY DEF CacheInv, AuditRows
  <2>3. \A at \in Int : at < now - AuditTtl => at < e.expiresAt - AuditTtl
    BY <1>1, <2>1
  <2> QED
    BY <2>1, <2>2, <2>3 DEF AuditFresh, AuditExportComplete
<1>3. ASSUME answer.to = "compliance"
      PROVE  HoldsShownInTime
  <2>1. PICK e : /\ e.value = answer.rows /\ e.expiresAt \in Int /\ now <= e.expiresAt
                 /\ ComplianceFresh(answer.branch, answer.category, e)
    BY <1>3 DEF Answered
  <2> DEFINE since == now - ComplianceTtl
             loaded == e.expiresAt - ComplianceTtl
  <2>2. since \in Int /\ loaded \in Int /\ since <= loaded
    BY <1>1, <2>1
  <2>3. /\ \A i \in DOMAIN holds : holds[i].createdAt \in Int /\ holds[i].releasedAt \in Int
        /\ \A r \in records : r.at \in Int
    <3>1. \A i \in DOMAIN holds : holds[i] \in Hold
      BY DEF CacheInv
    <3> QED
      BY <3>1 DEF Hold, CacheInv, TypeOK, Recorded
  <2>4. RowsFresh(answer.branch, answer.category, answer.rows, loaded)
    BY <2>1 DEF ComplianceFresh
  <2> HIDE DEF since, loaded
  <2>5. \A row \in answer.rows : RowFresh(row, since)
    <3> SUFFICES ASSUME NEW row \in answer.rows
                 PROVE  RowFresh(row, since)
      OBVIOUS
    <3>1. RowFresh(row, loaded)
      BY <2>4 DEF RowsFresh
    <3>2. \A i \in DOMAIN holds : /\ holds[i].createdAt < since => holds[i].createdAt < loaded
                                  /\ holds[i].releasedAt >= loaded => holds[i].releasedAt >= since
      BY <2>2, <2>3
    <3> QED
      BY <3>1, <3>2 DEF RowFresh
  <2>6. \A r \in records : /\ r.kind = answer.category /\ TenantOf[r.branch] = TenantOf[answer.branch]
                           /\ r.at < since
                           => \E row \in answer.rows : row.id = r.id
    BY <2>2, <2>3, <2>4 DEF RowsFresh
  <2> QED
    BY <2>5, <2>6 DEF RowFresh, HoldsShownInTime, since
<1> QED
  BY <1>2, <1>3 DEF AuditExportComplete, HoldsShownInTime

(* A hit answers with the entry, a miss with what is loaded now. *)
LEMMA ReadFresh ==
    ASSUME NEW key, NEW ttl, NEW STATE enabled, NEW STATE load, NEW value,
           value = Read(key, ttl, enabled, load).value
    PROVE  \E e : /\ e.value = value
                  /\ \/ key \in DOMAIN cache /\ cache[key] = e /\ now <= e.expiresAt
                     \/ value = load /\ e.expiresAt = now + ttl
<1> DEFINE loaded == [value |-> value, expiresAt |-> now + ttl]
<1>1. loaded.value = value /\ loaded.expiresAt = now + ttl
  OBVIOUS
<1>2. CASE enabled /\ Cached(key)
  BY <1>2 DEF Read, Cached
<1>3. CASE ~(enabled /\ Cached(key))
  <2>1. value = load
    BY <1>3 DEF Read
  <2>2. PICK e : e = loaded
    OBVIOUS
  <2> QED
    BY <1>1, <2>1, <2>2
<1> QED
  BY <1>2, <1>3

LEMMA StepAnswered ==
    ASSUME CacheInv, Answered, [Next]_vars
    PROVE  Answered'
<1>1. Past
  BY StepPast
<1>2. ASSUME NEW b \in Branches, NEW role \in Roles, ExportAudit(b, role)
      PROVE  Answered'
  <2> DEFINE key == <<"audit", b, role>>
  <2>1. PICK value : value = Read(key, AuditTtl, "scale_reads" \in flags, AuditRows(TenantOf[b])).value
    OBVIOUS
  <2>2. answer' = [to |-> "audit", branch |-> b, rows |-> value] /\ now' = now
    BY <1>2, <2>1 DEF ExportAudit, ReadWithCache
  <2>3. PICK e : /\ e.value = value
                 /\ \/ key \in DOMAIN cache /\ cache[key] = e /\ now <= e.expiresAt
                    \/ value = AuditRows(TenantOf[b]) /\ e.expiresAt = now + AuditTtl
    BY <2>1, ReadFresh
  <2>4. key[1] = "audit" /\ key[2] = b
    OBVIOUS
  <2>5. Fresh(key, e) /\ now <= e.expiresAt
    <3>1. CASE key \in DOMAIN cache /\ cache[key] = e /\ now <= e.expiresAt
      BY <3>1 DEF CacheInv
    <3>2. CASE value = AuditRows(TenantOf[b]) /\ e.expiresAt = now + AuditTtl
      BY <2>3, <2>4, <3>2, LoadedFresh DEF Fresh
    <3> HIDE DEF key
    <3> QED
      BY <2>3, <3>1, <3>2
  <2> HIDE DEF key
  <2>6. Fresh(key, e)'
    BY <1>1, <2>5, FreshStays
  <2>7. e.expiresAt \in Int /\ AuditFresh(b, e)'
    BY <2>4, <2>6 DEF Fresh
  <2> QED
    BY <2>2, <2>3, <2>5, <2>7 DEF Answered
<1>3. ASSUME NEW b \in Branches, NEW category, ExportRows(b, category)
      PROVE  Answered'
  <2> DEFINE key == <<"compliance", b, category>>
  <2>1. PICK value : value = Read(key, ComplianceTtl, flags \cap {"scale_reads", "phase7_scale_guard"} # {},
                                  ComplianceRows(TenantOf[b], category)).value
    OBVIOUS
  <2>2. /\ answer' = [to |-> "compliance", branch |-> b, category |-> category, rows |-> value]
        /\ now' = now
    BY <1>3, <2>1 DEF ExportRows, ReadWithTenantHint
  <2>3. PICK e : /\ e.value = value
                 /\ \/ key \in DOMAIN cache /\ cache[key] = e /\ now <= e.expiresAt
                    \/ value = ComplianceRows(TenantOf[b], category) /\ e.expiresAt = now + ComplianceTtl
    BY <2>1, ReadFresh
  <2>4. key[1] = "compliance" /\ key[2] = b /\ key[3] = category
    OBVIOUS
  <2>5. Fresh(key, e) /\ now <= e.expiresAt
    <3>1. CASE key \in DOMAIN cache /\ cache[key] = e /\ now <= e.expiresAt
      BY <3>1 DEF CacheInv
    <3>2. CASE value = ComplianceRows(TenantOf[b], category) /\ e.expiresAt = now + ComplianceTtl
      BY <2>3, <2>4, <3>2, LoadedFresh DEF Fresh
    <3> HIDE DEF key
    <3> QED
      BY <2>3, <3>1, <3>2
  <2> HIDE DEF key
  <2>6. Fresh(key, e)'
    BY <1>1, <2>5, FreshStays
  <2>7. e.expiresAt \in Int /\ ComplianceFresh(b, category, e)'
    BY <2>4, <2>6 DEF Fresh
  <2> QED
    BY <2>2, <2>3, <2>5, <2>7 DEF Answered
<1>4. CASE answer' = NoAnswer
  BY <1>4 DEF NoAnswer, Answered
<1>5. CASE UNCHANGED vars
  BY <1>5 DEF vars, Answered, AuditFresh, AuditRows, ComplianceFresh, RowsFresh, RowFresh, Covers
<1>6. ASSUME NEW b \in Branches, Request(b)
      PROVE  \/ answer' = NoAnswer
             \/ \E role \in Roles : ExportAudit(b, role)
             \/ \E category : ExportRows(b, category)
  BY <1>6 DEF Request, CreateLegalHold, ReleaseLegalHold, UpdateRetentionPolicy, Enqueue, RecordEvent,
     Sell, EvictByPrefix
<1>7. CASE \/ \E flag \in Switches \cap used, enabled \in BOOLEAN : SetFeatureFlag(flag, enabled)
           \/ \E i \in DOMAIN jobs : ExecuteJob(i)
           \/ RunOnce
           \/ Tick
  BY <1>4, <1>7 DEF SetFeatureFlag, ExecuteJob, RunOnce, Tick
<1> QED
  BY <1>2, <1>3, <1>4, <1>5, <1>6, <1>7 DEF Next

LEMMA StepCacheInv ==
    ASSUME CacheInv, TypeOK', [Next]_vars
    PROVE  CacheInv'
<1>1. Past /\ CacheStep
  BY StepPast
<1>2. now \in Int
  BY DEF CacheInv, TypeOK
<1>3. records' \subseteq recorded'
  BY <1>1 DEF CacheInv, Past, RecordsStep
<1>4. holds' \in Seq(Hold)
  BY <1>1, <1>2, HoldsGrow DEF CacheInv, Past
<1>5. IsSequence(audit') /\ \A i \in DOMAIN audit' : audit'[i].at \in Int
  BY <1>1, <1>2, AuditGrows DEF CacheInv, Past
<1>6. ASSUME NEW k \in DOMAIN cache', k \in DOMAIN cache, cache'[k] = cache[k]
      PROVE  Fresh(k, cache[k])'
  <2>1. PICK e : e = cache[k]
    OBVIOUS
  <2>2. Fresh(k, e)
    BY <1>6, <2>1 DEF CacheInv
  <2>3. Fresh(k, e)'
    BY <1>1, <2>2, FreshStays
  <2>4. cache'[k] = e
    BY <1>6, <2>1
  <2> QED
    BY <2>3, <2>4
<1>7. ASSUME NEW key, NEW e, cache' = With(key, e.value, e.expiresAt), Fresh(key, e)
      PROVE  \A k \in DOMAIN cache' : Fresh(k, cache[k])'
  <2> SUFFICES ASSUME NEW k \in DOMAIN cache'
               PROVE  Fresh(k, cache[k])'
    OBVIOUS
  <2>1. CASE k = key
    <3>1. PICK new : new = [value |-> e.value, expiresAt |-> e.expiresAt]
      OBVIOUS
    <3>2. cache'[k] = new
      BY <1>7, <2>1, <3>1 DEF With
    <3>3. Fresh(key, new)
      BY <1>7, <3>1 DEF Fresh, AuditFresh, ComplianceFresh
    <3>4. Fresh(key, new)'
      BY <1>1, <3>3, FreshStays
    <3> QED
      BY <2>1, <3>2, <3>4
  <2>2. CASE k # key
    BY <1>6, <1>7, <2>2 DEF With
  <2> QED
    BY <2>1, <2>2
<1>8. \A k \in DOMAIN cache' : Fresh(k, cache[k])'
  <2>1. CASE CacheShrinks
    BY <1>6, <2>1 DEF CacheShrinks
  <2>2. ASSUME NEW b, NEW role,
               cache' = With(<<"audit", b, role>>, AuditRows(TenantOf[b]), now + AuditTtl)
        PROVE  \A k \in DOMAIN cache' : Fresh(k, cache[k])'
    <3> DEFINE key == <<"audit", b, role>>
    <3>1. PICK e : e = [value |-> AuditRows(TenantOf[b]), expiresAt |-> now + AuditTtl]
      OBVIOUS
    <3>2. key[1] = "audit" /\ key[2] = b
      OBVIOUS
    <3>3. Fresh(key, e)
      BY <3>1, <3>2, LoadedFresh DEF Fresh
    <3>4. cache' = With(key, e.value, e.expiresAt)
      BY <2>2, <3>1
    <3> HIDE DEF key
    <3> QED
      BY <1>7, <3>3, <3>4
  <2>3. ASSUME NEW b, NEW category,
               cache' = With(<<"compliance", b, category>>, ComplianceRows(TenantOf[b], category),
                             now + ComplianceTtl)
        PROVE  \A k \in DOMAIN cache' : Fresh(k, cache[k])'
    <3> DEFINE key == <<"compliance", b, category>>
    <3>1. PICK e : e = [value |-> ComplianceRows(TenantOf[b], category), expiresAt |-> now + ComplianceTtl]
      OBVIOUS
    <3>2. key[1] = "compliance" /\ key[2] = b /\ key[3] = category
      OBVIOUS
    <3>3. Fresh(key, e)
      BY <3>1, <3>2, LoadedFresh DEF Fresh
    <3>4. cache' = With(key, e.value, e.expiresAt)
      BY <2>3, <3>1
    <3> HIDE DEF key
    <3> QED
      BY <1>7, <3>3, <3>4
  <2> QED
    BY <1>1, <2>1, <2>2, <2>3 DEF CacheStep
<1> QED
  BY <1>3, <1>4, <1>5, <1>8 DEF CacheInv

LEMMA CacheInvariant == Spec => [](CacheInv /\ Answered)
<1>1. IInv /\ Init => CacheInv /\ Answered
  <2> SUFFICES ASSUME IInv, Init
               PROVE  CacheInv /\ Answered
    OBVIOUS
  <2>1. holds \in Seq(Hold) /\ DOMAIN audit = {} /\ DOMAIN cache = {} /\ IsSequence(audit)
    BY DEF Init, IsSequence
  <2>2. answer.to = "none"
    BY DEF Init, NoAnswer
  <2> QED
    BY <2>1, <2>2 DEF Init, IInv, CacheInv, Answered
<1>2. IInv' /\ CacheInv /\ Answered /\ [Next]_vars => (CacheInv /\ Answered)'
  BY StepCacheInv, StepAnswered DEF IInv
<1> QED
  BY <1>1, <1>2, Invariant, PTL DEF Spec

(* exportsService.getAuditRows and scaleGuardService.readWithCache: for any   *)
(* roles and however reads, evictions and flags interleave, an audit export   *)
(* lacks no entry that is older than a cached answer may be.                  *)
THEOREM ExportsComplete == Spec => []AuditExportComplete
  BY CacheInvariant, AnswerIsComplete, PTL

(* complianceService.exportRows: whatever holds are created, released and     *)
(* released again, an export shows a record as held in time, and no record is *)
(* missing for longer than an answer is cached.                               *)
THEOREM HoldsInTime == Spec => []HoldsShownInTime
  BY CacheInvariant, AnswerIsComplete, PTL
=============================================================================
