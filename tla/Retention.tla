------------------------------- MODULE Retention -------------------------------
(***************************************************************************)
(* What the program keeps and shows of its past: the audit trail           *)
(* (auditService.ts), events and snapshots that a timer purges by the      *)
(* tenant's policy (retentionPurgeJobService.ts, exportsService.ts), legal *)
(* holds and exports (complianceService.ts), the cache their reads go      *)
(* through (scaleGuardService.ts) and the aggregation jobs that run in     *)
(* timers (aggregationJobService.ts).                                      *)
(*                                                                         *)
(* A request comes from a session in a branch and asks for that branch's   *)
(* tenant; who may ask is AccessControl's.  "now" counts units in which    *)
(* both the days of a policy and the life of a cached answer are given.    *)
(* Dates to export between, and metrics of the program about itself, are   *)
(* left out.  A store lives in memory: a restart begins at Init.           *)
(***************************************************************************)
EXTENDS Integers, Sequences, FiniteSets

CONSTANTS Branches, TenantOf,
          Roles,                            \* of the sessions that ask
          AuditTtl, ComplianceTtl,          \* of cached exports
          MinDays, MaxDays,                 \* what a policy may ask for
          InitialPolicy, AskedPolicies,
          Routes,                           \* sets of routes that are used together
          MaxRecords, MaxHolds, MaxJobs, MaxSales, MaxAudit, Horizon      \* bounds

Tenants == {TenantOf[b] : b \in Branches}
Kept == {"SECURITY", "COMPLIANCE", "METRIC", "WEBHOOK", "REPORT"}
Terms == {"audit", "security", "compliance", "metric"}
Switches == {"scale_reads", "phase7_scale_guard", "background_aggregation"}

ASSUME RetentionAssumption ==
    /\ IsFiniteSet(Branches)
    /\ AuditTtl \in Nat \ {0} /\ ComplianceTtl \in Nat \ {0}
    /\ MinDays \in Nat \ {0} /\ MaxDays \in Nat
    /\ InitialPolicy \in [Terms -> MinDays .. MaxDays]
    /\ AskedPolicies \subseteq [Terms -> Int]
    /\ IsFiniteSet(Routes)
    /\ {MaxRecords, MaxHolds, MaxJobs, MaxSales, MaxAudit, Horizon} \subseteq Nat

VARIABLES
    now,
    flags,      \* which of the Switches are on, for all tenants
    policy,     \* store.retentionPolicies
    holds,      \* store.legalHolds, in the order of their creation
    recorded,   \* every event and snapshot that was ever recorded, and ...
    records,    \* ... what the store still has of them
    audit,      \* store.auditLogs
    cache,      \* store.scaleCacheRecords, by key
    jobs,       \* store.aggregationJobs, in the order of their creation
    sales,      \* how many sales each branch has
    answer,     \* what the request of this step was answered
    used        \* the routes that are used, one of Routes

vars == <<now, flags, policy, holds, recorded, records, audit, cache, jobs, sales, answer, used>>

NoAnswer == [to |-> "none"]
Record(kind, b, total) ==
    [id |-> Cardinality(recorded), kind |-> kind, branch |-> b, at |-> now, total |-> total]

Init ==
    /\ now = 0
    /\ flags \in {{}, Switches}
    /\ policy = [t \in Tenants |-> InitialPolicy]
    /\ holds = <<>>
    /\ recorded = {} /\ records = {}
    /\ audit = <<>>
    /\ cache = <<>>
    /\ jobs = <<>>
    /\ sales = [b \in Branches |-> 0]
    /\ answer = NoAnswer
    /\ used \in Routes

-----------------------------------------------------------------------------
(* The audit trail: one chain over all tenants.  Its checksum is taken to    *)
(* tell apart whatever it is computed from.                                  *)

Digest(e) == <<e.seq, e.prev, e.branch, e.at>>

AddAudit(log, b) ==
    LET seq == Len(log) + 1
    IN  Append(log, [seq |-> seq, branch |-> b, at |-> now,
                     prev |-> IF seq = 1 THEN <<>> ELSE Digest(log[seq - 1])])

VerifyChainIntegrity ==
    \A i \in DOMAIN audit : audit[i].prev = IF i = 1 THEN <<>> ELSE Digest(audit[i - 1])

(* A request that is answered leaves an entry. *)
Audited(b) ==
    /\ Len(audit) < MaxAudit
    /\ audit' = AddAudit(audit, b)

-----------------------------------------------------------------------------
(* Reading through the cache.  The two reads look at different flags.        *)

Cached(key) == key \in DOMAIN cache /\ now <= cache[key].expiresAt
With(key, value, expiresAt) ==
    [k \in DOMAIN cache \cup {key} |->
        IF k = key THEN [value |-> value, expiresAt |-> expiresAt] ELSE cache[k]]

Read(key, ttl, enabled, load) ==
    LET hit == enabled /\ Cached(key)
    IN  [value |-> IF hit THEN cache[key].value ELSE load,
         cache |-> IF enabled /\ ~hit THEN With(key, load, now + ttl) ELSE cache]

(* Mutant: an entry lives longer than it was given. *)
ReadWithCacheLonger(key, ttl, load) == Read(key, 2 * ttl, "scale_reads" \in flags, load)
ReadWithCache(key, ttl, load) == Read(key, ttl, "scale_reads" \in flags, load)
ReadWithTenantHint(key, ttl, load) ==
    Read(key, ttl, flags \cap {"scale_reads", "phase7_scale_guard"} # {}, load)

-----------------------------------------------------------------------------
(* Exports *)

AuditRows(t) == {i \in DOMAIN audit : TenantOf[audit[i].branch] = t}

(* The read is audited after it, so an export does not show itself. *)
ExportAudit(b, role) ==
    LET read == ReadWithCache(<<"audit", b, role>>, AuditTtl, AuditRows(TenantOf[b]))
    IN  /\ answer' = [to |-> "audit", branch |-> b, rows |-> read.value]
        /\ cache' = read.cache
        /\ Audited(b)
        /\ UNCHANGED <<now, flags, policy, holds, recorded, records, jobs, sales>>

Covers(h, b) == TenantOf[h.branch] = TenantOf[b] /\ (h.scope = "BRANCH" => h.branch = b)
(* Mutant: released holds still count. *)
LegalHoldEver(b) == \E i \in DOMAIN holds : Covers(holds[i], b)
LegalHoldActive(b) == \E i \in DOMAIN holds : holds[i].active /\ Covers(holds[i], b)

ComplianceRows(t, category) ==
    {[id |-> r.id, branch |-> r.branch, held |-> LegalHoldActive(r.branch)] :
        r \in {q \in records : q.kind = category /\ TenantOf[q.branch] = t}}

ExportRows(b, category) ==
    LET read == ReadWithTenantHint(<<"compliance", b, category>>, ComplianceTtl,
                                   ComplianceRows(TenantOf[b], category))
    IN  /\ answer' = [to |-> "compliance", branch |-> b, category |-> category, rows |-> read.value]
        /\ cache' = read.cache
        /\ UNCHANGED <<now, flags, policy, holds, recorded, records, audit, jobs, sales>>

(* releasedAt is that of the last release, and -1 before there was one. *)
CreateLegalHold(b, scope) ==
    /\ Len(holds) < MaxHolds
    /\ holds' = Append(holds, [branch |-> b, scope |-> scope, active |-> TRUE,
                               createdAt |-> now, releasedAt |-> -1])
    /\ Audited(b)
    /\ answer' = NoAnswer
    /\ UNCHANGED <<now, flags, policy, recorded, records, cache, jobs, sales>>

(* A hold that is released may be released again. *)
ReleaseLegalHold(b, i) ==
    /\ i \in DOMAIN holds /\ TenantOf[holds[i].branch] = TenantOf[b]
    /\ holds' = [holds EXCEPT ![i].active = FALSE, ![i].releasedAt = now]
    /\ Audited(b)
    /\ answer' = NoAnswer
    /\ UNCHANGED <<now, flags, policy, recorded, records, cache, jobs, sales>>

-----------------------------------------------------------------------------
(* Retention *)

(* Mutant: only what is too long is refused. *)
AcceptableShort(days) == \A term \in Terms : days[term] <= MaxDays
Acceptable(days) == \A term \in Terms : days[term] \in MinDays .. MaxDays

UpdateRetentionPolicy(b, days) ==
    /\ Acceptable(days)
    /\ policy' = [policy EXCEPT ![TenantOf[b]] = days]
    /\ Audited(b)
    /\ answer' = NoAnswer
    /\ UNCHANGED <<now, flags, holds, recorded, records, cache, jobs, sales>>

TermOf(kind) ==
    CASE kind = "SECURITY" -> "security"
      [] kind = "COMPLIANCE" -> "compliance"
      [] kind \in {"METRIC", "WEBHOOK", "REPORT", "SNAPSHOT"} -> "metric"
AtLeast1(days) == IF days < 1 THEN 1 ELSE days
(* Mutant: reports are forgotten. *)
ExpiredNotReports(r) ==
    r.kind # "REPORT" /\ r.at < now - AtLeast1(policy[TenantOf[r.branch]][TermOf(r.kind)])
Expired(r) == r.at < now - AtLeast1(policy[TenantOf[r.branch]][TermOf(r.kind)])

(* The purge goes over all tenants and leaves an entry for each, under no    *)
(* branch of theirs: here, one of them.  It looks at no legal hold, and      *)
(* leaves the audit trail alone.  A purge that finds nothing is left out.    *)
(* Mutant: entries of the audit trail expire as well.                        *)
AuditAfterOwnTerm ==
    LET kept == SelectSeq(audit, LAMBDA e : e.at >= now - AtLeast1(policy[TenantOf[e.branch]]["audit"]))
    IN  AddAudit(kept, CHOOSE b \in Branches : TRUE)
AuditAfterPurge == AddAudit(audit, CHOOSE b \in Branches : TRUE)

RunOnce ==
    /\ \E r \in records : Expired(r)
    /\ records' = {r \in records : ~Expired(r)}
    /\ audit' = AuditAfterPurge
    /\ answer' = NoAnswer
    /\ UNCHANGED <<now, flags, policy, holds, recorded, cache, jobs, sales>>

-----------------------------------------------------------------------------
(* Aggregation jobs.  "asked" is how much was sold when the job was asked    *)
(* for; "sim" is the timeout a request may simulate.                         *)

Enqueue(b, sim) ==
    /\ "background_aggregation" \in flags
    /\ Len(jobs) < MaxJobs
    /\ jobs' = Append(jobs, [branch |-> b, status |-> "QUEUED", asked |-> sales[b], sim |-> sim,
                             result |-> -1, ended |-> -1])
    /\ answer' = NoAnswer
    /\ UNCHANGED <<now, flags, policy, holds, recorded, records, audit, cache, sales>>

(* Mutant: only what was sold since the request is counted. *)
SoldSince(j) == sales[j.branch] - j.asked
Sold(j) == sales[j.branch]

(* Mutant: the job that times out stays as it is. *)
TimedOutSilently(j) == [j EXCEPT !.status = "RUNNING"]
TimedOut(j) == [j EXCEPT !.status = "TIMEOUT", !.ended = now]

(* The timer of a job, whether the flag is still on or not.  The handler for *)
(* failures is not reached: nothing in the computation of a snapshot throws. *)
ExecuteJob(i) ==
    LET j == jobs[i]
        snapshot == Record("SNAPSHOT", j.branch, Sold(j))
    IN  /\ j.status = "QUEUED"
        /\ \/ j.sim /\ jobs' = [jobs EXCEPT ![i] = TimedOut(j)]
              /\ UNCHANGED <<recorded, records>>
           \/ ~j.sim /\ jobs' = [jobs EXCEPT ![i] = [j EXCEPT !.status = "SUCCEEDED", !.ended = now,
                                                             !.result = snapshot.id]]
              /\ recorded' = recorded \cup {snapshot}
              /\ records' = records \cup {snapshot}
        /\ audit' = AddAudit(audit, j.branch)
        /\ answer' = NoAnswer
        /\ UNCHANGED <<now, flags, policy, holds, cache, sales>>

-----------------------------------------------------------------------------
(* The rest of the program records what it does, sells and sets flags.       *)

RecordEvent(kind, b) ==
    /\ Cardinality(recorded) < MaxRecords
    /\ recorded' = recorded \cup {Record(kind, b, 0)}
    /\ records' = records \cup {Record(kind, b, 0)}
    /\ answer' = NoAnswer
    /\ UNCHANGED <<now, flags, policy, holds, audit, cache, jobs, sales>>

Sell(b) ==
    /\ sales[b] < MaxSales
    /\ sales' = [sales EXCEPT ![b] = @ + 1]
    /\ answer' = NoAnswer
    /\ UNCHANGED <<now, flags, policy, holds, recorded, records, audit, cache, jobs>>

SetFeatureFlag(flag, enabled) ==
    /\ enabled # (flag \in flags)
    /\ flags' = IF enabled THEN flags \cup {flag} ELSE flags \ {flag}
    /\ answer' = NoAnswer
    /\ UNCHANGED <<now, policy, holds, recorded, records, audit, cache, jobs, sales>>

EvictByPrefix(b, prefix) ==
    /\ \E k \in DOMAIN cache : k[1] = prefix /\ TenantOf[k[2]] = TenantOf[b]
    /\ cache' = [k \in {k \in DOMAIN cache : ~(k[1] = prefix /\ TenantOf[k[2]] = TenantOf[b])} |-> cache[k]]
    /\ answer' = NoAnswer
    /\ UNCHANGED <<now, flags, policy, holds, recorded, records, audit, jobs, sales>>

(* An entry of the cache that has expired is as good as none. *)
Tick ==
    /\ now < Horizon
    /\ now' = now + 1
    /\ cache' = [k \in {k \in DOMAIN cache : now < cache[k].expiresAt} |-> cache[k]]
    /\ answer' = NoAnswer
    /\ UNCHANGED <<flags, policy, holds, recorded, records, audit, jobs, sales>>

Request(b) ==
    \/ "exports/audit" \in used /\ \E role \in Roles : ExportAudit(b, role)
    \/ "compliance/exports" \in used /\ \E category \in {"SECURITY", "COMPLIANCE"} \cap used : ExportRows(b, category)
    \/ /\ "compliance/legal-holds" \in used
       /\ \/ \E scope \in {"TENANT", "BRANCH"} : CreateLegalHold(b, scope)
          \/ \E i \in DOMAIN holds : ReleaseLegalHold(b, i)
    \/ "exports/retention-policy" \in used /\ \E days \in AskedPolicies : UpdateRetentionPolicy(b, days)
    \/ "aggregation/jobs" \in used /\ \E sim \in BOOLEAN : Enqueue(b, sim)
    \/ \E kind \in Kept \cap used : RecordEvent(kind, b)
    \/ "sales/checkout" \in used /\ Sell(b)
    \/ "cache/evict" \in used /\ \E prefix \in {"audit", "compliance"} : EvictByPrefix(b, prefix)

Next ==
    /\ \/ \E b \in Branches : Request(b)
       \/ \E flag \in Switches \cap used, enabled \in BOOLEAN : SetFeatureFlag(flag, enabled)
       \/ \E i \in DOMAIN jobs : ExecuteJob(i)
       \/ RunOnce
       \/ Tick
    /\ UNCHANGED used

(* The timers of node fire: setInterval for the purge, setTimeout for a job. *)
Spec ==
    /\ Init /\ [][Next]_vars
    /\ WF_vars(RunOnce /\ UNCHANGED used)
    /\ WF_vars((\E i \in DOMAIN jobs : ExecuteJob(i)) /\ UNCHANGED used)

-----------------------------------------------------------------------------
(***************************************************************************)
(* Properties                                                              *)
(***************************************************************************)
(* An audit export may come from the cache, and reads that hit do not make   *)
(* the entry live longer: it lacks nothing older than the life of a cached   *)
(* answer, and shows the entries of no other tenant.                         *)
AuditExportComplete ==
    answer.to = "audit" =>
        LET t == TenantOf[answer.branch]
        IN  /\ answer.rows \subseteq AuditRows(t)
            /\ \A i \in AuditRows(t) : audit[i].at < now - AuditTtl => i \in answer.rows

(* A compliance export shows a record as held if a hold has covered it for   *)
(* longer than an answer is cached, and only if one covered it that recently;*)
(* no record is missing for longer than that either.                         *)
HoldsShownInTime ==
    answer.to = "compliance" =>
        LET since == now - ComplianceTtl
            Held(b) == \E i \in DOMAIN holds : Covers(holds[i], b) /\ holds[i].active
                                               /\ holds[i].createdAt < since
            MayBeHeld(b) == \E i \in DOMAIN holds : Covers(holds[i], b)
                                                   /\ (holds[i].active \/ holds[i].releasedAt >= since)
        IN  /\ \A row \in answer.rows : (Held(row.branch) => row.held) /\ (row.held => MayBeHeld(row.branch))
            /\ \A r \in records : r.kind = answer.category /\ TenantOf[r.branch] = TenantOf[answer.branch]
                                  /\ r.at < since => \E row \in answer.rows : row.id = r.id

(* Whatever policies are asked for one after the other, and whenever the     *)
(* purge runs, nothing is removed before the shortest term a policy may have.*)
YoungRecordsKept == \A r \in recorded : now - r.at <= MinDays => r \in records

(* The check at startup would accept the trail at any time: what the purge   *)
(* removes does not break the chain, which runs through all tenants.         *)
ChainVerifies == VerifyChainIntegrity

(* A job that succeeded counted all that was sold in its branch when it was  *)
(* asked for, and nothing else; its snapshot can be looked up as long as no  *)
(* policy could have purged it.                                              *)
SnapshotCoversRequest ==
    \A i \in DOMAIN jobs : jobs[i].status = "SUCCEEDED" =>
        /\ \E r \in recorded : /\ r.id = jobs[i].result /\ r.kind = "SNAPSHOT"
                               /\ r.total \in jobs[i].asked .. sales[jobs[i].branch]
        /\ now - jobs[i].ended <= MinDays => \E r \in records : r.id = jobs[i].result

(* The timers do what is left to them: every job ends, and nothing that has  *)
(* expired stays, unless a policy gives it more time.                        *)
Overdue(r) == now - r.at > policy[TenantOf[r.branch]][TermOf(r.kind)]
TimersCatchUp ==
    /\ \A i \in 1 .. MaxJobs : 
          (i \in DOMAIN jobs) ~> (i \in DOMAIN jobs /\ jobs[i].status \in {"SUCCEEDED", "TIMEOUT"})
    /\ \A n \in 0 .. MaxRecords + MaxJobs :
          []<>(\A r \in records : r.id = n => ~Overdue(r))
=============================================================================
