--------------------------- MODULE PredictiveActions ---------------------------
(***************************************************************************)
(* Recommendations (predictiveActionsService.ts): a listing that asks for  *)
(* a refresh files one for each forecast that calls for it, and a manager  *)
(* acknowledges, executes or dismisses them.                               *)
(*                                                                         *)
(* A forecast (predictiveService.ts, cached, over metrics and sales) may   *)
(* have any outcome; what names it, its sourceRef, tells it from others.   *)
(***************************************************************************)
EXTENDS Integers, Sequences, FiniteSets

CONSTANTS Branches,        \* of one tenant
          Readers,         \* who lists and decides: [user, role, branch]
          SlaForecasts, TrendForecasts,        \* sets of [ref, severity]
          Asked,           \* the branches that readers name, unknown ones too
          Nobody, Anywhere,
          MaxActions       \* bound on what is filed

Managers == {"APPLICATION_OWNER", "TENANT_OWNER", "MANAGER"}
Decided == [ACKNOWLEDGE |-> "ACKNOWLEDGED", EXECUTE |-> "EXECUTED", DISMISS |-> "DISMISSED"]
ActiveStatuses == {"OPEN", "ACKNOWLEDGED"}
Statuses == ActiveStatuses \cup {"EXECUTED", "DISMISSED"}
Forecasts == SlaForecasts \cup TrendForecasts
Users == {s.user : s \in Readers}

PredictiveActionRecord ==
    [branch : Asked \cup {s.branch : s \in Readers},
     ref : {f.ref : f \in Forecasts}, severity : {f.severity : f \in Forecasts},
     status : Statuses, acknowledgedBy : Users \cup {Nobody}, executedBy : Users \cup {Nobody}]

PredictiveAssumption == Nobody \notin Users

VARIABLES
    actions,       \* store.predictiveActions
    decisions,     \* what was last decided of each of them, "OPEN" at first
    closed         \* those that were ever executed or dismissed

vars == <<actions, decisions, closed>>

Init == actions = <<>> /\ decisions = <<>> /\ closed = {}

(* The branch a reader may ask for: another than its own only as the owner   *)
(* of the application, and then any.                                         *)
BranchFor(s, asked) == IF asked = Anywhere THEN s.branch ELSE asked
MayAsk(s, asked) == asked \in {Anywhere, s.branch} \/ s.role = "APPLICATION_OWNER"

OpenOf(filed, b, ref) ==        \* mutant
    {i \in DOMAIN filed : /\ filed[i].branch = b /\ filed[i].ref = ref
                          /\ filed[i].status = "OPEN"}
ActiveOf(filed, b, ref) ==
    {i \in DOMAIN filed : /\ filed[i].branch = b /\ filed[i].ref = ref
                          /\ filed[i].status \in ActiveStatuses}
First(S) == CHOOSE i \in S : \A j \in S : i <= j

(* A forecast of an active recommendation changes what it says, not what was *)
(* decided of it.                                                            *)
RefreshedAnew(old, forecast) ==      \* mutant: the status of a new one
    [old EXCEPT !.severity = forecast.severity, !.status = "OPEN"]
Refreshed(old, forecast) == [old EXCEPT !.severity = forecast.severity]
New(b, forecast) == [branch |-> b, ref |-> forecast.ref, severity |-> forecast.severity,
                     status |-> "OPEN", acknowledgedBy |-> Nobody, executedBy |-> Nobody]

UpsertDerivedAction(filed, b, forecast) ==
    LET found == ActiveOf(filed, b, forecast.ref)
    IN  IF found # {} THEN [filed EXCEPT ![First(found)] = Refreshed(@, forecast)]
        ELSE Append(filed, New(b, forecast))

(* Forecasts without a risk or a decline file nothing. *)
DeriveActions(filed, b, sla, trend) ==
    LET Derived(before, found) == IF found = {} THEN before
                                  ELSE UpsertDerivedAction(before, b, CHOOSE f \in found : TRUE)
    IN  Derived(Derived(filed, sla), trend)

AtMostOne(S) == {{}} \cup {{f} : f \in S}

(* The trend of a branch the tenant does not have is refused, after the       *)
(* recommendation of the other forecast was filed.                            *)
List(s, asked) ==
    /\ MayAsk(s, asked)
    /\ \E sla \in AtMostOne(SlaForecasts), trend \in AtMostOne(TrendForecasts) :
          /\ asked \notin Branches \cup {Anywhere} => trend = {}
          /\ actions' = DeriveActions(actions, BranchFor(s, asked), sla, trend)
    /\ Len(actions') <= MaxActions
    /\ decisions' = [i \in DOMAIN actions' |-> IF i \in DOMAIN decisions THEN decisions[i] ELSE "OPEN"]
    /\ UNCHANGED closed

Act(s, i, decision) ==
    /\ s.role \in Managers
    /\ s.role = "APPLICATION_OWNER" \/ actions[i].branch = s.branch
    /\ actions' = [actions EXCEPT
           ![i].status = Decided[decision],
           ![i].acknowledgedBy = IF decision = "ACKNOWLEDGE" THEN s.user ELSE @,
           ![i].executedBy = IF decision = "EXECUTE" THEN s.user ELSE @]
    /\ decisions' = [decisions EXCEPT ![i] = Decided[decision]]
    /\ closed' = closed \cup (IF decision = "ACKNOWLEDGE" THEN {} ELSE {i})

Next == \E s \in Readers :
            \/ \E asked \in Asked : List(s, asked)
            \/ \E i \in DOMAIN actions, decision \in DOMAIN Decided : Act(s, i, decision)

Spec == Init /\ [][Next]_vars

TypeOK ==
    /\ actions \in Seq(PredictiveActionRecord)
    /\ decisions \in Seq(Statuses) /\ Len(decisions) = Len(actions)
    /\ closed \subseteq DOMAIN actions

-----------------------------------------------------------------------------
(* upsertDerivedAction writes over a recommendation on every refresh, with a  *)
(* record that has a status and names of its own: what was decided stands,    *)
(* with the name of who decided it.                                           *)
DecisionsStand ==
    \A i \in DOMAIN actions :
        /\ actions[i].status = decisions[i]
        /\ decisions[i] = "ACKNOWLEDGED" => actions[i].acknowledgedBy # Nobody
        /\ decisions[i] = "EXECUTED" => actions[i].executedBy # Nobody

(* "Predictive action derivation remains idempotent by source reference"      *)
(* (docs/TC_traceability_matrix.md:329), although act has no guard on what was decided   *)
(* before: a branch has two active recommendations from one source only after *)
(* one that was closed was acknowledged again.                                *)
TwiceOnlyReopened ==
    \A i, j \in DOMAIN actions :
        /\ i # j
        /\ actions[i].branch = actions[j].branch /\ actions[i].ref = actions[j].ref
        /\ {actions[i].status, actions[j].status} \subseteq ActiveStatuses
        => {i, j} \cap closed # {}
=============================================================================
