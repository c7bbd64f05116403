----------------------- MODULE PredictiveActions_proofs ------------------------
(***************************************************************************)
(* Theorems about PredictiveActions, for any readers, branches, forecasts  *)
(* and number of recommendations.                                          *)
(*                                                                         *)
(* A refresh writes over records and appends to the list twice in a row.   *)
(* What both do is said by Extends, which is transitive: nothing decided   *)
(* is touched, and what is appended has no active record beside it.        *)
(***************************************************************************)
EXTENDS PredictiveActions, SequenceTheorems, TLAPS

Alike(a, b) == /\ a.branch = b.branch /\ a.ref = b.ref /\ a.status = b.status
               /\ a.acknowledgedBy = b.acknowledgedBy /\ a.executedBy = b.executedBy

(* Active records i and j of a list are from one source. *)
Twins(list, i, j) ==
    /\ i # j
    /\ list[i].branch = list[j].branch /\ list[i].ref = list[j].ref
    /\ {list[i].status, list[j].status} \subseteq ActiveStatuses

Extends(old, new) ==
    /\ new \in Seq(PredictiveActionRecord) /\ Len(old) <= Len(new)
    /\ \A i \in 1 .. Len(old) : Alike(new[i], old[i])
    /\ \A i \in 1 .. Len(new) : i > Len(old) => new[i].status = "OPEN"
    /\ \A i, j \in 1 .. Len(new) :
          Twins(new, i, j) => i <= Len(old) /\ j <= Len(old) /\ Twins(old, i, j)

LEMMA ExtendsItself ==
    ASSUME NEW list \in Seq(PredictiveActionRecord)
    PROVE  Extends(list, list)
  BY DEF Extends, Alike

LEMMA ExtendsTransitive ==
    ASSUME NEW a \in Seq(PredictiveActionRecord), NEW b \in Seq(PredictiveActionRecord),
           NEW c \in Seq(PredictiveActionRecord), Extends(a, b), Extends(b, c)
    PROVE  Extends(a, c)
<1>1. Len(a) \in Nat /\ Len(b) \in Nat /\ Len(c) \in Nat
  OBVIOUS
<1>2. Len(a) <= Len(b) /\ Len(b) <= Len(c)
  BY DEF Extends
<1>3. \A i \in 1 .. Len(a) : Alike(c[i], a[i])
  BY <1>1, <1>2 DEF Extends, Alike
<1>4. ASSUME NEW i \in 1 .. Len(c), i > Len(a)
      PROVE  c[i].status = "OPEN"
  <2>1. CASE i > Len(b)
    BY <2>1 DEF Extends
  <2>2. CASE i <= Len(b)
    BY <1>1, <1>4, <2>2 DEF Extends, Alike
  <2> QED
    BY <1>1, <2>1, <2>2
<1>5. ASSUME NEW i \in 1 .. Len(c), NEW j \in 1 .. Len(c), Twins(c, i, j)
      PROVE  i <= Len(a) /\ j <= Len(a) /\ Twins(a, i, j)
  <2>1. i <= Len(b) /\ j <= Len(b) /\ Twins(b, i, j)
    BY <1>5 DEF Extends
  <2>2. i \in 1 .. Len(b) /\ j \in 1 .. Len(b)
    BY <1>1, <2>1
  <2> QED
    BY <2>1, <2>2 DEF Extends
<1> QED
  BY <1>1, <1>2, <1>3, <1>4, <1>5 DEF Extends

LEMMA UpsertExtends ==
    ASSUME NEW filed \in Seq(PredictiveActionRecord), NEW f \in Forecasts,
           NEW b \in Asked \cup {s.branch : s \in Readers}
    PROVE  /\ UpsertDerivedAction(filed, b, f) \in Seq(PredictiveActionRecord)
           /\ Extends(filed, UpsertDerivedAction(filed, b, f))
<1> DEFINE found == ActiveOf(filed, b, f.ref)
           new == UpsertDerivedAction(filed, b, f)
<1>1. CASE found # {}
  <2> DEFINE k == First(found)
  <2>1. new = [filed EXCEPT ![k] = Refreshed(filed[k], f)]
    BY <1>1 DEF UpsertDerivedAction
  <2> HIDE DEF k
  <2>2. \A i \in 1 .. Len(filed) : filed[i] \in PredictiveActionRecord
    OBVIOUS
  <2>3. \A i \in 1 .. Len(filed) : Refreshed(filed[i], f) \in PredictiveActionRecord
                                 /\ Alike(Refreshed(filed[i], f), filed[i])
    BY <2>2 DEF Refreshed, PredictiveActionRecord, Alike
  <2>4. new \in Seq(PredictiveActionRecord) /\ Len(new) = Len(filed)
    <3>1. CASE k \in 1 .. Len(filed)
      BY <2>1, <2>3, <3>1, ExceptSeq
    <3>2. CASE k \notin 1 .. Len(filed)
      <4>1. new = filed
        BY <2>1, <3>2
      <4> QED
        BY <4>1
    <3> QED
      BY <3>1, <3>2
  <2>5. \A i \in 1 .. Len(filed) : new[i] = filed[i] \/ new[i] = Refreshed(filed[i], f)
    BY <2>1
  <2>6. \A i \in 1 .. Len(filed) : Alike(new[i], filed[i])
    BY <2>3, <2>5 DEF Alike
  <2> HIDE DEF new
  <2>7. \A i, j \in 1 .. Len(new) : Twins(new, i, j) => Twins(filed, i, j)
    BY <2>4, <2>6 DEF Twins, Alike
  <2>8. Extends(filed, new)
    BY <2>4, <2>6, <2>7 DEF Extends
  <2> QED
    BY <2>4, <2>8 DEF new
<1>2. CASE found = {}
  <2>1. new = Append(filed, New(b, f))
    BY <1>2 DEF UpsertDerivedAction
  <2>2. New(b, f) \in PredictiveActionRecord /\ New(b, f).status = "OPEN"
        /\ New(b, f).branch = b /\ New(b, f).ref = f.ref
    BY DEF New, PredictiveActionRecord, Statuses, ActiveStatuses
  <2>3. /\ new \in Seq(PredictiveActionRecord) /\ Len(new) = Len(filed) + 1
        /\ \A i \in 1 .. Len(filed) : new[i] = filed[i]
        /\ new[Len(filed) + 1] = New(b, f)
    BY <2>1, <2>2
  <2>4. \A i \in 1 .. Len(filed) :
            ~(/\ filed[i].branch = b /\ filed[i].ref = f.ref /\ filed[i].status \in ActiveStatuses)
    BY <1>2 DEF ActiveOf
  <2> HIDE DEF new
  <2>5. ASSUME NEW i \in 1 .. Len(new), NEW j \in 1 .. Len(new), Twins(new, i, j)
        PROVE  i <= Len(filed) /\ j <= Len(filed) /\ Twins(filed, i, j)
    <3>1. CASE i = Len(filed) + 1
      <4>1. j \in 1 .. Len(filed)
        BY <2>3, <2>5, <3>1 DEF Twins
      <4> QED
        BY <2>2, <2>3, <2>4, <2>5, <3>1, <4>1 DEF Twins
    <3>2. CASE j = Len(filed) + 1
      <4>1. i \in 1 .. Len(filed)
        BY <2>3, <2>5, <3>2 DEF Twins
      <4> QED
        BY <2>2, <2>3, <2>4, <2>5, <3>2, <4>1 DEF Twins
    <3>3. CASE i <= Len(filed) /\ j <= Len(filed)
      BY <2>3, <2>5, <3>3 DEF Twins
    <3> QED
      BY <2>3, <3>1, <3>2, <3>3
  <2>6. Extends(filed, new)
    BY <2>2, <2>3, <2>5 DEF Extends, Alike
  <2> QED
    BY <2>3, <2>6 DEF new
<1> QED
  BY <1>1, <1>2

LEMMA DeriveExtends ==
    ASSUME NEW filed \in Seq(PredictiveActionRecord),
           NEW b \in Asked \cup {s.branch : s \in Readers},
           NEW sla \in AtMostOne(SlaForecasts), NEW trend \in AtMostOne(TrendForecasts)
    PROVE  Extends(filed, DeriveActions(filed, b, sla, trend))
<1> DEFINE Derived(before, found) == IF found = {} THEN before
                                     ELSE UpsertDerivedAction(before, b, CHOOSE f \in found : TRUE)
<1>1. ASSUME NEW before \in Seq(PredictiveActionRecord), NEW found \in AtMostOne(Forecasts)
      PROVE  Derived(before, found) \in Seq(PredictiveActionRecord) /\ Extends(before, Derived(before, found))
  <2>1. CASE found = {}
    BY <2>1, ExtendsItself
  <2>2. CASE found # {}
    <3>1. (CHOOSE f \in found : TRUE) \in Forecasts
      BY <2>2 DEF AtMostOne
    <3> QED
      BY <2>2, <3>1, UpsertExtends
  <2> QED
    BY <2>1, <2>2
<1>2. sla \in AtMostOne(Forecasts) /\ trend \in AtMostOne(Forecasts)
  BY DEF AtMostOne, Forecasts
<1> HIDE DEF Derived
<1>3. Derived(filed, sla) \in Seq(PredictiveActionRecord) /\ Extends(filed, Derived(filed, sla))
  BY <1>1, <1>2
<1>4. /\ Derived(Derived(filed, sla), trend) \in Seq(PredictiveActionRecord)
      /\ Extends(Derived(filed, sla), Derived(Derived(filed, sla), trend))
  BY <1>1, <1>2, <1>3
<1>5. DeriveActions(filed, b, sla, trend) = Derived(Derived(filed, sla), trend)
  BY DEF DeriveActions, Derived
<1> QED
  BY <1>3, <1>4, <1>5, ExtendsTransitive

(* What was closed is in "closed", so that what becomes active again is.      *)
ClosedAreKnown == \A i \in DOMAIN actions : actions[i].status \notin ActiveStatuses => i \in closed
IInv == TypeOK /\ DecisionsStand /\ TwiceOnlyReopened /\ ClosedAreKnown

LEMMA ListKeeps ==
    ASSUME IInv, NEW s \in Readers, NEW asked \in Asked, List(s, asked)
    PROVE  IInv'
<1>1. /\ Extends(actions, actions') /\ closed' = closed
      /\ decisions' = [i \in DOMAIN actions' |-> IF i \in DOMAIN decisions THEN decisions[i] ELSE "OPEN"]
  <2>1. BranchFor(s, asked) \in Asked \cup {r.branch : r \in Readers}
    BY DEF BranchFor
  <2> QED
    BY <2>1, DeriveExtends DEF List, IInv, TypeOK
<1>2. /\ actions \in Seq(PredictiveActionRecord) /\ actions' \in Seq(PredictiveActionRecord)
      /\ decisions \in Seq(Statuses) /\ Len(decisions) = Len(actions) /\ Len(actions) <= Len(actions')
      /\ DOMAIN decisions = 1 .. Len(actions) /\ DOMAIN actions = 1 .. Len(actions)
      /\ DOMAIN actions' = 1 .. Len(actions') /\ Len(actions) \in Nat /\ Len(actions') \in Nat
  BY <1>1 DEF IInv, TypeOK, Extends
<1>3. \A i \in DOMAIN actions' : decisions'[i] \in Statuses
  BY <1>1, <1>2 DEF Statuses, ActiveStatuses
<1>4. TypeOK'
  <2>1. decisions' \in Seq(Statuses) /\ Len(decisions') = Len(actions')
    BY <1>1, <1>2, <1>3
  <2> QED
    BY <1>1, <1>2, <2>1 DEF IInv, TypeOK
<1>5. \A i \in DOMAIN actions' :
          \/ i \in DOMAIN actions /\ decisions'[i] = decisions[i] /\ Alike(actions'[i], actions[i])
          \/ i > Len(actions) /\ decisions'[i] = "OPEN" /\ actions'[i].status = "OPEN"
  BY <1>1, <1>2 DEF Extends
<1>6. DecisionsStand'
  BY <1>5 DEF IInv, DecisionsStand, Alike
<1>7. ClosedAreKnown'
  BY <1>1, <1>5 DEF IInv, ClosedAreKnown, Alike, ActiveStatuses
<1>8. TwiceOnlyReopened'
  <2> SUFFICES ASSUME NEW i \in DOMAIN actions', NEW j \in DOMAIN actions', Twins(actions', i, j)
               PROVE  {i, j} \cap closed' # {}
    BY DEF TwiceOnlyReopened, Twins
  <2>1. i \in DOMAIN actions /\ j \in DOMAIN actions /\ Twins(actions, i, j)
    BY <1>1, <1>2 DEF Extends
  <2> QED
    BY <1>1, <2>1 DEF IInv, TwiceOnlyReopened, Twins
<1> QED
  BY <1>4, <1>6, <1>7, <1>8 DEF IInv

LEMMA ActKeeps ==
    ASSUME PredictiveAssumption, IInv, NEW s \in Readers, NEW k \in DOMAIN actions,
           NEW decision \in DOMAIN Decided, Act(s, k, decision)
    PROVE  IInv'
<1> DEFINE by == IF decision = "ACKNOWLEDGE" THEN s.user ELSE actions[k].acknowledgedBy
           ex == IF decision = "EXECUTE" THEN s.user ELSE actions[k].executedBy
           r == [actions[k] EXCEPT !.status = Decided[decision], !.acknowledgedBy = by,
                                   !.executedBy = ex]
<1>1. actions' = [actions EXCEPT ![k] = r]
  BY DEF Act
<1>2. /\ decisions' = [decisions EXCEPT ![k] = Decided[decision]]
      /\ closed' = closed \cup (IF decision = "ACKNOWLEDGE" THEN {} ELSE {k})
  BY DEF Act
<1>3. /\ actions \in Seq(PredictiveActionRecord) /\ decisions \in Seq(Statuses)
      /\ Len(decisions) = Len(actions) /\ closed \subseteq DOMAIN actions
      /\ k \in 1 .. Len(actions) /\ k \in 1 .. Len(decisions)
      /\ DOMAIN actions = 1 .. Len(actions) /\ actions[k] \in PredictiveActionRecord
  BY DEF IInv, TypeOK
<1>4. /\ Decided[decision] \in Statuses
      /\ Decided[decision] \in ActiveStatuses <=> decision = "ACKNOWLEDGE"
      /\ Decided[decision] = "ACKNOWLEDGED" <=> decision = "ACKNOWLEDGE"
      /\ Decided[decision] = "EXECUTED" <=> decision = "EXECUTE"
  BY DEF Decided, Statuses, ActiveStatuses
<1>5. s.user \in Users /\ s.user # Nobody
  BY DEF PredictiveAssumption, Users
<1>6. /\ r \in PredictiveActionRecord /\ r.branch = actions[k].branch /\ r.ref = actions[k].ref
      /\ r.status = Decided[decision] /\ r.acknowledgedBy = by /\ r.executedBy = ex
  BY <1>3, <1>4, <1>5 DEF PredictiveActionRecord
<1>7. decision = "ACKNOWLEDGE" => by # Nobody
  BY <1>5
<1>8. decision = "EXECUTE" => ex # Nobody
  BY <1>5
<1> HIDE DEF r, by, ex
<1>9. /\ actions' \in Seq(PredictiveActionRecord) /\ Len(actions') = Len(actions)
      /\ DOMAIN actions' = DOMAIN actions
      /\ actions'[k] = r /\ \A i \in DOMAIN actions : i # k => actions'[i] = actions[i]
  BY <1>1, <1>3, <1>6, ExceptSeq
<1>10. /\ decisions' \in Seq(Statuses) /\ Len(decisions') = Len(decisions)
       /\ decisions'[k] = Decided[decision]
       /\ \A i \in DOMAIN actions : i # k => decisions'[i] = decisions[i]
  BY <1>2, <1>3, <1>4, ExceptSeq
<1>11. TypeOK'
  BY <1>2, <1>3, <1>9, <1>10 DEF TypeOK
<1>12. DecisionsStand'
  BY <1>4, <1>6, <1>7, <1>8, <1>9, <1>10 DEF IInv, DecisionsStand
<1>13. ClosedAreKnown'
  BY <1>2, <1>4, <1>6, <1>9 DEF IInv, ClosedAreKnown
<1>14. TwiceOnlyReopened'
  <2> SUFFICES ASSUME NEW i \in DOMAIN actions, NEW j \in DOMAIN actions, Twins(actions', i, j)
               PROVE  {i, j} \cap closed' # {}
    BY <1>9 DEF TwiceOnlyReopened, Twins
  <2>1. closed \subseteq closed' /\ (decision # "ACKNOWLEDGE" => k \in closed')
    BY <1>2
  <2>2. CASE i # k /\ j # k
    BY <1>9, <2>1, <2>2 DEF IInv, TwiceOnlyReopened, Twins
  <2>3. CASE actions[k].status \notin ActiveStatuses /\ k \in {i, j}
    BY <2>1, <2>3 DEF IInv, ClosedAreKnown
  <2>4. CASE actions[k].status \in ActiveStatuses /\ k \in {i, j}
    <3>1. Twins(actions, i, j)
      BY <1>6, <1>9, <2>4 DEF Twins
    <3> QED
      BY <2>1, <3>1 DEF IInv, TwiceOnlyReopened, Twins
  <2> QED
    BY <2>2, <2>3, <2>4
<1> QED
  BY <1>11, <1>12, <1>13, <1>14 DEF IInv

LEMMA Invariant ==
    ASSUME PredictiveAssumption
    PROVE  Spec => []IInv
<1>1. Init => IInv
  BY DEF Init, IInv, TypeOK, DecisionsStand, TwiceOnlyReopened, ClosedAreKnown
<1>2. ASSUME IInv, [Next]_vars
      PROVE  IInv'
  <2>1. CASE UNCHANGED vars
    BY <1>2, <2>1 DEF vars, IInv, TypeOK, DecisionsStand, TwiceOnlyReopened, ClosedAreKnown
  <2>2. CASE Next
    BY <1>2, <2>2, ListKeeps, ActKeeps DEF Next
  <2> QED
    BY <1>2, <2>1, <2>2
<1> QED
  BY <1>1, <1>2, PTL DEF Spec

(* upsertDerivedAction and act: whatever forecasts a refresh finds, it leaves *)
(* what was decided of a recommendation, and by whom.                         *)
THEOREM RefreshesKeepDecisions ==
    ASSUME PredictiveAssumption
    PROVE  Spec => []DecisionsStand
<1>1. IInv => DecisionsStand
  BY DEF IInv
<1> QED
  BY <1>1, Invariant, PTL

(* upsertDerivedAction: a source has two active recommendations in a branch   *)
(* only after one that was closed was acknowledged again.                     *)
THEOREM OnePerSource ==
    ASSUME PredictiveAssumption
    PROVE  Spec => []TwiceOnlyReopened
<1>1. IInv => TwiceOnlyReopened
  BY DEF IInv
<1> QED
  BY <1>1, Invariant, PTL
=============================================================================
