-------------------------- MODULE Notifications_proofs --------------------------
(***************************************************************************)
(* Theorems about Notifications, for any branches, tenants, sessions,      *)
(* outcomes of the automation and number of notifications.                 *)
(*                                                                         *)
(* A key counts in its tenant and an event is of a branch.  That no event  *)
(* of one branch is lost in the notification of another rests on the form  *)
(* of the keys: the key of an event names its branch, so that whoever has  *)
(* a key has the branch.                                                   *)
(***************************************************************************)
EXTENDS Notifications, SequenceTheorems, FiniteSetTheorems, TLAPS

-----------------------------------------------------------------------------
(* Types *)

Users == {s.user : s \in Sessions}
Tenants == {TenantOf[b] : b \in Branches}
Whats == [stock : 0 .. MaxStock] \cup [loyalty : Deltas] \cup [conflict : Nat]
         \cup [enforcement : {"READ_ONLY", "BLOCK"}] \cup [risk : Modes, user : Users]
Keys == [branch : Branches, of : Whats] \cup [manual : Uuids]
Note == [tenant : Tenants, branch : Branches, key : Keys, roles : SUBSET Everyone,
         status : {"PENDING", "SENT", "FAILED"}, attempts : {0, 1}, readBy : SUBSET Users]
Box == [notes : Seq(Note), seen : SUBSET (Tenants \X Keys)]
Alerts == [branch : Branches, category : {"QUEUE", "CONFLICT", "RISK"},
           severity : {"WARN", "READ_ONLY", "BLOCK"}, acknowledged : BOOLEAN]

TypeOK ==
    /\ inbox \in Box
    /\ online \in [Branches -> BOOLEAN] /\ enabled \in BOOLEAN
    /\ stock \in [Branches -> 0 .. MaxStock] /\ raised \in [Branches -> Nat]
    /\ alerts \subseteq Alerts
    /\ happened \subseteq Branches \X Whats

(* What an update of a notification keeps: where it is filed, and that it    *)
(* was sent.                                                                 *)
SentOnceIf(n) == n.status = "SENT" <=> n.attempts = 1
Keeps(old, new) ==
    /\ new.tenant = old.tenant /\ new.branch = old.branch /\ new.key = old.key
    /\ old.status = "SENT" => new.status = "SENT"
    /\ SentOnceIf(new)

(* What was filed under a key is in the tenant of its branch and is the only *)
(* one, the keys that were seen are those of notifications, and the key of   *)
(* an event is filed for the branch it names.                                *)
Placed(seen, n) ==
    /\ n.tenant = TenantOf[n.branch]
    /\ <<n.tenant, n.key>> \in seen
    /\ "branch" \in DOMAIN n.key => n.key.branch = n.branch
    /\ SentOnceIf(n)
Sound(box) ==
    /\ \A i \in DOMAIN box.notes : Placed(box.seen, box.notes[i])
    /\ \A i, j \in DOMAIN box.notes :
          /\ box.notes[i].tenant = box.notes[j].tenant
          /\ box.notes[i].key = box.notes[j].key
          => i = j
    /\ \A x \in box.seen : \E i \in DOMAIN box.notes :
          x = <<box.notes[i].tenant, box.notes[i].key>>

AllSeen == \A e \in happened : <<TenantOf[e[1]], Key(e[1], e[2])>> \in inbox.seen

IInv == TypeOK /\ Sound(inbox) /\ AllSeen

(* Nothing is lost from a box, and what was sent in it stays sent. *)
Grows(old, new) ==
    /\ new \in Box /\ Sound(new) /\ old.seen \subseteq new.seen
    /\ \A i \in DOMAIN old.notes : i \in DOMAIN new.notes /\ Keeps(old.notes[i], new.notes[i])

-----------------------------------------------------------------------------
(* What is filed, and what is updated *)

LEMMA BoxShape ==
    ASSUME NEW box \in Box
    PROVE  /\ box.notes \in Seq(Note) /\ box.seen \subseteq Tenants \X Keys
           /\ Len(box.notes) \in Nat /\ DOMAIN box.notes = 1 .. Len(box.notes)
           /\ \A i \in DOMAIN box.notes : box.notes[i] \in Note
<1>1. box.notes \in Seq(Note) /\ box.seen \subseteq Tenants \X Keys
  BY DEF Box
<1> QED
  BY <1>1

LEMMA GrowsItself ==
    ASSUME NEW box \in Box, Sound(box)
    PROVE  Grows(box, box)
  BY DEF Grows, Keeps, Sound, Placed

LEMMA GrowsTransitive ==
    ASSUME NEW a, NEW b, NEW c, Grows(a, b), Grows(b, c)
    PROVE  Grows(a, c)
  BY DEF Grows, Keeps

(* One attempt at what was not sent *)
LEMMA Attempted ==
    ASSUME NEW n \in Note, n.attempts = 0, n.status # "SENT"
    PROVE  /\ Delivered(n) \in Note /\ Keeps(n, Delivered(n))
           /\ Failed(n) \in Note /\ Keeps(n, Failed(n))
<1>1. Failed(n) \in Note /\ Keeps(n, Failed(n))
  BY DEF Failed, Note, Keeps, SentOnceIf
<1> DEFINE m == [n EXCEPT !.attempts = 1]
           sent == [m EXCEPT !.status = "SENT"]
<1>2. Delivered(n) = sent
  <2>1. 0 + 1 = 1
    OBVIOUS
  <2> QED
    BY <2>1 DEF Delivered
<1>3. /\ m \in Note /\ m.attempts = 1
      /\ m.tenant = n.tenant /\ m.branch = n.branch /\ m.key = n.key
  BY DEF Note
<1> HIDE DEF m
<1>4. /\ sent \in Note /\ sent.attempts = 1 /\ sent.status = "SENT"
      /\ sent.tenant = n.tenant /\ sent.branch = n.branch /\ sent.key = n.key
  BY <1>3 DEF Note
<1> QED
  BY <1>1, <1>2, <1>4 DEF Keeps, SentOnceIf

(* Filing under a key that fits its branch *)
LEMMA FiledGrows ==
    ASSUME NEW box \in Box, Sound(box), NEW b \in Branches, NEW key \in Keys,
           "branch" \in DOMAIN key => key.branch = b,
           NEW roles \in SUBSET Everyone, NEW forceQueue
    PROVE  /\ Grows(box, Filed(box, b, key, roles, forceQueue))
           /\ <<TenantOf[b], key>> \in Filed(box, b, key, roles, forceQueue).seen
<1> DEFINE t == TenantOf[b]
           new == [tenant |-> t, branch |-> b, key |-> key, roles |-> roles,
                   status |-> "PENDING", attempts |-> 0, readBy |-> {}]
           note == IF ~forceQueue /\ online[b] /\ enabled THEN Delivered(new)
                   ELSE IF ~enabled THEN Failed(new) ELSE new
           known == \/ \E i \in DOMAIN box.notes : box.notes[i].tenant = t /\ Same(box.notes[i], b, key)
                    \/ <<t, key>> \in box.seen
           result == Filed(box, b, key, roles, forceQueue)
<1>1. result = IF known THEN box
               ELSE [notes |-> Append(box.notes, note), seen |-> box.seen \cup {<<t, key>>}]
  BY DEF Filed
<1>2. CASE known
  <2>1. <<t, key>> \in box.seen
    BY <1>2 DEF Sound, Placed, Same
  <2> QED
    BY <1>1, <1>2, <2>1, GrowsItself
<1>3. CASE ~known
  <2>1. /\ note \in Note /\ note.tenant = t /\ note.branch = b /\ note.key = key
        /\ SentOnceIf(note)
    <3>1. /\ new \in Note /\ new.attempts = 0 /\ new.status # "SENT"
          /\ new.tenant = t /\ new.branch = b /\ new.key = key
      BY DEF Note, Tenants
    <3> HIDE DEF new
    <3>2. /\ Delivered(new) \in Note /\ Keeps(new, Delivered(new))
          /\ Failed(new) \in Note /\ Keeps(new, Failed(new))
          /\ Keeps(new, new)
      BY <3>1, Attempted DEF Keeps, SentOnceIf
    <3>3. note \in {new, Delivered(new), Failed(new)}
      OBVIOUS
    <3> HIDE DEF note
    <3> QED
      BY <3>1, <3>2, <3>3 DEF Keeps
  <2>2. /\ result.notes = Append(box.notes, note)
        /\ result.seen = box.seen \cup {<<t, key>>}
        /\ result = [notes |-> Append(box.notes, note), seen |-> box.seen \cup {<<t, key>>}]
    BY <1>1, <1>3
  <2>3. <<t, key>> \notin box.seen
    BY <1>3
  <2> HIDE DEF note, result, known
  <2>4. /\ result.notes \in Seq(Note)
        /\ DOMAIN box.notes = 1 .. Len(box.notes) /\ Len(box.notes) \in Nat
        /\ DOMAIN result.notes = 1 .. Len(box.notes) + 1
        /\ \A i \in DOMAIN box.notes : i \in DOMAIN result.notes /\ result.notes[i] = box.notes[i]
        /\ result.notes[Len(box.notes) + 1] = note
    BY <2>1, <2>2, BoxShape
  <2>5. result \in Box
    <3>1. <<t, key>> \in Tenants \X Keys
      BY DEF Tenants
    <3>2. box.seen \cup {<<t, key>>} \in SUBSET (Tenants \X Keys)
      BY <3>1, BoxShape
    <3> QED
      BY <2>2, <2>4, <3>2 DEF Box
  <2>6. \A i \in DOMAIN result.notes : i \in DOMAIN box.notes \/ i = Len(box.notes) + 1
    BY <2>4
  <2>7. \A i \in DOMAIN result.notes : Placed(result.seen, result.notes[i])
    <3>1. \A i \in DOMAIN box.notes : Placed(result.seen, result.notes[i])
      BY <2>2, <2>4 DEF Sound, Placed
    <3>2. Placed(result.seen, note)
      BY <2>1, <2>2 DEF Placed
    <3> QED
      BY <2>4, <2>6, <3>1, <3>2
  <2>8. ASSUME NEW i \in DOMAIN result.notes, NEW j \in DOMAIN result.notes,
               result.notes[i].tenant = result.notes[j].tenant,
               result.notes[i].key = result.notes[j].key
        PROVE  i = j
    <3>1. \A k \in DOMAIN box.notes :
             ~(box.notes[k].tenant = t /\ box.notes[k].key = key)
      BY <2>3 DEF Sound, Placed
    <3>2. CASE i \in DOMAIN box.notes /\ j \in DOMAIN box.notes
      BY <2>4, <2>8, <3>2 DEF Sound
    <3>3. CASE i = Len(box.notes) + 1 /\ j \in DOMAIN box.notes
      BY <2>1, <2>4, <2>8, <3>1, <3>3
    <3>4. CASE j = Len(box.notes) + 1 /\ i \in DOMAIN box.notes
      BY <2>1, <2>4, <2>8, <3>1, <3>4
    <3> QED
      BY <2>6, <3>2, <3>3, <3>4
  <2>9. ASSUME NEW x \in result.seen
        PROVE  \E i \in DOMAIN result.notes : x = <<result.notes[i].tenant, result.notes[i].key>>
    <3>1. CASE x \in box.seen
      BY <2>4, <3>1 DEF Sound
    <3>2. CASE x = <<t, key>>
      <4>1. Len(box.notes) + 1 \in DOMAIN result.notes
        BY <2>4
      <4> QED
        BY <2>1, <2>4, <3>2, <4>1
    <3> QED
      BY <2>2, <3>1, <3>2
  <2>10. Sound(result)
    BY <2>7, <2>8, <2>9 DEF Sound
  <2>11. \A i \in DOMAIN box.notes : Keeps(box.notes[i], result.notes[i])
    BY <2>4 DEF Keeps, Sound, Placed
  <2>12. Grows(box, result) /\ <<t, key>> \in result.seen
    BY <2>2, <2>4, <2>5, <2>10, <2>11 DEF Grows
  <2> QED
    BY <2>12 DEF result
<1> QED
  BY <1>2, <1>3

(* An event's key fits the branch of the event. *)
LEMMA HeardGrows ==
    ASSUME NEW box \in Box, Sound(box), NEW b \in Branches, NEW what \in Whats
    PROVE  /\ Grows(box, Heard(box, b, what))
           /\ <<TenantOf[b], Key(b, what)>> \in Heard(box, b, what).seen
<1>1. Key(b, what) \in Keys /\ Key(b, what).branch = b
  BY DEF Key, Keys
<1> DEFINE roles == CASE "loyalty" \in DOMAIN what -> {"TENANT_OWNER", "MANAGER", "CASHIER"}
                      [] OTHER -> Everyone \ {"APPLICATION_OWNER"}
<1>2. roles \in SUBSET Everyone
  BY DEF Everyone
<1>3. Heard(box, b, what) = Filed(box, b, Key(b, what), roles, FALSE)
  BY DEF Heard
<1> HIDE DEF roles
<1> QED
  BY <1>1, <1>2, <1>3, FiledGrows

(* Updating notifications in their places *)
LEMMA UpdateGrows ==
    ASSUME NEW box \in Box, Sound(box), NEW notes \in Seq(Note), Len(notes) = Len(box.notes),
           \A i \in DOMAIN box.notes : Keeps(box.notes[i], notes[i])
    PROVE  Grows(box, [box EXCEPT !.notes = notes])
<1> DEFINE result == [box EXCEPT !.notes = notes]
<1>1. result \in Box /\ result.notes = notes /\ result.seen = box.seen
  BY DEF Box
<1> HIDE DEF result
<1>2. DOMAIN notes = DOMAIN box.notes
  BY BoxShape
<1>3. \A i \in DOMAIN notes : Placed(box.seen, notes[i])
  BY <1>2 DEF Sound, Placed, Keeps
<1>4. \A i, j \in DOMAIN notes :
         notes[i].tenant = notes[j].tenant /\ notes[i].key = notes[j].key => i = j
  BY <1>2 DEF Sound, Keeps
<1>5. \A x \in box.seen : \E i \in DOMAIN notes : x = <<notes[i].tenant, notes[i].key>>
  BY <1>2 DEF Sound, Keeps
<1>6. Sound(result)
  BY <1>1, <1>3, <1>4, <1>5 DEF Sound
<1>7. Grows(box, result)
  BY <1>1, <1>2, <1>6 DEF Grows
<1> QED
  BY <1>7 DEF result

-----------------------------------------------------------------------------
(* Steps *)

(* What a step must do to the inbox and to the events. *)
Filing == /\ Grows(inbox, inbox')
          /\ happened' \subseteq Branches \X Whats
          /\ AllSeen'

LEMMA QuietFiling ==
    ASSUME IInv, Grows(inbox, inbox'), happened' = happened
    PROVE  Filing
  BY DEF IInv, TypeOK, AllSeen, Grows, Filing

LEMMA EmitFiles ==
    ASSUME IInv, NEW b \in Branches, NEW what \in Whats, Emit(b, what)
    PROVE  Filing
<1>1. /\ Grows(inbox, inbox') /\ <<TenantOf[b], Key(b, what)>> \in inbox'.seen
      /\ happened' = happened \cup {<<b, what>>}
  BY HeardGrows DEF Emit, IInv, TypeOK
<1>2. AllSeen'
  <2> SUFFICES ASSUME NEW e \in happened'
               PROVE  <<TenantOf[e[1]], Key(e[1], e[2])>> \in inbox'.seen
    BY DEF AllSeen, Key
  <2>1. CASE e \in happened
    BY <1>1, <2>1 DEF IInv, AllSeen, Grows
  <2>2. CASE e = <<b, what>>
    BY <1>1, <2>2
  <2> QED
    BY <1>1, <2>1, <2>2
<1> QED
  BY <1>1, <1>2 DEF Filing, IInv, TypeOK

(* The automation files up to two notifications, of a conflict and of an     *)
(* enforcement.                                                              *)
LEMMA AutomationFiles ==
    ASSUME NotificationsAssumption, IInv, NEW s \in Sessions, NEW x, RunAutomation(s, x)
    PROVE  /\ Filing
           /\ raised' \in [Branches -> Nat] /\ alerts' \subseteq Alerts
<1> DEFINE b == s.branch
           conflict == Conflict(raised[b] + 1)
           enforcement == Enforcement(Severity(x))
           found == IF x.found THEN {conflict} ELSE {}
           imposed == IF Severity(x) = "WARN" THEN {} ELSE {enforcement}
           synced == IF x.found THEN Heard(inbox, b, conflict) ELSE inbox
<1>1. b \in Branches /\ Severity(x) \in {"WARN", "READ_ONLY", "BLOCK"}
  BY DEF NotificationsAssumption, Severity
<1>2. /\ raised' = [raised EXCEPT ![b] = @ + Cardinality(found)]
      /\ alerts' = alerts \cup Raised(b, x)
      /\ inbox' = IF imposed = {} THEN synced ELSE Heard(synced, b, enforcement)
      /\ happened' = happened \cup ({b} \X (found \cup imposed))
  BY DEF RunAutomation
<1>3. Cardinality(found) \in Nat
  <2>1. Cardinality({}) = 0 /\ Cardinality({conflict}) = 1
    BY FS_EmptySet, FS_Singleton
  <2> QED
    BY <2>1
<1>4. raised' \in [Branches -> Nat]
  <2> HIDE DEF found
  <2> QED
    BY <1>1, <1>2, <1>3 DEF IInv, TypeOK
<1>5. alerts' \subseteq Alerts
  <2> DEFINE Alert(category, severity) == [branch |-> b, category |-> category,
                                            severity |-> severity, acknowledged |-> FALSE]
  <2>1. Raised(b, x) \subseteq Alerts
    <3>1. /\ Alert("QUEUE", Severity(x)) \in Alerts /\ Alert("CONFLICT", "READ_ONLY") \in Alerts
          /\ Alert("RISK", Severity(x)) \in Alerts
      BY <1>1 DEF Alerts
    <3>2. Raised(b, x) \subseteq {Alert("QUEUE", Severity(x)), Alert("CONFLICT", "READ_ONLY"),
                                  Alert("RISK", Severity(x))}
      BY DEF Raised
    <3> QED
      BY <3>1, <3>2
  <2> QED
    BY <1>2, <2>1 DEF IInv, TypeOK
<1>6. conflict \in Whats
  BY <1>1 DEF Conflict, Whats, IInv, TypeOK
<1>7. Severity(x) # "WARN" => enforcement \in Whats
  BY <1>1 DEF Enforcement, Whats
<1> HIDE DEF conflict, enforcement, b
<1>8. /\ Grows(inbox, synced)
      /\ \A what \in found : <<TenantOf[b], Key(b, what)>> \in synced.seen
  <2>1. CASE x.found
    BY <1>1, <1>6, <2>1, HeardGrows DEF IInv, TypeOK
  <2>2. CASE ~x.found
    BY <2>2, GrowsItself DEF IInv, TypeOK
  <2> QED
    BY <2>1, <2>2
<1>9. synced \in Box /\ Sound(synced)
  BY <1>8 DEF Grows
<1> HIDE DEF synced, found
<1>10. /\ Grows(synced, inbox')
       /\ \A what \in imposed : <<TenantOf[b], Key(b, what)>> \in inbox'.seen
  <2>1. CASE Severity(x) = "WARN"
    BY <1>2, <1>9, <2>1, GrowsItself
  <2>2. CASE Severity(x) # "WARN"
    BY <1>1, <1>2, <1>7, <1>9, <2>2, HeardGrows
  <2> QED
    BY <2>1, <2>2
<1>11. Grows(inbox, inbox')
  BY <1>8, <1>10, GrowsTransitive
<1>12. \A what \in found \cup imposed :
          what \in Whats /\ <<TenantOf[b], Key(b, what)>> \in inbox'.seen
  BY <1>6, <1>7, <1>8, <1>10 DEF Grows, found
<1> HIDE DEF imposed
<1>13. happened' \subseteq Branches \X Whats
  BY <1>1, <1>2, <1>12 DEF IInv, TypeOK
<1>14. AllSeen'
  <2> SUFFICES ASSUME NEW e \in happened'
               PROVE  <<TenantOf[e[1]], Key(e[1], e[2])>> \in inbox'.seen
    BY DEF AllSeen, Key
  <2>1. CASE e \in happened
    BY <1>11, <2>1 DEF IInv, AllSeen, Grows
  <2>2. CASE e \in {b} \X (found \cup imposed)
    BY <1>12, <2>2
  <2> QED
    BY <1>2, <2>1, <2>2
<1> QED
  BY <1>4, <1>5, <1>11, <1>13, <1>14 DEF Filing

(* A retry delivers what waits in the branch, or leaves it waiting. *)
LEMMA RetryFiles ==
    ASSUME IInv, NEW s \in Sessions, RetryPending(s)
    PROVE  Filing
<1> DEFINE old == inbox.notes
           new == [i \in DOMAIN old |-> IF old[i].branch = s.branch /\ Waiting(old[i])
                                        THEN Retried(old[i]) ELSE old[i]]
<1>1. inbox' = [inbox EXCEPT !.notes = new] /\ happened' = happened
  BY DEF RetryPending
<1>2. inbox \in Box /\ Sound(inbox)
  BY DEF IInv, TypeOK
<1>3. ASSUME NEW n \in Note, SentOnceIf(n), Waiting(n)
      PROVE  Retried(n) \in Note /\ Keeps(n, Retried(n))
  <2>1. n.attempts = 0 /\ n.status # "SENT"
    BY <1>3 DEF Waiting, SentOnceIf, Note
  <2>2. /\ [n EXCEPT !.status = "PENDING"] \in Note
        /\ Keeps(n, [n EXCEPT !.status = "PENDING"])
    BY <2>1 DEF Note, Keeps, SentOnceIf
  <2>3. /\ Delivered(n) \in Note /\ Keeps(n, Delivered(n))
        /\ Failed(n) \in Note /\ Keeps(n, Failed(n))
    BY <2>1, Attempted
  <2>4. Retried(n) \in {[n EXCEPT !.status = "PENDING"], Failed(n), Delivered(n)}
    BY DEF Retried
  <2> QED
    BY <2>2, <2>3, <2>4
<1>4. /\ old \in Seq(Note) /\ DOMAIN old = 1 .. Len(old) /\ Len(old) \in Nat
      /\ \A i \in DOMAIN old : old[i] \in Note /\ SentOnceIf(old[i])
  BY <1>2, BoxShape DEF Sound, Placed
<1> HIDE DEF old
<1>5. \A i \in DOMAIN old : new[i] \in Note /\ Keeps(old[i], new[i])
  BY <1>3, <1>4 DEF Keeps
<1>6. new \in Seq(Note) /\ Len(new) = Len(old)
  <2>1. DOMAIN new = 1 .. Len(old)
    BY <1>4
  <2> HIDE DEF new
  <2>2. new \in [1 .. Len(old) -> Note]
    <3>1. new = [i \in DOMAIN new |-> new[i]]
      BY DEF new
    <3> QED
      BY <1>4, <1>5, <2>1, <3>1
  <2> QED
    BY <1>4, <2>2
<1> HIDE DEF new
<1>7. Grows(inbox, [inbox EXCEPT !.notes = new])
  BY <1>2, <1>5, <1>6, UpdateGrows DEF old
<1> QED
  BY <1>1, <1>7, QuietFiling

(* Reading a notification leaves it where it is. *)
LEMMA ReadFiles ==
    ASSUME IInv, NEW s \in Sessions, NEW k \in DOMAIN inbox.notes, MarkRead(s, k)
    PROVE  Filing
<1> DEFINE old == inbox.notes
           read == [old[k] EXCEPT !.readBy = @ \cup {s.user}]
           new == [old EXCEPT ![k] = read]
<1>1. inbox' = [inbox EXCEPT !.notes = new] /\ happened' = happened
  BY DEF MarkRead
<1>2. inbox \in Box /\ Sound(inbox)
  BY DEF IInv, TypeOK
<1>3. /\ old \in Seq(Note) /\ DOMAIN old = 1 .. Len(old) /\ Len(old) \in Nat
      /\ \A i \in DOMAIN old : old[i] \in Note /\ SentOnceIf(old[i])
  BY <1>2, BoxShape DEF Sound, Placed
<1>4. read \in Note /\ Keeps(old[k], read)
  BY <1>3 DEF Note, Keeps, SentOnceIf, Users
<1> HIDE DEF read
<1>5. /\ new \in Seq(Note) /\ Len(new) = Len(old)
      /\ \A i \in DOMAIN old : Keeps(old[i], new[i])
  BY <1>3, <1>4, ExceptSeq DEF Keeps
<1>6. Grows(inbox, [inbox EXCEPT !.notes = new])
  BY <1>2, <1>5, UpdateGrows
<1> QED
  BY <1>1, <1>6, QuietFiling

-----------------------------------------------------------------------------
LEMMA StepKeeps ==
    ASSUME NotificationsAssumption
    PROVE  IInv /\ [Next]_vars => IInv' /\ Grows(inbox, inbox')
<1> SUFFICES ASSUME IInv, [Next]_vars PROVE IInv' /\ Grows(inbox, inbox')
  OBVIOUS
<1> DEFINE Rest == /\ online' \in [Branches -> BOOLEAN] /\ enabled' \in BOOLEAN
                   /\ stock' \in [Branches -> 0 .. MaxStock] /\ raised' \in [Branches -> Nat]
                   /\ alerts' \subseteq Alerts
<1>1. ASSUME Filing, Rest
      PROVE  IInv' /\ Grows(inbox, inbox')
  <2>1. Grows(inbox, inbox') /\ inbox' \in Box /\ Sound(inbox)'
    BY <1>1 DEF Filing, Grows
  <2>2. TypeOK'
    BY <1>1, <2>1 DEF Filing, TypeOK
  <2> QED
    BY <1>1, <2>1, <2>2 DEF Filing, IInv
<1>2. Grows(inbox, inbox)
  BY GrowsItself DEF IInv, TypeOK
<1>3. UNCHANGED <<inbox, happened>> => Filing
  BY <1>2, QuietFiling
<1>4. UNCHANGED <<online, enabled, stock, raised, alerts>> => Rest
  BY DEF IInv, TypeOK
<1>5. ASSUME NEW b \in Branches, NEW qty \in 0 .. MaxStock, StockChange(b, qty)
      PROVE  Filing /\ Rest
  <2>1. Stock(qty) \in Whats
    BY DEF Stock, Whats
  <2>2. Filing
    BY <1>3, <1>5, <2>1, EmitFiles DEF StockChange
  <2>3. Rest
    BY <1>5 DEF StockChange, IInv, TypeOK
  <2> QED
    BY <2>2, <2>3
<1>6. ASSUME NEW b \in Branches, NEW delta \in Deltas, PointsChange(b, delta)
      PROVE  Filing /\ Rest
  <2>1. Loyalty(delta) \in Whats
    BY DEF Loyalty, Whats
  <2> QED
    BY <1>4, <1>6, <2>1, EmitFiles DEF PointsChange
<1>7. ASSUME NEW b \in Branches, ConflictDetected(b)
      PROVE  Filing /\ Rest
  <2>1. raised' \in [Branches -> Nat] /\ raised'[b] \in Nat
    BY <1>7 DEF ConflictDetected, IInv, TypeOK
  <2>2. Conflict(raised'[b]) \in Whats
    BY <2>1 DEF Conflict, Whats
  <2>3. Filing
    BY <1>7, <2>2, EmitFiles DEF ConflictDetected
  <2>4. Rest
    BY <1>7, <2>1 DEF ConflictDetected, IInv, TypeOK
  <2> QED
    BY <2>3, <2>4
<1>8. ASSUME NEW s \in Sessions, NEW b \in Branches, NEW uuid \in Uuids, NEW forceQueue \in BOOLEAN,
             Trigger(s, b, uuid, forceQueue)
      PROVE  Filing /\ Rest
  <2>1. [manual |-> uuid] \in Keys /\ "branch" \notin DOMAIN [manual |-> uuid]
    BY DEF Keys
  <2>2. Everyone \in SUBSET Everyone
    OBVIOUS
  <2>3. Grows(inbox, inbox')
    BY <1>8, <2>1, <2>2, FiledGrows DEF Trigger, IInv, TypeOK
  <2>4. Filing
    BY <1>8, <2>3, QuietFiling DEF Trigger
  <2> QED
    BY <1>4, <1>8, <2>4 DEF Trigger
<1>9. ASSUME NEW s \in Sessions, NEW mode \in Modes, RiskMode(s, mode)
      PROVE  Filing /\ Rest
  <2>1. Risk(s, mode) \in Whats /\ s.branch \in Branches
    BY DEF Risk, Whats, Users, NotificationsAssumption
  <2> QED
    BY <1>4, <1>9, <2>1, EmitFiles DEF RiskMode
<1>10. ASSUME NEW s \in Sessions, NEW x \in Outcomes, RunAutomation(s, x)
       PROVE  Filing /\ Rest
  <2>1. UNCHANGED <<online, enabled, stock>>
    BY <1>10 DEF RunAutomation
  <2> QED
    BY <1>10, <2>1, AutomationFiles DEF IInv, TypeOK
<1>11. ASSUME NEW s \in Sessions, NEW a \in alerts, AcknowledgeAlert(s, a)
       PROVE  Filing /\ Rest
  <2>1. [a EXCEPT !.acknowledged = TRUE] \in Alerts
    BY DEF Alerts, IInv, TypeOK
  <2>2. alerts' \subseteq Alerts
    BY <1>11, <2>1 DEF AcknowledgeAlert, IInv, TypeOK
  <2> QED
    BY <1>3, <1>11, <2>2 DEF AcknowledgeAlert, IInv, TypeOK
<1>12. ASSUME NEW s \in Sessions, RetryPending(s)
       PROVE  Filing /\ Rest
  BY <1>4, <1>12, RetryFiles DEF RetryPending
<1>13. ASSUME NEW s \in Sessions, NEW b \in Branches, NEW on \in BOOLEAN, SetConnectivity(s, b, on)
       PROVE  Filing /\ Rest
  BY <1>3, <1>13 DEF SetConnectivity, IInv, TypeOK
<1>14. ASSUME NEW s \in Sessions, NEW i \in DOMAIN inbox.notes, MarkRead(s, i)
       PROVE  Filing /\ Rest
  BY <1>4, <1>14, ReadFiles DEF MarkRead
<1>15. ASSUME UNCHANGED vars
       PROVE  Filing /\ Rest
  BY <1>3, <1>4, <1>15 DEF vars
<1> HIDE DEF Rest
<1>16. Filing /\ Rest
  BY <1>5, <1>6, <1>7, <1>8, <1>9, <1>10, <1>11, <1>12, <1>13, <1>14, <1>3, <1>4, <1>15 DEF Next, vars
<1> QED
  BY <1>1, <1>16

LEMMA InitHolds == NotificationsAssumption /\ Init => IInv
<1> SUFFICES ASSUME NotificationsAssumption, Init PROVE IInv
  OBVIOUS
<1>1. inbox \in Box /\ Sound(inbox)
  BY DEF Init, Box, Sound
<1> QED
  BY <1>1 DEF Init, IInv, TypeOK, AllSeen, NotificationsAssumption

(* The inbox, the balances, the alerts and the events keep their types.      *)
THEOREM NotificationTypes ==
    ASSUME NotificationsAssumption
    PROVE  Spec => []TypeOK
<1>1. IInv => TypeOK
  BY DEF IInv
<1> QED
  BY <1>1, InitHolds, StepKeeps, PTL DEF Spec

LEMMA Announced ==
    ASSUME IInv
    PROVE  EventsAnnouncedOnce
<1> SUFFICES ASSUME NEW e \in happened
             PROVE  LET filed == {i \in DOMAIN inbox.notes : inbox.notes[i].key = Key(e[1], e[2])}
                    IN  Cardinality(filed) = 1 /\ \A i \in filed : inbox.notes[i].branch = e[1]
  BY DEF EventsAnnouncedOnce
<1> DEFINE filed == {i \in DOMAIN inbox.notes : inbox.notes[i].key = Key(e[1], e[2])}
<1>1. PICK k \in DOMAIN inbox.notes : inbox.notes[k].key = Key(e[1], e[2])
  BY DEF IInv, AllSeen, Sound
<1>2. "branch" \in DOMAIN Key(e[1], e[2]) /\ Key(e[1], e[2]).branch = e[1]
  BY DEF Key
<1>3. ASSUME NEW i \in filed
      PROVE  inbox.notes[i].branch = e[1] /\ inbox.notes[i].tenant = TenantOf[e[1]]
  <2>1. Placed(inbox.seen, inbox.notes[i]) /\ inbox.notes[i].key = Key(e[1], e[2])
    BY DEF IInv, Sound
  <2> QED
    BY <1>2, <2>1, Zenon DEF Placed
<1>4. \A i \in filed : i = k
  BY <1>1, <1>3 DEF IInv, Sound
<1>5. filed = {k}
  BY <1>1, <1>4
<1>6. Cardinality({k}) = 1
  BY FS_Singleton
<1> QED
  BY <1>3, <1>5, <1>6

(* fiamService.trigger: whatever happens in whichever branches of a tenant,  *)
(* and however often, each event has one notification, where it happened.    *)
THEOREM OneNotificationPerEvent ==
    ASSUME NotificationsAssumption
    PROVE  Spec => []EventsAnnouncedOnce
<1>1. IInv => EventsAnnouncedOnce
  BY Announced
<1> QED
  BY <1>1, InitHolds, StepKeeps, PTL DEF Spec

(* deliver: a notification is attempted once it can be, and then succeeds:    *)
(* the attempts of a delivered one are one.                                   *)
DeliveredOnce == \A i \in DOMAIN inbox.notes :
    inbox.notes[i].status = "SENT" <=> inbox.notes[i].attempts = 1
(* retryPending: what was delivered is never waiting again.                   *)
DeliveredForGood ==
    [][\A i \in DOMAIN inbox.notes :
          inbox.notes[i].status = "SENT" =>
             i \in DOMAIN inbox'.notes /\ inbox'.notes[i].status = "SENT"]_vars

(* retryPending: what was delivered counts one attempt and is never attempted *)
(* again, whatever is filed, retried or read after it: the safety that        *)
(* WaitingIsDelivered has to offer without fairness.                          *)
THEOREM DeliveriesStand ==
    ASSUME NotificationsAssumption
    PROVE  Spec => []DeliveredOnce /\ DeliveredForGood
<1>1. IInv => DeliveredOnce
  BY DEF IInv, Sound, Placed, SentOnceIf, DeliveredOnce
<1>2. IInv /\ [Next]_vars =>
        [\A i \in DOMAIN inbox.notes :
            inbox.notes[i].status = "SENT" =>
               i \in DOMAIN inbox'.notes /\ inbox'.notes[i].status = "SENT"]_vars
  BY StepKeeps DEF Grows, Keeps
<1> QED
  BY <1>1, <1>2, InitHolds, StepKeeps, PTL DEF Spec, DeliveredForGood
=============================================================================
