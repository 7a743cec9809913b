------------------------- MODULE IncidentManagerProofs -------------------------
(***************************************************************************)
(* Theorems about IncidentManager, for every number of jobs, incidents and *)
(* requests, every batch of signals and every interleaving: its types and  *)
(* the references its coroutines hold; the agreement of objects and rows,  *)
(* while the database works, and with it the forward moves of each row;    *)
(* and, with database errors, diagnoses that raise and restarts, what      *)
(* becomes of a verdict and its plan: the plan is run past its gate only,  *)
(* neither changes once it is on record, and the record claims no run of   *)
(* the plan that did not happen.                                           *)
(***************************************************************************)
EXTENDS IncidentManager, FiniteSetTheorems, SequenceTheorems,
        WellFoundedInduction, TLAPS

-----------------------------------------------------------------------------
(* Data *)

(* A nonempty set of positions has a last one: by well-foundedness of the
   distances from n. *)
LEMMA LastPosition ==
  ASSUME NEW n \in Nat, NEW T, T \subseteq 1 .. n, T # {}
  PROVE  \E x \in T : \A y \in T : y <= x
<1> DEFINE U     == {m \in Nat : \E y \in T : m = n - y}
           Below == {ss \in Nat \X Nat : ss[1] < ss[2]}
<1>1. \A y \in T : n - y \in Nat
  OBVIOUS
<1>2. U \subseteq Nat /\ U # {}
  BY <1>1
<1>3. IsWellFoundedOn(Below, Nat)
  <2>1. OpToRel(<, Nat) = Below
    BY Zenon DEF OpToRel
  <2> QED BY <2>1, NatLessThanWellFounded, Zenon
<1>4. PICK u \in U : \A v \in U : <<v, u>> \notin Below
  <2> HIDE DEF U, Below
  <2> QED BY <1>2, <1>3, WFMin
<1>5. \A v \in U : ~(v < u)
  BY <1>2, <1>4
<1>6. PICK x \in T : u = n - x
  OBVIOUS
<1>7. \A y \in T : n - y \in U
  BY <1>1
<1>8. \A y \in T : ~(n - y < n - x)
  BY <1>5, <1>6, <1>7
<1> QED BY <1>8

(* The dominant signal is one of the incident's own. *)
LEMMA DominantType ==
  ASSUME NEW anomalies \in Signals
  PROVE  Dominant(anomalies) \in Anomalies
<1> DEFINE Of(kind) == {k \in DOMAIN anomalies : anomalies[k].kind = kind}
           ranked   == {p \in DOMAIN Priority : Of(Priority[p]) # {}}
           best     == Priority[CHOOSE p \in ranked : \A q \in ranked : p <= q]
           last     == CHOOSE k \in Of(best) : \A m \in Of(best) : m <= k
<1>1. Len(anomalies) \in Nat /\ DOMAIN anomalies = 1 .. Len(anomalies)
      /\ Len(anomalies) >= 1 /\ \A k \in DOMAIN anomalies : anomalies[k] \in Anomalies
  BY DEF Signals
<1>2. CASE ranked = {}
  BY <1>1, <1>2 DEF Dominant
<1>3. CASE ranked # {}
  <2>1. DOMAIN Priority = 1 .. 7
    BY DEF Priority
  <2>2. \E p \in ranked : \A q \in ranked : p <= q
    <3> HIDE DEF Of
    <3> QED BY <1>3, <2>1, SMTT(30)
  <2>3. Of(best) # {}
    <3> HIDE DEF Of
    <3> QED BY <2>2
  <2>4. \E k \in Of(best) : \A m \in Of(best) : m <= k
    <3>1. Of(best) \subseteq 1 .. Len(anomalies)
      BY <1>1
    <3> HIDE DEF Of, best
    <3> QED BY <3>1, <1>1, <2>3, LastPosition
  <2>5. last \in Of(best)
    <3> HIDE DEF Of, best
    <3> QED BY <2>4
  <2>6. anomalies[last] \in Anomalies
    <3> HIDE DEF best, last
    <3> QED BY <1>1, <2>5
  <2> QED BY <1>3, <2>6 DEF Dominant
<1> QED BY <1>2, <1>3

(* The plan proposed for a list of signals is a plan for the hardware the
   signals name (remediation.propose). *)
LEMMA ProposeType ==
  ASSUME NEW anomalies \in Signals
  PROVE  Propose(anomalies) \in Plans(Locations)
<1> DEFINE lead == Dominant(anomalies)
           play == IF lead.kind \in DOMAIN Playbook THEN Playbook[lead.kind] ELSE InspectNode
           plays == {Playbook[k] : k \in DOMAIN Playbook} \cup {InspectNode}
<1>1. lead.at \in Locations
  BY DominantType DEF Anomalies
<1>2. play \in plays
  BY Zenon
<1>3. play.action \in {p.action : p \in plays} /\ play.steps \in {p.steps : p \in plays}
  <2> HIDE DEF play, plays
  <2> QED BY <1>2, Zenon
<1>4. (play.risk # "low") \in BOOLEAN
  OBVIOUS
<1>5. Propose(anomalies) = [action |-> play.action, requiresApproval |-> play.risk # "low",
                            target |-> lead.at, steps |-> play.steps]
  BY Zenon DEF Propose
<1>6. Plans(Locations) = [action : {p.action : p \in plays}, requiresApproval : BOOLEAN,
                          target : Locations, steps : {p.steps : p \in plays}]
  BY Zenon DEF Plans
<1> HIDE DEF play, plays, lead
<1> QED BY <1>1, <1>3, <1>4, <1>5, <1>6

(* What an incident is enriched with are signals. *)
LEMMA EnrichmentType ==
  ASSUME NEW batch \in Batches, NEW anomalies \in Signals,
         NEW pos \in InOrder(Unseen(batch, anomalies))
  PROVE  [k \in DOMAIN pos |-> batch[pos[k]]] \in Seq(Anomalies)
<1> DEFINE K == Unseen(batch, anomalies)
<1>1. batch \in Seq(Anomalies) /\ Len(batch) \in Nat /\ DOMAIN batch = 1 .. Len(batch)
  BY BatchesAssumption DEF Signals
<1>2. IsFiniteSet(K) /\ Cardinality(K) \in Nat /\ K \subseteq DOMAIN batch
  <2>1. K \subseteq 1 .. Len(batch)
    BY <1>1 DEF Unseen
  <2>2. IsFiniteSet(1 .. Len(batch))
    BY <1>1, FS_Interval
  <2> HIDE DEF K
  <2> QED BY <1>1, <2>1, <2>2, FS_Subset, FS_CardinalityType
<1>3. pos \in [1 .. Cardinality(K) -> K]
  BY DEF InOrder
<1> HIDE DEF K
<1>4. \A k \in 1 .. Cardinality(K) : batch[pos[k]] \in Anomalies
  BY <1>1, <1>2, <1>3
<1>5. DOMAIN pos = 1 .. Cardinality(K)
  BY <1>3
<1> QED BY <1>2, <1>4, <1>5, IsASeq

(* Enriching an incident leaves it a list of signals. *)
LEMMA EnrichedType ==
  ASSUME NEW batch \in Batches, NEW anomalies \in Signals,
         NEW pos \in InOrder(Unseen(batch, anomalies))
  PROVE  anomalies \o [k \in DOMAIN pos |-> batch[pos[k]]] \in Signals
  BY EnrichmentType, ConcatProperties, ConcatEqualIffEmpty DEF Signals

(* Running a plan leaves a well-formed incident. *)
LEMMA ExecutedType ==
  ASSUME NEW incident \in IncidentObjects, incident.remediation # None,
         NEW approver \in {"operator", None}
  PROVE  /\ Executed(incident, approver) \in IncidentObjects
         /\ Executed(incident, approver).remediation # None
<1> DEFINE record == [incident.remediation EXCEPT !.status = "COMPLETED",
                                                  !.audit = Append(@, Label(approver))]
<1>1. incident.remediation \in Records
  BY DEF IncidentObjects
<1>2. Append(incident.remediation.audit, Label(approver)) \in Seq({"operator", "auto-policy"})
  BY <1>1, AppendProperties DEF Records, Label
<1>3. record \in Records
  BY <1>1, <1>2 DEF Records
<1>4. Executed(incident, approver) =
        [incident EXCEPT !.status = "RESOLVED", !.remediation = record]
  BY DEF Executed, IncidentObjects
<1> HIDE DEF record
<1>5. record # None
  BY <1>3, NoneAssumption
<1> QED BY <1>3, <1>4, <1>5 DEF IncidentObjects, Statuses

-----------------------------------------------------------------------------
(* Type correctness *)

TypeInv == TypeOK /\ WellReferenced

(* A new manager (__init__) has its types and references. *)
LEMMA TypeInvInit == Init => TypeInv
<1> SUFFICES ASSUME Init PROVE TypeInv
  OBVIOUS
<1>1. TypeOK
  BY RestartsAssumption DEF Init, TypeOK, NoJobs, Addresses
<1>2. WellReferenced
  BY DEF Init, WellReferenced, NoJobs, Addresses, Undiagnosed, Proposed
<1> QED BY <1>1, <1>2 DEF TypeInv

(* put_incident of an incident object keeps the rows incident objects. *)
LEMMA PutType ==
  ASSUME TypeOK, NEW incident \in IncidentObjects, NEW ok, Put(incident, ok)
  PROVE  store' \in [Incidents -> IncidentObjects \cup {None}]
<1>1. incident.id \in Incidents
  BY DEF IncidentObjects
<1>2. CASE ok
  BY <1>1, <1>2 DEF Put, TypeOK
<1>3. CASE ~ok
  BY <1>3 DEF Put, TypeOK
<1> QED BY <1>2, <1>3

(* Time passing keeps the types. *)
LEMMA QuietenType == ASSUME TypeInv, NEW j \in Jobs, Quieten(j) PROVE TypeInv'
  BY DEF TypeInv, TypeOK, WellReferenced, Quieten

(* ingest_anomalies on a job without an open incident keeps the types; it
   creates the object it refers to. *)
LEMMA OpenIncidentType ==
  ASSUME TypeInv, NEW i \in Incidents, NEW j \in Jobs, NEW batch \in Batches,
         NEW ok \in WriteOutcomes, OpenIncident(i, j, batch, ok)
  PROVE  TypeInv'
<1> DEFINE incident == [id |-> i, job |-> j, status |-> "OPEN", anomalies |-> batch,
                        diagnosis |-> None, remediation |-> None]
<1>1. incident \in IncidentObjects /\ incident # None
  BY BatchesAssumption, NoneAssumption DEF IncidentObjects, Statuses
<1>2. i \in Addresses /\ i # None
  BY NoneAssumption DEF Addresses
<1>3. heap' = [heap EXCEPT ![i] = incident] /\ Put(incident, ok)
  BY DEF OpenIncident
<1> HIDE DEF incident
<1>4. TypeOK'
  BY <1>1, <1>2, <1>3 DEF TypeInv, TypeOK, OpenIncident, Put, Hear
<1>5. WellReferenced'
  BY <1>1, <1>2, <1>3 DEF TypeInv, TypeOK, WellReferenced, OpenIncident, Hear, Undiagnosed, Proposed
<1> QED BY <1>4, <1>5 DEF TypeInv

(* create_task(_diagnose) keeps the types and references. *)
LEMMA ScheduleDiagnosisType ==
  ASSUME TypeInv, NEW i \in Incidents, ScheduleDiagnosis(i) PROVE TypeInv'
  BY DEF TypeInv, TypeOK, WellReferenced, ScheduleDiagnosis, Undiagnosed, Proposed

(* The first part of _diagnose keeps the types: the object it marks is there. *)
LEMMA DiagnoseStartType ==
  ASSUME TypeInv, NEW i \in Incidents, DiagnoseStart(i) PROVE TypeInv'
<1>1. heap[i] \in IncidentObjects /\ i \in Addresses
  BY DEF TypeInv, TypeOK, WellReferenced, DiagnoseStart, Undiagnosed, Addresses
<1> DEFINE incident == [heap[i] EXCEPT !.status = "DIAGNOSING"]
<1>2. incident \in IncidentObjects /\ incident # None /\ incident.remediation = heap[i].remediation
  BY <1>1, NoneAssumption DEF IncidentObjects, Statuses
<1>3. heap' = [heap EXCEPT ![i] = incident]
  BY DEF DiagnoseStart
<1> HIDE DEF incident
<1>4. TypeOK'
  BY <1>1, <1>2, <1>3 DEF TypeInv, TypeOK, DiagnoseStart
<1>5. WellReferenced'
  BY <1>1, <1>2, <1>3 DEF TypeInv, TypeOK, WellReferenced, DiagnoseStart, Undiagnosed, Proposed
<1> QED BY <1>4, <1>5 DEF TypeInv

(* ingest_anomalies on a job with an open incident keeps the types: the object
   it extends is there. *)
LEMMA EnrichType ==
  ASSUME TypeInv, NEW j \in Jobs, NEW batch \in Batches, NEW ok \in WriteOutcomes,
         Enrich(j, batch, ok)
  PROVE  TypeInv'
<1>1. open[j] \in Incidents /\ open[j] \in Addresses /\ heap[open[j]] \in IncidentObjects
  BY DEF TypeInv, TypeOK, WellReferenced, Enrich, Addresses
<1>2. heap[open[j]].anomalies \in Signals
  BY <1>1 DEF IncidentObjects
<1>3. PICK pos \in InOrder(Unseen(batch, heap[open[j]].anomalies)) :
        LET new      == [k \in DOMAIN pos |-> batch[pos[k]]]
            incident == Enriched(heap[open[j]], new)
        IN  IF new = <<>>
            THEN UNCHANGED <<heap, store, consumer>>
            ELSE /\ heap' = [heap EXCEPT ![open[j]] = incident]
                 /\ Put(incident, ok)
                 /\ consumer' = IF ok THEN "up" ELSE "dead"
  BY DEF Enrich
<1> DEFINE new      == [k \in DOMAIN pos |-> batch[pos[k]]]
           incident == Enriched(heap[open[j]], new)
<1>4. heap[open[j]].anomalies \o new \in Signals
  BY <1>2, EnrichedType
<1> HIDE DEF new
<1>5. incident \in IncidentObjects /\ incident # None
      /\ incident.remediation = heap[open[j]].remediation /\ incident.id \in Incidents
  BY <1>1, <1>4, NoneAssumption DEF Enriched, IncidentObjects
<1>6. \/ UNCHANGED <<heap, store, consumer>>
      \/ /\ heap' = [heap EXCEPT ![open[j]] = incident]
         /\ Put(incident, ok)
         /\ consumer' = IF ok THEN "up" ELSE "dead"
  BY <1>3 DEF new
<1> HIDE DEF incident
<1>7. TypeOK'
  <2>1. heap' \in [Addresses -> IncidentObjects \cup {None}]
    BY <1>1, <1>5, <1>6 DEF TypeInv, TypeOK
  <2>2. store' \in [Incidents -> IncidentObjects \cup {None}]
    <3>1. CASE UNCHANGED store
      BY <3>1 DEF TypeInv, TypeOK
    <3>2. CASE Put(incident, ok)
      BY <3>2, <1>5, PutType DEF TypeInv
    <3> QED BY <1>6, <3>1, <3>2
  <2>3. consumer' \in {"up", "dead"}
    BY <1>6 DEF TypeInv, TypeOK
  <2> QED BY <2>1, <2>2, <2>3 DEF TypeInv, TypeOK, Enrich, Hear
<1>8. WellReferenced'
  <2>1. \A a \in Addresses : (heap'[a] = None <=> heap[a] = None)
                             /\ (heap[a] # None => heap'[a].remediation = heap[a].remediation)
    <3>1. CASE UNCHANGED heap
      BY <3>1
    <3>2. CASE heap' = [heap EXCEPT ![open[j]] = incident]
      BY <3>2, <1>1, <1>5, NoneAssumption DEF TypeInv, TypeOK
    <3> QED BY <1>6, <3>1, <3>2
  <2>2. sweep'.todo = sweep.todo
    BY DEF TypeInv, TypeOK, Enrich, Hear
  <2>3. UNCHANGED <<open, diag, read, req>>
    BY DEF Enrich
  <2> QED BY <2>1, <2>2, <2>3
          DEF TypeInv, TypeOK, WellReferenced, Undiagnosed, Proposed, Addresses
<1> QED BY <1>7, <1>8 DEF TypeInv

(* The diagnosis thread reads a list of signals. *)
LEMMA ThreadReadType ==
  ASSUME TypeInv, NEW i \in Incidents, ThreadRead(i) PROVE TypeInv'
<1>1. heap[i].anomalies \in Signals /\ heap[i].anomalies # None
  BY NoneAssumption DEF TypeInv, TypeOK, WellReferenced, ThreadRead, Undiagnosed, Addresses,
                        IncidentObjects
<1>2. TypeOK'
  BY <1>1 DEF TypeInv, TypeOK, ThreadRead
<1>3. WellReferenced'
  BY <1>1 DEF TypeInv, TypeOK, WellReferenced, ThreadRead, Undiagnosed, Proposed
<1> QED BY <1>2, <1>3 DEF TypeInv

(* _diagnose stores a verdict and a plan of the right types. *)
LEMMA DiagnoseDoneType ==
  ASSUME TypeInv, NEW i \in Incidents, NEW ok \in WriteOutcomes, DiagnoseDone(i, ok)
  PROVE  TypeInv'
<1> DEFINE record   == [proposal |-> Propose(heap[i].anomalies),
                        status |-> "PROPOSED", audit |-> <<>>]
           incident == [heap[i] EXCEPT !.diagnosis = read[i], !.status = "DIAGNOSED",
                                       !.remediation = record]
<1>1. heap[i] \in IncidentObjects /\ i \in Addresses /\ read[i] \in Signals
  BY DEF TypeInv, TypeOK, WellReferenced, DiagnoseDone, Undiagnosed, Addresses
<1>2. record \in Records
  BY <1>1, ProposeType, EmptySeq DEF Records, IncidentObjects
<1>3. record # None
  BY <1>2, NoneAssumption
<1>4. heap' = [heap EXCEPT ![i] = incident] /\ Put(incident, ok)
  BY DEF DiagnoseDone
<1> HIDE DEF record
<1>5. incident \in IncidentObjects /\ incident # None /\ incident.remediation # None
      /\ incident.id \in Incidents
  BY <1>1, <1>2, <1>3, NoneAssumption DEF IncidentObjects, Statuses
<1> HIDE DEF incident
<1>6. TypeOK'
  <2>1. heap' \in [Addresses -> IncidentObjects \cup {None}]
    BY <1>1, <1>4, <1>5 DEF TypeInv, TypeOK
  <2>2. store' \in [Incidents -> IncidentObjects \cup {None}]
    BY <1>4, <1>5, PutType DEF TypeInv
  <2> QED BY <2>1, <2>2 DEF TypeInv, TypeOK, DiagnoseDone
<1>7. WellReferenced'
  <2>1. \A a \in Addresses : heap[a] # None => heap'[a] # None
    BY <1>1, <1>4, <1>5 DEF TypeInv, TypeOK
  <2>2. \A a \in Addresses : heap[a] # None /\ heap[a].remediation # None
                              => heap'[a].remediation # None
    BY <1>1, <1>4, <1>5 DEF TypeInv, TypeOK
  <2>3. heap'[i].remediation # None
    BY <1>1, <1>4, <1>5 DEF TypeInv, TypeOK
  <2> QED BY <1>1, <2>1, <2>2, <2>3
          DEF TypeInv, TypeOK, WellReferenced, DiagnoseDone, Undiagnosed, Proposed, Addresses
<1> QED BY <1>6, <1>7 DEF TypeInv

(* A diagnosis that raises keeps the types. *)
LEMMA DiagnoseFailType ==
  ASSUME TypeInv, NEW i \in Incidents, DiagnoseFail(i) PROVE TypeInv'
  BY DEF TypeInv, TypeOK, WellReferenced, DiagnoseFail, Undiagnosed, Proposed

(* _alert keeps the types. *)
LEMMA AlertType ==
  ASSUME TypeInv, NEW i \in Incidents, Alert(i) PROVE TypeInv'
  BY DEF TypeInv, TypeOK, WellReferenced, Alert, Undiagnosed, Proposed

(* _diagnose ending without a remediation keeps the types. *)
LEMMA DiagnoseEndType ==
  ASSUME TypeInv, NEW i \in Incidents, DiagnoseEnd(i) PROVE TypeInv'
  BY DEF TypeInv, TypeOK, WellReferenced, DiagnoseEnd, Undiagnosed, Proposed

(* A status written over an object changes nothing else of it. *)
LEMMA StatusType ==
  ASSUME NEW incident \in IncidentObjects, NEW status \in Statuses
  PROVE  LET after == [incident EXCEPT !.status = status]
         IN  /\ after \in IncidentObjects
             /\ after # None
             /\ after.remediation = incident.remediation
             /\ after.id = incident.id
  BY NoneAssumption DEF IncidentObjects

(* The policy's remediation begins on an object that is there, with a plan. *)
LEMMA AutoRemediateStartType ==
  ASSUME TypeInv, NEW i \in Incidents, AutoRemediateStart(i) PROVE TypeInv'
<1> DEFINE incident == [heap[i] EXCEPT !.status = "REMEDIATING"]
<1>1. heap[i] \in IncidentObjects /\ i \in Addresses /\ heap[i].remediation # None
  BY DEF TypeInv, TypeOK, WellReferenced, AutoRemediateStart, Proposed, Addresses
<1>2. incident \in IncidentObjects /\ incident # None /\ incident.remediation # None
  BY <1>1, StatusType DEF Statuses
<1>3. heap' = [heap EXCEPT ![i] = incident]
  BY DEF AutoRemediateStart
<1> HIDE DEF incident
<1>4. TypeOK'
  BY <1>1, <1>2, <1>3 DEF TypeInv, TypeOK, AutoRemediateStart
<1>5. WellReferenced'
  BY <1>1, <1>2, <1>3 DEF TypeInv, TypeOK, WellReferenced, AutoRemediateStart, Undiagnosed, Proposed
<1> QED BY <1>4, <1>5 DEF TypeInv

(* Applying the plan of an object that has one. *)
LEMMA ApplyType ==
  ASSUME TypeInv, NEW address \in Addresses, NEW approver \in {"operator", None},
         NEW ok \in WriteOutcomes, Apply(address, approver, ok),
         heap[address] # None, heap[address].remediation # None
  PROVE  /\ heap' \in [Addresses -> IncidentObjects \cup {None}]
         /\ store' \in [Incidents -> IncidentObjects \cup {None}]
         /\ open' \in [Jobs -> Incidents \cup {None}]
         /\ corpus' \in [Incidents -> Nat]
         /\ actuated' \in [Incidents -> Nat]
         /\ \A j \in Jobs : open'[j] \in {open[j], None}
         /\ \A a \in Addresses \ {address} : heap'[a] = heap[a]
         /\ heap'[address] # None
         /\ heap'[address].remediation # None
<1> DEFINE incident == Executed(heap[address], approver)
<1>1. heap[address] \in IncidentObjects
  BY DEF TypeInv, TypeOK
<1>2. incident \in IncidentObjects /\ incident.remediation # None /\ incident # None
  BY <1>1, ExecutedType, NoneAssumption
<1>3. incident.id \in Incidents /\ incident.job \in Jobs
  BY <1>2 DEF IncidentObjects
<1>4. /\ heap' = [heap EXCEPT ![address] = incident]
      /\ actuated' = [actuated EXCEPT ![incident.id] = @ + 1]
      /\ PutResolved(incident, ok)
      /\ \/ /\ corpus' = [corpus EXCEPT ![incident.id] = @ + 1]
            /\ open' = [open EXCEPT ![incident.job] = None]
         \/ UNCHANGED <<corpus, open>>
  BY DEF Apply, Index
<1> HIDE DEF incident
<1>5. store' \in [Incidents -> IncidentObjects \cup {None}]
  BY <1>2, <1>4, PutType DEF TypeInv, PutResolved
<1>6. /\ heap' \in [Addresses -> IncidentObjects \cup {None}]
      /\ \A a \in Addresses \ {address} : heap'[a] = heap[a]
      /\ heap'[address] # None
      /\ heap'[address].remediation # None
  BY <1>2, <1>4 DEF TypeInv, TypeOK
<1>7. /\ open' \in [Jobs -> Incidents \cup {None}]
      /\ \A j \in Jobs : open'[j] \in {open[j], None}
  BY <1>3, <1>4 DEF TypeInv, TypeOK
<1>8. corpus' \in [Incidents -> Nat]
  BY <1>3, <1>4 DEF TypeInv, TypeOK
<1>9. actuated' \in [Incidents -> Nat]
  BY <1>3, <1>4 DEF TypeInv, TypeOK
<1> QED BY <1>5, <1>6, <1>7, <1>8, <1>9

(* It leaves every reference in place. *)
LEMMA ApplyKeeps ==
  ASSUME TypeInv, NEW address \in Addresses, NEW approver \in {"operator", None},
         NEW ok \in WriteOutcomes, Apply(address, approver, ok),
         heap[address] # None, heap[address].remediation # None
  PROVE  /\ \A a \in Addresses : heap'[a] = None <=> heap[a] = None
         /\ \A a \in Addresses : heap[a] # None /\ heap[a].remediation # None
                                  => heap'[a].remediation # None
         /\ \A j \in Jobs : open'[j] \in {open[j], None}
  BY ApplyType

(* The policy's remediation ends on an object that is there, with a plan. *)
LEMMA AutoRemediateFinishType ==
  ASSUME TypeInv, NEW i \in Incidents, NEW ok \in WriteOutcomes, AutoRemediateFinish(i, ok)
  PROVE  TypeInv'
<1>1. i \in Addresses /\ heap[i] # None /\ heap[i].remediation # None
  BY DEF TypeInv, WellReferenced, AutoRemediateFinish, Proposed, Addresses
<1>2. Apply(i, None, ok)
  BY DEF AutoRemediateFinish
<1>3. TypeOK'
  BY <1>1, <1>2, ApplyType DEF TypeInv, TypeOK, AutoRemediateFinish
<1>4. WellReferenced'
  BY <1>1, <1>2, ApplyKeeps DEF TypeInv, TypeOK, WellReferenced, AutoRemediateFinish,
                                Undiagnosed, Proposed, Addresses
<1> QED BY <1>3, <1>4 DEF TypeInv

(* A refused POST /remediate keeps the types. *)
LEMMA RemediateRefuseType ==
  ASSUME TypeInv, NEW r \in Requests, NEW i \in Incidents, RemediateRefuse(r, i)
  PROVE  TypeInv'
  BY DEF TypeInv, TypeOK, WellReferenced, RemediateRefuse

(* An accepted POST /remediate holds an object, open or loaded from its row,
   with a plan. *)
LEMMA RemediateStartType ==
  ASSUME TypeInv, NEW r \in Requests, NEW i \in Incidents, RemediateStart(r, i)
  PROVE  TypeInv'
<1> DEFINE address  == IF IsOpen(i) THEN i ELSE r
           incident == [Found(i) EXCEPT !.status = "REMEDIATING"]
<1>1. address \in Addresses /\ address # None
  BY NoneAssumption DEF Addresses
<1>2. Found(i) \in IncidentObjects /\ Found(i).remediation # None
  BY DEF TypeInv, TypeOK, RemediateStart, Remediable, Found, Addresses
<1>3. incident \in IncidentObjects /\ incident # None /\ incident.remediation # None
  BY <1>2, StatusType DEF Statuses
<1>4. /\ heap' = [heap EXCEPT ![address] = incident]
      /\ req' = [req EXCEPT ![r] = [pc |-> "executing", ref |-> address]]
      /\ UNCHANGED <<open, store, quiet, consumer, diag, read, sweep, corpus,
                     actuated, alerted, restarts>>
  BY DEF RemediateStart
<1>5. IsOpen(i) => diag[i] # "none"
  <2> SUFFICES ASSUME IsOpen(i) PROVE diag[i] # "none"
    OBVIOUS
  <2>1. PICK j \in Jobs : open[j] = i
    BY DEF TypeInv, TypeOK, IsOpen, Range
  <2>2. i # None
    BY NoneAssumption DEF Addresses
  <2> QED BY <2>1, <2>2 DEF TypeInv, WellReferenced
<1>6. address = i \/ address \in Requests
  OBVIOUS
<1>7. address = i => diag[i] # "none"
  BY <1>5, AddressAssumption
<1> HIDE DEF incident, address
<1>8. TypeOK'
  BY <1>1, <1>3, <1>4 DEF TypeInv, TypeOK
<1>9. WellReferenced'
  <2>1. \A a \in Addresses : heap[a] # None => heap'[a] # None
    BY <1>1, <1>3, <1>4 DEF TypeInv, TypeOK
  <2>2. \A a \in Addresses : heap[a] # None /\ heap[a].remediation # None
                              => heap'[a].remediation # None
    BY <1>1, <1>3, <1>4 DEF TypeInv, TypeOK
  <2>3. \A k \in Incidents : diag[k] = "none" => heap'[k] = None
    BY <1>1, <1>3, <1>4, <1>6, <1>7, AddressAssumption
       DEF TypeInv, TypeOK, WellReferenced, Addresses
  <2>4. heap'[address] # None /\ heap'[address].remediation # None
    BY <1>1, <1>3, <1>4 DEF TypeInv, TypeOK
  <2> QED BY <1>1, <1>4, <2>1, <2>2, <2>3, <2>4
          DEF TypeInv, TypeOK, WellReferenced, Undiagnosed, Proposed, Addresses
<1> QED BY <1>8, <1>9 DEF TypeInv

(* An operator's remediation ends on the object it holds. *)
LEMMA RemediateFinishType ==
  ASSUME TypeInv, NEW r \in Requests, NEW ok \in WriteOutcomes, RemediateFinish(r, ok)
  PROVE  TypeInv'
<1>1. req[r].ref \in Addresses /\ heap[req[r].ref] # None /\ heap[req[r].ref].remediation # None
  BY DEF TypeInv, TypeOK, WellReferenced, RemediateFinish
<1>2. PICK approver \in {"operator", None} : Apply(req[r].ref, approver, ok)
  BY ApproversAssumption DEF RemediateFinish
<1>3. TypeOK'
  BY <1>1, <1>2, ApplyType DEF TypeInv, TypeOK, RemediateFinish
<1>4. WellReferenced'
  BY <1>1, <1>2, ApplyKeeps DEF TypeInv, TypeOK, WellReferenced, RemediateFinish,
                                Undiagnosed, Proposed, Addresses
<1> QED BY <1>3, <1>4 DEF TypeInv

(* sweep resolves an object that is there, and its snapshot refers to such
   objects only. *)
LEMMA SweepResolveType ==
  ASSUME TypeInv, NEW j \in Jobs, NEW ok \in WriteOutcomes, SweepResolve(j, ok)
  PROVE  TypeInv'
<1> DEFINE i        == Pending[j]
           incident == [heap[i] EXCEPT !.status = "RESOLVED"]
<1>1. Pending \in [Jobs -> Incidents \cup {None}] /\ Silent \in SUBSET Jobs
  BY DEF TypeInv, TypeOK, Pending, Silent
<1>2. i \in Incidents /\ i \in Addresses /\ heap[i] \in IncidentObjects
  <2>1. Pending[j] # None
    BY DEF SweepResolve, Expired
  <2>2. i \in Incidents /\ i \in Addresses
    BY <1>1, <2>1 DEF Addresses
  <2>3. heap[i] # None
    BY <2>1 DEF TypeInv, WellReferenced, Pending
  <2> QED BY <2>2, <2>3 DEF TypeInv, TypeOK
<1>3. /\ incident \in IncidentObjects
      /\ incident # None
      /\ incident.remediation = heap[i].remediation
      /\ incident.id \in Incidents
  <2>1. /\ incident \in IncidentObjects /\ incident # None
        /\ incident.remediation = heap[i].remediation
    BY <1>2, StatusType DEF Statuses
  <2> QED BY <2>1 DEF IncidentObjects
<1>4. /\ heap' = [heap EXCEPT ![i] = incident]
      /\ PutResolved(incident, ok)
      /\ corpus' = [corpus EXCEPT ![incident.id] = @ + 1] \/ corpus' = corpus
      /\ open' = [open EXCEPT ![j] = None] \/ open' = open
  BY DEF SweepResolve, Index
<1>5. \/ \E unfit \in SUBSET Jobs :
           sweep' = [pc    |-> "emitting",
                     todo  |-> [k \in Jobs |-> IF k \in unfit \cup {j} THEN None ELSE Pending[k]],
                     quiet |-> Silent]
      \/ sweep' = [pc |-> "dead", todo |-> NoJobs, quiet |-> {}]
  BY DEF SweepResolve
<1>6. UNCHANGED <<quiet, consumer, diag, read, req, actuated, alerted, restarts>>
  BY DEF SweepResolve
<1> HIDE DEF incident, i
<1>7. sweep' \in [pc : {"idle", "emitting", "dead"}, todo : [Jobs -> Incidents \cup {None}],
                  quiet : SUBSET Jobs]
      /\ \A k \in Jobs : sweep'.todo[k] \in {None, Pending[k]}
  BY <1>1, <1>5 DEF NoJobs
<1>8. TypeOK'
  <2>1. heap' \in [Addresses -> IncidentObjects \cup {None}]
    BY <1>2, <1>3, <1>4 DEF TypeInv, TypeOK
  <2>2. store' \in [Incidents -> IncidentObjects \cup {None}]
    BY <1>3, <1>4, PutType DEF TypeInv, PutResolved
  <2>3. corpus' \in [Incidents -> Nat] /\ open' \in [Jobs -> Incidents \cup {None}]
    BY <1>2, <1>3, <1>4 DEF TypeInv, TypeOK
  <2> QED BY <1>6, <1>7, <2>1, <2>2, <2>3 DEF TypeInv, TypeOK
<1>9. WellReferenced'
  <2>1. \A a \in Addresses : (heap'[a] = None <=> heap[a] = None)
                             /\ (heap[a] # None => heap'[a].remediation = heap[a].remediation)
    BY <1>2, <1>3, <1>4, NoneAssumption DEF TypeInv, TypeOK
  <2>2. \A k \in Jobs : open'[k] \in {open[k], None}
    BY <1>4 DEF TypeInv, TypeOK
  <2>3. \A k \in Jobs : Pending[k] # None => heap[Pending[k]] # None
    BY DEF TypeInv, WellReferenced, Pending
  <2> QED BY <1>1, <1>6, <1>7, <2>1, <2>2, <2>3
          DEF TypeInv, TypeOK, WellReferenced, Undiagnosed, Proposed, Addresses
<1> QED BY <1>8, <1>9 DEF TypeInv

(* The end of sweep keeps the types. *)
LEMMA SweepEndType == ASSUME TypeInv, SweepEnd PROVE TypeInv'
  BY DEF TypeInv, TypeOK, WellReferenced, SweepEnd, NoJobs

(* A new process refers to no object of the old one. *)
LEMMA RestartType == ASSUME TypeInv, Restart PROVE TypeInv'
<1>1. TypeOK'
  BY RestartsAssumption DEF TypeInv, TypeOK, Restart, NoJobs
<1>2. WellReferenced'
  BY DEF TypeInv, TypeOK, WellReferenced, Restart, NoJobs, Addresses, Undiagnosed, Proposed
<1> QED BY <1>1, <1>2 DEF TypeInv

(* Every step of the manager keeps the types and the references. *)
LEMMA TypeInvNext == TypeInv /\ [Next]_vars => TypeInv'
<1> SUFFICES ASSUME TypeInv, [Next]_vars PROVE TypeInv'
  OBVIOUS
<1>1. ASSUME NEW j \in Jobs, Quieten(j) PROVE TypeInv'
  BY <1>1, QuietenType
<1>2. CASE Restart
  BY <1>2, RestartType
<1>3. ASSUME NEW ok \in WriteOutcomes, NEW j \in Jobs, ConsumerStep(j, ok) PROVE TypeInv'
  BY <1>3, EnrichType, OpenIncidentType DEF ConsumerStep
<1>4. ASSUME NEW ok \in WriteOutcomes, NEW i \in Incidents, DiagnosisStep(i, ok) PROVE TypeInv'
  BY <1>4, ScheduleDiagnosisType, DiagnoseStartType, ThreadReadType, DiagnoseDoneType,
     DiagnoseFailType, AlertType, DiagnoseEndType, AutoRemediateStartType,
     AutoRemediateFinishType DEF DiagnosisStep
<1>5. ASSUME NEW ok \in WriteOutcomes, NEW r \in Requests, RequestStep(r, ok) PROVE TypeInv'
  BY <1>5, RemediateRefuseType, RemediateStartType, RemediateFinishType DEF RequestStep
<1>6. ASSUME NEW ok \in WriteOutcomes, HeartbeatStep(ok) PROVE TypeInv'
  BY <1>6, SweepResolveType, SweepEndType DEF HeartbeatStep
<1>7. CASE UNCHANGED vars
  BY <1>7 DEF TypeInv, TypeOK, WellReferenced, vars
<1> QED BY <1>1, <1>2, <1>3, <1>4, <1>5, <1>6, <1>7 DEF Next

(* Every reachable state is well typed. *)
THEOREM TypeCorrect == Spec => []TypeOK
<1>1. TypeInv => TypeOK
  BY DEF TypeInv
<1> QED BY <1>1, TypeInvInit, TypeInvNext, PTL DEF Spec

(* Whatever a coroutine kept across an await is still there when it goes on. *)
THEOREM ReferencesHold == Spec => []WellReferenced
<1>1. TypeInv => WellReferenced
  BY DEF TypeInv
<1> QED BY <1>1, TypeInvInit, TypeInvNext, PTL DEF Spec

-----------------------------------------------------------------------------
(* While the database works: open incidents and rows *)

RowInv == TypeInv /\ RowsAgree

RecordStep == [Record!Next]_RecordStage

(* A new manager over an empty database satisfies the agreement of objects and
   rows, and is an initial state of IncidentRecord. *)
LEMMA RowInvInit == Init => RowInv /\ Record!Init
<1> SUFFICES ASSUME Init PROVE RowInv /\ Record!Init
  OBVIOUS
<1>1. RowsAgree
  BY DEF Init, RowsAgree, ObjectsAgree, CopiesAgree, OpenAgree, TodoAgree, NoJobs,
         Addresses, Undiagnosed
<1>2. Record!Init
  BY DEF Init, Record!Init, RecordStage, Stage
<1> QED BY <1>1, <1>2, TypeInvInit DEF RowInv

(* Without database errors every put_incident succeeds. *)
LEMMA WritesSucceed ==
  ASSUME StoreMayFail = FALSE, NEW ok \in WriteOutcomes PROVE ok = TRUE
  BY DEF WriteOutcomes

(* Then a resolved incident is written. *)
LEMMA ResolutionSucceeds ==
  ASSUME StoreMayFail = FALSE, NEW incident, NEW ok \in WriteOutcomes, PutResolved(incident, ok)
  PROVE  store' = [store EXCEPT ![incident.id] = incident]
<1>1. ok = TRUE
  BY WritesSucceed
<1>2. Put(incident, TRUE)
  BY <1>1 DEF PutResolved
<1> QED BY <1>2 DEF Put

(* A row written one stage further, or at its stage, is a step of the record. *)
LEMMA WriteIsRecordStep ==
  ASSUME TypeOK, NEW incident \in IncidentObjects,
         store' = [store EXCEPT ![incident.id] = incident],
         \/ Stage(incident) = Stage(store[incident.id])
         \/ Stage(store[incident.id]) = "absent" /\ Stage(incident) = "open"
         \/ Stage(store[incident.id]) = "open" /\ Stage(incident) = "diagnosed"
         \/ Stage(store[incident.id]) = "diagnosed" /\ Stage(incident) = "resolved"
  PROVE  RecordStep
<1>1. incident.id \in Incidents
  BY DEF IncidentObjects
<1>2. /\ RecordStage = [i \in Incidents |-> Stage(store[i])]
      /\ RecordStage' = [i \in Incidents |-> Stage(store'[i])]
  BY DEF RecordStage
<1>3. RecordStage' = [RecordStage EXCEPT ![incident.id] = Stage(incident)]
  BY <1>1, <1>2 DEF TypeOK
<1>4. RecordStage[incident.id] = Stage(store[incident.id])
  BY <1>1, <1>2
<1>5. CASE Stage(incident) = Stage(store[incident.id])
  BY <1>1, <1>2, <1>3, <1>4, <1>5 DEF RecordStep
<1> QED BY <1>1, <1>3, <1>4, <1>5 DEF RecordStep, Record!Next, Record!Open, Record!Diagnose,
                          Record!Resolve, Record!Move

(* Steps that touch neither an object nor a row nor the open incidents. *)
LEMMA UntouchedRows ==
  ASSUME RowInv, UNCHANGED <<open, heap, store>>,
         \A i \in Incidents :
           /\ diag'[i] = "none" => diag[i] = "none"
           /\ diag'[i] \in Undiagnosed => diag[i] \in Undiagnosed,
         \A j \in Jobs : sweep'.todo[j] \in {sweep.todo[j], None}
  PROVE  RowsAgree' /\ RecordStep
<1>1. RecordStep
  BY DEF RecordStep, RecordStage
<1>2. ObjectsAgree'
  BY DEF RowInv, RowsAgree, ObjectsAgree
<1>3. CopiesAgree' /\ OpenAgree'
  BY DEF RowInv, RowsAgree, CopiesAgree, OpenAgree
<1>4. TodoAgree'
  BY DEF RowInv, RowsAgree, TodoAgree
<1> QED BY <1>1, <1>2, <1>3, <1>4 DEF RowsAgree

(* Time passing writes no row. *)
LEMMA QuietenRows == ASSUME RowInv, NEW j \in Jobs, Quieten(j) PROVE RowsAgree' /\ RecordStep
  BY UntouchedRows DEF Quieten

(* The steps of _diagnose that touch neither an object nor a row keep the
   agreement. *)
LEMMA QuietDiagnosisRows ==
  ASSUME RowInv, NEW i \in Incidents,
         \/ ScheduleDiagnosis(i) \/ ThreadRead(i) \/ DiagnoseFail(i)
         \/ Alert(i) \/ DiagnoseEnd(i)
  PROVE  RowsAgree' /\ RecordStep
<1>1. \A k \in Incidents :
        /\ diag'[k] = "none" => diag[k] = "none"
        /\ diag'[k] \in Undiagnosed => diag[k] \in Undiagnosed
  BY DEF RowInv, TypeInv, TypeOK, ScheduleDiagnosis, ThreadRead, DiagnoseFail, Alert,
         DiagnoseEnd, Undiagnosed
<1>2. UNCHANGED <<open, heap, store, sweep>>
  BY DEF ScheduleDiagnosis, ThreadRead, DiagnoseFail, Alert, DiagnoseEnd
<1> QED BY <1>1, <1>2, UntouchedRows

(* A refused POST /remediate writes no row. *)
LEMMA RemediateRefuseRows ==
  ASSUME RowInv, NEW r \in Requests, NEW i \in Incidents, RemediateRefuse(r, i)
  PROVE  RowsAgree' /\ RecordStep
  BY UntouchedRows DEF RemediateRefuse

(* The end of sweep writes no row. *)
LEMMA SweepEndRows == ASSUME RowInv, SweepEnd PROVE RowsAgree' /\ RecordStep
<1>1. \A j \in Jobs : sweep'.todo[j] = None
  BY DEF SweepEnd, NoJobs
<1> QED BY <1>1, UntouchedRows DEF SweepEnd

(* A restart leaves every row alone, and no object. *)
LEMMA RestartRows == ASSUME RowInv, Restart PROVE RowsAgree' /\ RecordStep
<1>1. RecordStep
  BY DEF RecordStep, RecordStage, Restart
<1>2. ObjectsAgree'
  BY DEF RowInv, RowsAgree, ObjectsAgree, Coherent, TypeInv, TypeOK, Restart, Undiagnosed, Addresses
<1>3. CopiesAgree' /\ OpenAgree' /\ TodoAgree'
  BY DEF CopiesAgree, OpenAgree, TodoAgree, Restart, NoJobs, Addresses
<1> QED BY <1>1, <1>2, <1>3 DEF RowsAgree

(* Opening an incident writes its first row. *)
LEMMA OpenIncidentRows ==
  ASSUME StoreMayFail = FALSE, RowInv, NEW i \in Incidents, NEW j \in Jobs,
         NEW batch \in Batches, NEW ok \in WriteOutcomes, OpenIncident(i, j, batch, ok)
  PROVE  RowsAgree' /\ RecordStep
<1> DEFINE incident == [id |-> i, job |-> j, status |-> "OPEN", anomalies |-> batch,
                        diagnosis |-> None, remediation |-> None]
<1>1. incident \in IncidentObjects /\ incident # None /\ i # None
  BY BatchesAssumption, NoneAssumption DEF IncidentObjects, Statuses, Addresses
<1>2. /\ heap' = [heap EXCEPT ![i] = incident]
      /\ store' = [store EXCEPT ![i] = incident]
      /\ open' = [open EXCEPT ![j] = i]
      /\ diag' = [diag EXCEPT ![i] = "opening"]
      /\ sweep'.todo = sweep.todo
  BY WritesSucceed DEF OpenIncident, Put, Hear, RowInv, TypeInv, TypeOK
<1>3. diag[i] = "none" /\ store[i] = None /\ heap[i] = None /\ i \in Addresses
  BY DEF OpenIncident, RowInv, TypeInv, WellReferenced, RowsAgree, ObjectsAgree, Addresses
<1>4. Coherent(incident) /\ Stage(incident) = "open"
  BY <1>1 DEF Coherent, Stage
<1>5. incident.id = i /\ incident.job = j /\ incident.status = "OPEN" /\ incident.remediation = None
  OBVIOUS
<1> HIDE DEF incident
<1>6. RecordStep
  BY <1>1, <1>2, <1>3, <1>4, <1>5, WriteIsRecordStep DEF Stage, RowInv, TypeInv
<1>7. ObjectsAgree'
  BY <1>1, <1>2, <1>3, <1>4, <1>5
     DEF RowInv, RowsAgree, ObjectsAgree, Coherent, TypeInv, TypeOK, Undiagnosed, Addresses
<1>8. CopiesAgree'
  BY <1>1, <1>2, <1>3, <1>5, AddressAssumption
     DEF RowInv, RowsAgree, CopiesAgree, Coherent, TypeInv, TypeOK, Addresses, IncidentObjects
<1>9. OpenAgree'
  BY <1>1, <1>2, <1>3, <1>5
     DEF RowInv, RowsAgree, OpenAgree, TypeInv, TypeOK, WellReferenced, Addresses
<1>10. TodoAgree'
  BY <1>1, <1>2, <1>3, <1>5
     DEF RowInv, RowsAgree, TodoAgree, TypeInv, TypeOK, WellReferenced, Addresses
<1> QED BY <1>6, <1>7, <1>8, <1>9, <1>10 DEF RowsAgree

(* Steps that write the status of the shared object and put no row. *)
LEMMA StatusRows ==
  ASSUME RowInv, NEW i \in Incidents, heap[i] # None, NEW status \in Statuses \ {"RESOLVED"},
         heap' = [heap EXCEPT ![i] = [heap[i] EXCEPT !.status = status]],
         heap[i].remediation = None <=> status \in {"OPEN", "DIAGNOSING"},
         UNCHANGED <<open, store, sweep>>,
         \A k \in Incidents :
           /\ diag'[k] = "none" => diag[k] = "none"
           /\ diag'[k] \in Undiagnosed => diag[k] \in Undiagnosed
  PROVE  RowsAgree' /\ RecordStep
<1> DEFINE incident == [heap[i] EXCEPT !.status = status]
<1>1. heap[i] \in IncidentObjects /\ i \in Addresses /\ i # None
  BY NoneAssumption DEF RowInv, TypeInv, TypeOK, Addresses
<1>2. /\ incident \in IncidentObjects
      /\ incident # None
      /\ incident.id = heap[i].id
      /\ incident.job = heap[i].job
      /\ incident.status = status
      /\ incident.diagnosis = heap[i].diagnosis
      /\ incident.remediation = heap[i].remediation
  BY <1>1, NoneAssumption DEF IncidentObjects
<1>3. Coherent(incident)
  BY <1>2 DEF RowInv, RowsAgree, ObjectsAgree, Coherent
<1>4. /\ heap'[i] = incident
      /\ \A a \in Addresses \ {i} : heap'[a] = heap[a]
      /\ \A r \in Requests : heap'[r] = heap[r]
  BY <1>1, AddressAssumption DEF RowInv, TypeInv, TypeOK, Addresses
<1> HIDE DEF incident
<1>5. RecordStep
  BY DEF RecordStep, RecordStage
<1>6. ObjectsAgree'
  BY <1>2, <1>3, <1>4 DEF RowInv, RowsAgree, ObjectsAgree, Coherent, Addresses
<1>7. CopiesAgree'
  BY <1>4 DEF RowInv, RowsAgree, CopiesAgree, Coherent
<1>8. OpenAgree'
  BY <1>2, <1>4 DEF RowInv, RowsAgree, OpenAgree, TypeInv, TypeOK, Addresses
<1>9. TodoAgree'
  BY <1>2, <1>4 DEF RowInv, RowsAgree, TodoAgree, TypeInv, TypeOK, Addresses
<1> QED BY <1>5, <1>6, <1>7, <1>8, <1>9 DEF RowsAgree

(* Marking an incident DIAGNOSING writes no row. *)
LEMMA DiagnoseStartRows ==
  ASSUME RowInv, NEW i \in Incidents, DiagnoseStart(i) PROVE RowsAgree' /\ RecordStep
<1>1. heap[i] # None /\ heap[i].remediation = None
  BY DEF RowInv, TypeInv, WellReferenced, RowsAgree, ObjectsAgree, DiagnoseStart, Undiagnosed
<1>2. \A k \in Incidents :
        /\ diag'[k] = "none" => diag[k] = "none"
        /\ diag'[k] \in Undiagnosed => diag[k] \in Undiagnosed
  BY DEF RowInv, TypeInv, TypeOK, DiagnoseStart, Undiagnosed
<1>3. "DIAGNOSING" \in Statuses \ {"RESOLVED"}
  BY DEF Statuses
<1> QED BY <1>1, <1>2, <1>3, StatusRows DEF DiagnoseStart

(* Marking an incident REMEDIATING for the policy writes no row. *)
LEMMA AutoRemediateStartRows ==
  ASSUME RowInv, NEW i \in Incidents, AutoRemediateStart(i) PROVE RowsAgree' /\ RecordStep
<1>1. heap[i] # None /\ heap[i].remediation # None
  BY DEF RowInv, TypeInv, WellReferenced, AutoRemediateStart, Proposed
<1>2. \A k \in Incidents :
        /\ diag'[k] = "none" => diag[k] = "none"
        /\ diag'[k] \in Undiagnosed => diag[k] \in Undiagnosed
  BY DEF RowInv, TypeInv, TypeOK, AutoRemediateStart, Undiagnosed
<1>3. "REMEDIATING" \in Statuses \ {"RESOLVED"}
  BY DEF Statuses
<1> QED BY <1>1, <1>2, <1>3, StatusRows DEF AutoRemediateStart

(* An accepted POST /remediate writes no row, and its copy agrees with the row
   it was loaded from. *)
LEMMA RemediateStartRows ==
  ASSUME RowInv, NEW r \in Requests, NEW i \in Incidents, RemediateStart(r, i)
  PROVE  RowsAgree' /\ RecordStep
<1>1. "REMEDIATING" \in Statuses \ {"RESOLVED"}
  BY DEF Statuses
<1>2. UNCHANGED <<open, store, sweep, diag>>
  BY DEF RemediateStart
<1>3. CASE IsOpen(i)
  <2>1. heap[i] # None /\ heap[i].remediation # None
    BY <1>3 DEF RemediateStart, Remediable, Found
  <2>2. heap' = [heap EXCEPT ![i] = [heap[i] EXCEPT !.status = "REMEDIATING"]]
    BY <1>3 DEF RemediateStart, Found
  <2> QED BY <1>1, <1>2, <2>1, <2>2, StatusRows
<1>4. CASE ~IsOpen(i)
  <2> DEFINE incident == [store[i] EXCEPT !.status = "REMEDIATING"]
  <2>1. store[i] \in IncidentObjects /\ store[i] # None /\ store[i].remediation # None
    BY <1>4 DEF RemediateStart, Remediable, Found, RowInv, TypeInv, TypeOK
  <2>2. /\ incident \in IncidentObjects
        /\ incident # None
        /\ incident.id = i
        /\ incident.status = "REMEDIATING"
        /\ incident.diagnosis = store[i].diagnosis
        /\ incident.remediation = store[i].remediation
    BY <2>1, NoneAssumption DEF IncidentObjects, Statuses, RowInv, RowsAgree, ObjectsAgree
  <2>3. Coherent(incident)
    BY <2>1, <2>2 DEF RowInv, RowsAgree, ObjectsAgree, Coherent
  <2>4. heap' = [heap EXCEPT ![r] = incident]
    BY <1>4 DEF RemediateStart, Found
  <2> HIDE DEF incident
  <2>5. /\ heap'[r] = incident
        /\ \A a \in Requests \ {r} : heap'[a] = heap[a]
        /\ \A k \in Incidents : heap'[k] = heap[k]
    BY <2>4, AddressAssumption DEF RowInv, TypeInv, TypeOK, Addresses
  <2>6. \A j \in Jobs : open[j] # i
    BY <1>4 DEF IsOpen, Range, RowInv, TypeInv, TypeOK
  <2>7. RecordStep
    BY <1>2 DEF RecordStep, RecordStage
  <2>8. ObjectsAgree'
    BY <1>2, <2>5 DEF RowInv, RowsAgree, ObjectsAgree, Coherent
  <2>9. CopiesAgree'
    BY <1>2, <2>1, <2>2, <2>3, <2>5, <2>6 DEF RowInv, RowsAgree, CopiesAgree, Coherent
  <2>10. OpenAgree' /\ TodoAgree'
    BY <1>2, <2>5 DEF RowInv, RowsAgree, OpenAgree, TodoAgree, TypeInv, TypeOK
  <2> QED BY <2>7, <2>8, <2>9, <2>10 DEF RowsAgree
<1> QED BY <1>3, <1>4

(* Enriching an open incident rewrites its row at the stage it has. *)
LEMMA EnrichRows ==
  ASSUME StoreMayFail = FALSE, RowInv, NEW j \in Jobs, NEW batch \in Batches,
         NEW ok \in WriteOutcomes, Enrich(j, batch, ok)
  PROVE  RowsAgree' /\ RecordStep
<1> DEFINE i == open[j]
<1>1. i \in Incidents /\ i \in Addresses /\ heap[i] \in IncidentObjects /\ i # None /\ heap[i] # None
  BY NoneAssumption DEF RowInv, TypeInv, TypeOK, WellReferenced, Enrich, Addresses
<1>2. /\ UNCHANGED <<open, diag>>
      /\ sweep'.todo = sweep.todo
  BY DEF Enrich, Hear, RowInv, TypeInv, TypeOK
<1>3. CASE UNCHANGED <<heap, store>>
  BY <1>2, <1>3, UntouchedRows
<1>4. CASE ~UNCHANGED <<heap, store>>
  <2>1. PICK pos \in InOrder(Unseen(batch, heap[i].anomalies)) :
          LET new      == [k \in DOMAIN pos |-> batch[pos[k]]]
              incident == Enriched(heap[i], new)
          IN  heap' = [heap EXCEPT ![i] = incident] /\ Put(incident, ok)
    BY <1>4 DEF Enrich
  <2> DEFINE new      == [k \in DOMAIN pos |-> batch[pos[k]]]
             incident == Enriched(heap[i], new)
  <2>2. heap[i].anomalies \o new \in Signals
    BY <1>1, EnrichedType DEF IncidentObjects
  <2> HIDE DEF new
  <2>3. /\ incident \in IncidentObjects
        /\ incident # None
        /\ incident.id = i
        /\ incident.job = heap[i].job
        /\ incident.status = heap[i].status
        /\ incident.diagnosis = heap[i].diagnosis
        /\ incident.remediation = heap[i].remediation
    BY <1>1, <2>2, NoneAssumption DEF Enriched, IncidentObjects, RowInv, RowsAgree, ObjectsAgree
  <2>4. heap' = [heap EXCEPT ![i] = incident] /\ store' = [store EXCEPT ![i] = incident]
    BY <2>1, <2>3, WritesSucceed DEF Put, new
  <2>5. Coherent(incident) /\ heap[i].job = j /\ incident.status # "RESOLVED"
        /\ store[i].status # "RESOLVED" /\ store[i] # None /\ Coherent(store[i])
        /\ (store[i].remediation = None <=> heap[i].remediation = None)
    BY <1>1, <2>3 DEF RowInv, RowsAgree, ObjectsAgree, OpenAgree, Coherent
  <2> HIDE DEF incident
  <2>6. /\ heap'[i] = incident /\ store'[i] = incident
        /\ \A a \in Addresses \ {i} : heap'[a] = heap[a]
        /\ \A k \in Incidents \ {i} : store'[k] = store[k]
        /\ \A r \in Requests : heap'[r] = heap[r]
    BY <1>1, <2>4, AddressAssumption DEF RowInv, TypeInv, TypeOK, Addresses
  <2>7. RecordStep
    <3>1. Stage(incident) = Stage(store[i])
      BY <2>3, <2>5 DEF Stage, Coherent
    <3> QED BY <2>3, <2>4, <3>1, WriteIsRecordStep DEF RowInv, TypeInv
  <2>8. ObjectsAgree'
    BY <1>2, <2>3, <2>5, <2>6 DEF RowInv, RowsAgree, ObjectsAgree, Coherent, Addresses
  <2>9. CopiesAgree'
    BY <1>1, <1>2, <2>6 DEF RowInv, RowsAgree, CopiesAgree, Coherent, TypeInv, TypeOK,
                            IncidentObjects, Addresses
  <2>10. OpenAgree'
    BY <1>2, <2>3, <2>5, <2>6 DEF RowInv, RowsAgree, OpenAgree, TypeInv, TypeOK, Addresses
  <2>11. TodoAgree'
    BY <1>2, <2>3, <2>6 DEF RowInv, RowsAgree, TodoAgree, TypeInv, TypeOK, Addresses
  <2> QED BY <2>7, <2>8, <2>9, <2>10, <2>11 DEF RowsAgree
<1> QED BY <1>3, <1>4

(* The verdict and the plan move the row from open to diagnosed. *)
LEMMA DiagnoseDoneRows ==
  ASSUME StoreMayFail = FALSE, RowInv, NEW i \in Incidents, NEW ok \in WriteOutcomes,
         DiagnoseDone(i, ok)
  PROVE  RowsAgree' /\ RecordStep
<1> DEFINE record   == [proposal |-> Propose(heap[i].anomalies),
                        status |-> "PROPOSED", audit |-> <<>>]
           incident == [heap[i] EXCEPT !.diagnosis = read[i], !.status = "DIAGNOSED",
                                       !.remediation = record]
<1>1. /\ heap[i] \in IncidentObjects
      /\ heap[i] # None
      /\ i \in Addresses
      /\ read[i] \in Signals
      /\ read[i] # None
      /\ diag[i] \in Undiagnosed
  <2>1. diag[i] = "analysed" /\ i \in Addresses
    BY DEF DiagnoseDone, Addresses
  <2>2. heap[i] # None /\ read[i] # None
    BY <2>1 DEF RowInv, TypeInv, WellReferenced, Undiagnosed
  <2> QED BY <2>1, <2>2 DEF RowInv, TypeInv, TypeOK, Undiagnosed
<1>2. record \in Records /\ record # None
  <2>1. record \in Records
    BY <1>1, ProposeType, EmptySeq DEF Records, IncidentObjects
  <2> HIDE DEF record
  <2> QED BY <2>1, NoneAssumption
<1>3. heap' = [heap EXCEPT ![i] = incident] /\ Put(incident, ok)
  BY DEF DiagnoseDone
<1> HIDE DEF record
<1>4. /\ heap[i].id = i
      /\ heap[i].remediation = None
      /\ store[i] # None
      /\ Stage(store[i]) = "open"
  BY <1>1 DEF RowInv, RowsAgree, ObjectsAgree, Coherent, Stage
<1>5. /\ incident \in IncidentObjects
      /\ incident # None
      /\ incident.id = i
      /\ incident.job = heap[i].job
      /\ incident.status = "DIAGNOSED"
      /\ incident.diagnosis # None
      /\ incident.remediation # None
  BY <1>1, <1>2, <1>4, NoneAssumption DEF IncidentObjects, Statuses
<1> HIDE DEF incident
<1>6. Coherent(incident) /\ Stage(incident) = "diagnosed"
  BY <1>5 DEF Coherent, Stage
<1>7. /\ store' = [store EXCEPT ![i] = incident]
      /\ UNCHANGED <<open, sweep>>
      /\ diag' = [diag EXCEPT ![i] = "diagnosed"]
  BY <1>3, <1>5, WritesSucceed DEF Put, DiagnoseDone
<1>8. /\ heap'[i] = incident
      /\ store'[i] = incident
      /\ \A a \in Addresses \ {i} : heap'[a] = heap[a]
      /\ \A k \in Incidents \ {i} : store'[k] = store[k] /\ diag'[k] = diag[k]
      /\ diag'[i] = "diagnosed"
      /\ \A r \in Requests : heap'[r] = heap[r]
  BY <1>1, <1>3, <1>7, AddressAssumption DEF RowInv, TypeInv, TypeOK, Addresses
<1>9. RecordStep
  BY <1>4, <1>5, <1>6, <1>7, WriteIsRecordStep DEF RowInv, TypeInv
<1>10. ObjectsAgree'
  BY <1>5, <1>6, <1>8
     DEF RowInv, RowsAgree, ObjectsAgree, Coherent, Addresses, Undiagnosed
<1>11. CopiesAgree'
  BY <1>5, <1>7, <1>8 DEF RowInv, RowsAgree, CopiesAgree, Coherent, TypeInv, TypeOK,
                          IncidentObjects, Addresses
<1>12. OpenAgree'
  BY <1>5, <1>7, <1>8 DEF RowInv, RowsAgree, OpenAgree, TypeInv, TypeOK, Addresses
<1>13. TodoAgree'
  BY <1>5, <1>7, <1>8 DEF RowInv, RowsAgree, TodoAgree, TypeInv, TypeOK, Addresses
<1> QED BY <1>9, <1>10, <1>11, <1>12, <1>13 DEF RowsAgree

(* An incident is resolved at an address a: its object there and its row become
   RESOLVED, and its job has it open no longer. *)
LEMMA ResolveRows ==
  ASSUME RowInv, NEW a \in Addresses, NEW incident \in IncidentObjects,
         heap[a] # None, heap[a].remediation # None,
         incident.id = heap[a].id, incident.job = heap[a].job,
         incident.status = "RESOLVED",
         incident.diagnosis = heap[a].diagnosis, incident.remediation # None,
         heap' = [heap EXCEPT ![a] = incident],
         store' = [store EXCEPT ![incident.id] = incident],
         open' \in [Jobs -> Incidents \cup {None}],
         \A j \in Jobs : open'[j] \in {open[j], None} /\ open'[j] # heap[a].id,
         \A j \in Jobs : sweep'.todo[j] # None => heap[sweep'.todo[j]].job = j
                                                /\ sweep'.todo[j] \in Incidents,
         \A k \in Incidents :
           /\ diag'[k] = "none" => diag[k] = "none"
           /\ diag'[k] \in Undiagnosed => diag[k] \in Undiagnosed
  PROVE  RowsAgree' /\ RecordStep
<1> DEFINE i == incident.id
<1>1. i \in Incidents /\ incident # None
  BY NoneAssumption DEF IncidentObjects
<1>2. a = i \/ a \in Requests
  BY DEF RowInv, RowsAgree, ObjectsAgree, Addresses
<1>3. store[i] # None /\ store[i].remediation # None /\ Coherent(heap[a])
  BY <1>1, <1>2 DEF RowInv, RowsAgree, ObjectsAgree, CopiesAgree
<1>4. Coherent(incident) /\ Stage(incident) = "resolved"
  BY <1>1, <1>3 DEF Coherent, Stage
<1>5. /\ heap'[a] = incident
      /\ store'[i] = incident
      /\ \A b \in Addresses \ {a} : heap'[b] = heap[b]
      /\ \A k \in Incidents \ {i} : store'[k] = store[k]
  BY <1>1 DEF RowInv, TypeInv, TypeOK
<1>6. RecordStep
  <2>1. Stage(store[i]) \in {"diagnosed", "resolved"}
    BY <1>1, <1>3 DEF Stage, RowInv, RowsAgree, ObjectsAgree, Coherent
  <2> QED BY <2>1, <1>4, WriteIsRecordStep DEF RowInv, TypeInv
<1>7. ObjectsAgree'
  <2> SUFFICES ASSUME NEW k \in Incidents
               PROVE  /\ heap'[k] # None =>
                           /\ heap'[k].id = k
                           /\ Coherent(heap'[k])
                           /\ store'[k] # None
                           /\ heap'[k].remediation = None <=> store'[k].remediation = None
                      /\ store'[k] # None => store'[k].id = k /\ Coherent(store'[k])
                      /\ diag'[k] = "none" => store'[k] = None
                      /\ diag'[k] \in Undiagnosed => heap'[k].remediation = None
    BY DEF ObjectsAgree, Coherent
  <2>1. k \in Addresses /\ (k = a => k = i)
    BY <1>2, AddressAssumption DEF Addresses
  <2>2. diag[i] # "none"
    BY <1>1, <1>3 DEF RowInv, RowsAgree, ObjectsAgree
  <2>3. diag[a] \notin Undiagnosed \/ a # i
    BY <1>1 DEF RowInv, RowsAgree, ObjectsAgree
  <2>4. heap[i] # None => heap[i].remediation # None
    BY <1>1, <1>3 DEF RowInv, RowsAgree, ObjectsAgree
  <2>5. CASE k = i
    BY <1>1, <1>2, <1>4, <1>5, <2>1, <2>2, <2>3, <2>4, <2>5
       DEF RowInv, RowsAgree, ObjectsAgree, Coherent
  <2>6. CASE k # i
    BY <1>5, <2>1, <2>6 DEF RowInv, RowsAgree, ObjectsAgree
  <2> QED BY <2>5, <2>6
<1>8. CopiesAgree'
  <2> SUFFICES ASSUME NEW r \in Requests, heap'[r] # None
               PROVE  /\ Coherent(heap'[r])
                      /\ heap'[r].remediation # None
                      /\ store'[heap'[r].id] # None
                      /\ store'[heap'[r].id].remediation # None
                      /\ \A j \in Jobs : open'[j] # heap'[r].id
    BY DEF CopiesAgree, Coherent
  <2>1. CASE r = a
    BY <1>1, <1>4, <1>5, <2>1
  <2>2. CASE r # a
    <3>1. heap'[r] = heap[r] /\ heap[r] \in IncidentObjects
      BY <1>5, <2>2 DEF Addresses, RowInv, TypeInv, TypeOK
    <3>2. heap[r].id \in Incidents /\ heap[r].id # None
      BY <3>1, NoneAssumption DEF IncidentObjects, Addresses
    <3> QED BY <1>1, <1>5, <3>1, <3>2 DEF RowInv, RowsAgree, CopiesAgree
  <2> QED BY <2>1, <2>2
<1>9. OpenAgree'
  <2> SUFFICES ASSUME NEW j \in Jobs, open'[j] # None
               PROVE  /\ heap'[open'[j]].job = j
                      /\ heap'[open'[j]].status # "RESOLVED"
                      /\ store'[open'[j]].status # "RESOLVED"
    BY DEF OpenAgree
  <2>1. open'[j] = open[j] /\ open[j] \in Incidents \ {i} /\ open[j] \in Addresses /\ open[j] # a
    BY <1>2, AddressAssumption DEF Addresses
  <2> QED BY <1>5, <2>1 DEF RowInv, RowsAgree, OpenAgree
<1>10. TodoAgree'
  <2> SUFFICES ASSUME NEW j \in Jobs, sweep'.todo[j] # None
               PROVE  heap'[sweep'.todo[j]].job = j
    BY DEF TodoAgree
  <2> QED BY <1>5 DEF Addresses
<1> QED BY <1>6, <1>7, <1>8, <1>9, <1>10 DEF RowsAgree

(* Nothing else is open under an incident's id once its job is popped. *)
LEMMA PoppedIsGone ==
  ASSUME RowInv, NEW a \in Addresses, heap[a] # None,
         open' = [open EXCEPT ![heap[a].job] = None]
  PROVE  \A j \in Jobs : open'[j] \in {open[j], None} /\ open'[j] # heap[a].id
<1>1. heap[a] \in IncidentObjects /\ heap[a].id # None
  BY NoneAssumption DEF RowInv, TypeInv, TypeOK, IncidentObjects, Addresses
<1>2. a \in Incidents => heap[a].id = a
  BY DEF RowInv, RowsAgree, ObjectsAgree
<1>3. a \in Requests => \A j \in Jobs : open[j] # heap[a].id
  BY DEF RowInv, RowsAgree, CopiesAgree
<1>4. \A j \in Jobs : a \in Incidents /\ open[j] = a => heap[a].job = j
  BY NoneAssumption DEF RowInv, RowsAgree, OpenAgree
<1>5. \A j \in Jobs : open'[j] = IF j = heap[a].job THEN None ELSE open[j]
  BY DEF RowInv, TypeInv, TypeOK
<1> QED BY <1>1, <1>2, <1>3, <1>4, <1>5 DEF Addresses

(* Applying a plan, on the open object or on a copy, moves the row to resolved
   or leaves it there. *)
LEMMA ApplyRows ==
  ASSUME StoreMayFail = FALSE, RowInv, NEW a \in Addresses,
         NEW approver \in {"operator", None}, NEW ok \in WriteOutcomes,
         Apply(a, approver, ok), heap[a] # None, heap[a].remediation # None,
         UNCHANGED sweep,
         \A k \in Incidents :
           /\ diag'[k] = "none" => diag[k] = "none"
           /\ diag'[k] \in Undiagnosed => diag[k] \in Undiagnosed
  PROVE  RowsAgree' /\ RecordStep
<1> DEFINE incident == Executed(heap[a], approver)
<1>1. heap[a] \in IncidentObjects
  BY DEF RowInv, TypeInv, TypeOK
<1>2. /\ incident \in IncidentObjects
      /\ incident.remediation # None
  BY <1>1, ExecutedType
<1>3. /\ incident.id = heap[a].id
      /\ incident.job = heap[a].job
      /\ incident.status = "RESOLVED"
      /\ incident.diagnosis = heap[a].diagnosis
  BY <1>1 DEF Executed, IncidentObjects
<1>4. /\ heap' = [heap EXCEPT ![a] = incident]
      /\ store' = [store EXCEPT ![incident.id] = incident]
      /\ open' = [open EXCEPT ![incident.job] = None]
  <2>1. PutResolved(incident, ok)
    BY DEF Apply
  <2> QED BY <2>1, WritesSucceed, ResolutionSucceeds DEF Apply
<1> HIDE DEF incident
<1>5. open' \in [Jobs -> Incidents \cup {None}]
  BY <1>4 DEF RowInv, TypeInv, TypeOK
<1>6. \A j \in Jobs : open'[j] \in {open[j], None} /\ open'[j] # heap[a].id
  BY <1>3, <1>4, PoppedIsGone
<1>7. \A j \in Jobs : sweep'.todo[j] # None => heap[sweep'.todo[j]].job = j
                                             /\ sweep'.todo[j] \in Incidents
  BY DEF RowInv, RowsAgree, TodoAgree, TypeInv, TypeOK
<1> QED BY <1>2, <1>3, <1>4, <1>5, <1>6, <1>7, ResolveRows

(* The policy's remediation keeps the agreement and moves the row forward. *)
LEMMA AutoRemediateFinishRows ==
  ASSUME StoreMayFail = FALSE, RowInv, NEW i \in Incidents, NEW ok \in WriteOutcomes,
         AutoRemediateFinish(i, ok)
  PROVE  RowsAgree' /\ RecordStep
<1>1. i \in Addresses /\ heap[i] # None /\ heap[i].remediation # None
  BY DEF RowInv, TypeInv, WellReferenced, AutoRemediateFinish, Proposed, Addresses
<1>2. \A k \in Incidents :
        /\ diag'[k] = "none" => diag[k] = "none"
        /\ diag'[k] \in Undiagnosed => diag[k] \in Undiagnosed
  BY DEF RowInv, TypeInv, TypeOK, AutoRemediateFinish, Undiagnosed
<1> QED BY <1>1, <1>2, ApplyRows DEF AutoRemediateFinish

(* An operator's remediation keeps the agreement and moves the row forward. *)
LEMMA RemediateFinishRows ==
  ASSUME StoreMayFail = FALSE, RowInv, NEW r \in Requests, NEW ok \in WriteOutcomes,
         RemediateFinish(r, ok)
  PROVE  RowsAgree' /\ RecordStep
<1>1. req[r].ref \in Addresses /\ heap[req[r].ref] # None /\ heap[req[r].ref].remediation # None
  BY DEF RowInv, TypeInv, TypeOK, WellReferenced, RemediateFinish
<1>2. PICK approver \in {"operator", None} : Apply(req[r].ref, approver, ok)
  BY ApproversAssumption DEF RemediateFinish
<1> QED BY <1>1, <1>2, ApplyRows DEF RemediateFinish

(* sweep keeps the agreement and moves the row forward. *)
LEMMA SweepResolveRows ==
  ASSUME StoreMayFail = FALSE, RowInv, NEW j \in Jobs, NEW ok \in WriteOutcomes,
         SweepResolve(j, ok)
  PROVE  RowsAgree' /\ RecordStep
<1> DEFINE i        == Pending[j]
           incident == [heap[i] EXCEPT !.status = "RESOLVED"]
<1>1. Pending \in [Jobs -> Incidents \cup {None}]
      /\ \A k \in Jobs : Pending[k] # None => heap[Pending[k]].job = k
  BY DEF RowInv, TypeInv, TypeOK, RowsAgree, OpenAgree, TodoAgree, Pending
<1>2. /\ i \in Incidents
      /\ i \in Addresses
      /\ heap[i] \in IncidentObjects
      /\ heap[i] # None
      /\ heap[i].status = "DIAGNOSED"
      /\ heap[i].job = j
  BY <1>1, NoneAssumption
     DEF RowInv, TypeInv, TypeOK, WellReferenced, SweepResolve, Expired, Pending, Addresses
<1>3. heap[i].remediation # None /\ heap[i].id = i
  BY <1>2 DEF RowInv, RowsAgree, ObjectsAgree, Coherent
<1>4. /\ incident \in IncidentObjects
      /\ incident.id = heap[i].id
      /\ incident.job = heap[i].job
      /\ incident.status = "RESOLVED"
      /\ incident.diagnosis = heap[i].diagnosis
      /\ incident.remediation # None
  BY <1>2, <1>3 DEF IncidentObjects, Statuses
<1>5. heap' = [heap EXCEPT ![i] = incident] /\ store' = [store EXCEPT ![incident.id] = incident]
  <2>1. heap' = [heap EXCEPT ![i] = incident] /\ PutResolved(incident, ok)
    BY DEF SweepResolve
  <2> QED BY <2>1, ResolutionSucceeds
<1> HIDE DEF incident
<1>6. \/ open' = [open EXCEPT ![heap[i].job] = None]
      \/ open' = open /\ open[j] = None
  BY <1>2, WritesSucceed DEF SweepResolve
<1>7. \A k \in Jobs : open'[k] \in {open[k], None} /\ open'[k] # heap[i].id
  <2>1. CASE open' = [open EXCEPT ![heap[i].job] = None]
    BY <1>2, <2>1, PoppedIsGone
  <2>2. CASE open' = open /\ open[j] = None
    <3>1. i # None
      BY <1>2, NoneAssumption
    <3> HIDE DEF i
    <3>2. ASSUME NEW k \in Jobs, open[k] = i PROVE FALSE
      <4>1. heap[open[k]].job = k
        BY <3>1, <3>2 DEF RowInv, RowsAgree, OpenAgree
      <4> QED BY <1>2, <2>2, <3>1, <3>2, <4>1
    <3> QED BY <1>3, <2>2, <3>2
  <2> QED BY <1>6, <2>1, <2>2
<1>8. open' \in [Jobs -> Incidents \cup {None}]
  BY <1>6 DEF RowInv, TypeInv, TypeOK
<1>9. \A k \in Jobs : sweep'.todo[k] \in {Pending[k], None}
  <2>1. \/ \E unfit \in SUBSET Jobs :
             sweep'.todo = [k \in Jobs |-> IF k \in unfit \cup {j} THEN None ELSE Pending[k]]
        \/ sweep'.todo = NoJobs
    BY DEF SweepResolve
  <2> HIDE DEF i
  <2> QED BY <2>1 DEF NoJobs
<1>10. \A k \in Jobs : sweep'.todo[k] # None => heap[sweep'.todo[k]].job = k
                                              /\ sweep'.todo[k] \in Incidents
  BY <1>1, <1>9
<1>11. UNCHANGED diag
  BY DEF SweepResolve
<1> HIDE DEF i
<1> QED BY <1>2, <1>3, <1>4, <1>5, <1>7, <1>8, <1>10, <1>11, ResolveRows

(* Every step keeps the agreement of objects and rows and is a step of
   IncidentRecord or leaves it alone. *)
LEMMA RowInvNext ==
  ASSUME StoreMayFail = FALSE PROVE RowInv /\ [Next]_vars => RowInv' /\ RecordStep
<1> SUFFICES ASSUME RowInv, [Next]_vars PROVE RowsAgree' /\ RecordStep
  BY TypeInvNext DEF RowInv
<1>1. ASSUME NEW j \in Jobs, Quieten(j) PROVE RowsAgree' /\ RecordStep
  BY <1>1, QuietenRows
<1>2. CASE Restart
  BY <1>2, RestartRows
<1>3. ASSUME NEW ok \in WriteOutcomes, NEW j \in Jobs, ConsumerStep(j, ok)
      PROVE  RowsAgree' /\ RecordStep
  BY <1>3, EnrichRows, OpenIncidentRows DEF ConsumerStep
<1>4. ASSUME NEW ok \in WriteOutcomes, NEW i \in Incidents, DiagnosisStep(i, ok)
      PROVE  RowsAgree' /\ RecordStep
  BY <1>4, QuietDiagnosisRows, DiagnoseStartRows, DiagnoseDoneRows,
     AutoRemediateStartRows, AutoRemediateFinishRows DEF DiagnosisStep
<1>5. ASSUME NEW ok \in WriteOutcomes, NEW r \in Requests, RequestStep(r, ok)
      PROVE  RowsAgree' /\ RecordStep
  BY <1>5, RemediateRefuseRows, RemediateStartRows, RemediateFinishRows DEF RequestStep
<1>6. ASSUME NEW ok \in WriteOutcomes, HeartbeatStep(ok) PROVE RowsAgree' /\ RecordStep
  BY <1>6, SweepResolveRows, SweepEndRows DEF HeartbeatStep
<1>7. CASE UNCHANGED vars
  BY <1>7, UntouchedRows DEF vars
<1> QED BY <1>1, <1>2, <1>3, <1>4, <1>5, <1>6, <1>7 DEF Next

(* While the database works, _open holds no resolved incident, whatever the
   operators, the policy, the sweep and restarts do (workflow.py:61). *)
THEOREM OpenUnresolved ==
  ASSUME StoreMayFail = FALSE PROVE Spec => []OpenIsUnresolved
<1>1. RowInv => OpenIsUnresolved
  BY DEF RowInv, RowsAgree, OpenAgree, OpenIsUnresolved
<1>2. Init => RowInv
  BY RowInvInit
<1>3. RowInv /\ [Next]_vars => RowInv'
  BY RowInvNext
<1> QED BY <1>1, <1>2, <1>3, PTL DEF Spec

(* While the database works, the row of every incident goes through the life
   of IncidentRecord, one stage after the other (workflow.py:6). *)
THEOREM RowsMoveForward ==
  ASSUME StoreMayFail = FALSE PROVE Spec => RecordForward
<1>1. Init => RowInv /\ Record!Init
  BY RowInvInit
<1>2. RowInv /\ [Next]_vars => RowInv' /\ [Record!Next]_RecordStage
  BY RowInvNext DEF RecordStep
<1> QED BY <1>1, <1>2, PTL DEF Spec, RecordForward, Record!Spec

(* While the database works, the objects in memory, the copies of requests and
   the rows agree on how far each incident has come (workflow.py:61, :137-139). *)
THEOREM RowsStayAgreed ==
  ASSUME StoreMayFail = FALSE PROVE Spec => []RowsAgree
<1>1. RowInv => RowsAgree
  BY DEF RowInv
<1>2. Init => RowInv
  BY RowInvInit
<1>3. RowInv /\ [Next]_vars => RowInv'
  BY RowInvNext
<1> QED BY <1>1, <1>2, <1>3, PTL DEF Spec

-----------------------------------------------------------------------------
(* The record *)

(* A verdict and its plan come together. *)
Paired(incident) == incident.diagnosis = None <=> incident.remediation = None

(* An object has the verdict and the plan of its row, once the row has one. *)
Follows(incident, row) ==
  row # None /\ row.diagnosis # None =>
    /\ incident.diagnosis = row.diagnosis
    /\ incident.remediation # None
    /\ incident.remediation.proposal = row.remediation.proposal

(* Every writer's object follows its row, copies are of diagnosed rows only,
   and a diagnosis under way is of an incident without one. *)
SettledInv ==
  /\ TypeInv
  /\ \A i \in Incidents :
       /\ heap[i] # None => heap[i].id = i
       /\ store[i] # None => store[i].id = i /\ Paired(store[i])
       /\ diag[i] \in Undiagnosed => heap[i].diagnosis = None
       /\ diag[i] = "none" => store[i] = None
  /\ \A a \in Addresses : heap[a] # None =>
       Paired(heap[a]) /\ Follows(heap[a], store[heap[a].id])
  /\ \A r \in Requests : heap[r] # None =>
       store[heap[r].id] # None /\ store[heap[r].id].diagnosis # None

VerdictStep ==
  \A i \in Incidents : store[i] # None /\ store[i].diagnosis # None =>
    /\ store'[i] # None
    /\ store'[i].diagnosis = store[i].diagnosis
    /\ store'[i].remediation.proposal = store[i].remediation.proposal


(* Steps that write neither an object nor a row. *)
LEMMA QuietSettled ==
  ASSUME SettledInv, TypeInv', UNCHANGED <<heap, store>>,
         \A i \in Incidents :
           /\ diag'[i] = "none" => diag[i] = "none"
           /\ diag'[i] \in Undiagnosed => diag[i] \in Undiagnosed
  PROVE  SettledInv' /\ VerdictStep
  BY DEF SettledInv, VerdictStep

(* A step that rewrites one object, keeping its verdict and its plan, and may
   save it. *)
LEMMA RewriteSettled ==
  ASSUME SettledInv, TypeInv', NEW a \in Addresses, NEW incident \in IncidentObjects,
         heap[a] # None, incident.id = heap[a].id, incident.diagnosis = heap[a].diagnosis,
         incident.remediation = None <=> heap[a].remediation = None,
         heap[a].remediation # None =>
           incident.remediation.proposal = heap[a].remediation.proposal,
         heap' = [heap EXCEPT ![a] = incident],
         UNCHANGED store \/ store' = [store EXCEPT ![incident.id] = incident],
         \A i \in Incidents :
           /\ diag'[i] = "none" => diag[i] = "none"
           /\ diag'[i] \in Undiagnosed => diag[i] \in Undiagnosed
  PROVE  SettledInv' /\ VerdictStep
<1> DEFINE i == incident.id
<1>1. i \in Incidents /\ i \in Addresses /\ incident # None
  BY NoneAssumption DEF IncidentObjects, Addresses
<1>2. /\ heap \in [Addresses -> IncidentObjects \cup {None}]
      /\ store \in [Incidents -> IncidentObjects \cup {None}]
  BY DEF SettledInv, TypeInv, TypeOK
<1>3. /\ Paired(heap[a]) /\ Follows(heap[a], store[i])
      /\ a \in Requests => store[i] # None /\ store[i].diagnosis # None
      /\ a \in Incidents => a = i
  BY DEF SettledInv
<1>4. Paired(incident) /\ Follows(incident, store[i])
  BY <1>3 DEF Paired, Follows
<1> HIDE DEF i
<1>5. VerdictStep
  <2>1. CASE UNCHANGED store
    BY <2>1 DEF VerdictStep
  <2>2. CASE store' = [store EXCEPT ![i] = incident]
    BY <1>1, <1>2, <1>4, <2>2 DEF VerdictStep, Follows
  <2> QED BY <2>1, <2>2 DEF i
<1>6. \A k \in Incidents : store'[k] = store[k] \/ (k = i /\ store'[k] = incident)
  BY <1>1, <1>2 DEF i
<1>7. \A b \in Addresses : heap'[b] = IF b = a THEN incident ELSE heap[b]
  BY <1>2
<1>8. \A k \in Incidents :
        /\ heap'[k] # None => heap'[k].id = k
        /\ store'[k] # None => store'[k].id = k /\ Paired(store'[k])
        /\ diag'[k] \in Undiagnosed => heap'[k].diagnosis = None
        /\ diag'[k] = "none" => store'[k] = None
  <2> SUFFICES ASSUME NEW k \in Incidents
               PROVE  /\ heap'[k] # None => heap'[k].id = k
                      /\ store'[k] # None => store'[k].id = k /\ Paired(store'[k])
                      /\ diag'[k] \in Undiagnosed => heap'[k].diagnosis = None
                      /\ diag'[k] = "none" => store'[k] = None
    OBVIOUS
  <2>1. k \in Addresses
    BY DEF Addresses
  <2>2. heap'[k] # None => heap'[k].id = k
    BY <1>3, <1>7, <2>1 DEF SettledInv, i
  <2>3. store'[k] # None => store'[k].id = k /\ Paired(store'[k])
    BY <1>4, <1>6 DEF SettledInv, i
  <2>4. diag'[k] \in Undiagnosed => heap'[k].diagnosis = None
    BY <1>7, <2>1 DEF SettledInv
  <2>5. diag'[k] = "none" => store'[k] = None
    <3>1. k = i /\ diag[k] = "none" => FALSE
      <4>1. CASE a \in Incidents
        BY <1>3, <4>1 DEF SettledInv, TypeInv, WellReferenced
      <4>2. CASE a \in Requests
        BY <1>3, <4>2 DEF SettledInv
      <4> QED BY <4>1, <4>2 DEF Addresses
    <3> QED BY <1>6, <3>1 DEF SettledInv
  <2> QED BY <2>2, <2>3, <2>4, <2>5
<1>9. \A b \in Addresses : heap'[b] # None =>
        Paired(heap'[b]) /\ Follows(heap'[b], store'[heap'[b].id])
  <2> SUFFICES ASSUME NEW b \in Addresses, heap'[b] # None
               PROVE  Paired(heap'[b]) /\ Follows(heap'[b], store'[heap'[b].id])
    OBVIOUS
  <2>1. CASE b = a
    <3>1. heap'[b] = incident /\ incident.id = i /\ (store'[i] = store[i] \/ store'[i] = incident)
      BY <1>1, <1>6, <1>7, <2>1 DEF i
    <3>2. Follows(incident, incident)
      BY <1>4 DEF Follows, Paired
    <3> QED BY <1>4, <3>1, <3>2
  <2>2. CASE b # a
    <3>1. heap'[b] = heap[b] /\ heap[b].id \in Incidents
      BY <1>2, <1>7, <2>2 DEF IncidentObjects
    <3>2. Paired(heap[b]) /\ Follows(heap[b], store[heap[b].id])
      BY <3>1 DEF SettledInv
    <3>3. CASE store'[heap[b].id] = store[heap[b].id]
      BY <3>1, <3>2, <3>3
    <3>4. CASE heap[b].id = i /\ store'[i] = incident
      <4>1. store[i] # None /\ store[i].diagnosis # None
        <5>1. CASE a \in Requests
          BY <1>3, <5>1
        <5>2. CASE b \in Requests
          BY <3>1, <3>4, <5>2 DEF SettledInv
        <5>3. CASE a \in Incidents /\ b \in Incidents
          BY <1>3, <2>2, <3>1, <3>4, <5>3 DEF SettledInv
        <5> QED BY <5>1, <5>2, <5>3 DEF Addresses
      <4> QED BY <1>4, <3>1, <3>2, <3>4, <4>1 DEF Follows
    <3> QED BY <1>6, <3>1, <3>3, <3>4
  <2> QED BY <2>1, <2>2
<1>10. \A r \in Requests : heap'[r] # None =>
         store'[heap'[r].id] # None /\ store'[heap'[r].id].diagnosis # None
  <2> SUFFICES ASSUME NEW r \in Requests, heap'[r] # None
               PROVE  store'[heap'[r].id] # None /\ store'[heap'[r].id].diagnosis # None
    OBVIOUS
  <2>1. r \in Addresses /\ heap[r] # None /\ heap'[r].id = heap[r].id
    BY <1>7 DEF Addresses
  <2>2. store[heap[r].id] # None /\ store[heap[r].id].diagnosis # None /\ heap[r].id \in Incidents
    BY <1>2, <2>1 DEF SettledInv, IncidentObjects
  <2> QED BY <1>5, <2>1, <2>2 DEF VerdictStep
<1> QED BY <1>5, <1>8, <1>9, <1>10 DEF SettledInv

(* Saving is leaving the row, or replacing it. *)
LEMMA PutCases ==
  ASSUME NEW incident, NEW ok, Put(incident, ok)
  PROVE  UNCHANGED store \/ store' = [store EXCEPT ![incident.id] = incident]
  BY DEF Put

(* A new incident has nothing to follow. *)
LEMMA OpenIncidentSettled ==
  ASSUME SettledInv, TypeInv', NEW i \in Incidents, NEW j \in Jobs, NEW batch \in Batches,
         NEW ok \in WriteOutcomes, OpenIncident(i, j, batch, ok)
  PROVE  SettledInv' /\ VerdictStep
<1> DEFINE incident == [id |-> i, job |-> j, status |-> "OPEN", anomalies |-> batch,
                        diagnosis |-> None, remediation |-> None]
<1>1. incident.id = i /\ incident.diagnosis = None /\ incident.remediation = None
  OBVIOUS
<1>2. /\ heap' = [heap EXCEPT ![i] = incident]
      /\ UNCHANGED store \/ store' = [store EXCEPT ![i] = incident]
      /\ diag[i] = "none"
      /\ diag' = [diag EXCEPT ![i] = IF ok THEN "opening" ELSE "failed"]
  BY DEF OpenIncident, Put
<1> HIDE DEF incident
<1>3. /\ heap \in [Addresses -> IncidentObjects \cup {None}]
      /\ store \in [Incidents -> IncidentObjects \cup {None}]
      /\ diag \in [Incidents -> {"none", "opening", "scheduled", "announced", "analysed",
                                 "diagnosed", "alerted", "executing", "done", "failed", "lost"}]
      /\ i \in Addresses
  BY DEF SettledInv, TypeInv, TypeOK, Addresses
<1>4. store[i] = None
  BY <1>2 DEF SettledInv
<1>5. VerdictStep
  BY <1>2, <1>3, <1>4 DEF VerdictStep
<1>6. \A k \in Incidents : store'[k] = store[k] \/ (k = i /\ store'[k] = incident)
  BY <1>2, <1>3
<1>7. \A b \in Addresses : heap'[b] = IF b = i THEN incident ELSE heap[b]
  BY <1>2, <1>3
<1>8. ASSUME NEW k \in Incidents
      PROVE  /\ heap'[k] # None => heap'[k].id = k
             /\ store'[k] # None => store'[k].id = k /\ Paired(store'[k])
             /\ diag'[k] \in Undiagnosed => heap'[k].diagnosis = None
             /\ diag'[k] = "none" => store'[k] = None
  <2>1. k \in Addresses
    BY DEF Addresses
  <2>2. CASE k = i
    <3>1. diag'[k] # "none" /\ heap'[k] = incident
      BY <1>2, <1>3, <1>7, <2>1, <2>2
    <3> QED BY <1>1, <1>4, <1>6, <2>2, <3>1 DEF Paired
  <2>3. CASE k # i
    <3>1. diag'[k] = diag[k] /\ heap'[k] = heap[k] /\ store'[k] = store[k]
      BY <1>2, <1>3, <1>6, <1>7, <2>1, <2>3
    <3> QED BY <3>1 DEF SettledInv
  <2> QED BY <2>2, <2>3
<1>9. ASSUME NEW b \in Addresses, heap'[b] # None
      PROVE  Paired(heap'[b]) /\ Follows(heap'[b], store'[heap'[b].id])
  <2>1. CASE b = i
    BY <1>1, <1>4, <1>6, <1>7, <2>1 DEF Paired, Follows
  <2>2. CASE b # i
    <3>1. heap'[b] = heap[b] /\ heap[b].id \in Incidents
      BY <1>3, <1>7, <1>9, <2>2 DEF IncidentObjects
    <3>2. store'[heap[b].id] = store[heap[b].id] \/ store'[heap[b].id] = incident
      BY <1>6, <3>1
    <3>3. Paired(heap[b]) /\ Follows(heap[b], store[heap[b].id])
      BY <1>9, <3>1 DEF SettledInv
    <3> QED BY <1>1, <3>1, <3>2, <3>3 DEF Follows
  <2> QED BY <2>1, <2>2
<1>10. ASSUME NEW r \in Requests, heap'[r] # None
       PROVE  store'[heap'[r].id] # None /\ store'[heap'[r].id].diagnosis # None
  <2>1. r \in Addresses /\ r # i
    BY AddressAssumption DEF Addresses
  <2>2. heap'[r] = heap[r] /\ heap[r].id \in Incidents
    BY <1>3, <1>7, <1>10, <2>1 DEF IncidentObjects
  <2>3. store[heap[r].id] # None /\ store[heap[r].id].diagnosis # None
    BY <1>10, <2>2 DEF SettledInv
  <2> QED BY <1>5, <2>2, <2>3 DEF VerdictStep
<1> QED BY <1>5, <1>8, <1>9, <1>10 DEF SettledInv

(* _diagnose writes its verdict once: the row has none, and nobody a copy. *)
LEMMA DiagnoseDoneSettled ==
  ASSUME SettledInv, TypeInv', NEW i \in Incidents, NEW ok \in WriteOutcomes, DiagnoseDone(i, ok)
  PROVE  SettledInv' /\ VerdictStep
<1> DEFINE record   == [proposal |-> Propose(heap[i].anomalies),
                        status |-> "PROPOSED", audit |-> <<>>]
           incident == [heap[i] EXCEPT !.diagnosis = read[i], !.status = "DIAGNOSED",
                                       !.remediation = record]
<1>1. heap[i] \in IncidentObjects /\ heap[i] # None /\ i \in Addresses /\ read[i] \in Signals
  BY NoneAssumption DEF SettledInv, TypeInv, TypeOK, WellReferenced, DiagnoseDone, Undiagnosed,
                        Addresses
<1>2. record \in Records /\ record # None /\ read[i] # None
  <2>1. record \in Records
    BY <1>1, ProposeType, EmptySeq DEF Records, IncidentObjects
  <2> HIDE DEF record
  <2> QED BY <1>1, <2>1, NoneAssumption
<1>3. /\ diag[i] = "analysed"
      /\ diag' = [diag EXCEPT ![i] = IF ok THEN "diagnosed" ELSE "failed"]
      /\ heap' = [heap EXCEPT ![i] = incident]
      /\ UNCHANGED store \/ store' = [store EXCEPT ![incident.id] = incident]
  BY DEF DiagnoseDone, Put
<1> HIDE DEF record
<1>4. incident.id = heap[i].id /\ incident.diagnosis = read[i] /\ incident.remediation = record
  BY <1>1 DEF IncidentObjects
<1> HIDE DEF incident
<1>5. heap[i].id = i /\ heap[i].diagnosis = None /\ Follows(heap[i], store[i])
  BY <1>1, <1>3 DEF SettledInv, Undiagnosed
<1>6. ~(store[i] # None /\ store[i].diagnosis # None)
  BY <1>5 DEF Follows
<1>7. Paired(incident) /\ Follows(incident, incident) /\ Follows(incident, store[i])
  BY <1>2, <1>4, <1>6 DEF Paired, Follows
<1>8. /\ heap \in [Addresses -> IncidentObjects \cup {None}]
      /\ store \in [Incidents -> IncidentObjects \cup {None}]
      /\ \A k \in Incidents : k # i => diag'[k] = diag[k]
      /\ diag'[i] \in {"diagnosed", "failed"}
  BY <1>3 DEF SettledInv, TypeInv, TypeOK
<1>9. VerdictStep
  BY <1>3, <1>4, <1>5, <1>6, <1>8 DEF VerdictStep
<1>10. \A k \in Incidents : store'[k] = store[k] \/ (k = i /\ store'[k] = incident)
  BY <1>3, <1>4, <1>5, <1>8
<1>11. \A b \in Addresses : heap'[b] = IF b = i THEN incident ELSE heap[b]
  BY <1>3, <1>8
<1>12. ASSUME NEW k \in Incidents
       PROVE  /\ heap'[k] # None => heap'[k].id = k
              /\ store'[k] # None => store'[k].id = k /\ Paired(store'[k])
              /\ diag'[k] \in Undiagnosed => heap'[k].diagnosis = None
              /\ diag'[k] = "none" => store'[k] = None
  <2>1. k \in Addresses
    BY DEF Addresses
  <2>2. CASE k = i
    BY <1>4, <1>5, <1>7, <1>8, <1>10, <1>11, <2>1, <2>2 DEF SettledInv, Undiagnosed
  <2>3. CASE k # i
    <3>1. diag'[k] = diag[k] /\ heap'[k] = heap[k] /\ store'[k] = store[k]
      BY <1>8, <1>10, <1>11, <2>1, <2>3
    <3> QED BY <3>1 DEF SettledInv
  <2> QED BY <2>2, <2>3
<1>13. ASSUME NEW b \in Addresses, heap'[b] # None
       PROVE  Paired(heap'[b]) /\ Follows(heap'[b], store'[heap'[b].id])
  <2>1. CASE b = i
    BY <1>4, <1>5, <1>7, <1>10, <1>11, <2>1
  <2>2. CASE b # i
    <3>1. heap'[b] = heap[b] /\ heap[b].id \in Incidents
      BY <1>8, <1>11, <1>13, <2>2 DEF IncidentObjects
    <3>2. heap[b].id # i
      <4>1. CASE b \in Incidents
        BY <1>13, <2>2, <3>1, <4>1 DEF SettledInv
      <4>2. CASE b \in Requests
        BY <1>6, <1>13, <3>1, <4>2 DEF SettledInv
      <4> QED BY <4>1, <4>2 DEF Addresses
    <3>3. store'[heap[b].id] = store[heap[b].id]
      BY <1>10, <3>1, <3>2
    <3> QED BY <1>13, <3>1, <3>3 DEF SettledInv
  <2> QED BY <2>1, <2>2
<1>14. ASSUME NEW r \in Requests, heap'[r] # None
       PROVE  store'[heap'[r].id] # None /\ store'[heap'[r].id].diagnosis # None
  <2>1. r \in Addresses /\ r # i
    BY AddressAssumption DEF Addresses
  <2>2. heap'[r] = heap[r] /\ heap[r].id \in Incidents
    BY <1>8, <1>11, <1>14, <2>1 DEF IncidentObjects
  <2>3. store[heap[r].id] # None /\ store[heap[r].id].diagnosis # None
    BY <1>14, <2>2 DEF SettledInv
  <2> QED BY <1>9, <2>2, <2>3 DEF VerdictStep
<1> QED BY <1>9, <1>12, <1>13, <1>14 DEF SettledInv

(* A status over the object changes neither verdict nor plan. *)
LEMMA StatusSettled ==
  ASSUME NEW incident \in IncidentObjects, NEW status \in Statuses
  PROVE  LET after == [incident EXCEPT !.status = status]
         IN  /\ after \in IncidentObjects
             /\ after # None
             /\ after.id = incident.id
             /\ after.diagnosis = incident.diagnosis
             /\ after.remediation = incident.remediation
  BY NoneAssumption DEF IncidentObjects

LEMMA DiagnoseStartSettled ==
  ASSUME SettledInv, TypeInv', NEW i \in Incidents, DiagnoseStart(i)
  PROVE  SettledInv' /\ VerdictStep
<1>1. heap[i] \in IncidentObjects /\ heap[i] # None /\ i \in Addresses
  BY NoneAssumption DEF SettledInv, TypeInv, TypeOK, WellReferenced, DiagnoseStart, Undiagnosed,
                        Addresses
<1> DEFINE incident == [heap[i] EXCEPT !.status = "DIAGNOSING"]
<1>2. /\ incident \in IncidentObjects /\ incident.remediation = heap[i].remediation
      /\ incident.id = heap[i].id /\ incident.diagnosis = heap[i].diagnosis
  BY <1>1, StatusSettled DEF Statuses
<1>3. heap' = [heap EXCEPT ![i] = incident] /\ UNCHANGED store
  BY DEF DiagnoseStart
<1>4. \A k \in Incidents :
        /\ diag'[k] = "none" => diag[k] = "none"
        /\ diag'[k] \in Undiagnosed => diag[k] \in Undiagnosed
  BY DEF DiagnoseStart, Undiagnosed, SettledInv, TypeInv, TypeOK
<1> HIDE DEF incident
<1> QED BY <1>1, <1>2, <1>3, <1>4, RewriteSettled

LEMMA AutoRemediateStartSettled ==
  ASSUME SettledInv, TypeInv', NEW i \in Incidents, AutoRemediateStart(i)
  PROVE  SettledInv' /\ VerdictStep
<1>1. heap[i] \in IncidentObjects /\ heap[i] # None /\ i \in Addresses
  BY NoneAssumption DEF SettledInv, TypeInv, TypeOK, WellReferenced, AutoRemediateStart, Proposed,
                        Addresses
<1> DEFINE incident == [heap[i] EXCEPT !.status = "REMEDIATING"]
<1>2. /\ incident \in IncidentObjects /\ incident.remediation = heap[i].remediation
      /\ incident.id = heap[i].id /\ incident.diagnosis = heap[i].diagnosis
  BY <1>1, StatusSettled DEF Statuses
<1>3. heap' = [heap EXCEPT ![i] = incident] /\ UNCHANGED store
  BY DEF AutoRemediateStart
<1>4. \A k \in Incidents :
        /\ diag'[k] = "none" => diag[k] = "none"
        /\ diag'[k] \in Undiagnosed => diag[k] \in Undiagnosed
  BY DEF AutoRemediateStart, Undiagnosed, SettledInv, TypeInv, TypeOK
<1> HIDE DEF incident
<1> QED BY <1>1, <1>2, <1>3, <1>4, RewriteSettled

LEMMA EnrichSettled ==
  ASSUME SettledInv, TypeInv', NEW j \in Jobs, NEW batch \in Batches, NEW ok \in WriteOutcomes,
         Enrich(j, batch, ok)
  PROVE  SettledInv' /\ VerdictStep
<1>1. open[j] \in Addresses /\ heap[open[j]] \in IncidentObjects /\ heap[open[j]] # None
  BY NoneAssumption DEF SettledInv, TypeInv, TypeOK, WellReferenced, Enrich, Addresses
<1>2. PICK pos \in InOrder(Unseen(batch, heap[open[j]].anomalies)) :
        LET new      == [k \in DOMAIN pos |-> batch[pos[k]]]
            incident == Enriched(heap[open[j]], new)
        IN  IF new = <<>>
            THEN UNCHANGED <<heap, store, consumer>>
            ELSE /\ heap' = [heap EXCEPT ![open[j]] = incident]
                 /\ Put(incident, ok)
                 /\ consumer' = IF ok THEN "up" ELSE "dead"
  BY DEF Enrich
<1> DEFINE new      == [k \in DOMAIN pos |-> batch[pos[k]]]
           incident == Enriched(heap[open[j]], new)
<1>3. UNCHANGED diag
  BY DEF Enrich
<1>4. CASE UNCHANGED <<heap, store>>
  BY <1>3, <1>4, QuietSettled
<1>5. CASE heap' = [heap EXCEPT ![open[j]] = incident] /\ Put(incident, ok)
  <2>1. heap[open[j]].anomalies \o new \in Signals
    BY <1>1, EnrichedType DEF IncidentObjects
  <2> HIDE DEF new
  <2>2. /\ incident \in IncidentObjects /\ incident.remediation = heap[open[j]].remediation
        /\ incident.id = heap[open[j]].id /\ incident.diagnosis = heap[open[j]].diagnosis
    BY <1>1, <2>1 DEF Enriched, IncidentObjects
  <2> HIDE DEF incident
  <2> QED BY <1>1, <1>3, <1>5, <2>2, PutCases, RewriteSettled
<1> QED BY <1>2, <1>4, <1>5

(* A run keeps verdict and plan. *)
LEMMA ApplySettled ==
  ASSUME SettledInv, TypeInv', NEW a \in Addresses, NEW approver \in {"operator", None},
         NEW ok \in WriteOutcomes, Apply(a, approver, ok),
         heap[a] # None, heap[a].remediation # None,
         \A i \in Incidents :
           /\ diag'[i] = "none" => diag[i] = "none"
           /\ diag'[i] \in Undiagnosed => diag[i] \in Undiagnosed
  PROVE  SettledInv' /\ VerdictStep
<1> DEFINE incident == Executed(heap[a], approver)
<1>1. heap[a] \in IncidentObjects /\ heap[a].remediation \in Records
  BY DEF SettledInv, TypeInv, TypeOK, IncidentObjects
<1>2. incident \in IncidentObjects /\ incident.remediation # None
  BY <1>1, ExecutedType
<1>3. /\ incident.id = heap[a].id /\ incident.diagnosis = heap[a].diagnosis
      /\ incident.remediation.proposal = heap[a].remediation.proposal
  BY <1>1 DEF Executed, IncidentObjects, Records
<1>4. heap' = [heap EXCEPT ![a] = incident] /\ PutResolved(incident, ok)
  BY DEF Apply
<1> HIDE DEF incident
<1> QED BY <1>2, <1>3, <1>4, PutCases, RewriteSettled DEF PutResolved

LEMMA AutoRemediateFinishSettled ==
  ASSUME SettledInv, TypeInv', NEW i \in Incidents, NEW ok \in WriteOutcomes,
         AutoRemediateFinish(i, ok)
  PROVE  SettledInv' /\ VerdictStep
<1>1. i \in Addresses /\ heap[i] # None /\ heap[i].remediation # None
  BY DEF SettledInv, TypeInv, WellReferenced, AutoRemediateFinish, Proposed, Addresses
<1>2. Apply(i, None, ok)
      /\ \A k \in Incidents :
           /\ diag'[k] = "none" => diag[k] = "none"
           /\ diag'[k] \in Undiagnosed => diag[k] \in Undiagnosed
  BY DEF AutoRemediateFinish, Undiagnosed, SettledInv, TypeInv, TypeOK
<1> QED BY <1>1, <1>2, ApplySettled

(* A request works on the shared object, or on a copy of a row with a plan. *)
LEMMA RemediateStartSettled ==
  ASSUME SettledInv, TypeInv', NEW r \in Requests, NEW i \in Incidents, RemediateStart(r, i)
  PROVE  SettledInv' /\ VerdictStep
<1> DEFINE incident == [Found(i) EXCEPT !.status = "REMEDIATING"]
<1>1. Found(i) \in IncidentObjects /\ Found(i) # None /\ Found(i).remediation # None
  BY DEF SettledInv, TypeInv, TypeOK, RemediateStart, Remediable, Found, Addresses
<1>2. /\ incident \in IncidentObjects /\ incident # None
      /\ incident.remediation = Found(i).remediation
      /\ incident.id = Found(i).id /\ incident.diagnosis = Found(i).diagnosis
  BY <1>1, StatusSettled DEF Statuses
<1>3. /\ heap' = [heap EXCEPT ![IF IsOpen(i) THEN i ELSE r] = incident]
      /\ UNCHANGED <<store, diag>>
  BY DEF RemediateStart
<1> HIDE DEF incident
<1>4. CASE IsOpen(i)
  BY <1>1, <1>2, <1>3, <1>4, RewriteSettled DEF Found, Addresses
<1>5. CASE ~IsOpen(i)
  <2>1. /\ store[i] # None /\ incident.id \in Incidents
        /\ Paired(store[i]) /\ store[i].diagnosis # None
    BY <1>1, <1>2, <1>5 DEF Found, SettledInv, Paired, IncidentObjects
  <2>2. \A b \in Addresses : heap'[b] = IF b = r THEN incident ELSE heap[b]
    BY <1>3, <1>5 DEF SettledInv, TypeInv, TypeOK
  <2>3. incident.id = store[i].id /\ incident.diagnosis = store[i].diagnosis
        /\ incident.remediation = store[i].remediation
    BY <1>2, <1>5 DEF Found
  <2>4. store[i].id = i
    BY <2>1 DEF SettledInv
  <2>5. Paired(incident) /\ Follows(incident, store[i])
    BY <1>1, <1>2, <2>1, <2>3 DEF Paired, Follows
  <2>6. \A k \in Incidents : k \in Addresses /\ k # r
    BY AddressAssumption DEF Addresses
  <2>7. \A k \in Incidents : heap'[k] = heap[k]
    BY <2>2, <2>6
  <2>8. \A b \in Addresses : heap'[b] # None =>
          Paired(heap'[b]) /\ Follows(heap'[b], store[heap'[b].id])
    BY <2>2, <2>3, <2>4, <2>5 DEF SettledInv
  <2>9. \A s \in Requests : heap'[s] # None =>
          store[heap'[s].id] # None /\ store[heap'[s].id].diagnosis # None
    BY <2>1, <2>2, <2>3, <2>4 DEF SettledInv, Addresses
  <2> QED BY <1>3, <2>7, <2>8, <2>9 DEF SettledInv, VerdictStep
<1> QED BY <1>4, <1>5

LEMMA RemediateFinishSettled ==
  ASSUME SettledInv, TypeInv', NEW r \in Requests, NEW ok \in WriteOutcomes, RemediateFinish(r, ok)
  PROVE  SettledInv' /\ VerdictStep
<1>1. /\ req[r].ref \in Addresses
      /\ heap[req[r].ref] # None
      /\ heap[req[r].ref].remediation # None
  BY DEF SettledInv, TypeInv, TypeOK, WellReferenced, RemediateFinish
<1>2. PICK approver \in {"operator", None} : Apply(req[r].ref, approver, ok) /\ UNCHANGED diag
  BY ApproversAssumption DEF RemediateFinish
<1> QED BY <1>1, <1>2, ApplySettled

LEMMA SweepResolveSettled ==
  ASSUME SettledInv, TypeInv', NEW j \in Jobs, NEW ok \in WriteOutcomes, SweepResolve(j, ok)
  PROVE  SettledInv' /\ VerdictStep
<1> DEFINE i        == Pending[j]
           incident == [heap[i] EXCEPT !.status = "RESOLVED"]
<1>1. i \in Addresses /\ heap[i] \in IncidentObjects /\ heap[i] # None
  <2>1. Expired(j)
    BY DEF SweepResolve
  <2> QED BY <2>1, NoneAssumption DEF SettledInv, TypeInv, TypeOK, WellReferenced, Expired, Pending,
                                      Addresses
<1>2. /\ incident \in IncidentObjects /\ incident.remediation = heap[i].remediation
      /\ incident.id = heap[i].id /\ incident.diagnosis = heap[i].diagnosis
  BY <1>1, StatusSettled DEF Statuses
<1>3. heap' = [heap EXCEPT ![i] = incident] /\ PutResolved(incident, ok) /\ UNCHANGED diag
  BY DEF SweepResolve
<1> HIDE DEF incident, i
<1> QED BY <1>1, <1>2, <1>3, PutCases, RewriteSettled DEF PutResolved

(* Objects are gone, and rows stay. *)
LEMMA RestartSettled ==
  ASSUME SettledInv, TypeInv', Restart PROVE SettledInv' /\ VerdictStep
<1>1. /\ \A a \in Addresses : heap'[a] = None
      /\ UNCHANGED store
      /\ \A i \in Incidents :
           diag'[i] \notin Undiagnosed /\ (diag'[i] = "none" => diag[i] = "none")
  BY DEF Restart, Undiagnosed
<1>2. Incidents \subseteq Addresses /\ Requests \subseteq Addresses
  BY DEF Addresses
<1> QED BY <1>1, <1>2 DEF SettledInv, VerdictStep

LEMMA SettledInvInit == Init => SettledInv
<1> SUFFICES ASSUME Init PROVE SettledInv
  OBVIOUS
<1> QED BY TypeInvInit DEF Init, SettledInv, Addresses, Undiagnosed

(* Every step of the manager keeps what is on record. *)
LEMMA SettledInvNext == ASSUME SettledInv, [Next]_vars PROVE SettledInv' /\ VerdictStep
<1>1. TypeInv'
  BY TypeInvNext DEF SettledInv
<1>2. ASSUME NEW j \in Jobs, Quieten(j) PROVE SettledInv' /\ VerdictStep
  BY <1>1, <1>2, QuietSettled DEF Quieten
<1>3. CASE Restart
  BY <1>1, <1>3, RestartSettled
<1>4. ASSUME NEW ok \in WriteOutcomes, NEW j \in Jobs, ConsumerStep(j, ok)
      PROVE  SettledInv' /\ VerdictStep
  BY <1>1, <1>4, EnrichSettled, OpenIncidentSettled DEF ConsumerStep
<1>5. ASSUME NEW ok \in WriteOutcomes, NEW i \in Incidents, DiagnosisStep(i, ok)
      PROVE  SettledInv' /\ VerdictStep
  <2>1. ASSUME \/ ScheduleDiagnosis(i) \/ ThreadRead(i) \/ DiagnoseFail(i)
               \/ Alert(i) \/ DiagnoseEnd(i)
        PROVE  SettledInv' /\ VerdictStep
    <3>1. /\ UNCHANGED <<heap, store>>
          /\ \A k \in Incidents :
               /\ diag'[k] = "none" => diag[k] = "none"
               /\ diag'[k] \in Undiagnosed => diag[k] \in Undiagnosed
      BY <2>1 DEF ScheduleDiagnosis, ThreadRead, DiagnoseFail, Alert, DiagnoseEnd, Undiagnosed,
                  SettledInv, TypeInv, TypeOK
    <3> QED BY <1>1, <3>1, QuietSettled
  <2> QED BY <1>1, <1>5, <2>1, DiagnoseStartSettled, DiagnoseDoneSettled,
             AutoRemediateStartSettled, AutoRemediateFinishSettled DEF DiagnosisStep
<1>6. ASSUME NEW ok \in WriteOutcomes, NEW r \in Requests, RequestStep(r, ok)
      PROVE  SettledInv' /\ VerdictStep
  <2>1. ASSUME NEW i \in Incidents, RemediateRefuse(r, i) PROVE SettledInv' /\ VerdictStep
    BY <1>1, <2>1, QuietSettled DEF RemediateRefuse
  <2> QED BY <1>1, <1>6, <2>1, RemediateStartSettled, RemediateFinishSettled DEF RequestStep
<1>7. ASSUME NEW ok \in WriteOutcomes, HeartbeatStep(ok) PROVE SettledInv' /\ VerdictStep
  <2>1. CASE SweepEnd
    BY <1>1, <2>1, QuietSettled DEF SweepEnd
  <2> QED BY <1>1, <1>7, <2>1, SweepResolveSettled DEF HeartbeatStep
<1>8. CASE UNCHANGED vars
  BY <1>1, <1>8, QuietSettled DEF vars
<1> QED BY <1>2, <1>3, <1>4, <1>5, <1>6, <1>7, <1>8 DEF Next

(* The verdict and the plan an operator was shown stay on record, whichever
   copy of the incident the next write comes from (workflow.py:115-123,
   :145-157, :180-185, store.py:43-50). *)
THEOREM VerdictsStaySettled == Spec => VerdictSettled
<1>1. SettledInv /\ [Next]_vars => SettledInv' /\ VerdictStep
  BY SettledInvNext
<1>2. VerdictStep =>
        [\A i \in Incidents : store[i] # None /\ store[i].diagnosis # None =>
           /\ store'[i].diagnosis = store[i].diagnosis
           /\ store'[i].remediation.proposal = store[i].remediation.proposal]_store
  BY DEF VerdictStep
<1> QED BY <1>1, <1>2, SettledInvInit, PTL DEF Spec, VerdictSettled

-----------------------------------------------------------------------------
(* The gate *)

(* A diagnosed incident's task has its plan on record, and one that runs its
   plan has passed the policy's guard. *)
GateInv ==
  /\ SettledInv
  /\ \A i \in Incidents :
       /\ diag[i] \in Proposed => store[i] # None /\ store[i].diagnosis # None
       /\ diag[i] = "executing" =>
            AutoRemediate /\ ~heap[i].remediation.proposal.requiresApproval

(* The plan of such a task is the plan of the row. *)
LEMMA PlanIsOnRecord ==
  ASSUME GateInv, NEW i \in Incidents, diag[i] \in Proposed
  PROVE  /\ store[i] # None /\ store[i].diagnosis # None
         /\ heap[i].id = i
         /\ heap[i].remediation.proposal = store[i].remediation.proposal
<1>1. heap[i] # None /\ i \in Addresses
  BY DEF GateInv, SettledInv, TypeInv, WellReferenced, Addresses
<1> QED BY <1>1 DEF GateInv, SettledInv, Follows

(* A plan that runs stays as it passed the guard, because it is on record. *)
LEMMA GateKept ==
  ASSUME GateInv, SettledInv', VerdictStep,
         \A i \in Incidents :
           /\ diag'[i] \in Proposed =>
                diag[i] \in Proposed \/ (store'[i] # None /\ store'[i].diagnosis # None)
           /\ diag'[i] = "executing" =>
                diag[i] = "executing"
                \/ (AutoRemediate /\ ~heap'[i].remediation.proposal.requiresApproval)
  PROVE  GateInv'
<1>1. ASSUME NEW i \in Incidents, diag[i] \in Proposed
      PROVE  store'[i] # None /\ store'[i].diagnosis # None
  BY <1>1, PlanIsOnRecord DEF GateInv, VerdictStep
<1>2. ASSUME NEW i \in Incidents, diag'[i] = "executing", diag[i] = "executing"
      PROVE  heap'[i].remediation.proposal = heap[i].remediation.proposal
  <2>1. diag[i] \in Proposed /\ diag'[i] \in Proposed
    BY <1>2 DEF Proposed
  <2>2. heap'[i] # None /\ i \in Addresses
    BY <2>1 DEF SettledInv, TypeInv, WellReferenced, Addresses
  <2>3. heap'[i].remediation.proposal = store'[i].remediation.proposal
    BY <1>1, <2>1, <2>2 DEF SettledInv, Follows
  <2> QED BY <2>1, <2>3, PlanIsOnRecord DEF VerdictStep
<1>3. \A i \in Incidents :
        /\ diag'[i] \in Proposed => store'[i] # None /\ store'[i].diagnosis # None
        /\ diag'[i] = "executing" =>
             AutoRemediate /\ ~heap'[i].remediation.proposal.requiresApproval
  BY <1>1, <1>2 DEF GateInv
<1> QED BY <1>3 DEF GateInv

(* A diagnosis that is done without an error has its verdict on record. *)
LEMMA DiagnoseDoneGate ==
  ASSUME GateInv, NEW i \in Incidents, NEW ok \in WriteOutcomes, DiagnoseDone(i, ok),
         SettledInv', VerdictStep
  PROVE  GateInv'
<1> DEFINE record   == [proposal |-> Propose(heap[i].anomalies), status |-> "PROPOSED", audit |-> <<>>]
           incident == [heap[i] EXCEPT !.diagnosis = read[i], !.status = "DIAGNOSED", !.remediation = record]
<1>1. heap[i] \in IncidentObjects /\ heap[i].id = i /\ read[i] # None
  BY DEF GateInv, SettledInv, TypeInv, TypeOK, WellReferenced, DiagnoseDone, Undiagnosed, Addresses
<1>2. incident.id = i /\ incident.diagnosis = read[i]
  BY <1>1 DEF IncidentObjects
<1>3. /\ heap' = [heap EXCEPT ![i] = incident]
      /\ Put(incident, ok)
      /\ diag' = [diag EXCEPT ![i] = IF ok THEN "diagnosed" ELSE "failed"]
  BY DEF DiagnoseDone
<1> HIDE DEF incident, record
<1>4. store \in [Incidents -> IncidentObjects \cup {None}] /\ ok \in BOOLEAN
  BY DEF GateInv, SettledInv, TypeInv, TypeOK, WriteOutcomes
<1>5. \A k \in Incidents : diag'[k] = IF k = i THEN (IF ok THEN "diagnosed" ELSE "failed") ELSE diag[k]
  <2>1. diag \in [Incidents -> {"none", "opening", "scheduled", "announced", "analysed",
                                "diagnosed", "alerted", "executing", "done", "failed", "lost"}]
    BY DEF GateInv, SettledInv, TypeInv, TypeOK
  <2> QED BY <1>3, <2>1
<1>6. ok => store'[i] # None /\ store'[i].diagnosis # None
  <2>1. ok => store'[i] = incident
    BY <1>2, <1>3, <1>4 DEF Put
  <2>2. ok => heap'[i] # None
    BY <1>5 DEF SettledInv, TypeInv, WellReferenced, Proposed
  <2>3. heap'[i] = incident
    BY <1>3 DEF GateInv, SettledInv, TypeInv, TypeOK, Addresses
  <2> QED BY <1>1, <1>2, <2>1, <2>2, <2>3
<1>7. \A k \in Incidents :
        /\ diag'[k] \in Proposed =>
             diag[k] \in Proposed \/ (store'[k] # None /\ store'[k].diagnosis # None)
        /\ diag'[k] = "executing" => diag[k] = "executing"
  BY <1>5, <1>6 DEF Proposed
<1> QED BY <1>7, GateKept

(* The policy's guard is passed where a run by policy begins. *)
LEMMA AutoRemediateStartGate ==
  ASSUME GateInv, NEW i \in Incidents, AutoRemediateStart(i), SettledInv', VerdictStep
  PROVE  GateInv'
<1>1. i \in Addresses /\ heap[i] \in IncidentObjects /\ diag[i] \in Proposed
  BY DEF GateInv, SettledInv, TypeInv, TypeOK, WellReferenced, AutoRemediateStart, Proposed, Addresses
<1>2. heap'[i] = [heap[i] EXCEPT !.status = "REMEDIATING"]
  BY <1>1 DEF AutoRemediateStart, GateInv, SettledInv, TypeInv, TypeOK
<1>3. heap'[i].remediation = heap[i].remediation
  BY <1>1, <1>2 DEF IncidentObjects
<1>4. AutoRemediate /\ ~heap[i].remediation.proposal.requiresApproval
  BY DEF AutoRemediateStart, MayAutoRemediate
<1>5. \A k \in Incidents : diag'[k] = IF k = i THEN "executing" ELSE diag[k]
  BY DEF AutoRemediateStart, GateInv, SettledInv, TypeInv, TypeOK
<1>6. \A k \in Incidents :
        /\ diag'[k] \in Proposed => diag[k] \in Proposed
        /\ diag'[k] = "executing" =>
             diag[k] = "executing"
             \/ (AutoRemediate /\ ~heap'[k].remediation.proposal.requiresApproval)
  BY <1>1, <1>3, <1>4, <1>5
<1> QED BY <1>6, GateKept

LEMMA GateInvInit == Init => GateInv
  BY SettledInvInit DEF Init, GateInv, Proposed

(* Every step of the manager keeps the gate. *)
LEMMA GateInvNext == ASSUME GateInv, [Next]_vars PROVE GateInv'
<1>1. SettledInv' /\ VerdictStep
  BY SettledInvNext DEF GateInv
<1>2. ASSUME \A i \in Incidents : diag'[i] \in Proposed =>
               diag[i] \in Proposed /\ (diag'[i] = "executing" => diag[i] = "executing")
      PROVE  GateInv'
  <2>1. "executing" \in Proposed
    BY DEF Proposed
  <2>2. \A i \in Incidents :
          /\ diag'[i] \in Proposed => diag[i] \in Proposed
          /\ diag'[i] = "executing" => diag[i] = "executing"
    BY <1>2, <2>1
  <2> QED BY <1>1, <2>2, GateKept
<1>3. CASE UNCHANGED diag
  BY <1>2, <1>3
<1>4. CASE Restart
  <2>1. \A i \in Incidents : diag'[i] \in {"none", "lost"}
    BY <1>4 DEF Restart
  <2> QED BY <1>2, <2>1 DEF Proposed
<1>5. ASSUME NEW ok \in WriteOutcomes, NEW j \in Jobs, ConsumerStep(j, ok) PROVE GateInv'
  <2>1. ASSUME NEW i \in Incidents, NEW batch \in Batches, OpenIncident(i, j, batch, ok)
        PROVE  GateInv'
    <3>1. \A k \in Incidents : diag'[k] \in {diag[k], "opening", "failed"}
      BY <2>1 DEF OpenIncident, GateInv, SettledInv, TypeInv, TypeOK
    <3> QED BY <1>2, <3>1 DEF Proposed
  <2> QED BY <1>3, <1>5, <2>1 DEF ConsumerStep, Enrich
<1>6. ASSUME NEW ok \in WriteOutcomes, NEW i \in Incidents, DiagnosisStep(i, ok) PROVE GateInv'
  <2>1. ASSUME \/ ScheduleDiagnosis(i) \/ DiagnoseStart(i) \/ ThreadRead(i) \/ DiagnoseFail(i)
               \/ Alert(i) \/ DiagnoseEnd(i) \/ AutoRemediateFinish(i, ok)
        PROVE  GateInv'
    <3>1. \A k \in Incidents :
            \/ diag'[k] \in {diag[k], "scheduled", "announced", "analysed", "failed", "done"}
            \/ diag[k] = "diagnosed" /\ diag'[k] = "alerted"
      BY <2>1 DEF ScheduleDiagnosis, DiagnoseStart, ThreadRead, DiagnoseFail, Alert, DiagnoseEnd,
                  AutoRemediateFinish, GateInv, SettledInv, TypeInv, TypeOK
    <3> QED BY <1>2, <3>1 DEF Proposed
  <2> QED BY <1>1, <1>6, <2>1, DiagnoseDoneGate, AutoRemediateStartGate DEF DiagnosisStep
<1>7. ASSUME NEW ok \in WriteOutcomes, NEW r \in Requests, RequestStep(r, ok) PROVE GateInv'
  BY <1>3, <1>7 DEF RequestStep, RemediateRefuse, RemediateStart, RemediateFinish
<1>8. ASSUME NEW ok \in WriteOutcomes, HeartbeatStep(ok) PROVE GateInv'
  BY <1>3, <1>8 DEF HeartbeatStep, SweepEnd, SweepResolve
<1> QED BY <1>3, <1>4, <1>5, <1>6, <1>7, <1>8 DEF Next, Quieten, vars

(* Who ran the plan of an incident in a step: a request, or else the policy,
   which has passed its guard with the plan that is on record. *)
GateStep ==
  \A i \in Incidents : actuated'[i] # actuated[i] =>
    \/ \E r \in Requests : /\ req[r].pc = "executing" /\ req'[r].pc = "done"
                           /\ heap[req[r].ref].id = i
    \/ LET plan == heap[i].remediation.proposal
       IN  /\ AutoRemediate
           /\ ~plan.requiresApproval
           /\ store[i].remediation.proposal = plan

(* A run is of the incident of the object it works on. *)
LEMMA ApplyActuates ==
  ASSUME TypeInv, NEW a \in Addresses, NEW approver, NEW ok, Apply(a, approver, ok), heap[a] # None,
         NEW i \in Incidents, actuated'[i] # actuated[i]
  PROVE  heap[a].id = i
<1>1. heap[a] \in IncidentObjects /\ actuated \in [Incidents -> Nat]
  BY DEF TypeInv, TypeOK
<1>2. Executed(heap[a], approver).id = heap[a].id
  BY <1>1 DEF Executed, IncidentObjects
<1>3. actuated' = [actuated EXCEPT ![Executed(heap[a], approver).id] = @ + 1]
  BY DEF Apply
<1> QED BY <1>1, <1>2, <1>3

LEMMA StepIsGated == ASSUME GateInv, [Next]_vars PROVE GateStep
<1>1. CASE UNCHANGED actuated
  BY <1>1 DEF GateStep
<1>2. ASSUME NEW ok \in WriteOutcomes, NEW k \in Incidents, AutoRemediateFinish(k, ok) PROVE GateStep
  <2>1. k \in Addresses /\ heap[k] # None /\ diag[k] \in Proposed /\ diag[k] = "executing"
    BY <1>2 DEF GateInv, SettledInv, TypeInv, WellReferenced, AutoRemediateFinish, Proposed, Addresses
  <2>2. \A i \in Incidents : actuated'[i] # actuated[i] => heap[k].id = i
    BY <1>2, <2>1, ApplyActuates DEF AutoRemediateFinish, GateInv, SettledInv
  <2>3. /\ heap[k].id = k
        /\ AutoRemediate /\ ~heap[k].remediation.proposal.requiresApproval
        /\ store[k].remediation.proposal = heap[k].remediation.proposal
    BY <2>1, PlanIsOnRecord DEF GateInv
  <2> QED BY <2>2, <2>3 DEF GateStep
<1>3. ASSUME NEW ok \in WriteOutcomes, NEW r \in Requests, RemediateFinish(r, ok) PROVE GateStep
  <2>1. /\ req[r].ref \in Addresses /\ heap[req[r].ref] # None
        /\ req[r].pc = "executing" /\ req'[r].pc = "done"
    BY <1>3 DEF GateInv, SettledInv, TypeInv, TypeOK, WellReferenced, RemediateFinish
  <2>2. \A i \in Incidents : actuated'[i] # actuated[i] => heap[req[r].ref].id = i
    BY <1>3, <2>1, ApplyActuates DEF RemediateFinish, GateInv, SettledInv
  <2> QED BY <2>1, <2>2 DEF GateStep
<1>4. ASSUME NEW ok \in WriteOutcomes, NEW j \in Jobs, ConsumerStep(j, ok) PROVE GateStep
  BY <1>1, <1>4 DEF ConsumerStep, Enrich, OpenIncident
<1>5. ASSUME NEW ok \in WriteOutcomes, NEW i \in Incidents, DiagnosisStep(i, ok) PROVE GateStep
  BY <1>1, <1>2, <1>5 DEF DiagnosisStep, ScheduleDiagnosis, DiagnoseStart, ThreadRead, DiagnoseDone,
                          DiagnoseFail, Alert, DiagnoseEnd, AutoRemediateStart
<1>6. ASSUME NEW ok \in WriteOutcomes, NEW r \in Requests, RequestStep(r, ok) PROVE GateStep
  BY <1>1, <1>3, <1>6 DEF RequestStep, RemediateRefuse, RemediateStart
<1>7. ASSUME NEW ok \in WriteOutcomes, HeartbeatStep(ok) PROVE GateStep
  BY <1>1, <1>7 DEF HeartbeatStep, SweepEnd, SweepResolve
<1> QED BY <1>1, <1>4, <1>5, <1>6, <1>7 DEF Next, Quieten, Restart, vars

(* A plan that runs without a request is the plan on record and needs no
   approval, whatever becomes of the incident between the policy's guard and
   the run (remediation.py:125, workflow.py:119-131, :145-153). *)
THEOREM GateAlwaysHolds == Spec => GatedExecution
<1>1. GateInv /\ [Next]_vars => GateInv' /\ GateStep
  BY GateInvNext, StepIsGated
<1>2. GateStep =>
        [\A i \in Incidents : actuated'[i] # actuated[i] =>
           \/ \E r \in Requests : /\ req[r].pc = "executing" /\ req'[r].pc = "done"
                                  /\ heap[req[r].ref].id = i
           \/ LET plan == heap[i].remediation.proposal
              IN  /\ AutoRemediate
                  /\ ~plan.requiresApproval
                  /\ store[i].remediation.proposal = plan]_vars
  BY DEF GateStep
<1> QED BY <1>1, <1>2, GateInvInit, PTL DEF Spec, GatedExecution

-----------------------------------------------------------------------------
(* The audit trail *)

(* An object or a row books no more runs than there were, and one at least if
   it says completed. *)
Booked(incident, runs) ==
  incident # None /\ incident.remediation # None =>
    LET record == incident.remediation
    IN  /\ Len(record.audit) <= runs[incident.id]
        /\ record.status = "COMPLETED" <=> record.audit # <<>>

(* Requests copy rows: what is claimed of rows is claimed of objects. *)
BookInv ==
  /\ TypeInv
  /\ \A a \in Addresses : Booked(heap[a], actuated)
  /\ \A i \in Incidents : Booked(store[i], actuated) /\ (store[i] # None => store[i].id = i)

(* Another run takes nothing off a trail. *)
LEMMA BookedStays ==
  ASSUME NEW incident \in IncidentObjects \cup {None},
         NEW runs \in [Incidents -> Nat], NEW more \in [Incidents -> Nat],
         \A i \in Incidents : runs[i] <= more[i],
         Booked(incident, runs)
  PROVE  Booked(incident, more)
<1> SUFFICES ASSUME incident # None, incident.remediation # None
             PROVE  /\ Len(incident.remediation.audit) <= more[incident.id]
                    /\ incident.remediation.status = "COMPLETED" <=> incident.remediation.audit # <<>>
  BY DEF Booked
<1>1. incident.id \in Incidents /\ incident.remediation \in Records
  BY DEF IncidentObjects
<1>2. Len(incident.remediation.audit) \in Nat
  BY <1>1 DEF Records
<1>3. runs[incident.id] \in Nat /\ more[incident.id] \in Nat /\ runs[incident.id] <= more[incident.id]
  BY <1>1
<1> QED BY <1>2, <1>3 DEF Booked

(* A step that writes one booked object, and may save it. *)
LEMMA WriteBook ==
  ASSUME BookInv, TypeInv', NEW a \in Addresses, NEW incident, Booked(incident, actuated'),
         \A i \in Incidents : actuated[i] <= actuated'[i],
         heap' = [heap EXCEPT ![a] = incident],
         UNCHANGED store \/ store' = [store EXCEPT ![incident.id] = incident]
  PROVE  BookInv'
<1>1. /\ actuated \in [Incidents -> Nat] /\ actuated' \in [Incidents -> Nat]
      /\ \A b \in Addresses : heap[b] \in IncidentObjects \cup {None}
      /\ \A i \in Incidents : store[i] \in IncidentObjects \cup {None}
  BY DEF BookInv, TypeInv, TypeOK
<1>2. \A b \in Addresses : heap'[b] \in {heap[b], incident}
  BY DEF BookInv, TypeInv, TypeOK
<1>3. \A i \in Incidents : store'[i] = store[i] \/ (store'[i] = incident /\ incident.id = i)
  BY DEF BookInv, TypeInv, TypeOK
<1>4. \A b \in Addresses : Booked(heap[b], actuated')
  BY <1>1, BookedStays DEF BookInv
<1>5. \A i \in Incidents : Booked(store[i], actuated')
  BY <1>1, BookedStays DEF BookInv
<1>6. \A b \in Addresses : Booked(heap'[b], actuated')
  BY <1>2, <1>4
<1>7. \A i \in Incidents : Booked(store'[i], actuated') /\ (store'[i] # None => store'[i].id = i)
  BY <1>3, <1>5 DEF BookInv
<1> QED BY <1>6, <1>7 DEF BookInv

LEMMA QuietBook ==
  ASSUME BookInv, TypeInv', UNCHANGED <<heap, store, actuated>> PROVE BookInv'
  BY DEF BookInv

(* An object with the plan of a booked one is booked. *)
LEMMA SameBook ==
  ASSUME BookInv, TypeInv', NEW a \in Addresses, NEW was \in IncidentObjects, Booked(was, actuated),
         NEW incident, incident.id = was.id, incident.remediation = was.remediation,
         heap' = [heap EXCEPT ![a] = incident],
         UNCHANGED store \/ store' = [store EXCEPT ![incident.id] = incident],
         UNCHANGED actuated
  PROVE  BookInv'
<1>1. Booked(incident, actuated')
  BY NoneAssumption DEF Booked
<1>2. \A i \in Incidents : actuated[i] <= actuated'[i]
  BY DEF BookInv, TypeInv, TypeOK
<1> QED BY <1>1, <1>2, WriteBook

LEMMA HeldBook ==
  ASSUME BookInv, NEW a \in Addresses, heap[a] # None
  PROVE  heap[a] \in IncidentObjects /\ Booked(heap[a], actuated)
  BY DEF BookInv, TypeInv, TypeOK

LEMMA StatusBook ==
  ASSUME BookInv, TypeInv', NEW a \in Addresses, NEW was \in IncidentObjects, Booked(was, actuated),
         NEW status \in Statuses, UNCHANGED actuated,
         LET incident == [was EXCEPT !.status = status]
         IN  /\ heap' = [heap EXCEPT ![a] = incident]
             /\ UNCHANGED store \/ store' = [store EXCEPT ![incident.id] = incident]
  PROVE  BookInv'
<1> DEFINE incident == [was EXCEPT !.status = status]
<1>1. incident.id = was.id /\ incident.remediation = was.remediation
  BY DEF IncidentObjects
<1>2. /\ heap' = [heap EXCEPT ![a] = incident]
      /\ UNCHANGED store \/ store' = [store EXCEPT ![incident.id] = incident]
  OBVIOUS
<1> HIDE DEF incident
<1> QED BY <1>1, <1>2, SameBook

LEMMA OpenIncidentBook ==
  ASSUME BookInv, TypeInv', NEW i \in Incidents, NEW j \in Jobs, NEW batch \in Batches,
         NEW ok \in WriteOutcomes, OpenIncident(i, j, batch, ok)
  PROVE  BookInv'
<1> DEFINE incident == [id |-> i, job |-> j, status |-> "OPEN", anomalies |-> batch,
                        diagnosis |-> None, remediation |-> None]
<1>1. Booked(incident, actuated') /\ i \in Addresses
  BY DEF Booked, Addresses
<1>2. heap' = [heap EXCEPT ![i] = incident] /\ Put(incident, ok) /\ UNCHANGED actuated
  BY DEF OpenIncident
<1>3. \A k \in Incidents : actuated[k] <= actuated'[k]
  BY <1>2 DEF BookInv, TypeInv, TypeOK
<1> HIDE DEF incident
<1> QED BY <1>1, <1>2, <1>3, PutCases, WriteBook

LEMMA EnrichBook ==
  ASSUME BookInv, TypeInv', NEW j \in Jobs, NEW batch \in Batches, NEW ok \in WriteOutcomes,
         Enrich(j, batch, ok)
  PROVE  BookInv'
<1>1. open[j] \in Addresses /\ heap[open[j]] # None /\ UNCHANGED actuated
  BY DEF BookInv, TypeInv, TypeOK, WellReferenced, Enrich, Addresses
<1>2. \/ UNCHANGED <<heap, store>>
      \/ \E new : /\ heap' = [heap EXCEPT ![open[j]] = Enriched(heap[open[j]], new)]
                  /\ Put(Enriched(heap[open[j]], new), ok)
  BY DEF Enrich
<1>3. ASSUME NEW new, heap' = [heap EXCEPT ![open[j]] = Enriched(heap[open[j]], new)],
             Put(Enriched(heap[open[j]], new), ok)
      PROVE  BookInv'
  <2> DEFINE incident == Enriched(heap[open[j]], new)
  <2>1. heap[open[j]] \in IncidentObjects /\ Booked(heap[open[j]], actuated)
    BY <1>1, HeldBook
  <2>2. incident.id = heap[open[j]].id /\ incident.remediation = heap[open[j]].remediation
    BY <2>1 DEF Enriched, IncidentObjects
  <2>3. heap' = [heap EXCEPT ![open[j]] = incident] /\ Put(incident, ok)
    BY <1>3
  <2> HIDE DEF incident
  <2> QED BY <1>1, <2>1, <2>2, <2>3, PutCases, SameBook
<1> QED BY <1>1, <1>2, <1>3, QuietBook

(* A new plan has not been run. *)
LEMMA DiagnoseDoneBook ==
  ASSUME BookInv, TypeInv', NEW i \in Incidents, NEW ok \in WriteOutcomes, DiagnoseDone(i, ok)
  PROVE  BookInv'
<1> DEFINE record   == [proposal |-> Propose(heap[i].anomalies), status |-> "PROPOSED", audit |-> <<>>]
           incident == [heap[i] EXCEPT !.diagnosis = read[i], !.status = "DIAGNOSED", !.remediation = record]
<1>1. heap[i] \in IncidentObjects /\ i \in Addresses
  BY DEF BookInv, TypeInv, TypeOK, WellReferenced, DiagnoseDone, Undiagnosed, Addresses
<1>2. heap' = [heap EXCEPT ![i] = incident] /\ Put(incident, ok) /\ UNCHANGED actuated
  BY DEF DiagnoseDone
<1>3. incident.id \in Incidents /\ incident.remediation = record
  BY <1>1 DEF IncidentObjects
<1>4. record.audit = <<>> /\ record.status = "PROPOSED" /\ Len(<<>>) = 0
  OBVIOUS
<1> HIDE DEF incident, record
<1>5. actuated[incident.id] \in Nat /\ \A k \in Incidents : actuated[k] <= actuated'[k]
  BY <1>2, <1>3 DEF BookInv, TypeInv, TypeOK
<1>6. Booked(incident, actuated')
  BY <1>2, <1>3, <1>4, <1>5 DEF Booked
<1> QED BY <1>1, <1>2, <1>5, <1>6, PutCases, WriteBook

(* A run is booked by the object it is of. *)
LEMMA ApplyBook ==
  ASSUME BookInv, TypeInv', NEW a \in Addresses, NEW approver \in {"operator", None}, NEW ok,
         Apply(a, approver, ok), heap[a] # None, heap[a].remediation # None
  PROVE  BookInv'
<1> DEFINE record   == [heap[a].remediation EXCEPT !.status = "COMPLETED",
                                                     !.audit = Append(@, Label(approver))]
           incident == Executed(heap[a], approver)
           audit    == heap[a].remediation.audit
<1>1. heap[a] \in IncidentObjects /\ heap[a].remediation \in Records /\ Booked(heap[a], actuated)
  BY HeldBook DEF IncidentObjects
<1>2. audit \in Seq({"operator", "auto-policy"}) /\ Len(audit) <= actuated[heap[a].id]
  BY <1>1 DEF Booked, Records
<1>3. incident.remediation = record /\ incident.id = heap[a].id /\ heap[a].id \in Incidents
  BY <1>1 DEF Executed, IncidentObjects
<1>4. record.audit = Append(audit, Label(approver)) /\ record.status = "COMPLETED"
  BY <1>1 DEF Records
<1>5. /\ heap' = [heap EXCEPT ![a] = incident] /\ PutResolved(incident, ok)
      /\ actuated' = [actuated EXCEPT ![incident.id] = @ + 1]
  BY DEF Apply
<1> HIDE DEF incident, record, audit
<1>6. /\ \A i \in Incidents : actuated[i] <= actuated'[i]
      /\ actuated'[incident.id] = actuated[heap[a].id] + 1 /\ actuated[heap[a].id] \in Nat
  BY <1>3, <1>5 DEF BookInv, TypeInv, TypeOK
<1>7. /\ Len(Append(audit, Label(approver))) = Len(audit) + 1
      /\ Append(audit, Label(approver)) # <<>>
      /\ Len(audit) \in Nat
  <2>1. Label(approver) \in {"operator", "auto-policy"}
    BY DEF Label
  <2> QED BY <1>2, <2>1, AppendProperties
<1>8. Booked(incident, actuated')
  BY <1>2, <1>3, <1>4, <1>6, <1>7 DEF Booked
<1> QED BY <1>5, <1>6, <1>8, PutCases, WriteBook DEF PutResolved

(* A copy books what the row does. *)
LEMMA RemediateStartBook ==
  ASSUME BookInv, TypeInv', NEW r \in Requests, NEW i \in Incidents, RemediateStart(r, i)
  PROVE  BookInv'
<1>1. Found(i) \in IncidentObjects /\ Booked(Found(i), actuated)
  BY DEF BookInv, TypeInv, TypeOK, RemediateStart, Remediable, Found, Addresses
<1>2. \E a \in Addresses : heap' = [heap EXCEPT ![a] = [Found(i) EXCEPT !.status = "REMEDIATING"]]
  BY DEF RemediateStart, Addresses
<1>3. UNCHANGED <<store, actuated>> /\ "REMEDIATING" \in Statuses
  BY DEF RemediateStart, Statuses
<1> QED BY <1>1, <1>2, <1>3, StatusBook

LEMMA SweepResolveBook ==
  ASSUME BookInv, TypeInv', NEW j \in Jobs, NEW ok, SweepResolve(j, ok) PROVE BookInv'
<1> DEFINE i        == Pending[j]
           incident == [heap[i] EXCEPT !.status = "RESOLVED"]
<1>1. i \in Addresses /\ heap[i] # None
  <2>1. Expired(j)
    BY DEF SweepResolve
  <2> QED BY <2>1 DEF BookInv, TypeInv, TypeOK, WellReferenced, Expired, Pending, Addresses
<1>2. heap' = [heap EXCEPT ![i] = incident] /\ PutResolved(incident, ok) /\ UNCHANGED actuated
  BY DEF SweepResolve
<1>3. UNCHANGED store \/ store' = [store EXCEPT ![incident.id] = incident]
  <2> HIDE DEF incident
  <2> QED BY <1>2, PutCases DEF PutResolved
<1>4. "RESOLVED" \in Statuses /\ heap[i] \in IncidentObjects /\ Booked(heap[i], actuated)
  BY <1>1, HeldBook DEF Statuses
<1> HIDE DEF i
<1> QED BY <1>1, <1>2, <1>3, <1>4, StatusBook

LEMMA BookInvInit == Init => BookInv
  BY TypeInvInit DEF Init, BookInv, Booked

LEMMA BookInvNext == ASSUME BookInv, [Next]_vars PROVE BookInv'
<1>1. TypeInv'
  BY TypeInvNext DEF BookInv
<1>2. CASE UNCHANGED <<heap, store, actuated>>
  BY <1>1, <1>2, QuietBook
<1>3. CASE Restart
  <2>1. UNCHANGED <<store, actuated>> /\ \A a \in Addresses : heap'[a] = None
    BY <1>3 DEF Restart
  <2> QED BY <1>1, <2>1 DEF BookInv, Booked
<1>4. ASSUME NEW ok \in WriteOutcomes, NEW j \in Jobs, ConsumerStep(j, ok) PROVE BookInv'
  BY <1>1, <1>4, EnrichBook, OpenIncidentBook DEF ConsumerStep
<1>5. ASSUME NEW ok \in WriteOutcomes, NEW i \in Incidents, DiagnosisStep(i, ok) PROVE BookInv'
  <2>1. i \in Addresses
    BY DEF Addresses
  <2>2. ASSUME NEW status \in Statuses, heap[i] # None, heap' = [heap EXCEPT ![i].status = status],
               UNCHANGED <<store, actuated>>
        PROVE  BookInv'
    <3>1. heap[i] \in IncidentObjects /\ Booked(heap[i], actuated)
      BY <2>1, <2>2, HeldBook
    <3>2. heap' = [heap EXCEPT ![i] = [heap[i] EXCEPT !.status = status]]
      BY <2>2
    <3> QED BY <1>1, <2>1, <2>2, <3>1, <3>2, StatusBook
  <2>3. CASE DiagnoseStart(i)
    <3>1. heap[i] # None /\ "DIAGNOSING" \in Statuses
      BY <2>3 DEF BookInv, TypeInv, WellReferenced, DiagnoseStart, Undiagnosed, Statuses
    <3> QED BY <2>2, <2>3, <3>1 DEF DiagnoseStart
  <2>4. CASE AutoRemediateStart(i)
    <3>1. heap[i] # None /\ "REMEDIATING" \in Statuses
      BY <2>4 DEF BookInv, TypeInv, WellReferenced, AutoRemediateStart, Proposed, Statuses
    <3> QED BY <2>2, <2>4, <3>1 DEF AutoRemediateStart
  <2>5. CASE AutoRemediateFinish(i, ok)
    <3>1. heap[i] # None /\ heap[i].remediation # None
      BY <2>5 DEF BookInv, TypeInv, WellReferenced, AutoRemediateFinish, Proposed
    <3> QED BY <1>1, <2>1, <2>5, <3>1, ApplyBook DEF AutoRemediateFinish
  <2> QED BY <1>1, <1>2, <1>5, <2>3, <2>4, <2>5, DiagnoseDoneBook
          DEF DiagnosisStep, ScheduleDiagnosis, ThreadRead, DiagnoseFail, Alert, DiagnoseEnd
<1>6. ASSUME NEW ok \in WriteOutcomes, NEW r \in Requests, RequestStep(r, ok) PROVE BookInv'
  <2>1. CASE RemediateFinish(r, ok)
    <3>1. req[r].ref \in Addresses /\ heap[req[r].ref] # None /\ heap[req[r].ref].remediation # None
      BY <2>1 DEF BookInv, TypeInv, TypeOK, WellReferenced, RemediateFinish
    <3>2. PICK approver \in {"operator", None} : Apply(req[r].ref, approver, ok)
      BY <2>1, ApproversAssumption DEF RemediateFinish
    <3> QED BY <1>1, <3>1, <3>2, ApplyBook
  <2> QED BY <1>1, <1>2, <1>6, <2>1, RemediateStartBook DEF RequestStep, RemediateRefuse
<1>7. ASSUME NEW ok \in WriteOutcomes, HeartbeatStep(ok) PROVE BookInv'
  BY <1>1, <1>2, <1>7, SweepResolveBook DEF HeartbeatStep, SweepEnd
<1> QED BY <1>2, <1>3, <1>4, <1>5, <1>6, <1>7 DEF Next, Quieten, vars

(* No record claims a run that did not happen, whichever copy it was written
   from, with database errors and restarts: remediation.execute, its actuator
   and the writes of workflow.py:145-159. *)
THEOREM RecordsTellTrue == Spec => []RecordedRunsHappened
<1>1. BookInv /\ [Next]_vars => BookInv'
  BY BookInvNext
<1>2. BookInv => RecordedRunsHappened
  <2> SUFFICES ASSUME BookInv, NEW i \in Incidents, store[i] # None, store[i].remediation # None
               PROVE  /\ Len(store[i].remediation.audit) <= actuated[i]
                      /\ store[i].remediation.status = "COMPLETED"
                            <=> store[i].remediation.audit # <<>>
    BY DEF RecordedRunsHappened
  <2> QED BY DEF BookInv, Booked
<1> QED BY <1>1, <1>2, BookInvInit, PTL DEF Spec
================================================================================
