----------------------------- MODULE SignalProofs -----------------------------
(***************************************************************************)
(* What IncidentManager keeps of the signals and of the state of an        *)
(* incident, for every number of jobs, incidents and requests, every batch *)
(* of signals and every interleaving: a verdict on record is of signals    *)
(* the incident had, even when calls raise, and the plan beside it answers *)
(* the fault it names; no write takes a signal off the record while the    *)
(* database works; the snapshot of the sweep is never behind on a job it   *)
(* may close; every run of a plan gets on record and stays there, but for  *)
(* a write that raises and one sweep that dies of it; and, while the       *)
(* database works, the row of an open incident is all a restart needs, and *)
(* what is resolved is in the corpus of the running process.               *)
(***************************************************************************)
EXTENDS IncidentManagerProofs

-----------------------------------------------------------------------------
(* Prefixes *)

LEMMA OwnPrefix == ASSUME NEW s \in Signals PROVE IsPrefix(s, s)
  BY DEF IsPrefix, Signals

(* What has been read stays a prefix of a list that is extended. *)
LEMMA PrefixGrows ==
  ASSUME NEW s \in Signals, NEW t \in Signals, NEW u \in Seq(Anomalies), IsPrefix(s, t)
  PROVE  IsPrefix(s, t \o u)
<1>1. /\ Len(s) \in Nat /\ Len(t) \in Nat /\ Len(u) \in Nat /\ Len(s) <= Len(t)
      /\ s \in Seq(Anomalies) /\ t \in Seq(Anomalies)
  BY DEF Signals, IsPrefix
<1>2. /\ t \o u \in Seq(Anomalies) /\ Len(t \o u) = Len(t) + Len(u)
      /\ \A k \in 1 .. Len(t) : (t \o u)[k] = t[k]
  BY <1>1
<1>3. SubSeq(t \o u, 1, Len(s)) = SubSeq(t, 1, Len(s))
  BY <1>1, <1>2
<1> QED BY <1>1, <1>2, <1>3 DEF IsPrefix

-----------------------------------------------------------------------------
(* The verdict *)

(* A verdict is of the first signals of its incident, and nothing is diagnosed
   or resolved without one. *)
Grounded(incident) ==
  incident # None =>
    /\ incident.diagnosis # None => IsPrefix(incident.diagnosis, incident.anomalies)
    /\ incident.status \in {"DIAGNOSED", "RESOLVED"} => incident.diagnosis # None

(* Requests copy rows, and the thread brings back what it read before the
   incident was enriched. *)
GroundInv ==
  /\ SettledInv
  /\ \A a \in Addresses : Grounded(heap[a])
  /\ \A i \in Incidents : Grounded(store[i])
  /\ \A i \in Incidents : diag[i] = "analysed" => IsPrefix(read[i], heap[i].anomalies)

(* A step that writes grounded objects and rows only, and leaves what threads
   have read a prefix. *)
LEMMA WriteGround ==
  ASSUME GroundInv, SettledInv', NEW a \in Addresses, NEW incident \in IncidentObjects,
         Grounded(incident), heap' = [heap EXCEPT ![a] = incident],
         UNCHANGED store \/ store' = [store EXCEPT ![incident.id] = incident],
         \A i \in Incidents : diag'[i] = "analysed" => IsPrefix(read'[i], heap'[i].anomalies)
  PROVE  GroundInv'
<1>1. \A b \in Addresses : heap'[b] \in {heap[b], incident}
  BY DEF GroundInv, SettledInv, TypeInv, TypeOK
<1>2. \A i \in Incidents : store'[i] \in {store[i], incident}
  BY DEF GroundInv, SettledInv, TypeInv, TypeOK
<1> QED BY <1>1, <1>2 DEF GroundInv

(* A step that gives an object a status it may have, and may save it. *)
LEMMA StatusGround ==
  ASSUME GroundInv, SettledInv', NEW a \in Addresses, NEW incident \in IncidentObjects,
         heap[a] # None,
         incident.diagnosis = heap[a].diagnosis, incident.anomalies = heap[a].anomalies,
         incident.status \in {"DIAGNOSED", "RESOLVED"} => incident.diagnosis # None,
         heap' = [heap EXCEPT ![a] = incident],
         UNCHANGED store \/ store' = [store EXCEPT ![incident.id] = incident],
         UNCHANGED read,
         \A i \in Incidents : diag'[i] = "analysed" => diag[i] = "analysed"
  PROVE  GroundInv'
<1>1. Grounded(incident)
  BY DEF GroundInv, Grounded
<1>2. Incidents \subseteq Addresses
  BY DEF Addresses
<1>3. \A b \in Addresses : heap'[b].anomalies = heap[b].anomalies
  BY DEF GroundInv, SettledInv, TypeInv, TypeOK
<1>4. \A i \in Incidents : diag'[i] = "analysed" => IsPrefix(read'[i], heap'[i].anomalies)
  BY <1>2, <1>3 DEF GroundInv
<1> QED BY <1>1, <1>4, WriteGround

(* Steps that write neither an object nor a row, and bring nothing back. *)
LEMMA QuietGround ==
  ASSUME GroundInv, SettledInv', UNCHANGED <<heap, store, read>>,
         \A i \in Incidents : diag'[i] = "analysed" => diag[i] = "analysed"
  PROVE  GroundInv'
  BY DEF GroundInv

(* The thread reads the whole list. *)
LEMMA ThreadReadGround ==
  ASSUME GroundInv, SettledInv', NEW i \in Incidents, ThreadRead(i) PROVE GroundInv'
<1>1. heap[i] \in IncidentObjects /\ heap[i].anomalies \in Signals
  BY NoneAssumption DEF GroundInv, SettledInv, TypeInv, TypeOK, WellReferenced, ThreadRead,
                        Undiagnosed, Addresses, IncidentObjects
<1>2. IsPrefix(heap[i].anomalies, heap[i].anomalies)
  BY <1>1, OwnPrefix
<1>3. /\ UNCHANGED <<heap, store>>
      /\ \A k \in Incidents \ {i} : diag'[k] = diag[k] /\ read'[k] = read[k]
      /\ read'[i] = heap[i].anomalies
  BY DEF ThreadRead, GroundInv, SettledInv, TypeInv, TypeOK
<1>4. \A k \in Incidents : diag'[k] = "analysed" => IsPrefix(read'[k], heap'[k].anomalies)
  BY <1>2, <1>3 DEF GroundInv
<1> QED BY <1>3, <1>4 DEF GroundInv

LEMMA OpenIncidentGround ==
  ASSUME GroundInv, SettledInv', NEW i \in Incidents, NEW j \in Jobs, NEW batch \in Batches,
         NEW ok \in WriteOutcomes, OpenIncident(i, j, batch, ok)
  PROVE  GroundInv'
<1> DEFINE incident == [id |-> i, job |-> j, status |-> "OPEN", anomalies |-> batch,
                        diagnosis |-> None, remediation |-> None]
<1>1. incident \in IncidentObjects /\ Grounded(incident)
  BY BatchesAssumption DEF IncidentObjects, Statuses, Grounded
<1>2. /\ heap' = [heap EXCEPT ![i] = incident]
      /\ Put(incident, ok)
      /\ diag' = [diag EXCEPT ![i] = IF ok THEN "opening" ELSE "failed"]
      /\ UNCHANGED read
  BY DEF OpenIncident
<1> HIDE DEF incident
<1>3. \A k \in Incidents : diag'[k] = "analysed" =>
        diag[k] = "analysed" /\ heap'[k] = heap[k]
  BY <1>2 DEF GroundInv, SettledInv, TypeInv, TypeOK, Addresses
<1>4. i \in Addresses
  BY DEF Addresses
<1>5. \A k \in Incidents : diag'[k] = "analysed" => IsPrefix(read'[k], heap'[k].anomalies)
  BY <1>2, <1>3 DEF GroundInv
<1> QED BY <1>1, <1>2, <1>4, <1>5, PutCases, WriteGround

(* The list grows at its end. *)
LEMMA EnrichGround ==
  ASSUME GroundInv, SettledInv', NEW j \in Jobs, NEW batch \in Batches, NEW ok \in WriteOutcomes,
         Enrich(j, batch, ok)
  PROVE  GroundInv'
<1> DEFINE i == open[j]
<1>1. /\ i \in Incidents /\ i \in Addresses /\ heap[i] \in IncidentObjects /\ heap[i] # None
      /\ heap[i].anomalies \in Signals
  BY NoneAssumption DEF GroundInv, SettledInv, TypeInv, TypeOK, WellReferenced, Enrich, Addresses,
                        IncidentObjects
<1>2. PICK pos \in InOrder(Unseen(batch, heap[i].anomalies)) :
        LET new      == [k \in DOMAIN pos |-> batch[pos[k]]]
            incident == Enriched(heap[i], new)
        IN  IF new = <<>>
            THEN UNCHANGED <<heap, store, consumer>>
            ELSE /\ heap' = [heap EXCEPT ![i] = incident]
                 /\ Put(incident, ok)
                 /\ consumer' = IF ok THEN "up" ELSE "dead"
  BY DEF Enrich
<1> DEFINE new      == [k \in DOMAIN pos |-> batch[pos[k]]]
           incident == Enriched(heap[i], new)
<1>3. UNCHANGED <<diag, read>>
  BY DEF Enrich
<1>4. CASE UNCHANGED <<heap, store>>
  BY <1>3, <1>4, QuietGround
<1>5. CASE heap' = [heap EXCEPT ![i] = incident] /\ Put(incident, ok)
  <2>1. heap[i].anomalies \o new \in Signals /\ new \in Seq(Anomalies)
    BY <1>1, EnrichedType, EnrichmentType
  <2> HIDE DEF new
  <2>2. /\ incident \in IncidentObjects
        /\ incident.anomalies = heap[i].anomalies \o new
        /\ incident.diagnosis = heap[i].diagnosis
        /\ incident.status = heap[i].status
    BY <1>1, <2>1 DEF Enriched, IncidentObjects
  <2> HIDE DEF incident
  <2>3. Grounded(incident)
    <3>1. heap[i].diagnosis \in Signals \cup {None} /\ Grounded(heap[i])
      BY <1>1 DEF IncidentObjects, GroundInv
    <3> QED BY <1>1, <2>1, <2>2, <3>1, PrefixGrows DEF Grounded
  <2>4. \A k \in Incidents : diag'[k] = "analysed" => IsPrefix(read'[k], heap'[k].anomalies)
    <3> SUFFICES ASSUME NEW k \in Incidents, diag[k] = "analysed"
                 PROVE  IsPrefix(read[k], heap'[k].anomalies)
      BY <1>3
    <3>1. IsPrefix(read[k], heap[k].anomalies) /\ read[k] \in Signals
      BY DEF GroundInv, SettledInv, TypeInv, TypeOK, WellReferenced
    <3>2. CASE k = i
      <4>1. heap'[k].anomalies = heap[i].anomalies \o new
        BY <1>1, <1>5, <2>2, <3>2 DEF GroundInv, SettledInv, TypeInv, TypeOK
      <4>2. IsPrefix(read[k], heap[i].anomalies)
        BY <3>1, <3>2
      <4>3. IsPrefix(read[k], heap[i].anomalies \o new)
        BY <1>1, <2>1, <3>1, <4>2, PrefixGrows
      <4> QED BY <4>1, <4>3
    <3>3. CASE k # i
      BY <1>5, <3>1, <3>3 DEF GroundInv, SettledInv, TypeInv, TypeOK, Addresses
    <3> QED BY <3>2, <3>3
  <2> HIDE DEF i
  <2> QED BY <1>1, <1>5, <2>2, <2>3, <2>4, PutCases, WriteGround
<1> QED BY <1>2, <1>4, <1>5

LEMMA DiagnoseStartGround ==
  ASSUME GroundInv, SettledInv', NEW i \in Incidents, DiagnoseStart(i) PROVE GroundInv'
<1> DEFINE incident == [heap[i] EXCEPT !.status = "DIAGNOSING"]
<1>1. heap[i] \in IncidentObjects /\ heap[i] # None /\ i \in Addresses
  BY NoneAssumption DEF GroundInv, SettledInv, TypeInv, TypeOK, WellReferenced, DiagnoseStart,
                        Undiagnosed, Addresses
<1>2. /\ incident \in IncidentObjects
      /\ incident.diagnosis = heap[i].diagnosis /\ incident.anomalies = heap[i].anomalies
      /\ incident.status = "DIAGNOSING"
  BY <1>1, StatusType DEF Statuses, IncidentObjects
<1>3. heap' = [heap EXCEPT ![i] = incident] /\ UNCHANGED <<store, read>>
      /\ \A k \in Incidents : diag'[k] = "analysed" => diag[k] = "analysed"
  BY DEF DiagnoseStart, GroundInv, SettledInv, TypeInv, TypeOK
<1> HIDE DEF incident
<1> QED BY <1>1, <1>2, <1>3, StatusGround

(* The verdict is of what the thread read. *)
LEMMA DiagnoseDoneGround ==
  ASSUME GroundInv, SettledInv', NEW i \in Incidents, NEW ok \in WriteOutcomes,
         DiagnoseDone(i, ok)
  PROVE  GroundInv'
<1> DEFINE record   == [proposal |-> Propose(heap[i].anomalies),
                        status |-> "PROPOSED", audit |-> <<>>]
           incident == [heap[i] EXCEPT !.diagnosis = read[i], !.status = "DIAGNOSED",
                                       !.remediation = record]
<1>1. heap[i] \in IncidentObjects /\ i \in Addresses /\ read[i] \in Signals
  BY DEF GroundInv, SettledInv, TypeInv, TypeOK, WellReferenced, DiagnoseDone, Undiagnosed,
         Addresses
<1>2. record \in Records
  BY <1>1, ProposeType, EmptySeq DEF Records, IncidentObjects
<1>3. /\ diag[i] = "analysed"
      /\ diag' = [diag EXCEPT ![i] = IF ok THEN "diagnosed" ELSE "failed"]
      /\ heap' = [heap EXCEPT ![i] = incident]
      /\ Put(incident, ok)
      /\ UNCHANGED read
  BY DEF DiagnoseDone
<1> HIDE DEF record
<1>4. /\ incident \in IncidentObjects
      /\ incident.diagnosis = read[i] /\ incident.anomalies = heap[i].anomalies
  BY <1>1, <1>2 DEF IncidentObjects, Statuses
<1> HIDE DEF incident
<1>5. Grounded(incident)
  BY <1>1, <1>3, <1>4, NoneAssumption DEF Grounded, GroundInv
<1>6. \A k \in Incidents : diag'[k] = "analysed" => diag[k] = "analysed" /\ heap'[k] = heap[k]
  BY <1>3 DEF GroundInv, SettledInv, TypeInv, TypeOK, Addresses
<1>7. \A k \in Incidents : diag'[k] = "analysed" => IsPrefix(read'[k], heap'[k].anomalies)
  BY <1>3, <1>6 DEF GroundInv
<1> QED BY <1>1, <1>3, <1>4, <1>5, <1>7, PutCases, WriteGround

LEMMA AutoRemediateStartGround ==
  ASSUME GroundInv, SettledInv', NEW i \in Incidents, AutoRemediateStart(i) PROVE GroundInv'
<1> DEFINE incident == [heap[i] EXCEPT !.status = "REMEDIATING"]
<1>1. heap[i] \in IncidentObjects /\ heap[i] # None /\ i \in Addresses
  BY NoneAssumption DEF GroundInv, SettledInv, TypeInv, TypeOK, WellReferenced,
                        AutoRemediateStart, Proposed, Addresses
<1>2. /\ incident \in IncidentObjects
      /\ incident.diagnosis = heap[i].diagnosis /\ incident.anomalies = heap[i].anomalies
      /\ incident.status = "REMEDIATING"
  BY <1>1, StatusType DEF Statuses, IncidentObjects
<1>3. heap' = [heap EXCEPT ![i] = incident] /\ UNCHANGED <<store, read>>
      /\ \A k \in Incidents : diag'[k] = "analysed" => diag[k] = "analysed"
  BY DEF AutoRemediateStart, GroundInv, SettledInv, TypeInv, TypeOK
<1> HIDE DEF incident
<1> QED BY <1>1, <1>2, <1>3, StatusGround

(* Only an incident with a plan, and so with a verdict, is resolved by a run. *)
LEMMA ApplyGround ==
  ASSUME GroundInv, SettledInv', NEW a \in Addresses, NEW approver \in {"operator", None},
         NEW ok \in WriteOutcomes, Apply(a, approver, ok),
         heap[a] # None, heap[a].remediation # None, UNCHANGED read,
         \A i \in Incidents : diag'[i] = "analysed" => diag[i] = "analysed"
  PROVE  GroundInv'
<1> DEFINE incident == Executed(heap[a], approver)
<1>1. heap[a] \in IncidentObjects /\ heap[a].diagnosis # None
  BY DEF GroundInv, SettledInv, TypeInv, TypeOK, Paired
<1>2. incident \in IncidentObjects
  BY <1>1, ExecutedType
<1>3. incident.diagnosis = heap[a].diagnosis /\ incident.anomalies = heap[a].anomalies
  BY <1>1 DEF Executed, IncidentObjects
<1>4. heap' = [heap EXCEPT ![a] = incident] /\ PutResolved(incident, ok)
  BY DEF Apply
<1> HIDE DEF incident
<1> QED BY <1>1, <1>2, <1>3, <1>4, PutCases, StatusGround DEF PutResolved

LEMMA AutoRemediateFinishGround ==
  ASSUME GroundInv, SettledInv', NEW i \in Incidents, NEW ok \in WriteOutcomes,
         AutoRemediateFinish(i, ok)
  PROVE  GroundInv'
<1>1. i \in Addresses /\ heap[i] # None /\ heap[i].remediation # None
  BY DEF GroundInv, SettledInv, TypeInv, WellReferenced, AutoRemediateFinish, Proposed, Addresses
<1>2. Apply(i, None, ok) /\ UNCHANGED read
      /\ \A k \in Incidents : diag'[k] = "analysed" => diag[k] = "analysed"
  BY DEF AutoRemediateFinish, GroundInv, SettledInv, TypeInv, TypeOK
<1> QED BY <1>1, <1>2, ApplyGround

(* A copy of a row is as grounded as the row. *)
LEMMA RemediateStartGround ==
  ASSUME GroundInv, SettledInv', NEW r \in Requests, NEW i \in Incidents, RemediateStart(r, i)
  PROVE  GroundInv'
<1> DEFINE address  == IF IsOpen(i) THEN i ELSE r
           incident == [Found(i) EXCEPT !.status = "REMEDIATING"]
<1>1. Found(i) \in IncidentObjects /\ Found(i) # None /\ Grounded(Found(i))
  BY DEF GroundInv, SettledInv, TypeInv, TypeOK, RemediateStart, Remediable, Found, Addresses
<1>2. /\ incident \in IncidentObjects
      /\ incident.diagnosis = Found(i).diagnosis /\ incident.anomalies = Found(i).anomalies
      /\ incident.status = "REMEDIATING"
  BY <1>1, StatusType DEF Statuses, IncidentObjects
<1>3. Grounded(incident)
  BY <1>1, <1>2 DEF Grounded
<1>4. heap' = [heap EXCEPT ![address] = incident] /\ UNCHANGED <<store, diag, read>>
  BY DEF RemediateStart
<1>5. address \in Addresses /\ (address \in Incidents => address = i /\ Found(i) = heap[i])
  BY AddressAssumption DEF Addresses, Found
<1> HIDE DEF incident, address
<1>6. \A k \in Incidents : heap'[k].anomalies = heap[k].anomalies
  BY <1>2, <1>4, <1>5 DEF GroundInv, SettledInv, TypeInv, TypeOK, Addresses
<1>7. \A k \in Incidents : diag'[k] = "analysed" => IsPrefix(read'[k], heap'[k].anomalies)
  BY <1>4, <1>6 DEF GroundInv
<1> QED BY <1>2, <1>3, <1>4, <1>5, <1>7, WriteGround

LEMMA RemediateFinishGround ==
  ASSUME GroundInv, SettledInv', NEW r \in Requests, NEW ok \in WriteOutcomes, RemediateFinish(r, ok)
  PROVE  GroundInv'
<1>1. /\ req[r].ref \in Addresses
      /\ heap[req[r].ref] # None
      /\ heap[req[r].ref].remediation # None
  BY DEF GroundInv, SettledInv, TypeInv, TypeOK, WellReferenced, RemediateFinish
<1>2. PICK approver \in {"operator", None} :
        Apply(req[r].ref, approver, ok) /\ UNCHANGED <<diag, read>>
  BY ApproversAssumption DEF RemediateFinish
<1> QED BY <1>1, <1>2, ApplyGround

(* The sweep resolves what it finds diagnosed. *)
LEMMA SweepResolveGround ==
  ASSUME GroundInv, SettledInv', NEW j \in Jobs, NEW ok \in WriteOutcomes, SweepResolve(j, ok)
  PROVE  GroundInv'
<1> DEFINE i        == Pending[j]
           incident == [heap[i] EXCEPT !.status = "RESOLVED"]
<1>1. i \in Addresses /\ heap[i] \in IncidentObjects /\ heap[i] # None
      /\ heap[i].status = "DIAGNOSED"
  <2>1. Expired(j)
    BY DEF SweepResolve
  <2> QED BY <2>1, NoneAssumption DEF GroundInv, SettledInv, TypeInv, TypeOK, WellReferenced,
                                      Expired, Pending, Addresses
<1>2. heap[i].diagnosis # None
  BY <1>1 DEF GroundInv, Grounded
<1>3. /\ incident \in IncidentObjects
      /\ incident.diagnosis = heap[i].diagnosis /\ incident.anomalies = heap[i].anomalies
  BY <1>1, StatusType DEF Statuses, IncidentObjects
<1>4. heap' = [heap EXCEPT ![i] = incident] /\ PutResolved(incident, ok) /\ UNCHANGED <<diag, read>>
  BY DEF SweepResolve
<1> HIDE DEF incident, i
<1> QED BY <1>1, <1>2, <1>3, <1>4, PutCases, StatusGround DEF PutResolved

LEMMA RestartGround == ASSUME GroundInv, SettledInv', Restart PROVE GroundInv'
<1>1. /\ \A a \in Addresses : heap'[a] = None
      /\ UNCHANGED store
      /\ \A i \in Incidents : diag'[i] # "analysed"
  BY DEF Restart
<1> QED BY <1>1 DEF GroundInv, Grounded

LEMMA GroundInvInit == Init => GroundInv
<1> SUFFICES ASSUME Init PROVE GroundInv
  OBVIOUS
<1> QED BY SettledInvInit DEF Init, GroundInv, Grounded

(* Every step of the manager keeps verdicts grounded. *)
LEMMA GroundInvNext == ASSUME GroundInv, [Next]_vars PROVE GroundInv'
<1>1. SettledInv'
  BY SettledInvNext DEF GroundInv
<1>2. ASSUME NEW j \in Jobs, Quieten(j) PROVE GroundInv'
  BY <1>1, <1>2, QuietGround DEF Quieten
<1>3. CASE Restart
  BY <1>1, <1>3, RestartGround
<1>4. ASSUME NEW ok \in WriteOutcomes, NEW j \in Jobs, ConsumerStep(j, ok) PROVE GroundInv'
  BY <1>1, <1>4, EnrichGround, OpenIncidentGround DEF ConsumerStep
<1>5. ASSUME NEW ok \in WriteOutcomes, NEW i \in Incidents, DiagnosisStep(i, ok) PROVE GroundInv'
  <2>1. ASSUME ScheduleDiagnosis(i) \/ DiagnoseFail(i) \/ Alert(i) \/ DiagnoseEnd(i)
        PROVE  GroundInv'
    <3>1. /\ UNCHANGED <<heap, store, read>>
          /\ \A k \in Incidents : diag'[k] = "analysed" => diag[k] = "analysed"
      BY <2>1 DEF ScheduleDiagnosis, DiagnoseFail, Alert, DiagnoseEnd, GroundInv, SettledInv,
                  TypeInv, TypeOK
    <3> QED BY <1>1, <3>1, QuietGround
  <2> QED BY <1>1, <1>5, <2>1, DiagnoseStartGround, ThreadReadGround, DiagnoseDoneGround,
             AutoRemediateStartGround, AutoRemediateFinishGround DEF DiagnosisStep
<1>6. ASSUME NEW ok \in WriteOutcomes, NEW r \in Requests, RequestStep(r, ok) PROVE GroundInv'
  <2>1. ASSUME NEW i \in Incidents, RemediateRefuse(r, i) PROVE GroundInv'
    BY <1>1, <2>1, QuietGround DEF RemediateRefuse
  <2> QED BY <1>1, <1>6, <2>1, RemediateStartGround, RemediateFinishGround DEF RequestStep
<1>7. ASSUME NEW ok \in WriteOutcomes, HeartbeatStep(ok) PROVE GroundInv'
  <2>1. CASE SweepEnd
    BY <1>1, <2>1, QuietGround DEF SweepEnd
  <2> QED BY <1>1, <1>7, <2>1, SweepResolveGround DEF HeartbeatStep
<1>8. CASE UNCHANGED vars
  BY <1>1, <1>8, QuietGround DEF vars
<1> QED BY <1>2, <1>3, <1>4, <1>5, <1>6, <1>7, <1>8 DEF Next

(* The verdict on record is of the first signals of its incident, although the
   thread read them while the list was being extended, calls raise and copies
   of the row are written back (workflow.py:87-95, :108-123, :158, :180-188). *)
THEOREM VerdictsAreGrounded == Spec => []DiagnosisOfItsSignals
<1>1. GroundInv /\ [Next]_vars => GroundInv'
  BY GroundInvNext
<1>2. GroundInv => DiagnosisOfItsSignals
  BY DEF GroundInv, Grounded, SettledInv, TypeInv, TypeOK, DiagnosisOfItsSignals, Stage,
         IncidentObjects, Signals
<1> QED BY <1>1, <1>2, GroundInvInit, PTL DEF Spec

-----------------------------------------------------------------------------
(* The signals on record, while the database works *)

(* Every object, a request's copy too, has the signals of its row: no write
   between two awaits leaves them apart. *)
MirrorInv ==
  /\ RowInv
  /\ \A a \in Addresses : heap[a] # None => heap[a].anomalies = store[heap[a].id].anomalies

SignalStep ==
  \A i \in Incidents : store[i] # None => IsPrefix(store[i].anomalies, store'[i].anomalies)

(* Rows that are not written keep their signals. *)
LEMMA SameSignals ==
  ASSUME TypeOK, \A i \in Incidents : store[i] # None => store'[i].anomalies = store[i].anomalies
  PROVE  SignalStep
<1> SUFFICES ASSUME NEW i \in Incidents, store[i] # None
             PROVE  IsPrefix(store[i].anomalies, store'[i].anomalies)
  BY DEF SignalStep
<1>1. store[i].anomalies \in Signals
  BY DEF TypeOK, IncidentObjects
<1> QED BY <1>1, OwnPrefix

LEMMA QuietMirror ==
  ASSUME MirrorInv, RowInv', UNCHANGED <<heap, store>>
  PROVE  MirrorInv' /\ SignalStep
<1>1. SignalStep
  BY SameSignals DEF MirrorInv, RowInv, TypeInv
<1> QED BY <1>1 DEF MirrorInv

(* A step that rewrites one object and not its signals, and may save it. *)
LEMMA RewriteMirror ==
  ASSUME MirrorInv, RowInv', NEW a \in Addresses, NEW incident \in IncidentObjects,
         heap[a] # None, incident.id = heap[a].id, incident.anomalies = heap[a].anomalies,
         heap' = [heap EXCEPT ![a] = incident],
         UNCHANGED store \/ store' = [store EXCEPT ![incident.id] = incident]
  PROVE  MirrorInv' /\ SignalStep
<1>1. \A b \in Addresses : heap'[b] = IF b = a THEN incident ELSE heap[b]
  BY DEF MirrorInv, RowInv, TypeInv, TypeOK
<1>2. incident.id \in Incidents
  BY DEF IncidentObjects
<1>3. incident.anomalies = store[incident.id].anomalies
  BY DEF MirrorInv
<1>4. \A i \in Incidents : store'[i].anomalies = store[i].anomalies
  BY <1>2, <1>3 DEF MirrorInv, RowInv, TypeInv, TypeOK
<1>5. \A b \in Addresses : heap[b] # None => heap[b].id \in Incidents
  BY DEF MirrorInv, RowInv, TypeInv, TypeOK, IncidentObjects
<1>6. \A b \in Addresses : heap'[b] # None => heap'[b].anomalies = store'[heap'[b].id].anomalies
  BY <1>1, <1>2, <1>3, <1>4, <1>5 DEF MirrorInv
<1>7. SignalStep
  BY <1>4, SameSignals DEF MirrorInv, RowInv, TypeInv
<1> QED BY <1>6, <1>7 DEF MirrorInv

(* A step that writes an incident nobody has a copy of, object and row. *)
LEMMA BothMirror ==
  ASSUME MirrorInv, RowInv', NEW i \in Incidents, NEW incident \in IncidentObjects,
         incident.id = i,
         heap' = [heap EXCEPT ![i] = incident], store' = [store EXCEPT ![i] = incident],
         \A r \in Requests : heap[r] # None => heap[r].id # i,
         store[i] # None => IsPrefix(store[i].anomalies, incident.anomalies)
  PROVE  MirrorInv' /\ SignalStep
<1>1. /\ \A a \in Addresses : heap'[a] = IF a = i THEN incident ELSE heap[a]
      /\ \A k \in Incidents : store'[k] = IF k = i THEN incident ELSE store[k]
  BY DEF MirrorInv, RowInv, TypeInv, TypeOK
<1>2. \A a \in Addresses : heap[a] # None => heap[a].id \in Incidents
  BY DEF MirrorInv, RowInv, TypeInv, TypeOK, IncidentObjects
<1>3. \A a \in Addresses \ {i} : heap[a] # None => heap[a].id # i
  BY DEF MirrorInv, RowInv, RowsAgree, ObjectsAgree, Addresses
<1>4. \A a \in Addresses : heap'[a] # None => heap'[a].anomalies = store'[heap'[a].id].anomalies
  BY <1>1, <1>2, <1>3 DEF MirrorInv
<1>5. \A k \in Incidents : store[k] # None => store[k].anomalies \in Signals
  BY DEF MirrorInv, RowInv, TypeInv, TypeOK, IncidentObjects
<1>6. \A k \in Incidents : store[k] # None => IsPrefix(store[k].anomalies, store'[k].anomalies)
  BY <1>1, <1>5, OwnPrefix
<1> QED BY <1>4, <1>6 DEF MirrorInv, SignalStep

(* A new incident is one nobody has a copy of. *)
LEMMA OpenIncidentMirror ==
  ASSUME StoreMayFail = FALSE, MirrorInv, RowInv', NEW i \in Incidents, NEW j \in Jobs,
         NEW batch \in Batches, NEW ok \in WriteOutcomes, OpenIncident(i, j, batch, ok)
  PROVE  MirrorInv' /\ SignalStep
<1> DEFINE incident == [id |-> i, job |-> j, status |-> "OPEN", anomalies |-> batch,
                        diagnosis |-> None, remediation |-> None]
<1>1. incident \in IncidentObjects /\ incident.id = i
  BY BatchesAssumption DEF IncidentObjects, Statuses
<1>2. heap' = [heap EXCEPT ![i] = incident] /\ Put(incident, ok) /\ diag[i] = "none"
  BY DEF OpenIncident
<1> HIDE DEF incident
<1>3. store' = [store EXCEPT ![i] = incident]
  BY <1>1, <1>2, WritesSucceed DEF Put
<1>4. store[i] = None
  BY <1>2 DEF MirrorInv, RowInv, RowsAgree, ObjectsAgree
<1>5. \A r \in Requests : heap[r] # None => heap[r].id # i
  BY <1>4 DEF MirrorInv, RowInv, RowsAgree, CopiesAgree
<1> QED BY <1>1, <1>2, <1>3, <1>4, <1>5, BothMirror

(* Copies are of incidents that are open no more, and only an open one is
   enriched. *)
LEMMA EnrichMirror ==
  ASSUME StoreMayFail = FALSE, MirrorInv, RowInv', NEW j \in Jobs, NEW batch \in Batches,
         NEW ok \in WriteOutcomes, Enrich(j, batch, ok)
  PROVE  MirrorInv' /\ SignalStep
<1> DEFINE i == open[j]
<1>1. /\ i \in Incidents /\ i \in Addresses /\ heap[i] \in IncidentObjects /\ heap[i] # None
      /\ heap[i].anomalies \in Signals /\ heap[i].id = i
  BY NoneAssumption DEF MirrorInv, RowInv, RowsAgree, ObjectsAgree, TypeInv, TypeOK,
                        WellReferenced, Enrich, Addresses, IncidentObjects
<1>2. PICK pos \in InOrder(Unseen(batch, heap[i].anomalies)) :
        LET new      == [k \in DOMAIN pos |-> batch[pos[k]]]
            incident == Enriched(heap[i], new)
        IN  IF new = <<>>
            THEN UNCHANGED <<heap, store, consumer>>
            ELSE /\ heap' = [heap EXCEPT ![i] = incident]
                 /\ Put(incident, ok)
                 /\ consumer' = IF ok THEN "up" ELSE "dead"
  BY DEF Enrich
<1> DEFINE new      == [k \in DOMAIN pos |-> batch[pos[k]]]
           incident == Enriched(heap[i], new)
<1>3. CASE UNCHANGED <<heap, store>>
  BY <1>3, QuietMirror
<1>4. CASE heap' = [heap EXCEPT ![i] = incident] /\ Put(incident, ok)
  <2>1. heap[i].anomalies \o new \in Signals /\ new \in Seq(Anomalies)
    BY <1>1, EnrichedType, EnrichmentType
  <2> HIDE DEF new
  <2>2. /\ incident \in IncidentObjects
        /\ incident.id = i
        /\ incident.anomalies = heap[i].anomalies \o new
    BY <1>1, <2>1 DEF Enriched, IncidentObjects
  <2> HIDE DEF incident
  <2>3. store' = [store EXCEPT ![i] = incident]
    BY <1>4, <2>2, WritesSucceed DEF Put
  <2>4. IsPrefix(heap[i].anomalies, heap[i].anomalies \o new)
    BY <1>1, <2>1, OwnPrefix, PrefixGrows
  <2>5. store[i].anomalies = heap[i].anomalies
    BY <1>1 DEF MirrorInv
  <2>6. \A r \in Requests : heap[r] # None => heap[r].id # i
    BY DEF MirrorInv, RowInv, RowsAgree, CopiesAgree
  <2> HIDE DEF i
  <2> QED BY <1>1, <1>4, <2>2, <2>3, <2>4, <2>5, <2>6, BothMirror
<1> QED BY <1>2, <1>3, <1>4

LEMMA DiagnoseStartMirror ==
  ASSUME MirrorInv, RowInv', NEW i \in Incidents, DiagnoseStart(i)
  PROVE  MirrorInv' /\ SignalStep
<1> DEFINE incident == [heap[i] EXCEPT !.status = "DIAGNOSING"]
<1>1. heap[i] \in IncidentObjects /\ heap[i] # None /\ i \in Addresses
  BY NoneAssumption DEF MirrorInv, RowInv, TypeInv, TypeOK, WellReferenced, DiagnoseStart,
                        Undiagnosed, Addresses
<1>2. incident \in IncidentObjects /\ incident.id = heap[i].id
      /\ incident.anomalies = heap[i].anomalies
  BY <1>1 DEF Statuses, IncidentObjects
<1>3. heap' = [heap EXCEPT ![i] = incident] /\ UNCHANGED store
  BY DEF DiagnoseStart
<1> HIDE DEF incident
<1> QED BY <1>1, <1>2, <1>3, RewriteMirror

LEMMA DiagnoseDoneMirror ==
  ASSUME MirrorInv, RowInv', NEW i \in Incidents, NEW ok \in WriteOutcomes, DiagnoseDone(i, ok)
  PROVE  MirrorInv' /\ SignalStep
<1> DEFINE record   == [proposal |-> Propose(heap[i].anomalies),
                        status |-> "PROPOSED", audit |-> <<>>]
           incident == [heap[i] EXCEPT !.diagnosis = read[i], !.status = "DIAGNOSED",
                                       !.remediation = record]
<1>1. heap[i] \in IncidentObjects /\ heap[i] # None /\ i \in Addresses /\ read[i] \in Signals
  BY NoneAssumption DEF MirrorInv, RowInv, TypeInv, TypeOK, WellReferenced, DiagnoseDone,
                        Undiagnosed, Addresses
<1>2. record \in Records
  BY <1>1, ProposeType, EmptySeq DEF Records, IncidentObjects
<1>3. heap' = [heap EXCEPT ![i] = incident] /\ Put(incident, ok)
  BY DEF DiagnoseDone
<1> HIDE DEF record
<1>4. incident \in IncidentObjects /\ incident.id = heap[i].id
      /\ incident.anomalies = heap[i].anomalies
  BY <1>1, <1>2 DEF IncidentObjects, Statuses
<1> HIDE DEF incident
<1> QED BY <1>1, <1>3, <1>4, PutCases, RewriteMirror

LEMMA AutoRemediateStartMirror ==
  ASSUME MirrorInv, RowInv', NEW i \in Incidents, AutoRemediateStart(i)
  PROVE  MirrorInv' /\ SignalStep
<1> DEFINE incident == [heap[i] EXCEPT !.status = "REMEDIATING"]
<1>1. heap[i] \in IncidentObjects /\ heap[i] # None /\ i \in Addresses
  BY NoneAssumption DEF MirrorInv, RowInv, TypeInv, TypeOK, WellReferenced, AutoRemediateStart,
                        Proposed, Addresses
<1>2. incident \in IncidentObjects /\ incident.id = heap[i].id
      /\ incident.anomalies = heap[i].anomalies
  BY <1>1 DEF Statuses, IncidentObjects
<1>3. heap' = [heap EXCEPT ![i] = incident] /\ UNCHANGED store
  BY DEF AutoRemediateStart
<1> HIDE DEF incident
<1> QED BY <1>1, <1>2, <1>3, RewriteMirror

LEMMA ApplyMirror ==
  ASSUME MirrorInv, RowInv', NEW a \in Addresses, NEW approver \in {"operator", None},
         NEW ok \in WriteOutcomes, Apply(a, approver, ok),
         heap[a] # None, heap[a].remediation # None
  PROVE  MirrorInv' /\ SignalStep
<1> DEFINE incident == Executed(heap[a], approver)
<1>1. heap[a] \in IncidentObjects
  BY DEF MirrorInv, RowInv, TypeInv, TypeOK
<1>2. incident \in IncidentObjects
  BY <1>1, ExecutedType
<1>3. incident.id = heap[a].id /\ incident.anomalies = heap[a].anomalies
  BY <1>1 DEF Executed, IncidentObjects
<1>4. heap' = [heap EXCEPT ![a] = incident] /\ PutResolved(incident, ok)
  BY DEF Apply
<1> HIDE DEF incident
<1> QED BY <1>2, <1>3, <1>4, PutCases, RewriteMirror DEF PutResolved

LEMMA AutoRemediateFinishMirror ==
  ASSUME MirrorInv, RowInv', NEW i \in Incidents, NEW ok \in WriteOutcomes,
         AutoRemediateFinish(i, ok)
  PROVE  MirrorInv' /\ SignalStep
<1>1. i \in Addresses /\ heap[i] # None /\ heap[i].remediation # None
  BY DEF MirrorInv, RowInv, TypeInv, WellReferenced, AutoRemediateFinish, Proposed, Addresses
<1>2. Apply(i, None, ok)
  BY DEF AutoRemediateFinish
<1> QED BY <1>1, <1>2, ApplyMirror

(* A copy has the signals of the row it is loaded from. *)
LEMMA RemediateStartMirror ==
  ASSUME MirrorInv, RowInv', NEW r \in Requests, NEW i \in Incidents, RemediateStart(r, i)
  PROVE  MirrorInv' /\ SignalStep
<1> DEFINE incident == [Found(i) EXCEPT !.status = "REMEDIATING"]
<1>1. Found(i) \in IncidentObjects /\ Found(i) # None
  BY DEF MirrorInv, RowInv, TypeInv, TypeOK, RemediateStart, Remediable, Found, Addresses
<1>2. /\ incident \in IncidentObjects /\ incident.id = Found(i).id
      /\ incident.anomalies = Found(i).anomalies
  BY <1>1 DEF Statuses, IncidentObjects
<1>3. heap' = [heap EXCEPT ![IF IsOpen(i) THEN i ELSE r] = incident] /\ UNCHANGED store
  BY DEF RemediateStart
<1> HIDE DEF incident
<1>4. CASE IsOpen(i)
  BY <1>1, <1>2, <1>3, <1>4, RewriteMirror DEF Found, Addresses
<1>5. CASE ~IsOpen(i)
  <2>1. incident.id = i /\ incident.anomalies = store[i].anomalies
    BY <1>1, <1>2, <1>5 DEF Found, MirrorInv, RowInv, RowsAgree, ObjectsAgree
  <2>2. \A b \in Addresses : heap'[b] = IF b = r THEN incident ELSE heap[b]
    BY <1>3, <1>5 DEF MirrorInv, RowInv, TypeInv, TypeOK
  <2>3. \A b \in Addresses : heap'[b] # None =>
          heap'[b].anomalies = store'[heap'[b].id].anomalies
    BY <1>3, <2>1, <2>2 DEF MirrorInv
  <2>4. SignalStep
    BY <1>3, SameSignals DEF MirrorInv, RowInv, TypeInv
  <2> QED BY <2>3, <2>4 DEF MirrorInv
<1> QED BY <1>4, <1>5

LEMMA RemediateFinishMirror ==
  ASSUME MirrorInv, RowInv', NEW r \in Requests, NEW ok \in WriteOutcomes, RemediateFinish(r, ok)
  PROVE  MirrorInv' /\ SignalStep
<1>1. /\ req[r].ref \in Addresses
      /\ heap[req[r].ref] # None
      /\ heap[req[r].ref].remediation # None
  BY DEF MirrorInv, RowInv, TypeInv, TypeOK, WellReferenced, RemediateFinish
<1>2. PICK approver \in {"operator", None} : Apply(req[r].ref, approver, ok)
  BY ApproversAssumption DEF RemediateFinish
<1> QED BY <1>1, <1>2, ApplyMirror

LEMMA SweepResolveMirror ==
  ASSUME MirrorInv, RowInv', NEW j \in Jobs, NEW ok \in WriteOutcomes, SweepResolve(j, ok)
  PROVE  MirrorInv' /\ SignalStep
<1> DEFINE i        == Pending[j]
           incident == [heap[i] EXCEPT !.status = "RESOLVED"]
<1>1. i \in Addresses /\ heap[i] \in IncidentObjects /\ heap[i] # None
  <2>1. Expired(j)
    BY DEF SweepResolve
  <2> QED BY <2>1, NoneAssumption DEF MirrorInv, RowInv, TypeInv, TypeOK, WellReferenced, Expired,
                                      Pending, Addresses
<1>2. incident \in IncidentObjects /\ incident.id = heap[i].id
      /\ incident.anomalies = heap[i].anomalies
  BY <1>1 DEF Statuses, IncidentObjects
<1>3. heap' = [heap EXCEPT ![i] = incident] /\ PutResolved(incident, ok)
  BY DEF SweepResolve
<1> HIDE DEF incident, i
<1> QED BY <1>1, <1>2, <1>3, PutCases, RewriteMirror DEF PutResolved

LEMMA RestartMirror == ASSUME MirrorInv, RowInv', Restart PROVE MirrorInv' /\ SignalStep
<1>1. (\A a \in Addresses : heap'[a] = None) /\ UNCHANGED store
  BY DEF Restart
<1>2. SignalStep
  BY <1>1, SameSignals DEF MirrorInv, RowInv, TypeInv
<1> QED BY <1>1, <1>2 DEF MirrorInv

LEMMA MirrorInvInit == Init => MirrorInv
<1> SUFFICES ASSUME Init PROVE MirrorInv
  OBVIOUS
<1> QED BY RowInvInit DEF Init, MirrorInv

(* Every step of the manager only adds signals to a row. *)
LEMMA MirrorInvNext ==
  ASSUME StoreMayFail = FALSE, MirrorInv, [Next]_vars PROVE MirrorInv' /\ SignalStep
<1>1. RowInv'
  BY RowInvNext DEF MirrorInv
<1>2. ASSUME NEW j \in Jobs, Quieten(j) PROVE MirrorInv' /\ SignalStep
  BY <1>1, <1>2, QuietMirror DEF Quieten
<1>3. CASE Restart
  BY <1>1, <1>3, RestartMirror
<1>4. ASSUME NEW ok \in WriteOutcomes, NEW j \in Jobs, ConsumerStep(j, ok)
      PROVE  MirrorInv' /\ SignalStep
  BY <1>1, <1>4, EnrichMirror, OpenIncidentMirror DEF ConsumerStep
<1>5. ASSUME NEW ok \in WriteOutcomes, NEW i \in Incidents, DiagnosisStep(i, ok)
      PROVE  MirrorInv' /\ SignalStep
  <2>1. ASSUME \/ ScheduleDiagnosis(i) \/ ThreadRead(i) \/ DiagnoseFail(i)
               \/ Alert(i) \/ DiagnoseEnd(i)
        PROVE  MirrorInv' /\ SignalStep
    BY <1>1, <2>1, QuietMirror DEF ScheduleDiagnosis, ThreadRead, DiagnoseFail, Alert, DiagnoseEnd
  <2> QED BY <1>1, <1>5, <2>1, DiagnoseStartMirror, DiagnoseDoneMirror,
             AutoRemediateStartMirror, AutoRemediateFinishMirror DEF DiagnosisStep
<1>6. ASSUME NEW ok \in WriteOutcomes, NEW r \in Requests, RequestStep(r, ok)
      PROVE  MirrorInv' /\ SignalStep
  <2>1. ASSUME NEW i \in Incidents, RemediateRefuse(r, i) PROVE MirrorInv' /\ SignalStep
    BY <1>1, <2>1, QuietMirror DEF RemediateRefuse
  <2> QED BY <1>1, <1>6, <2>1, RemediateStartMirror, RemediateFinishMirror DEF RequestStep
<1>7. ASSUME NEW ok \in WriteOutcomes, HeartbeatStep(ok) PROVE MirrorInv' /\ SignalStep
  <2>1. CASE SweepEnd
    BY <1>1, <2>1, QuietMirror DEF SweepEnd
  <2> QED BY <1>1, <1>7, <2>1, SweepResolveMirror DEF HeartbeatStep
<1>8. CASE UNCHANGED vars
  BY <1>1, <1>8, QuietMirror DEF vars
<1> QED BY <1>2, <1>3, <1>4, <1>5, <1>6, <1>7, <1>8 DEF Next

(* While the database works, no write takes a signal off the record: the
   shared object, the copies of requests and the rows never have different
   signals (workflow.py:87-95, :137-143, :180-188). *)
THEOREM SignalsStayOnRecord ==
  ASSUME StoreMayFail = FALSE PROVE Spec => SignalsKept
<1>1. MirrorInv /\ [Next]_vars => MirrorInv' /\ SignalStep
  BY MirrorInvNext
<1>2. SignalStep =>
        [\A i \in Incidents : store[i] # None =>
           IsPrefix(store[i].anomalies, store'[i].anomalies)]_store
  BY DEF SignalStep
<1>3. Init => MirrorInv
  BY MirrorInvInit
<1> QED BY <1>1, <1>2, <1>3, PTL DEF Spec, SignalsKept

-----------------------------------------------------------------------------
(* The verdict and the plan beside it *)

(* What PlanCoversVerdict says of one verdict and one plan. *)
Covers(verdict, plan) ==
  LET kind == LeadingKind(verdict)
  IN  kind \in Range(Urgency) \ {"throughput_drop"} =>
        \/ plan.action = Recommended(verdict)
        \/ \E p, q \in DOMAIN Urgency :
             p < q /\ Urgency[q] = kind /\ plan.action = Advice[Urgency[p]]

(* The two tables rank the first six kinds alike, and answer them alike. *)
LEMMA TablesAgree ==
  /\ DOMAIN Urgency = 1 .. 7 /\ DOMAIN Priority = 1 .. 7 /\ Urgency[7] = "throughput_drop"
  /\ \A p \in 1 .. 6 : /\ Priority[p] = Urgency[p] /\ Urgency[p] \in DOMAIN Advice
                       /\ Urgency[p] \in DOMAIN Playbook
                       /\ Playbook[Urgency[p]].action = Advice[Urgency[p]]
<1>1. DOMAIN Urgency = 1 .. 7 /\ DOMAIN Priority = 1 .. 7 /\ Urgency[7] = "throughput_drop"
  BY DEF Urgency, Priority
<1>2. ASSUME NEW p \in 1 .. 6
      PROVE  /\ Priority[p] = Urgency[p] /\ Urgency[p] \in DOMAIN Advice
             /\ Urgency[p] \in DOMAIN Playbook
             /\ Playbook[Urgency[p]].action = Advice[Urgency[p]]
  <2>1. p = 1 \/ p = 2 \/ p = 3 \/ p = 4 \/ p = 5 \/ p = 6
    OBVIOUS
  <2>2. CASE p = 1
    BY <2>2 DEF Urgency, Priority, Advice, Playbook
  <2>3. CASE p = 2
    BY <2>3 DEF Urgency, Priority, Advice, Playbook
  <2>4. CASE p = 3
    BY <2>4 DEF Urgency, Priority, Advice, Playbook
  <2>5. CASE p = 4
    BY <2>5 DEF Urgency, Priority, Advice, Playbook
  <2>6. CASE p = 5
    BY <2>6 DEF Urgency, Priority, Advice, Playbook
  <2>7. CASE p = 6
    BY <2>7 DEF Urgency, Priority, Advice, Playbook
  <2> QED BY <2>1, <2>2, <2>3, <2>4, <2>5, <2>6, <2>7
<1> QED BY <1>1, <1>2

(* The plan for a list is at least as urgent as the verdict on its first part. *)
LEMMA PlanCoversRead ==
  ASSUME NEW s \in Signals, NEW t \in Signals, IsPrefix(s, t)
  PROVE  Covers(s, Propose(t))
<1> DEFINE present(a) == {p \in DOMAIN Urgency : \E k \in DOMAIN a : a[k].kind = Urgency[p]}
           Of(kind) == {k \in DOMAIN t : t[k].kind = kind}
           ranked == {p \in DOMAIN Priority : Of(Priority[p]) # {}}
           kind == LeadingKind(s)
<1> SUFFICES ASSUME kind \in Range(Urgency) \ {"throughput_drop"}
             PROVE  \/ Propose(t).action = Recommended(s)
                    \/ \E p, q \in DOMAIN Urgency :
                         p < q /\ Urgency[q] = kind /\ Propose(t).action = Advice[Urgency[p]]
  BY DEF Covers
<1>1. s \in Seq(Anomalies) /\ t \in Seq(Anomalies) /\ Len(s) \in Nat /\ Len(t) \in Nat
      /\ 1 \in DOMAIN s /\ Len(s) <= Len(t) /\ \A k \in DOMAIN s : k \in DOMAIN t /\ s[k] = t[k]
  <2>1. s \in Seq(Anomalies) /\ t \in Seq(Anomalies) /\ s # <<>>
    BY DEF Signals
  <2>2. Len(s) <= Len(t) /\ SubSeq(s, 1, Len(s)) = SubSeq(t, 1, Len(s))
    BY DEF IsPrefix
  <2>3. \A k \in 1 .. Len(s) : SubSeq(s, 1, Len(s))[k] = s[k] /\ SubSeq(t, 1, Len(s))[k] = t[k]
    BY <2>1, <2>2
  <2> QED BY <2>1, <2>2, <2>3
<1>2. PICK q \in 1 .. 6 : Urgency[q] = kind /\ q \in present(s)
  <2>1. CASE present(s) = {}
    <3>1. kind = s[1].kind
      BY <2>1 DEF LeadingKind
    <3>2. PICK p \in DOMAIN Urgency : Urgency[p] = kind
      BY DEF Range
    <3>3. p \in present(s)
      BY <1>1, <3>1, <3>2
    <3> QED BY <2>1, <3>3
  <2>2. CASE present(s) # {}
    <3> DEFINE first == CHOOSE p \in present(s) : \A r \in present(s) : p <= r
    <3>1. kind = Urgency[first]
      BY <2>2 DEF LeadingKind
    <3>2. present(s) \subseteq 1 .. 7
      BY TablesAgree
    <3> HIDE DEF present
    <3>3. \E p \in present(s) : \A r \in present(s) : p <= r
      BY <2>2, <3>2
    <3>4. first \in present(s)
      BY <3>3
    <3>5. first # 7
      BY <3>1, TablesAgree
    <3> QED BY <3>1, <3>2, <3>4, <3>5
  <2> QED BY <2>1, <2>2
<1>3. q \in ranked
  <2>1. PICK k \in DOMAIN s : s[k].kind = Urgency[q]
    BY <1>2
  <2>2. k \in Of(Priority[q])
    BY <1>1, <2>1, TablesAgree
  <2> QED BY <2>2, TablesAgree
<1> DEFINE best == CHOOSE p \in ranked : \A r \in ranked : p <= r
<1>4. best \in ranked /\ best <= q /\ best \in 1 .. 6
  <2>1. ranked \subseteq 1 .. 7
    BY TablesAgree
  <2> HIDE DEF ranked
  <2>2. \E p \in ranked : \A r \in ranked : p <= r
    BY <1>3, <2>1
  <2>3. best \in ranked /\ \A r \in ranked : best <= r
    BY <2>2
  <2> HIDE DEF best
  <2> QED BY <1>3, <2>1, <2>3
<1>5. Dominant(t).kind = Priority[best]
  <2> DEFINE last == CHOOSE k \in Of(Priority[best]) : \A m \in Of(Priority[best]) : m <= k
  <2>1. Dominant(t) = t[last]
    <3>1. ranked # {}
      BY <1>3
    <3>2. Dominant(t) = IF ranked = {} THEN t[1] ELSE t[last]
      BY Zenon DEF Dominant
    <3> HIDE DEF ranked, last
    <3> QED BY <3>1, <3>2
  <2>2. Of(Priority[best]) # {} /\ Of(Priority[best]) \subseteq 1 .. Len(t)
    <3>1. Of(Priority[best]) # {}
      <4> HIDE DEF best, Of
      <4> QED BY <1>4
    <3>2. Of(Priority[best]) \subseteq 1 .. Len(t)
      BY <1>1
    <3> QED BY <3>1, <3>2
  <2>3. last \in Of(Priority[best])
    <3> HIDE DEF Of, best
    <3>1. \E k \in Of(Priority[best]) : \A m \in Of(Priority[best]) : m <= k
      BY <1>1, <2>2, LastPosition
    <3> QED BY <3>1
  <2> HIDE DEF last, best
  <2> QED BY <2>1, <2>3
<1> HIDE DEF best
<1>6. Propose(t).action = Advice[Urgency[best]]
  <2>1. Dominant(t).kind \in DOMAIN Playbook /\ Playbook[Dominant(t).kind].action = Advice[Urgency[best]]
    BY <1>4, <1>5, TablesAgree
  <2> QED BY <2>1 DEF Propose
<1>7. CASE best = q
  <2>1. kind \in DOMAIN Advice /\ kind = Urgency[best]
    BY <1>2, <1>7, TablesAgree
  <2> QED BY <1>6, <2>1 DEF Recommended
<1>8. CASE best # q
  <2>1. best < q /\ best \in DOMAIN Urgency /\ q \in DOMAIN Urgency
    BY <1>4, <1>8, TablesAgree
  <2> QED BY <1>2, <1>6, <2>1
<1> QED BY <1>7, <1>8

Covering(incident) ==
  incident # None /\ incident.remediation # None =>
    Covers(incident.diagnosis, incident.remediation.proposal)

CoverInv ==
  /\ GroundInv
  /\ \A a \in Addresses : Covering(heap[a])
  /\ \A i \in Incidents : Covering(store[i])

(* A step that writes one covering object, and may save it. *)
LEMMA WriteCover ==
  ASSUME CoverInv, GroundInv', NEW a \in Addresses, NEW incident, Covering(incident),
         heap' = [heap EXCEPT ![a] = incident],
         UNCHANGED store \/ store' = [store EXCEPT ![incident.id] = incident]
  PROVE  CoverInv'
<1>1. \A b \in Addresses : heap'[b] \in {heap[b], incident}
  BY DEF CoverInv, GroundInv, SettledInv, TypeInv, TypeOK
<1>2. \A i \in Incidents : store'[i] \in {store[i], incident}
  BY DEF CoverInv, GroundInv, SettledInv, TypeInv, TypeOK
<1> QED BY <1>1, <1>2 DEF CoverInv, Covering

LEMMA QuietCover == ASSUME CoverInv, GroundInv', UNCHANGED <<heap, store>> PROVE CoverInv'
  BY DEF CoverInv

(* What has the verdict and the plan of a covering object is covering. *)
LEMMA SameCover ==
  ASSUME NEW was \in IncidentObjects, Covering(was), NEW incident,
         incident.diagnosis = was.diagnosis,
         incident.remediation # None =>
           was.remediation # None /\ incident.remediation.proposal = was.remediation.proposal
  PROVE  Covering(incident)
  BY NoneAssumption DEF Covering

(* A status over an object that a coroutine holds. *)
LEMMA StatusCover ==
  ASSUME CoverInv, GroundInv', NEW a \in Addresses, NEW was \in IncidentObjects, Covering(was),
         NEW status \in Statuses, LET incident == [was EXCEPT !.status = status]
         IN  /\ heap' = [heap EXCEPT ![a] = incident]
             /\ UNCHANGED store \/ store' = [store EXCEPT ![incident.id] = incident]
  PROVE  CoverInv'
<1> DEFINE incident == [was EXCEPT !.status = status]
<1>1. incident.diagnosis = was.diagnosis /\ incident.remediation = was.remediation
  BY StatusSettled
<1>2. /\ heap' = [heap EXCEPT ![a] = incident]
      /\ UNCHANGED store \/ store' = [store EXCEPT ![incident.id] = incident]
  OBVIOUS
<1> HIDE DEF incident
<1>3. Covering(incident)
  BY <1>1, SameCover
<1> QED BY <1>2, <1>3, WriteCover

(* An object that a coroutine holds is there, and covering. *)
LEMMA HeldCover ==
  ASSUME CoverInv, NEW a \in Addresses, heap[a] # None
  PROVE  heap[a] \in IncidentObjects /\ Covering(heap[a])
  BY DEF CoverInv, GroundInv, SettledInv, TypeInv, TypeOK

LEMMA OpenIncidentCover ==
  ASSUME CoverInv, GroundInv', NEW i \in Incidents, NEW j \in Jobs, NEW batch \in Batches,
         NEW ok \in WriteOutcomes, OpenIncident(i, j, batch, ok)
  PROVE  CoverInv'
<1> DEFINE incident == [id |-> i, job |-> j, status |-> "OPEN", anomalies |-> batch,
                        diagnosis |-> None, remediation |-> None]
<1>1. Covering(incident) /\ i \in Addresses
  BY DEF Covering, Addresses
<1>2. heap' = [heap EXCEPT ![i] = incident] /\ Put(incident, ok)
  BY DEF OpenIncident
<1> HIDE DEF incident
<1> QED BY <1>1, <1>2, PutCases, WriteCover

LEMMA EnrichCover ==
  ASSUME CoverInv, GroundInv', NEW j \in Jobs, NEW batch \in Batches, NEW ok \in WriteOutcomes,
         Enrich(j, batch, ok)
  PROVE  CoverInv'
<1>1. open[j] \in Addresses /\ heap[open[j]] # None
  BY DEF CoverInv, GroundInv, SettledInv, TypeInv, TypeOK, WellReferenced, Enrich, Addresses
<1>2. \/ UNCHANGED <<heap, store>>
      \/ \E new : /\ heap' = [heap EXCEPT ![open[j]] = Enriched(heap[open[j]], new)]
                  /\ Put(Enriched(heap[open[j]], new), ok)
  BY DEF Enrich
<1>3. ASSUME NEW new, heap' = [heap EXCEPT ![open[j]] = Enriched(heap[open[j]], new)],
             Put(Enriched(heap[open[j]], new), ok)
      PROVE  CoverInv'
  <2> DEFINE incident == Enriched(heap[open[j]], new)
  <2>1. heap[open[j]] \in IncidentObjects /\ Covering(heap[open[j]])
    BY <1>1, HeldCover
  <2>2. incident.diagnosis = heap[open[j]].diagnosis /\ incident.remediation = heap[open[j]].remediation
    BY <2>1 DEF Enriched, IncidentObjects
  <2>3. heap' = [heap EXCEPT ![open[j]] = incident] /\ Put(incident, ok)
    BY <1>3
  <2> HIDE DEF incident
  <2>4. Covering(incident)
    BY <2>1, <2>2, SameCover
  <2> QED BY <1>1, <2>3, <2>4, PutCases, WriteCover
<1> QED BY <1>2, <1>3, QuietCover

(* The verdict is of a part of the list that the plan is made of. *)
LEMMA DiagnoseDoneCover ==
  ASSUME CoverInv, GroundInv', NEW i \in Incidents, NEW ok \in WriteOutcomes, DiagnoseDone(i, ok)
  PROVE  CoverInv'
<1> DEFINE record   == [proposal |-> Propose(heap[i].anomalies), status |-> "PROPOSED", audit |-> <<>>]
           incident == [heap[i] EXCEPT !.diagnosis = read[i], !.status = "DIAGNOSED", !.remediation = record]
<1>1. heap[i] \in IncidentObjects /\ i \in Addresses /\ read[i] \in Signals
  BY DEF CoverInv, GroundInv, SettledInv, TypeInv, TypeOK, WellReferenced, DiagnoseDone, Undiagnosed,
         Addresses
<1>2. diag[i] = "analysed" /\ heap' = [heap EXCEPT ![i] = incident] /\ Put(incident, ok)
  BY DEF DiagnoseDone
<1>3. heap[i].anomalies \in Signals /\ IsPrefix(read[i], heap[i].anomalies)
  BY <1>1, <1>2 DEF IncidentObjects, CoverInv, GroundInv
<1>4. Covers(read[i], Propose(heap[i].anomalies))
  BY <1>1, <1>3, PlanCoversRead
<1>5. incident.diagnosis = read[i] /\ incident.remediation = record
  BY <1>1 DEF IncidentObjects
<1>6. record.proposal = Propose(heap[i].anomalies)
  OBVIOUS
<1> HIDE DEF incident, record
<1>7. Covering(incident)
  BY <1>4, <1>5, <1>6 DEF Covering
<1> QED BY <1>1, <1>2, <1>7, PutCases, WriteCover

LEMMA ApplyCover ==
  ASSUME CoverInv, GroundInv', NEW a \in Addresses, NEW approver, NEW ok, Apply(a, approver, ok),
         heap[a] # None, heap[a].remediation # None
  PROVE  CoverInv'
<1> DEFINE incident == Executed(heap[a], approver)
<1>1. heap[a] \in IncidentObjects /\ heap[a].remediation \in Records /\ Covering(heap[a])
  BY HeldCover DEF IncidentObjects
<1>2. /\ incident.diagnosis = heap[a].diagnosis
      /\ incident.remediation.proposal = heap[a].remediation.proposal
  BY <1>1 DEF Executed, IncidentObjects, Records
<1>3. heap' = [heap EXCEPT ![a] = incident] /\ PutResolved(incident, ok)
  BY DEF Apply
<1> HIDE DEF incident
<1>4. Covering(incident)
  BY <1>1, <1>2, SameCover
<1> QED BY <1>3, <1>4, PutCases, WriteCover DEF PutResolved

(* A copy of a row has its verdict and its plan. *)
LEMMA RemediateStartCover ==
  ASSUME CoverInv, GroundInv', NEW r \in Requests, NEW i \in Incidents, RemediateStart(r, i)
  PROVE  CoverInv'
<1>1. Found(i) \in IncidentObjects /\ Covering(Found(i))
  BY DEF CoverInv, GroundInv, SettledInv, TypeInv, TypeOK, RemediateStart, Remediable, Found, Addresses
<1>2. \E a \in Addresses : heap' = [heap EXCEPT ![a] = [Found(i) EXCEPT !.status = "REMEDIATING"]]
  BY DEF RemediateStart, Addresses
<1>3. UNCHANGED store /\ "REMEDIATING" \in Statuses
  BY DEF RemediateStart, Statuses
<1> QED BY <1>1, <1>2, <1>3, StatusCover

LEMMA SweepResolveCover ==
  ASSUME CoverInv, GroundInv', NEW j \in Jobs, NEW ok, SweepResolve(j, ok) PROVE CoverInv'
<1> DEFINE i        == Pending[j]
           incident == [heap[i] EXCEPT !.status = "RESOLVED"]
<1>1. i \in Addresses /\ heap[i] # None
  <2>1. Expired(j)
    BY DEF SweepResolve
  <2> QED BY <2>1 DEF CoverInv, GroundInv, SettledInv, TypeInv, TypeOK, WellReferenced, Expired, Pending,
                      Addresses
<1>2. heap' = [heap EXCEPT ![i] = incident] /\ PutResolved(incident, ok)
  BY DEF SweepResolve
<1>3. UNCHANGED store \/ store' = [store EXCEPT ![incident.id] = incident]
  <2> HIDE DEF incident
  <2> QED BY <1>2, PutCases DEF PutResolved
<1>4. "RESOLVED" \in Statuses /\ heap[i] \in IncidentObjects /\ Covering(heap[i])
  BY <1>1, HeldCover DEF Statuses
<1> HIDE DEF i
<1> QED BY <1>1, <1>2, <1>3, <1>4, StatusCover

LEMMA CoverInvInit == Init => CoverInv
  BY GroundInvInit DEF Init, CoverInv, Covering

LEMMA CoverInvNext == ASSUME CoverInv, [Next]_vars PROVE CoverInv'
<1>1. GroundInv'
  BY GroundInvNext DEF CoverInv
<1>2. CASE UNCHANGED <<heap, store>>
  BY <1>1, <1>2, QuietCover
<1>3. CASE Restart
  <2>1. UNCHANGED store /\ \A a \in Addresses : heap'[a] = None
    BY <1>3 DEF Restart
  <2> QED BY <1>1, <2>1 DEF CoverInv, Covering
<1>4. ASSUME NEW ok \in WriteOutcomes, NEW j \in Jobs, ConsumerStep(j, ok) PROVE CoverInv'
  BY <1>1, <1>4, EnrichCover, OpenIncidentCover DEF ConsumerStep
<1>5. ASSUME NEW ok \in WriteOutcomes, NEW i \in Incidents, DiagnosisStep(i, ok) PROVE CoverInv'
  <2>1. i \in Addresses
    BY DEF Addresses
  <2>2. ASSUME NEW status \in Statuses, heap[i] # None, heap' = [heap EXCEPT ![i].status = status],
               UNCHANGED store
        PROVE  CoverInv'
    <3>1. heap[i] \in IncidentObjects /\ Covering(heap[i])
      BY <2>1, <2>2, HeldCover
    <3>2. heap' = [heap EXCEPT ![i] = [heap[i] EXCEPT !.status = status]]
      BY <2>2
    <3> QED BY <1>1, <2>1, <2>2, <3>1, <3>2, StatusCover
  <2>3. CASE DiagnoseStart(i)
    <3>1. heap[i] # None /\ "DIAGNOSING" \in Statuses
      BY <2>3 DEF CoverInv, GroundInv, SettledInv, TypeInv, WellReferenced, DiagnoseStart, Undiagnosed, Statuses
    <3> QED BY <2>2, <2>3, <3>1 DEF DiagnoseStart
  <2>4. CASE AutoRemediateStart(i)
    <3>1. heap[i] # None /\ "REMEDIATING" \in Statuses
      BY <2>4 DEF CoverInv, GroundInv, SettledInv, TypeInv, WellReferenced, AutoRemediateStart, Proposed, Statuses
    <3> QED BY <2>2, <2>4, <3>1 DEF AutoRemediateStart
  <2>5. CASE AutoRemediateFinish(i, ok)
    <3>1. heap[i] # None /\ heap[i].remediation # None
      BY <2>5 DEF CoverInv, GroundInv, SettledInv, TypeInv, WellReferenced, AutoRemediateFinish, Proposed
    <3> QED BY <1>1, <2>1, <2>5, <3>1, ApplyCover DEF AutoRemediateFinish
  <2> QED BY <1>1, <1>2, <1>5, <2>3, <2>4, <2>5, DiagnoseDoneCover
          DEF DiagnosisStep, ScheduleDiagnosis, ThreadRead, DiagnoseFail, Alert, DiagnoseEnd
<1>6. ASSUME NEW ok \in WriteOutcomes, NEW r \in Requests, RequestStep(r, ok) PROVE CoverInv'
  <2>1. CASE RemediateFinish(r, ok)
    <3>1. req[r].ref \in Addresses /\ heap[req[r].ref] # None /\ heap[req[r].ref].remediation # None
      BY <2>1 DEF CoverInv, GroundInv, SettledInv, TypeInv, TypeOK, WellReferenced, RemediateFinish
    <3>2. PICK approver \in {"operator", None} : Apply(req[r].ref, approver, ok)
      BY <2>1, ApproversAssumption DEF RemediateFinish
    <3> QED BY <1>1, <2>1, <3>1, <3>2, ApplyCover DEF RemediateFinish
  <2> QED BY <1>1, <1>2, <1>6, <2>1, RemediateStartCover DEF RequestStep, RemediateRefuse
<1>7. ASSUME NEW ok \in WriteOutcomes, HeartbeatStep(ok) PROVE CoverInv'
  BY <1>1, <1>2, <1>7, SweepResolveCover DEF HeartbeatStep, SweepEnd
<1> QED BY <1>2, <1>3, <1>4, <1>5, <1>6, <1>7 DEF Next, Quieten, vars

(* The plan on record is at least as urgent as the verdict beside it, although
   they come from two tables and from two readings of a list that grows in
   between (bedrock.py:111-191, remediation.py:21-96, workflow.py:108-123). *)
THEOREM PlansCoverVerdicts == Spec => []PlanCoversVerdict
<1>1. CoverInv /\ [Next]_vars => CoverInv'
  BY CoverInvNext
<1>2. CoverInv => PlanCoversVerdict
  <2> SUFFICES ASSUME CoverInv, NEW i \in Incidents, Stage(store[i]) \in {"diagnosed", "resolved"}
               PROVE  Covers(store[i].diagnosis, store[i].remediation.proposal)
    BY DEF PlanCoversVerdict, Covers
  <2>1. store[i] # None /\ store[i].diagnosis # None
    BY DEF CoverInv, GroundInv, Grounded, Stage
  <2>2. store[i].remediation # None
    BY <2>1 DEF CoverInv, GroundInv, SettledInv, Paired
  <2> QED BY <2>1, <2>2 DEF CoverInv, Covering
<1> QED BY <1>1, <1>2, CoverInvInit, PTL DEF Spec

-----------------------------------------------------------------------------
(* The snapshot of the sweep *)

(* A job that is in the snapshot and was not heard of since has the incident
   of the snapshot, or none: to open another one it has to be heard. *)
SnapshotInv ==
  /\ TypeInv
  /\ \A j \in Jobs :
       sweep.todo[j] # None /\ j \in sweep.quiet => open[j] \in {sweep.todo[j], None}

(* Steps that at most close incidents and silence jobs of the snapshot. *)
LEMMA ClosingSnapshot ==
  ASSUME SnapshotInv, TypeInv',
         \A j \in Jobs : open'[j] \in {open[j], None},
         \A j \in Jobs : sweep'.todo[j] = sweep.todo[j],
         sweep'.quiet \subseteq sweep.quiet
  PROVE  SnapshotInv'
  BY DEF SnapshotInv

LEMMA OpenIncidentSnapshot ==
  ASSUME SnapshotInv, TypeInv', NEW i \in Incidents, NEW j \in Jobs, NEW batch \in Batches,
         NEW ok \in WriteOutcomes, OpenIncident(i, j, batch, ok)
  PROVE  SnapshotInv'
<1>1. /\ open' = [open EXCEPT ![j] = i]
      /\ sweep' = [sweep EXCEPT !.quiet = @ \ {j}]
  BY DEF OpenIncident, Hear
<1>2. sweep'.todo = sweep.todo /\ sweep'.quiet = sweep.quiet \ {j}
  BY <1>1 DEF SnapshotInv, TypeInv, TypeOK
<1>3. \A k \in Jobs \ {j} : open'[k] = open[k]
  BY <1>1 DEF SnapshotInv, TypeInv, TypeOK
<1> QED BY <1>2, <1>3 DEF SnapshotInv

LEMMA EnrichSnapshot ==
  ASSUME SnapshotInv, TypeInv', NEW j \in Jobs, NEW batch \in Batches, NEW ok \in WriteOutcomes,
         Enrich(j, batch, ok)
  PROVE  SnapshotInv'
<1>1. UNCHANGED open /\ sweep' = [sweep EXCEPT !.quiet = @ \ {j}]
  BY DEF Enrich, Hear
<1>2. sweep'.todo = sweep.todo /\ sweep'.quiet = sweep.quiet \ {j}
  BY <1>1 DEF SnapshotInv, TypeInv, TypeOK
<1> QED BY <1>1, <1>2, ClosingSnapshot

LEMMA ApplySnapshot ==
  ASSUME SnapshotInv, TypeInv', NEW a \in Addresses, NEW approver, NEW ok,
         Apply(a, approver, ok), UNCHANGED sweep
  PROVE  SnapshotInv'
<1>1. \A j \in Jobs : open'[j] \in {open[j], None}
  BY DEF Apply, SnapshotInv, TypeInv, TypeOK
<1> QED BY <1>1, ClosingSnapshot

(* The sweep goes on with what it has of its snapshot, or begins with _open. *)
LEMMA SweepResolveSnapshot ==
  ASSUME SnapshotInv, TypeInv', NEW j \in Jobs, NEW ok \in WriteOutcomes, SweepResolve(j, ok)
  PROVE  SnapshotInv'
<1>1. \A k \in Jobs : Pending[k] # None /\ k \in Silent => open[k] \in {Pending[k], None}
  BY DEF SnapshotInv, Pending, Silent
<1>2. CASE ok /\ open[j] # None
  <2>1. PICK unfit : sweep' = [pc   |-> "emitting",
                               todo |-> [k \in Jobs |-> IF k \in unfit \cup {j} THEN None
                                                        ELSE Pending[k]],
                               quiet |-> Silent]
    BY <1>2 DEF SweepResolve
  <2>2. /\ \A k \in Jobs : sweep'.todo[k] \in {Pending[k], None}
        /\ sweep'.quiet = Silent
    BY <2>1
  <2>3. \A k \in Jobs : open'[k] \in {open[k], None}
    BY <1>2 DEF SweepResolve, SnapshotInv, TypeInv, TypeOK
  <2> QED BY <1>1, <2>2, <2>3 DEF SnapshotInv
<1>3. CASE ~(ok /\ open[j] # None)
  <2>1. \A k \in Jobs : sweep'.todo[k] = None
    BY <1>3 DEF SweepResolve, NoJobs
  <2> QED BY <2>1 DEF SnapshotInv
<1> QED BY <1>2, <1>3

LEMMA SnapshotInvInit == Init => SnapshotInv
<1> SUFFICES ASSUME Init PROVE SnapshotInv
  OBVIOUS
<1> QED BY TypeInvInit DEF Init, SnapshotInv, NoJobs

LEMMA SnapshotInvNext == SnapshotInv /\ [Next]_vars => SnapshotInv'
<1> SUFFICES ASSUME SnapshotInv, [Next]_vars PROVE SnapshotInv'
  OBVIOUS
<1>1. TypeInv'
  BY TypeInvNext DEF SnapshotInv
<1>2. ASSUME NEW j \in Jobs, Quieten(j) PROVE SnapshotInv'
  BY <1>1, <1>2, ClosingSnapshot DEF Quieten
<1>3. CASE Restart
  BY <1>1, <1>3 DEF Restart, SnapshotInv, NoJobs
<1>4. ASSUME NEW ok \in WriteOutcomes, NEW j \in Jobs, ConsumerStep(j, ok) PROVE SnapshotInv'
  BY <1>1, <1>4, EnrichSnapshot, OpenIncidentSnapshot DEF ConsumerStep
<1>5. ASSUME NEW ok \in WriteOutcomes, NEW i \in Incidents, DiagnosisStep(i, ok)
      PROVE  SnapshotInv'
  <2>1. CASE AutoRemediateFinish(i, ok)
    BY <1>1, <2>1, ApplySnapshot DEF AutoRemediateFinish, Addresses
  <2>2. CASE UNCHANGED <<open, sweep>>
    BY <1>1, <2>2, ClosingSnapshot
  <2> QED BY <1>5, <2>1, <2>2 DEF DiagnosisStep, ScheduleDiagnosis, DiagnoseStart, ThreadRead,
                                  DiagnoseDone, DiagnoseFail, Alert, DiagnoseEnd,
                                  AutoRemediateStart
<1>6. ASSUME NEW ok \in WriteOutcomes, NEW r \in Requests, RequestStep(r, ok) PROVE SnapshotInv'
  <2>1. CASE RemediateFinish(r, ok)
    <3>1. req[r].ref \in Addresses
      BY <2>1 DEF SnapshotInv, TypeInv, TypeOK, WellReferenced, RemediateFinish
    <3>2. PICK approver \in {"operator", None} : Apply(req[r].ref, approver, ok)
      BY <2>1, ApproversAssumption DEF RemediateFinish
    <3> QED BY <1>1, <2>1, <3>1, <3>2, ApplySnapshot DEF RemediateFinish
  <2>2. CASE UNCHANGED <<open, sweep>>
    BY <1>1, <2>2, ClosingSnapshot
  <2> QED BY <1>6, <2>1, <2>2 DEF RequestStep, RemediateStart, RemediateRefuse
<1>7. ASSUME NEW ok \in WriteOutcomes, HeartbeatStep(ok) PROVE SnapshotInv'
  <2>1. CASE SweepEnd
    BY <1>1, <2>1 DEF SweepEnd, SnapshotInv, NoJobs
  <2> QED BY <1>1, <1>7, <2>1, SweepResolveSnapshot DEF HeartbeatStep
<1>8. CASE UNCHANGED vars
  BY <1>1, <1>8, ClosingSnapshot DEF vars
<1> QED BY <1>2, <1>3, <1>4, <1>5, <1>6, <1>7, <1>8 DEF Next

(* What the sweep finds fit to resolve is the incident the job has now, or one
   that is gone, whatever changed _open since the snapshot (workflow.py:176-189). *)
THEOREM SweepStaysCurrent == Spec => []SweepTargetsCurrent
<1>1. SnapshotInv => SweepTargetsCurrent
  <2> SUFFICES ASSUME SnapshotInv, NEW j \in Jobs, Expired(j)
               PROVE  open[j] \in {Pending[j], None}
    BY DEF SweepTargetsCurrent
  <2> QED BY DEF SnapshotInv, Expired, Pending, Silent
<1> QED BY <1>1, SnapshotInvInit, SnapshotInvNext, PTL DEF Spec

-----------------------------------------------------------------------------
(* The rows of open incidents *)

(* A row is its object as it was before a status in flight. *)
Tracks(row, incident) ==
  /\ row = [incident EXCEPT !.status = row.status]
  /\ row.status # incident.status => incident.status \in {"DIAGNOSING", "REMEDIATING"}

TrackInv ==
  /\ RowInv
  /\ \A j \in Jobs : open[j] # None => Tracks(store[open[j]], heap[open[j]])

LEMMA OwnTrack == ASSUME NEW incident \in IncidentObjects PROVE Tracks(incident, incident)
  BY DEF Tracks, IncidentObjects

LEMMA QuietTrack ==
  ASSUME TrackInv, RowInv', UNCHANGED <<open, heap, store>> PROVE TrackInv'
  BY DEF TrackInv

(* An object that is written to its row as it is, and may be opened by that. *)
LEMMA WrittenTrack ==
  ASSUME TrackInv, RowInv', NEW i \in Incidents, NEW incident \in IncidentObjects,
         heap' = [heap EXCEPT ![i] = incident], store' = [store EXCEPT ![i] = incident],
         \A j \in Jobs : open'[j] \in {open[j], None, i}
  PROVE  TrackInv'
<1>1. /\ \A k \in Incidents : heap'[k] = IF k = i THEN incident ELSE heap[k]
      /\ \A k \in Incidents : store'[k] = IF k = i THEN incident ELSE store[k]
  BY DEF TrackInv, RowInv, TypeInv, TypeOK, Addresses
<1>2. Tracks(incident, incident)
  BY OwnTrack
<1>3. \A j \in Jobs : open'[j] # None => open'[j] \in Incidents
  BY DEF TrackInv, RowInv, TypeInv, TypeOK
<1> QED BY <1>1, <1>2, <1>3 DEF TrackInv

(* A status that is not written before an await. *)
LEMMA StatusTrack ==
  ASSUME TrackInv, RowInv', NEW i \in Incidents, NEW status \in {"DIAGNOSING", "REMEDIATING"},
         heap[i] # None, heap' = [heap EXCEPT ![i] = [heap[i] EXCEPT !.status = status]],
         UNCHANGED <<open, store>>
  PROVE  TrackInv'
<1>1. heap[i] \in IncidentObjects
  BY DEF TrackInv, RowInv, TypeInv, TypeOK, Addresses
<1> DEFINE incident == [heap[i] EXCEPT !.status = status]
<1>2. ASSUME Tracks(store[i], heap[i]) PROVE Tracks(store[i], incident)
  <2>1. [incident EXCEPT !.status = store[i].status] = [heap[i] EXCEPT !.status = store[i].status]
    BY <1>1 DEF IncidentObjects
  <2>2. incident.status = status
    BY <1>1 DEF IncidentObjects
  <2> QED BY <1>2, <2>1, <2>2 DEF Tracks
<1>3. heap' = [heap EXCEPT ![i] = incident]
  OBVIOUS
<1> HIDE DEF incident
<1>4. \A k \in Incidents : heap'[k] = IF k = i THEN incident ELSE heap[k]
  BY <1>3 DEF TrackInv, RowInv, TypeInv, TypeOK, Addresses
<1>5. \A j \in Jobs : open[j] # None => open[j] \in Incidents
  BY DEF TrackInv, RowInv, TypeInv, TypeOK
<1> QED BY <1>2, <1>4, <1>5 DEF TrackInv

(* An incident that is not open afterwards: what is written does not matter. *)
LEMMA ClosedTrack ==
  ASSUME TrackInv, RowInv', NEW a \in Addresses, NEW incident \in IncidentObjects,
         heap[a] # None, incident.id = heap[a].id,
         heap' = [heap EXCEPT ![a] = incident],
         UNCHANGED store \/ store' = [store EXCEPT ![incident.id] = incident],
         \A j \in Jobs : open'[j] \in {open[j], None} /\ open'[j] # heap[a].id
  PROVE  TrackInv'
<1>1. a \in Incidents => heap[a].id = a
  BY DEF TrackInv, RowInv, RowsAgree, ObjectsAgree
<1>2. \A j \in Jobs : open'[j] # None =>
        /\ open'[j] \in Incidents /\ open'[j] # a /\ open'[j] # incident.id
        /\ open'[j] = open[j]
  BY <1>1 DEF TrackInv, RowInv, TypeInv, TypeOK
<1>3. \A k \in Incidents : k # a /\ k # incident.id => heap'[k] = heap[k] /\ store'[k] = store[k]
  BY DEF TrackInv, RowInv, TypeInv, TypeOK, Addresses
<1> QED BY <1>2, <1>3 DEF TrackInv

LEMMA OpenIncidentTrack ==
  ASSUME StoreMayFail = FALSE, TrackInv, RowInv', NEW i \in Incidents, NEW j \in Jobs,
         NEW batch \in Batches, NEW ok \in WriteOutcomes, OpenIncident(i, j, batch, ok)
  PROVE  TrackInv'
<1> DEFINE incident == [id |-> i, job |-> j, status |-> "OPEN", anomalies |-> batch,
                        diagnosis |-> None, remediation |-> None]
<1>1. incident \in IncidentObjects /\ incident.id = i
  BY BatchesAssumption DEF IncidentObjects, Statuses
<1>2. heap' = [heap EXCEPT ![i] = incident] /\ Put(incident, ok)
      /\ open' = [open EXCEPT ![j] = i]
  BY DEF OpenIncident
<1> HIDE DEF incident
<1>3. store' = [store EXCEPT ![i] = incident]
  BY <1>1, <1>2, WritesSucceed DEF Put
<1>4. \A k \in Jobs : open'[k] \in {open[k], None, i}
  BY <1>2 DEF TrackInv, RowInv, TypeInv, TypeOK
<1> QED BY <1>1, <1>2, <1>3, <1>4, WrittenTrack

LEMMA EnrichTrack ==
  ASSUME StoreMayFail = FALSE, TrackInv, RowInv', NEW j \in Jobs, NEW batch \in Batches,
         NEW ok \in WriteOutcomes, Enrich(j, batch, ok)
  PROVE  TrackInv'
<1> DEFINE i == open[j]
<1>1. /\ i \in Incidents /\ heap[i] \in IncidentObjects /\ heap[i].id = i
      /\ heap[i].anomalies \in Signals
  BY NoneAssumption DEF TrackInv, RowInv, RowsAgree, ObjectsAgree, TypeInv, TypeOK,
                        WellReferenced, Enrich, Addresses, IncidentObjects
<1>2. UNCHANGED open
  BY DEF Enrich
<1>3. CASE UNCHANGED <<heap, store>>
  BY <1>2, <1>3, QuietTrack
<1>4. CASE ~UNCHANGED <<heap, store>>
  <2>1. PICK pos \in InOrder(Unseen(batch, heap[i].anomalies)) :
          LET new      == [k \in DOMAIN pos |-> batch[pos[k]]]
              incident == Enriched(heap[i], new)
          IN  heap' = [heap EXCEPT ![i] = incident] /\ Put(incident, ok)
    BY <1>4 DEF Enrich
  <2> DEFINE new      == [k \in DOMAIN pos |-> batch[pos[k]]]
             incident == Enriched(heap[i], new)
  <2>2. heap[i].anomalies \o new \in Signals
    BY <1>1, EnrichedType
  <2>3. heap' = [heap EXCEPT ![i] = incident] /\ Put(incident, ok)
    BY <2>1
  <2> HIDE DEF new
  <2>4. incident \in IncidentObjects /\ incident.id = i
    BY <1>1, <2>2 DEF Enriched, IncidentObjects
  <2> HIDE DEF incident
  <2>5. store' = [store EXCEPT ![i] = incident]
    BY <2>3, <2>4, WritesSucceed DEF Put
  <2> HIDE DEF i
  <2> QED BY <1>1, <1>2, <2>3, <2>4, <2>5, WrittenTrack
<1> QED BY <1>3, <1>4

LEMMA DiagnoseDoneTrack ==
  ASSUME StoreMayFail = FALSE, TrackInv, RowInv', NEW i \in Incidents,
         NEW ok \in WriteOutcomes, DiagnoseDone(i, ok)
  PROVE  TrackInv'
<1> DEFINE record   == [proposal |-> Propose(heap[i].anomalies),
                        status |-> "PROPOSED", audit |-> <<>>]
           incident == [heap[i] EXCEPT !.diagnosis = read[i], !.status = "DIAGNOSED",
                                       !.remediation = record]
<1>1. heap[i] \in IncidentObjects /\ heap[i] # None /\ read[i] \in Signals
  BY NoneAssumption DEF TrackInv, RowInv, TypeInv, TypeOK, WellReferenced, DiagnoseDone,
                        Undiagnosed, Addresses
<1>2. record \in Records
  BY <1>1, ProposeType, EmptySeq DEF Records, IncidentObjects
<1>3. heap' = [heap EXCEPT ![i] = incident] /\ Put(incident, ok) /\ UNCHANGED open
  BY DEF DiagnoseDone
<1> HIDE DEF record
<1>4. incident \in IncidentObjects /\ incident.id = heap[i].id
  BY <1>1, <1>2 DEF IncidentObjects, Statuses
<1>5. heap[i].id = i
  BY <1>1 DEF TrackInv, RowInv, RowsAgree, ObjectsAgree
<1> HIDE DEF incident
<1>6. store' = [store EXCEPT ![i] = incident]
  BY <1>3, <1>4, <1>5, WritesSucceed DEF Put
<1> QED BY <1>3, <1>4, <1>6, WrittenTrack

(* A run takes the incident out of _open with the write of its row. *)
LEMMA ApplyTrack ==
  ASSUME StoreMayFail = FALSE, TrackInv, RowInv', NEW a \in Addresses,
         NEW approver \in {"operator", None}, NEW ok \in WriteOutcomes,
         Apply(a, approver, ok), heap[a] # None, heap[a].remediation # None
  PROVE  TrackInv'
<1> DEFINE incident == Executed(heap[a], approver)
<1>1. heap[a] \in IncidentObjects
  BY DEF TrackInv, RowInv, TypeInv, TypeOK
<1>2. incident \in IncidentObjects
  BY <1>1, ExecutedType
<1>3. incident.id = heap[a].id /\ incident.job = heap[a].job
  BY <1>1 DEF Executed, IncidentObjects
<1>4. /\ heap' = [heap EXCEPT ![a] = incident]
      /\ PutResolved(incident, ok)
      /\ open' = [open EXCEPT ![incident.job] = None]
  BY WritesSucceed DEF Apply
<1> HIDE DEF incident
<1>5. \A j \in Jobs : open'[j] \in {open[j], None} /\ open'[j] # heap[a].id
  BY <1>3, <1>4, PoppedIsGone DEF TrackInv
<1> QED BY <1>2, <1>3, <1>4, <1>5, PutCases, ClosedTrack DEF PutResolved

LEMMA RemediateStartTrack ==
  ASSUME TrackInv, RowInv', NEW r \in Requests, NEW i \in Incidents, RemediateStart(r, i)
  PROVE  TrackInv'
<1>1. UNCHANGED <<open, store>>
  BY DEF RemediateStart
<1>2. CASE IsOpen(i)
  <2>1. heap[i] # None /\ heap' = [heap EXCEPT ![i] = [heap[i] EXCEPT !.status = "REMEDIATING"]]
    BY <1>2 DEF RemediateStart, Remediable, Found
  <2> QED BY <1>1, <2>1, StatusTrack
<1>3. CASE ~IsOpen(i)
  <2>1. \A k \in Incidents : heap'[k] = heap[k]
    BY <1>3, AddressAssumption DEF RemediateStart, TrackInv, RowInv, TypeInv, TypeOK, Addresses
  <2>2. \A j \in Jobs : open[j] # None => open[j] \in Incidents
    BY DEF TrackInv, RowInv, TypeInv, TypeOK
  <2> QED BY <1>1, <2>1, <2>2 DEF TrackInv
<1> QED BY <1>2, <1>3

(* The sweep closes the job of the incident it resolved, or finds it closed. *)
LEMMA SweepResolveTrack ==
  ASSUME StoreMayFail = FALSE, TrackInv, RowInv', NEW j \in Jobs, NEW ok \in WriteOutcomes,
         SweepResolve(j, ok)
  PROVE  TrackInv'
<1> DEFINE i        == Pending[j]
           incident == [heap[i] EXCEPT !.status = "RESOLVED"]
<1>1. i \in Incidents /\ i \in Addresses /\ heap[i] \in IncidentObjects /\ heap[i] # None
      /\ heap[i].id = i /\ heap[i].job = j
  <2>1. Expired(j)
    BY DEF SweepResolve
  <2> QED BY <2>1, NoneAssumption DEF TrackInv, RowInv, RowsAgree, ObjectsAgree, OpenAgree,
                                      TodoAgree, TypeInv, TypeOK, WellReferenced, Expired,
                                      Pending, Addresses
<1>2. incident \in IncidentObjects /\ incident.id = heap[i].id
  BY <1>1 DEF IncidentObjects, Statuses
<1>3. heap' = [heap EXCEPT ![i] = incident] /\ PutResolved(incident, ok)
  BY DEF SweepResolve
<1>4. \A k \in Jobs : open'[k] \in {open[k], None} /\ (open'[k] # None => k # j)
  <2>1. open' = IF open[j] # None THEN [open EXCEPT ![j] = None] ELSE open
    BY WritesSucceed DEF SweepResolve
  <2> QED BY <2>1 DEF TrackInv, RowInv, TypeInv, TypeOK
<1> HIDE DEF incident, i
<1>5. \A k \in Jobs : open'[k] # heap[i].id
  <2> SUFFICES ASSUME NEW k \in Jobs, open'[k] = i PROVE FALSE
    BY <1>1
  <2>1. i # None
    BY <1>1, NoneAssumption DEF Addresses
  <2>2. k # j /\ open[k] = i
    BY <1>4, <2>1
  <2>3. heap[i].job = k
    BY <2>1, <2>2 DEF TrackInv, RowInv, RowsAgree, OpenAgree
  <2> QED BY <1>1, <2>2, <2>3
<1> QED BY <1>1, <1>2, <1>3, <1>4, <1>5, PutCases, ClosedTrack DEF PutResolved

LEMMA TrackInvInit == Init => TrackInv
<1> SUFFICES ASSUME Init PROVE TrackInv
  OBVIOUS
<1> QED BY RowInvInit DEF Init, TrackInv, NoJobs

LEMMA TrackInvNext ==
  ASSUME StoreMayFail = FALSE PROVE TrackInv /\ [Next]_vars => TrackInv'
<1> SUFFICES ASSUME TrackInv, [Next]_vars PROVE TrackInv'
  OBVIOUS
<1>1. RowInv'
  BY RowInvNext DEF TrackInv
<1>2. ASSUME NEW j \in Jobs, Quieten(j) PROVE TrackInv'
  BY <1>1, <1>2, QuietTrack DEF Quieten
<1>3. CASE Restart
  BY <1>1, <1>3 DEF Restart, TrackInv, NoJobs
<1>4. ASSUME NEW ok \in WriteOutcomes, NEW j \in Jobs, ConsumerStep(j, ok) PROVE TrackInv'
  BY <1>1, <1>4, EnrichTrack, OpenIncidentTrack DEF ConsumerStep
<1>5. ASSUME NEW ok \in WriteOutcomes, NEW i \in Incidents, DiagnosisStep(i, ok) PROVE TrackInv'
  <2>1. CASE DiagnoseStart(i)
    <3>1. heap[i] # None
      BY <2>1 DEF TrackInv, RowInv, TypeInv, WellReferenced, DiagnoseStart, Undiagnosed
    <3> QED BY <1>1, <2>1, <3>1, StatusTrack DEF DiagnoseStart
  <2>2. CASE AutoRemediateStart(i)
    <3>1. heap[i] # None
      BY <2>2 DEF TrackInv, RowInv, TypeInv, WellReferenced, AutoRemediateStart, Proposed
    <3> QED BY <1>1, <2>2, <3>1, StatusTrack DEF AutoRemediateStart
  <2>3. CASE AutoRemediateFinish(i, ok)
    <3>1. i \in Addresses /\ heap[i] # None /\ heap[i].remediation # None
      BY <2>3 DEF TrackInv, RowInv, TypeInv, WellReferenced, AutoRemediateFinish, Proposed,
                  Addresses
    <3> QED BY <1>1, <2>3, <3>1, ApplyTrack DEF AutoRemediateFinish
  <2>4. CASE UNCHANGED <<open, heap, store>>
    BY <1>1, <2>4, QuietTrack
  <2> QED BY <1>1, <1>5, <2>1, <2>2, <2>3, <2>4, DiagnoseDoneTrack
          DEF DiagnosisStep, ScheduleDiagnosis, ThreadRead, DiagnoseFail, Alert, DiagnoseEnd
<1>6. ASSUME NEW ok \in WriteOutcomes, NEW r \in Requests, RequestStep(r, ok) PROVE TrackInv'
  <2>1. CASE RemediateFinish(r, ok)
    <3>1. /\ req[r].ref \in Addresses
          /\ heap[req[r].ref] # None
          /\ heap[req[r].ref].remediation # None
      BY <2>1 DEF TrackInv, RowInv, TypeInv, TypeOK, WellReferenced, RemediateFinish
    <3>2. PICK approver \in {"operator", None} : Apply(req[r].ref, approver, ok)
      BY <2>1, ApproversAssumption DEF RemediateFinish
    <3> QED BY <1>1, <2>1, <3>1, <3>2, ApplyTrack DEF RemediateFinish
  <2>2. ASSUME NEW i \in Incidents, RemediateRefuse(r, i) PROVE TrackInv'
    BY <1>1, <2>2, QuietTrack DEF RemediateRefuse
  <2> QED BY <1>1, <1>6, <2>1, <2>2, RemediateStartTrack DEF RequestStep
<1>7. ASSUME NEW ok \in WriteOutcomes, HeartbeatStep(ok) PROVE TrackInv'
  BY <1>1, <1>7, QuietTrack, SweepResolveTrack DEF HeartbeatStep, SweepEnd
<1>8. CASE UNCHANGED vars
  BY <1>1, <1>8, QuietTrack DEF vars
<1> QED BY <1>2, <1>3, <1>4, <1>5, <1>6, <1>7, <1>8 DEF Next

(* While the database works, a crash loses nothing of an open incident but a
   status in flight, at whichever await it comes (workflow.py:94, :108-123,
   :145-157). *)
THEOREM RowsTrackOpen ==
  ASSUME StoreMayFail = FALSE PROVE Spec => []RowTracksOpen
<1>1. TrackInv => RowTracksOpen
  BY DEF TrackInv, Tracks, RowTracksOpen
<1>2. Init => TrackInv
  BY TrackInvInit
<1>3. TrackInv /\ [Next]_vars => TrackInv'
  BY TrackInvNext
<1> QED BY <1>1, <1>2, <1>3, PTL DEF Spec

-----------------------------------------------------------------------------
(* The corpus of a process that is not restarted *)

(* A row is resolved by the two paths that index it, and by no other write. *)
IndexedInv ==
  /\ RowInv
  /\ \A i \in Incidents : Stage(store[i]) = "resolved" => corpus[i] > 0

(* Steps that resolve no row. *)
LEMMA UnresolvedIndexed ==
  ASSUME IndexedInv, RowInv', UNCHANGED corpus,
         NEW incident \in IncidentObjects, incident.status # "RESOLVED",
         UNCHANGED store \/ store' = [store EXCEPT ![incident.id] = incident]
  PROVE  IndexedInv'
<1>1. \A i \in Incidents : store'[i] \in {store[i], incident}
  BY DEF IndexedInv, RowInv, TypeInv, TypeOK
<1>2. Stage(incident) # "resolved"
  BY NoneAssumption DEF Stage
<1> QED BY <1>1, <1>2 DEF IndexedInv

LEMMA QuietIndexed ==
  ASSUME IndexedInv, RowInv', UNCHANGED <<store, corpus>> PROVE IndexedInv'
  BY DEF IndexedInv

(* A row that is resolved and indexed. *)
LEMMA ResolvedIndexed ==
  ASSUME StoreMayFail = FALSE, IndexedInv, RowInv', NEW incident \in IncidentObjects,
         NEW ok \in WriteOutcomes, PutResolved(incident, ok), Index(incident)
  PROVE  IndexedInv'
<1>1. store' = [store EXCEPT ![incident.id] = incident]
  BY ResolutionSucceeds
<1>2. corpus' = [corpus EXCEPT ![incident.id] = @ + 1]
  BY DEF Index
<1>3. \A i \in Incidents : corpus[i] \in Nat
  BY DEF IndexedInv, RowInv, TypeInv, TypeOK
<1>4. \A i \in Incidents : IF i = incident.id THEN corpus'[i] = corpus[i] + 1
                           ELSE corpus'[i] = corpus[i] /\ store'[i] = store[i]
  BY <1>1, <1>2 DEF IndexedInv, RowInv, TypeInv, TypeOK
<1> QED BY <1>3, <1>4 DEF IndexedInv

LEMMA ApplyIndexed ==
  ASSUME StoreMayFail = FALSE, IndexedInv, RowInv', NEW a \in Addresses,
         NEW approver \in {"operator", None}, NEW ok \in WriteOutcomes,
         Apply(a, approver, ok), heap[a] # None, heap[a].remediation # None
  PROVE  IndexedInv'
<1>1. heap[a] \in IncidentObjects
  BY DEF IndexedInv, RowInv, TypeInv, TypeOK
<1>2. Executed(heap[a], approver) \in IncidentObjects
  BY <1>1, ExecutedType
<1>3. PutResolved(Executed(heap[a], approver), ok) /\ Index(Executed(heap[a], approver))
  BY WritesSucceed DEF Apply
<1> QED BY <1>2, <1>3, ResolvedIndexed

LEMMA OpenIncidentIndexed ==
  ASSUME IndexedInv, RowInv', NEW i \in Incidents, NEW j \in Jobs, NEW batch \in Batches,
         NEW ok \in WriteOutcomes, OpenIncident(i, j, batch, ok)
  PROVE  IndexedInv'
<1> DEFINE incident == [id |-> i, job |-> j, status |-> "OPEN", anomalies |-> batch,
                        diagnosis |-> None, remediation |-> None]
<1>1. incident \in IncidentObjects /\ incident.status # "RESOLVED"
  BY BatchesAssumption DEF IncidentObjects, Statuses
<1>2. Put(incident, ok) /\ UNCHANGED corpus
  BY DEF OpenIncident
<1> HIDE DEF incident
<1> QED BY <1>1, <1>2, UnresolvedIndexed DEF Put

(* Only an unresolved incident is open and enriched. *)
LEMMA EnrichIndexed ==
  ASSUME IndexedInv, RowInv', NEW j \in Jobs, NEW batch \in Batches, NEW ok \in WriteOutcomes,
         Enrich(j, batch, ok)
  PROVE  IndexedInv'
<1> DEFINE i == open[j]
<1>1. /\ heap[i] \in IncidentObjects /\ heap[i].status # "RESOLVED"
      /\ heap[i].anomalies \in Signals
  BY NoneAssumption DEF IndexedInv, RowInv, RowsAgree, OpenAgree, TypeInv, TypeOK,
                        WellReferenced, Enrich, Addresses, IncidentObjects
<1>2. UNCHANGED corpus
  BY DEF Enrich
<1>3. CASE UNCHANGED store
  BY <1>2, <1>3, QuietIndexed
<1>4. CASE ~UNCHANGED store
  <2>1. PICK pos \in InOrder(Unseen(batch, heap[i].anomalies)) :
          Put(Enriched(heap[i], [k \in DOMAIN pos |-> batch[pos[k]]]), ok)
    BY <1>4 DEF Enrich
  <2> DEFINE new      == [k \in DOMAIN pos |-> batch[pos[k]]]
             incident == Enriched(heap[i], new)
  <2>2. heap[i].anomalies \o new \in Signals
    BY <1>1, EnrichedType
  <2> HIDE DEF new
  <2>3. incident \in IncidentObjects /\ incident.status = heap[i].status
    BY <1>1, <2>2 DEF Enriched, IncidentObjects
  <2>4. Put(incident, ok)
    BY <2>1 DEF new
  <2> HIDE DEF incident
  <2> QED BY <1>1, <1>2, <2>3, <2>4, UnresolvedIndexed DEF Put
<1> QED BY <1>3, <1>4

LEMMA DiagnoseDoneIndexed ==
  ASSUME IndexedInv, RowInv', NEW i \in Incidents, NEW ok \in WriteOutcomes, DiagnoseDone(i, ok)
  PROVE  IndexedInv'
<1> DEFINE record   == [proposal |-> Propose(heap[i].anomalies),
                        status |-> "PROPOSED", audit |-> <<>>]
           incident == [heap[i] EXCEPT !.diagnosis = read[i], !.status = "DIAGNOSED",
                                       !.remediation = record]
<1>1. heap[i] \in IncidentObjects /\ read[i] \in Signals
  BY DEF IndexedInv, RowInv, TypeInv, TypeOK, WellReferenced, DiagnoseDone, Undiagnosed, Addresses
<1>2. record \in Records
  BY <1>1, ProposeType, EmptySeq DEF Records, IncidentObjects
<1>3. Put(incident, ok) /\ UNCHANGED corpus
  BY DEF DiagnoseDone
<1> HIDE DEF record
<1>4. incident \in IncidentObjects /\ incident.status # "RESOLVED"
  BY <1>1, <1>2 DEF IncidentObjects, Statuses
<1> HIDE DEF incident
<1> QED BY <1>3, <1>4, UnresolvedIndexed DEF Put

LEMMA SweepResolveIndexed ==
  ASSUME StoreMayFail = FALSE, IndexedInv, RowInv', NEW j \in Jobs, NEW ok \in WriteOutcomes,
         SweepResolve(j, ok)
  PROVE  IndexedInv'
<1> DEFINE i        == Pending[j]
           incident == [heap[i] EXCEPT !.status = "RESOLVED"]
<1>1. heap[i] \in IncidentObjects
  <2>1. Expired(j)
    BY DEF SweepResolve
  <2> QED BY <2>1, NoneAssumption DEF IndexedInv, RowInv, TypeInv, TypeOK, WellReferenced, Expired,
                                      Pending, Addresses
<1>2. incident \in IncidentObjects
  BY <1>1 DEF IncidentObjects, Statuses
<1>3. PutResolved(incident, ok) /\ Index(incident)
  BY WritesSucceed DEF SweepResolve
<1> HIDE DEF incident
<1> QED BY <1>2, <1>3, ResolvedIndexed

LEMMA IndexedInvInit == Init => IndexedInv
<1> SUFFICES ASSUME Init PROVE IndexedInv
  OBVIOUS
<1> QED BY RowInvInit DEF Init, IndexedInv, Stage

LEMMA IndexedInvNext ==
  ASSUME StoreMayFail = FALSE, MaxRestarts = 0 PROVE IndexedInv /\ [Next]_vars => IndexedInv'
<1> SUFFICES ASSUME IndexedInv, [Next]_vars PROVE IndexedInv'
  OBVIOUS
<1>1. RowInv'
  BY RowInvNext DEF IndexedInv
<1>2. ASSUME NEW j \in Jobs, Quieten(j) PROVE IndexedInv'
  BY <1>1, <1>2, QuietIndexed DEF Quieten
<1>3. ~Restart
  BY DEF Restart, IndexedInv, RowInv, TypeInv, TypeOK
<1>4. ASSUME NEW ok \in WriteOutcomes, NEW j \in Jobs, ConsumerStep(j, ok) PROVE IndexedInv'
  BY <1>1, <1>4, EnrichIndexed, OpenIncidentIndexed DEF ConsumerStep
<1>5. ASSUME NEW ok \in WriteOutcomes, NEW i \in Incidents, DiagnosisStep(i, ok)
      PROVE  IndexedInv'
  <2>1. CASE AutoRemediateFinish(i, ok)
    <3>1. i \in Addresses /\ heap[i] # None /\ heap[i].remediation # None
      BY <2>1 DEF IndexedInv, RowInv, TypeInv, WellReferenced, AutoRemediateFinish, Proposed,
                  Addresses
    <3> QED BY <1>1, <2>1, <3>1, ApplyIndexed DEF AutoRemediateFinish
  <2>2. CASE UNCHANGED <<store, corpus>>
    BY <1>1, <2>2, QuietIndexed
  <2> QED BY <1>1, <1>5, <2>1, <2>2, DiagnoseDoneIndexed
          DEF DiagnosisStep, ScheduleDiagnosis, DiagnoseStart, ThreadRead, DiagnoseFail, Alert,
              DiagnoseEnd, AutoRemediateStart
<1>6. ASSUME NEW ok \in WriteOutcomes, NEW r \in Requests, RequestStep(r, ok) PROVE IndexedInv'
  <2>1. CASE RemediateFinish(r, ok)
    <3>1. /\ req[r].ref \in Addresses
          /\ heap[req[r].ref] # None
          /\ heap[req[r].ref].remediation # None
      BY <2>1 DEF IndexedInv, RowInv, TypeInv, TypeOK, WellReferenced, RemediateFinish
    <3>2. PICK approver \in {"operator", None} : Apply(req[r].ref, approver, ok)
      BY <2>1, ApproversAssumption DEF RemediateFinish
    <3> QED BY <1>1, <2>1, <3>1, <3>2, ApplyIndexed DEF RemediateFinish
  <2>2. CASE UNCHANGED <<store, corpus>>
    BY <1>1, <2>2, QuietIndexed
  <2> QED BY <1>6, <2>1, <2>2 DEF RequestStep, RemediateStart, RemediateRefuse
<1>7. ASSUME NEW ok \in WriteOutcomes, HeartbeatStep(ok) PROVE IndexedInv'
  BY <1>1, <1>7, QuietIndexed, SweepResolveIndexed DEF HeartbeatStep, SweepEnd
<1>8. CASE UNCHANGED vars
  BY <1>1, <1>8, QuietIndexed DEF vars
<1> QED BY <1>2, <1>3, <1>4, <1>5, <1>6, <1>7, <1>8 DEF Next

(* While the database and the embedder work and until the process ends, what is
   resolved can be retrieved, whoever resolved it (workflow.py:158, :186-187). *)
THEOREM ResolvedStaysIndexed ==
  ASSUME StoreMayFail = FALSE, MaxRestarts = 0 PROVE Spec => []ResolvedIsIndexed
<1>1. IndexedInv => ResolvedIsIndexed
  BY DEF IndexedInv, ResolvedIsIndexed
<1>2. Init => IndexedInv
  BY IndexedInvInit
<1>3. IndexedInv /\ [Next]_vars => IndexedInv'
  BY IndexedInvNext
<1> QED BY <1>1, <1>2, <1>3, PTL DEF Spec

-----------------------------------------------------------------------------
(* Runs on record *)

Basis == SettledInv /\ SnapshotInv

(* The object of an open incident knows of the run its row has, an object whose
   plan was run is not one the sweep would take, and a request's copy is of an
   incident that is open no more. *)
LedgerInv ==
  /\ Basis
  /\ \A j \in Jobs : open[j] # None /\ Completed(store[open[j]]) => Completed(heap[open[j]])
  /\ \A i \in Incidents : Completed(heap[i]) => heap[i].status # "DIAGNOSED"
  /\ \A r \in Requests : heap[r] # None => \A j \in Jobs : open[j] # heap[r].id

(* A run is recorded, and the completed rows stay completed. *)
LedgerStep ==
  \A i \in Incidents :
    /\ actuated'[i] # actuated[i] => Completed(store'[i]) \/ (StoreMayFail /\ UNCHANGED store)
    /\ Completed(store[i]) =>
         Completed(store'[i]) \/ (sweep.pc = "emitting" /\ sweep'.pc = "dead")

(* Steps that write neither an object nor a row, and run nothing. *)
LEMMA QuietLedger ==
  ASSUME LedgerInv, Basis', UNCHANGED <<open, heap, store, actuated>>
  PROVE  LedgerInv' /\ LedgerStep
  BY DEF LedgerInv, LedgerStep

(* A step that rewrites one object, may save it and opens nothing. *)
LEMMA RewriteLedger ==
  ASSUME LedgerInv, Basis', NEW a \in Addresses, NEW incident \in IncidentObjects,
         heap[a] # None, incident.id = heap[a].id,
         Completed(heap[a]) => Completed(incident),
         Completed(incident) => incident.status # "DIAGNOSED",
         heap' = [heap EXCEPT ![a] = incident],
         UNCHANGED store \/ store' = [store EXCEPT ![incident.id] = incident],
         \A j \in Jobs : open'[j] \in {open[j], None}
  PROVE  LedgerInv'
<1> DEFINE i == incident.id
<1>1. i \in Incidents /\ i = heap[a].id
  BY DEF IncidentObjects
<1>2. /\ heap \in [Addresses -> IncidentObjects \cup {None}]
      /\ store \in [Incidents -> IncidentObjects \cup {None}]
      /\ open \in [Jobs -> Incidents \cup {None}]
  BY DEF LedgerInv, Basis, SettledInv, TypeInv, TypeOK
<1>3. \A b \in Addresses : heap'[b] = IF b = a THEN incident ELSE heap[b]
  BY <1>2
<1>4. \A k \in Incidents : store'[k] = store[k] \/ (k = i /\ store'[k] = incident)
  BY <1>1, <1>2
<1>5. a \in Incidents => a = i
  BY <1>1 DEF LedgerInv, Basis, SettledInv
<1>6. a \in Requests => \A j \in Jobs : open[j] # i
  BY <1>1 DEF LedgerInv
<1> HIDE DEF i
<1>7. ASSUME NEW j \in Jobs, open'[j] # None, Completed(store'[open'[j]])
      PROVE  Completed(heap'[open'[j]])
  <2>1. open'[j] = open[j] /\ open[j] \in Incidents /\ open[j] \in Addresses /\ open[j] # None
    BY <1>2, <1>7 DEF Addresses
  <2>2. Completed(store[open[j]]) => Completed(heap[open[j]])
    BY <2>1 DEF LedgerInv
  <2>3. CASE open[j] = a
    BY <1>3, <1>4, <1>5, <1>7, <2>1, <2>2, <2>3
  <2>4. CASE open[j] # a
    <3>1. open[j] # i
      BY <1>5, <1>6, <2>1, <2>4 DEF Addresses
    <3> QED BY <1>3, <1>4, <1>7, <2>1, <2>2, <2>4, <3>1
  <2> QED BY <2>3, <2>4
<1>8. \A k \in Incidents : Completed(heap'[k]) => heap'[k].status # "DIAGNOSED"
  BY <1>3 DEF LedgerInv, Addresses
<1>9. ASSUME NEW r \in Requests, heap'[r] # None, NEW j \in Jobs PROVE open'[j] # heap'[r].id
  <2>1. heap[r] # None /\ heap'[r].id = heap[r].id /\ r \in Addresses
    BY <1>1, <1>3, <1>9 DEF i, Addresses
  <2>2. heap[r].id \in Incidents /\ heap[r].id # None
    BY <1>2, <2>1, NoneAssumption DEF IncidentObjects, Addresses
  <2> QED BY <2>1, <2>2 DEF LedgerInv
<1> QED BY <1>7, <1>8, <1>9 DEF LedgerInv

(* What it saves, if anything, takes no run off the record. *)
LEMMA WriteLedger ==
  ASSUME LedgerInv, NEW incident \in IncidentObjects, UNCHANGED actuated,
         UNCHANGED store \/ store' = [store EXCEPT ![incident.id] = incident],
         Completed(store[incident.id]) => Completed(incident)
  PROVE  LedgerStep
<1>1. store \in [Incidents -> IncidentObjects \cup {None}] /\ incident.id \in Incidents
  BY DEF LedgerInv, Basis, SettledInv, TypeInv, TypeOK, IncidentObjects
<1> QED BY <1>1 DEF LedgerStep

LEMMA OpenIncidentLedger ==
  ASSUME LedgerInv, Basis', NEW i \in Incidents, NEW j \in Jobs, NEW batch \in Batches,
         NEW ok \in WriteOutcomes, OpenIncident(i, j, batch, ok)
  PROVE  LedgerInv' /\ LedgerStep
<1> DEFINE incident == [id |-> i, job |-> j, status |-> "OPEN", anomalies |-> batch,
                        diagnosis |-> None, remediation |-> None]
<1>1. incident.id = i /\ ~Completed(incident)
  BY DEF Completed
<1>2. /\ heap' = [heap EXCEPT ![i] = incident]
      /\ UNCHANGED store \/ store' = [store EXCEPT ![i] = incident]
      /\ diag[i] = "none" /\ open' = [open EXCEPT ![j] = i] /\ UNCHANGED actuated
  BY DEF OpenIncident, Put
<1> HIDE DEF incident
<1>3. /\ heap \in [Addresses -> IncidentObjects \cup {None}]
      /\ store \in [Incidents -> IncidentObjects \cup {None}]
      /\ open \in [Jobs -> Incidents \cup {None}]
      /\ store[i] = None
  BY <1>2 DEF LedgerInv, Basis, SettledInv, TypeInv, TypeOK
<1>4. /\ \A k \in Incidents \ {i} : heap'[k] = heap[k] /\ store'[k] = store[k]
      /\ heap'[i] = incident /\ ~Completed(store'[i])
      /\ \A r \in Requests : heap'[r] = heap[r]
      /\ \A k \in Jobs \ {j} : open'[k] = open[k]
      /\ open'[j] = i
  BY <1>1, <1>2, <1>3, AddressAssumption DEF Addresses, Completed
<1>5. \A k \in Jobs : open'[k] # None /\ Completed(store'[open'[k]]) => Completed(heap'[open'[k]])
  BY <1>3, <1>4 DEF LedgerInv
<1>6. \A k \in Incidents : Completed(heap'[k]) => heap'[k].status # "DIAGNOSED"
  BY <1>1, <1>4 DEF LedgerInv
<1>7. \A r \in Requests : heap'[r] # None => \A k \in Jobs : open'[k] # heap'[r].id
  <2>1. \A r \in Requests : heap[r] # None => heap[r].id # i
    BY <1>3 DEF LedgerInv, Basis, SettledInv
  <2> QED BY <1>4, <2>1 DEF LedgerInv
<1>8. LedgerStep
  BY <1>2, <1>3, <1>4 DEF LedgerStep, Completed
<1> QED BY <1>5, <1>6, <1>7, <1>8 DEF LedgerInv

LEMMA EnrichLedger ==
  ASSUME LedgerInv, Basis', NEW j \in Jobs, NEW batch \in Batches, NEW ok \in WriteOutcomes,
         Enrich(j, batch, ok)
  PROVE  LedgerInv' /\ LedgerStep
<1>1. /\ open[j] # None /\ open[j] \in Addresses /\ open[j] \in Incidents
      /\ heap[open[j]] \in IncidentObjects /\ heap[open[j]] # None
      /\ heap[open[j]].id = open[j] /\ UNCHANGED <<open, actuated>>
  BY NoneAssumption DEF LedgerInv, Basis, SettledInv, TypeInv, TypeOK, WellReferenced, Enrich, Addresses
<1>2. PICK pos \in InOrder(Unseen(batch, heap[open[j]].anomalies)) :
        LET new      == [k \in DOMAIN pos |-> batch[pos[k]]]
            incident == Enriched(heap[open[j]], new)
        IN  IF new = <<>>
            THEN UNCHANGED <<heap, store, consumer>>
            ELSE /\ heap' = [heap EXCEPT ![open[j]] = incident]
                 /\ Put(incident, ok)
                 /\ consumer' = IF ok THEN "up" ELSE "dead"
  BY DEF Enrich
<1> DEFINE new      == [k \in DOMAIN pos |-> batch[pos[k]]]
           incident == Enriched(heap[open[j]], new)
<1>3. CASE UNCHANGED <<heap, store>>
  BY <1>1, <1>3, QuietLedger
<1>4. CASE heap' = [heap EXCEPT ![open[j]] = incident] /\ Put(incident, ok)
  <2>1. heap[open[j]].anomalies \o new \in Signals
    BY <1>1, EnrichedType DEF IncidentObjects
  <2> HIDE DEF new
  <2>2. /\ incident \in IncidentObjects /\ incident # None
        /\ incident.remediation = heap[open[j]].remediation
        /\ incident.id = heap[open[j]].id /\ incident.status = heap[open[j]].status
    BY <1>1, <2>1, NoneAssumption DEF Enriched, IncidentObjects
  <2>3. UNCHANGED store \/ store' = [store EXCEPT ![incident.id] = incident]
    BY <1>4, PutCases
  <2> HIDE DEF incident
  <2>4. Completed(incident) <=> Completed(heap[open[j]])
    BY <1>1, <2>2 DEF Completed
  <2>5. Completed(incident) => incident.status # "DIAGNOSED"
    BY <1>1, <2>2, <2>4 DEF LedgerInv
  <2>6. Completed(store[incident.id]) => Completed(incident)
    BY <1>1, <2>2, <2>4 DEF LedgerInv
  <2>7. \A k \in Jobs : open'[k] \in {open[k], None}
    BY <1>1
  <2>8. LedgerInv'
    BY <1>1, <1>4, <2>2, <2>3, <2>4, <2>5, <2>7, RewriteLedger
  <2>9. LedgerStep
    BY <1>1, <2>2, <2>3, <2>6, WriteLedger
  <2> QED BY <2>8, <2>9
<1> QED BY <1>2, <1>3, <1>4

(* A status that is not that of a diagnosed incident is set and not saved. *)
LEMMA StatusLedger ==
  ASSUME LedgerInv, Basis', NEW a \in Addresses, NEW status \in Statuses, heap[a] # None,
         status # "DIAGNOSED", heap' = [heap EXCEPT ![a] = [heap[a] EXCEPT !.status = status]],
         UNCHANGED <<open, store, actuated>>
  PROVE  LedgerInv' /\ LedgerStep
<1> DEFINE incident == [heap[a] EXCEPT !.status = status]
<1>1. heap[a] \in IncidentObjects
  BY DEF LedgerInv, Basis, SettledInv, TypeInv, TypeOK
<1>2. /\ incident \in IncidentObjects /\ incident # None /\ incident.id = heap[a].id
      /\ incident.remediation = heap[a].remediation
  BY <1>1, StatusSettled
<1>3. incident.status # "DIAGNOSED"
  BY <1>1 DEF IncidentObjects
<1>4. heap' = [heap EXCEPT ![a] = incident]
  OBVIOUS
<1> HIDE DEF incident
<1>5. Completed(incident) <=> Completed(heap[a])
  BY <1>2 DEF Completed
<1>6. \A k \in Jobs : open'[k] \in {open[k], None}
  OBVIOUS
<1>7. LedgerInv'
  BY <1>2, <1>3, <1>4, <1>5, <1>6, RewriteLedger
<1>8. LedgerStep
  BY DEF LedgerStep
<1> QED BY <1>7, <1>8

(* The diagnosis task brings a plan to an incident that has none on record. *)
LEMMA DiagnoseDoneLedger ==
  ASSUME LedgerInv, Basis', NEW i \in Incidents, NEW ok \in WriteOutcomes, DiagnoseDone(i, ok)
  PROVE  LedgerInv' /\ LedgerStep
<1> DEFINE record   == [proposal |-> Propose(heap[i].anomalies),
                        status |-> "PROPOSED", audit |-> <<>>]
           incident == [heap[i] EXCEPT !.diagnosis = read[i], !.status = "DIAGNOSED",
                                       !.remediation = record]
<1>1. /\ heap[i] \in IncidentObjects /\ heap[i] # None /\ i \in Addresses /\ read[i] \in Signals
      /\ heap[i].id = i /\ heap[i].diagnosis = None
      /\ Paired(heap[i]) /\ Follows(heap[i], store[i])
      /\ store[i] # None => Paired(store[i])
  BY NoneAssumption DEF LedgerInv, Basis, SettledInv, TypeInv, TypeOK, WellReferenced, DiagnoseDone,
                        Undiagnosed, Addresses
<1>2. record \in Records /\ record.status = "PROPOSED"
  BY <1>1, ProposeType, EmptySeq DEF Records, IncidentObjects
<1>3. /\ heap' = [heap EXCEPT ![i] = incident] /\ UNCHANGED <<open, actuated>>
      /\ UNCHANGED store \/ store' = [store EXCEPT ![incident.id] = incident]
  BY DEF DiagnoseDone, Put
<1> HIDE DEF record
<1>4. /\ incident \in IncidentObjects /\ incident.id = i /\ incident.remediation = record
  BY <1>1, <1>2 DEF IncidentObjects, Statuses
<1> HIDE DEF incident
<1>5. ~Completed(incident)
  BY <1>2, <1>4 DEF Completed
<1>6. ~Completed(heap[i]) /\ ~Completed(store[i])
  BY <1>1 DEF Completed, Paired, Follows
<1>7. \A k \in Jobs : open'[k] \in {open[k], None}
  BY <1>3
<1>8. incident.id = heap[i].id
  BY <1>1, <1>4
<1>9. Completed(store[incident.id]) => Completed(incident)
  BY <1>4, <1>6
<1>10. LedgerInv'
  BY <1>1, <1>3, <1>4, <1>5, <1>6, <1>7, <1>8, RewriteLedger
<1>11. LedgerStep
  BY <1>3, <1>4, <1>9, WriteLedger
<1> QED BY <1>10, <1>11

(* A run gets on record, unless the write raises. *)
LEMMA ApplyLedger ==
  ASSUME LedgerInv, Basis', NEW a \in Addresses, NEW approver \in {"operator", None},
         NEW ok \in WriteOutcomes, Apply(a, approver, ok), heap[a] # None, heap[a].remediation # None
  PROVE  LedgerInv' /\ LedgerStep
<1> DEFINE incident == Executed(heap[a], approver)
<1>1. heap[a] \in IncidentObjects /\ heap[a].remediation \in Records
  BY DEF LedgerInv, Basis, SettledInv, TypeInv, TypeOK, IncidentObjects
<1>2. incident \in IncidentObjects /\ incident.remediation # None
  BY <1>1, ExecutedType
<1>3. /\ incident.id = heap[a].id /\ incident.status = "RESOLVED"
      /\ incident.remediation.status = "COMPLETED"
  BY <1>1 DEF Executed, IncidentObjects, Records
<1>4. /\ heap' = [heap EXCEPT ![a] = incident] /\ PutResolved(incident, ok)
      /\ actuated' = [actuated EXCEPT ![incident.id] = @ + 1]
      /\ open' = [open EXCEPT ![incident.job] = None] \/ UNCHANGED open
  BY DEF Apply
<1> HIDE DEF incident
<1>5. Completed(incident)
  BY <1>2, <1>3, NoneAssumption DEF Completed
<1>6. /\ UNCHANGED store \/ store' = [store EXCEPT ![incident.id] = incident]
      /\ ok = TRUE => store' = [store EXCEPT ![incident.id] = incident]
      /\ ok = TRUE \/ StoreMayFail
  <2>1. ok = TRUE \/ StoreMayFail
    BY FlagAssumption DEF WriteOutcomes
  <2>2. PICK written \in {ok, TRUE} : Put(incident, written)
    BY <1>4 DEF PutResolved
  <2>3. ok = TRUE => written = TRUE
    OBVIOUS
  <2>4. written = TRUE => store' = [store EXCEPT ![incident.id] = incident]
    BY <2>2 DEF Put
  <2>5. UNCHANGED store \/ store' = [store EXCEPT ![incident.id] = incident]
    BY <2>2, PutCases
  <2> QED BY <2>1, <2>3, <2>4, <2>5
<1>7. \A j \in Jobs : open'[j] \in {open[j], None}
  BY <1>4 DEF LedgerInv, Basis, SettledInv, TypeInv, TypeOK
<1>8. LedgerInv'
  BY <1>2, <1>3, <1>4, <1>5, <1>6, <1>7, RewriteLedger
<1>9. LedgerStep
  <2>1. /\ store \in [Incidents -> IncidentObjects \cup {None}] /\ actuated \in [Incidents -> Nat]
        /\ incident.id \in Incidents
    BY <1>2 DEF LedgerInv, Basis, SettledInv, TypeInv, TypeOK, IncidentObjects
  <2> QED BY <1>4, <1>5, <1>6, <2>1 DEF LedgerStep
<1> QED BY <1>8, <1>9

LEMMA RemediateStartLedger ==
  ASSUME LedgerInv, Basis', NEW r \in Requests, NEW i \in Incidents, RemediateStart(r, i)
  PROVE  LedgerInv' /\ LedgerStep
<1>1. Found(i) # None /\ UNCHANGED <<open, store, actuated>>
      /\ heap' = [heap EXCEPT ![IF IsOpen(i) THEN i ELSE r] = [Found(i) EXCEPT !.status = "REMEDIATING"]]
  BY DEF RemediateStart, Remediable
<1>2. CASE IsOpen(i)
  <2>1. /\ heap[i] # None /\ i \in Addresses /\ "REMEDIATING" \in Statuses
        /\ heap' = [heap EXCEPT ![i] = [heap[i] EXCEPT !.status = "REMEDIATING"]]
    BY <1>1, <1>2 DEF Found, Addresses, Statuses
  <2> QED BY <1>1, <2>1, StatusLedger
<1>3. CASE ~IsOpen(i)
  <2> DEFINE copy == [store[i] EXCEPT !.status = "REMEDIATING"]
  <2>1. /\ store[i] \in IncidentObjects /\ store[i].id = i /\ heap' = [heap EXCEPT ![r] = copy]
    BY <1>1, <1>3 DEF Found, LedgerInv, Basis, SettledInv, TypeInv, TypeOK
  <2>2. copy.id = i
    BY <2>1 DEF IncidentObjects
  <2>3. \A j \in Jobs : open[j] # i
    BY <1>3 DEF IsOpen, Range, LedgerInv, Basis, SettledInv, TypeInv, TypeOK
  <2> HIDE DEF copy
  <2>4. \A b \in Addresses : heap'[b] = IF b = r THEN copy ELSE heap[b]
    BY <2>1 DEF LedgerInv, Basis, SettledInv, TypeInv, TypeOK
  <2>5. \A k \in Incidents : k \in Addresses /\ heap'[k] = heap[k]
    BY <2>4, AddressAssumption DEF Addresses
  <2>6. \A j \in Jobs : open[j] # None => open[j] \in Incidents
    BY DEF LedgerInv, Basis, SettledInv, TypeInv, TypeOK
  <2>7. \A j \in Jobs : open[j] # None /\ Completed(store[open[j]]) => Completed(heap'[open[j]])
    BY <2>5, <2>6 DEF LedgerInv
  <2>8. \A k \in Incidents : Completed(heap'[k]) => heap'[k].status # "DIAGNOSED"
    BY <2>5 DEF LedgerInv
  <2>9. \A q \in Requests : heap'[q] # None => \A j \in Jobs : open[j] # heap'[q].id
    BY <2>2, <2>3, <2>4 DEF LedgerInv, Addresses
  <2> QED BY <1>1, <2>7, <2>8, <2>9 DEF LedgerInv, LedgerStep
<1> QED BY <1>2, <1>3

(* The sweep writes an object without the run only when a remediation popped
   the incident behind its back; then deleting the key raises. *)
LEMMA SweepResolveLedger ==
  ASSUME LedgerInv, Basis', NEW j \in Jobs, NEW ok \in WriteOutcomes, SweepResolve(j, ok)
  PROVE  LedgerInv' /\ LedgerStep
<1> DEFINE i        == Pending[j]
           incident == [heap[i] EXCEPT !.status = "RESOLVED"]
<1>1. /\ i \in Incidents /\ i \in Addresses /\ heap[i] \in IncidentObjects /\ heap[i] # None
      /\ heap[i].id = i /\ heap[i].status = "DIAGNOSED" /\ j \in Silent
  <2>1. Expired(j)
    BY DEF SweepResolve
  <2> QED BY <2>1, NoneAssumption DEF LedgerInv, Basis, SettledInv, TypeInv, TypeOK, WellReferenced,
                                      Expired, Pending, Addresses
<1>2. /\ incident \in IncidentObjects /\ incident.remediation = heap[i].remediation
      /\ incident.id = heap[i].id /\ incident # None
  BY <1>1, StatusSettled DEF Statuses
<1>3. /\ heap' = [heap EXCEPT ![i] = incident] /\ PutResolved(incident, ok) /\ UNCHANGED actuated
      /\ sweep.pc # "dead"
  BY DEF SweepResolve
<1>4. \A k \in Jobs : open'[k] \in {open[k], None}
  BY DEF SweepResolve, LedgerInv, Basis, SettledInv, TypeInv, TypeOK
<1>5. UNCHANGED store \/ store' = [store EXCEPT ![incident.id] = incident]
  BY <1>3, PutCases DEF PutResolved
<1>6. i = Pending[j]
  OBVIOUS
<1> HIDE DEF incident, i
<1>7. ~Completed(heap[i]) /\ ~Completed(incident)
  BY <1>1, <1>2 DEF LedgerInv, Completed
<1>8. LedgerInv'
  BY <1>1, <1>2, <1>3, <1>4, <1>5, <1>7, RewriteLedger
<1>9. CASE Completed(store[i])
  <2>1. open[j] # i
    BY <1>1, <1>7, <1>9, NoneAssumption DEF LedgerInv, Addresses
  <2>2. sweep.pc = "emitting" /\ i = sweep.todo[j] /\ j \in sweep.quiet
    BY <1>1, <1>3, <1>6, <2>1 DEF Pending, Silent, LedgerInv, Basis, SettledInv, TypeInv, TypeOK
  <2>3. open[j] = None
    BY <1>1, <2>1, <2>2, NoneAssumption DEF LedgerInv, Basis, SnapshotInv, Addresses
  <2>4. sweep'.pc = "dead"
    BY <2>3 DEF SweepResolve
  <2> QED BY <1>3, <1>8, <2>2, <2>4 DEF LedgerStep
<1>10. CASE ~Completed(store[i])
  <2>1. Completed(store[incident.id]) => Completed(incident)
    BY <1>1, <1>2, <1>10
  <2> QED BY <1>2, <1>3, <1>5, <1>8, <2>1, WriteLedger
<1> QED BY <1>9, <1>10

LEMMA RestartLedger == ASSUME LedgerInv, Basis', Restart PROVE LedgerInv' /\ LedgerStep
<1>1. /\ UNCHANGED <<store, actuated>> /\ \A j \in Jobs : open'[j] = None
      /\ \A a \in Addresses : heap'[a] = None
  BY DEF Restart, NoJobs
<1> QED BY <1>1 DEF LedgerInv, LedgerStep, Completed, Addresses

LEMMA LedgerInvInit == Init => LedgerInv
<1> SUFFICES ASSUME Init PROVE LedgerInv
  OBVIOUS
<1>1. Basis
  BY SettledInvInit, SnapshotInvInit DEF Basis
<1> QED BY <1>1 DEF Init, LedgerInv, NoJobs, Addresses, Completed

LEMMA LedgerInvNext == ASSUME LedgerInv, [Next]_vars PROVE LedgerInv' /\ LedgerStep
<1>1. Basis'
  BY SettledInvNext, SnapshotInvNext DEF LedgerInv, Basis
<1>2. CASE UNCHANGED <<open, heap, store, actuated>>
  BY <1>1, <1>2, QuietLedger
<1>3. CASE Restart
  BY <1>1, <1>3, RestartLedger
<1>4. ASSUME NEW ok \in WriteOutcomes, NEW j \in Jobs, ConsumerStep(j, ok)
      PROVE  LedgerInv' /\ LedgerStep
  BY <1>1, <1>4, EnrichLedger, OpenIncidentLedger DEF ConsumerStep
<1>5. ASSUME NEW ok \in WriteOutcomes, NEW i \in Incidents, DiagnosisStep(i, ok)
      PROVE  LedgerInv' /\ LedgerStep
  <2>1. CASE DiagnoseStart(i)
    <3>1. /\ heap[i] # None /\ i \in Addresses /\ "DIAGNOSING" \in Statuses
          /\ heap' = [heap EXCEPT ![i] = [heap[i] EXCEPT !.status = "DIAGNOSING"]]
          /\ UNCHANGED <<open, store, actuated>>
      BY <2>1 DEF LedgerInv, Basis, SettledInv, TypeInv, WellReferenced, DiagnoseStart, Undiagnosed,
                  Addresses, Statuses
    <3> QED BY <1>1, <3>1, StatusLedger
  <2>2. CASE AutoRemediateStart(i)
    <3>1. /\ heap[i] # None /\ i \in Addresses /\ "REMEDIATING" \in Statuses
          /\ heap' = [heap EXCEPT ![i] = [heap[i] EXCEPT !.status = "REMEDIATING"]]
          /\ UNCHANGED <<open, store, actuated>>
      BY <2>2 DEF LedgerInv, Basis, SettledInv, TypeInv, WellReferenced, AutoRemediateStart, Proposed,
                  Addresses, Statuses
    <3> QED BY <1>1, <3>1, StatusLedger
  <2>3. CASE AutoRemediateFinish(i, ok)
    <3>1. i \in Addresses /\ heap[i] # None /\ heap[i].remediation # None
      BY <2>3 DEF LedgerInv, Basis, SettledInv, TypeInv, WellReferenced, AutoRemediateFinish, Proposed,
                  Addresses
    <3>2. Apply(i, None, ok)
      BY <2>3 DEF AutoRemediateFinish
    <3> QED BY <1>1, <3>1, <3>2, ApplyLedger
  <2>4. CASE ScheduleDiagnosis(i) \/ ThreadRead(i) \/ DiagnoseFail(i) \/ Alert(i) \/ DiagnoseEnd(i)
    BY <1>2, <2>4 DEF ScheduleDiagnosis, ThreadRead, DiagnoseFail, Alert, DiagnoseEnd
  <2> QED BY <1>1, <1>5, <2>1, <2>2, <2>3, <2>4, DiagnoseDoneLedger DEF DiagnosisStep
<1>6. ASSUME NEW ok \in WriteOutcomes, NEW r \in Requests, RequestStep(r, ok)
      PROVE  LedgerInv' /\ LedgerStep
  <2>1. CASE RemediateFinish(r, ok)
    <3>1. /\ req[r].ref \in Addresses
          /\ heap[req[r].ref] # None
          /\ heap[req[r].ref].remediation # None
      BY <2>1 DEF LedgerInv, Basis, SettledInv, TypeInv, TypeOK, WellReferenced, RemediateFinish
    <3>2. PICK approver \in {"operator", None} : Apply(req[r].ref, approver, ok)
      BY <2>1, ApproversAssumption DEF RemediateFinish
    <3> QED BY <1>1, <3>1, <3>2, ApplyLedger
  <2>2. ASSUME NEW i \in Incidents, RemediateRefuse(r, i) PROVE LedgerInv' /\ LedgerStep
    BY <1>2, <2>2 DEF RemediateRefuse
  <2> QED BY <1>1, <1>6, <2>1, <2>2, RemediateStartLedger DEF RequestStep
<1>7. ASSUME NEW ok \in WriteOutcomes, HeartbeatStep(ok) PROVE LedgerInv' /\ LedgerStep
  BY <1>1, <1>2, <1>7, SweepResolveLedger DEF HeartbeatStep, SweepEnd
<1> QED BY <1>2, <1>3, <1>4, <1>5, <1>6, <1>7 DEF Next, Quieten, vars

(* Every run of a plan gets on record and stays there, whatever requests, policy,
   diagnoses, sweeps, failed writes and restarts do around it, unless its own
   write raises, or the sweep that dies of the KeyError writes over it
   (remediation.py:132-146, workflow.py:145-159 and :180-189). *)
THEOREM RunsAreKept == Spec => RunsStayOnRecord
<1>1. LedgerInv /\ [Next]_vars => LedgerInv' /\ LedgerStep
  BY LedgerInvNext
<1>2. LedgerStep =>
        [\A i \in Incidents :
           /\ actuated'[i] # actuated[i] =>
                Completed(store'[i]) \/ (StoreMayFail /\ UNCHANGED store)
           /\ Completed(store[i]) =>
                Completed(store'[i]) \/ (sweep.pc = "emitting" /\ sweep'.pc = "dead")]_vars
  BY DEF LedgerStep
<1>3. Init => LedgerInv
  BY LedgerInvInit
<1> QED BY <1>1, <1>2, <1>3, PTL DEF Spec, RunsStayOnRecord

===============================================================================
