-------------------------- MODULE IncidentManager --------------------------
(***************************************************************************)
(* The incident lifecycle of gpumon/workflow.py and the parts of api.py,   *)
(* store.py and rag.py it drives.                                          *)
(*                                                                         *)
(* Everything but one call runs on one asyncio event loop, so a coroutine  *)
(* is interrupted only where it awaits: at an _emit (the dashboard         *)
(* broadcast), at the start of a created task, and while asyncio.to_thread *)
(* runs the diagnosis.  One action is the code between two such points.    *)
(* The coroutines are                                                      *)
(*   - the consumer, which ingests one batch of signals at a time;         *)
(*   - one _diagnose task per incident, and the thread it starts;          *)
(*   - the heartbeat, which calls sweep;                                   *)
(*   - one handler per POST /incidents/{id}/remediate.                     *)
(*                                                                         *)
(* An incident is an object in memory (heap) and a row of the database     *)
(* (store).  The coroutines share the object: the manager's open incident  *)
(* of a job, the diagnosis task and the sweep all hold a reference to it.  *)
(* A request for an incident that is not open works on a copy loaded from  *)
(* the row, an object of its own at the request's address.                 *)
(*                                                                         *)
(* A definition named X_Y, before X, is X with the mistake Y: TLC finds a  *)
(* property broken when X is replaced by it.  No action uses one.          *)
(***************************************************************************)
EXTENDS Remediation, Diagnosis, Grouping

CONSTANTS
  Jobs,              \* training jobs
  Locations,         \* (node, gpu) pairs
  Incidents,         \* ids that uuid4 may hand out: bounds the incidents of a behaviour
  Requests,          \* remediation requests: bounds them, each is made once
  Batches,           \* what detector.process may return for one event, never empty
  None,
  Approvers,         \* what requests give as approved_by: "operator", which the dashboard
                     \* sends and the default is, or None for a null or an empty string
  AutoRemediate,     \* ARGUS_AUTO_REMEDIATE == "1"
  DiagnosisMayFail,  \* diagnose_incident may raise
  StoreMayFail,      \* put_incident may raise: database locked, disk full; and so
                     \* may the embedding of an incident whose row is written
  MaxRestarts        \* bounds the restarts of the process

Anomalies == [kind : Kinds, at : Locations]
Signals   == Seq(Anomalies) \ {<<>>}

ASSUME BatchesAssumption == Batches \subseteq Signals
ASSUME ApproversAssumption == Approvers \subseteq {"operator", None}
ASSUME AddressAssumption == Incidents \cap Requests = {}
ASSUME FlagAssumption ==
  /\ AutoRemediate \in BOOLEAN
  /\ DiagnosisMayFail \in BOOLEAN
  /\ StoreMayFail \in BOOLEAN
ASSUME RestartsAssumption == MaxRestarts \in Nat

Addresses == Incidents \cup Requests

VARIABLES
  open,      \* _open: the open incident of each job
  heap,      \* the incident object at each address
  store,     \* the row of each incident
  quiet,     \* jobs whose last signal is RESOLVE_COOLDOWN_S old
  consumer,  \* "up", or "dead" of an exception
  diag,      \* where the diagnosis task of each incident stands
  read,      \* the signals the diagnosis thread read
  req,       \* where each request stands, and the object it works on
  sweep,     \* the heartbeat's sweep: what it has still to examine
  corpus,    \* how often each incident is in the retrieval corpus
  actuated,  \* how often each incident's plan was applied to the cluster
  alerted,   \* incidents an alert went out for
  restarts

volatile == <<open, heap, quiet, consumer, diag, read, req, sweep, corpus>>
vars == <<open, heap, store, quiet, consumer, diag, read, req, sweep, corpus,
          actuated, alerted, restarts>>

-----------------------------------------------------------------------------
(* Data *)

(* models.RemediationRecord.  EXECUTING is set and overwritten between two
   awaits and is never seen.  The audit trail keeps who is said to have approved
   each run of the plan: execute appends the entries of one run without awaiting. *)
Records == [proposal : Plans(Locations), status : {"PROPOSED", "COMPLETED"},
            audit : Seq({"operator", "auto-policy"})]

Statuses == {"OPEN", "DIAGNOSING", "DIAGNOSED", "REMEDIATING", "RESOLVED"}

(* models.Incident; title and severity follow from the signals.  A diagnosis
   is the list of signals it was computed from. *)
IncidentObjects ==
  [id : Incidents, job : Jobs, status : Statuses, anomalies : Signals,
   diagnosis : Signals \cup {None}, remediation : Records \cup {None}]

(* None is no incident, no object and no list of signals. *)
ASSUME NoneAssumption ==
  /\ None \notin Addresses
  /\ None \notin Signals
  /\ None \notin Records
  /\ None \notin IncidentObjects

NoJobs == [j \in Jobs |-> None]

(* store.put_incident: the row becomes a copy of the object, or the call
   raises and leaves the row alone. *)
Put(incident, ok) ==
  store' = IF ok THEN [store EXCEPT ![incident.id] = incident] ELSE store

WriteOutcomes == IF StoreMayFail THEN {TRUE, FALSE} ELSE {TRUE}

(* An incident that is resolved is written and then indexed, which embeds it:
   either call may raise, the second one with the row written. *)
PutResolved(incident, ok) == \E written \in {ok, TRUE} : Put(incident, written)

(* _index_for_rag: the retriever appends, and does not look whether it has the
   incident already. *)
Index_OnlyOpen(incident) ==
  corpus' = IF incident.id \in Range(open) THEN [corpus EXCEPT ![incident.id] = @ + 1] ELSE corpus

Index(incident) == corpus' = [corpus EXCEPT ![incident.id] = @ + 1]

Init ==
  /\ open = NoJobs
  /\ heap = [a \in Addresses |-> None]
  /\ store = [i \in Incidents |-> None]
  /\ quiet = {}
  /\ consumer = "up"
  /\ diag = [i \in Incidents |-> "none"]
  /\ read = [i \in Incidents |-> None]
  /\ req = [r \in Requests |-> [pc |-> "ready", ref |-> None]]
  /\ sweep = [pc |-> "idle", todo |-> NoJobs, quiet |-> {}]
  /\ corpus = [i \in Incidents |-> 0]
  /\ actuated = [i \in Incidents |-> 0]
  /\ alerted = {}
  /\ restarts = 0

-----------------------------------------------------------------------------
(* The consumer: ingest_anomalies *)

(* RESOLVE_COOLDOWN_S passes without a signal of the job. *)
Quieten(j) ==
  /\ quiet' = quiet \cup {j}
  /\ UNCHANGED <<open, heap, store, consumer, diag, read, req, sweep, corpus,
                 actuated, alerted, restarts>>

(* _last_anomaly[job] = now.  A sweep under way compares it with the time the
   sweep began, so it no longer finds the job quiet either. *)
Hear(j) ==
  /\ quiet' = quiet \ {j}
  /\ sweep' = [sweep EXCEPT !.quiet = @ \ {j}]

(* The consumer awaits the announcement of an incident it opened before it
   takes the next event. *)
ConsumerReady == consumer = "up" /\ \A i \in Incidents : diag[i] # "opening"

(* The first signals of a job without an open incident. *)
OpenIncident(i, j, batch, ok) ==
  LET incident == [id |-> i, job |-> j, status |-> "OPEN", anomalies |-> batch,
                   diagnosis |-> None, remediation |-> None]
  IN  /\ ConsumerReady
      /\ open[j] = None
      /\ diag[i] = "none"
      /\ Hear(j)
      /\ open' = [open EXCEPT ![j] = i]
      /\ heap' = [heap EXCEPT ![i] = incident]
      /\ Put(incident, ok)
      /\ diag' = [diag EXCEPT ![i] = IF ok THEN "opening" ELSE "failed"]
      /\ consumer' = IF ok THEN "up" ELSE "dead"
      /\ UNCHANGED <<read, req, corpus, actuated, alerted, restarts>>

(* The announcement is out: create_task(_diagnose). *)
ScheduleDiagnosis(i) ==
  /\ diag[i] = "opening"
  /\ diag' = [diag EXCEPT ![i] = "scheduled"]
  /\ UNCHANGED <<open, heap, store, quiet, consumer, read, req, sweep, corpus,
                 actuated, alerted, restarts>>

Enriched_NewestFirst(incident, new) == [incident EXCEPT !.anomalies = new \o @]
Enriched_Replaced(incident, new) == [incident EXCEPT !.anomalies = new]

Enriched(incident, new) == [incident EXCEPT !.anomalies = @ \o new]

(* More signals of a job with an open incident. *)
Enrich(j, batch, ok) ==
  /\ ConsumerReady
  /\ open[j] # None
  /\ Hear(j)
  /\ \E pos \in InOrder(Unseen(batch, heap[open[j]].anomalies)) :
       LET new      == [k \in DOMAIN pos |-> batch[pos[k]]]
           incident == Enriched(heap[open[j]], new)
       IN  IF new = <<>>
           THEN UNCHANGED <<heap, store, consumer>>
           ELSE /\ heap' = [heap EXCEPT ![open[j]] = incident]
                /\ Put(incident, ok)
                /\ consumer' = IF ok THEN "up" ELSE "dead"
  /\ UNCHANGED <<open, diag, read, req, corpus, actuated, alerted, restarts>>

-----------------------------------------------------------------------------
(* Applying a plan: the part of _run_remediation after its first await, with
   remediation.execute, the actuator and _index_for_rag.  The guard was read
   before that await and is not read again. *)

(* The audit entry: approved_by or 'auto-policy'. *)
Label(approver) == IF approver = None THEN "auto-policy" ELSE approver

Executed_Replanned(incident, approver) ==
  LET record == [proposal |-> Propose(incident.anomalies), status |-> "COMPLETED",
                 audit |-> Append(incident.remediation.audit, Label(approver))]
  IN  [incident EXCEPT !.status = "RESOLVED", !.remediation = record]

Executed_Closed(incident, approver) ==
  LET record == [incident.remediation EXCEPT !.status = "COMPLETED",
                                             !.audit = Append(@, Label(approver))]
  IN  [incident EXCEPT !.status = "CLOSED", !.remediation = record]

Executed(incident, approver) ==
  LET record == [incident.remediation EXCEPT !.status = "COMPLETED",
                                             !.audit = Append(@, Label(approver))]
  IN  [incident EXCEPT !.status = "RESOLVED", !.remediation = record]

Apply_StaysOpen(address, approver, ok) ==
  LET incident == Executed(heap[address], approver)
  IN  /\ heap' = [heap EXCEPT ![address] = incident]
      /\ actuated' = [actuated EXCEPT ![incident.id] = @ + 1]
      /\ PutResolved(incident, ok)
      /\ IF ok THEN Index(incident) ELSE UNCHANGED corpus
      /\ UNCHANGED open

Apply_OnlyOpenActuated(address, approver, ok) ==
  LET incident == Executed(heap[address], approver)
  IN  /\ heap' = [heap EXCEPT ![address] = incident]
      /\ actuated' = IF incident.id \in Range(open)
                     THEN [actuated EXCEPT ![incident.id] = @ + 1] ELSE actuated
      /\ PutResolved(incident, ok)
      /\ IF ok
         THEN /\ Index(incident)
              /\ open' = [open EXCEPT ![incident.job] = None]
         ELSE UNCHANGED <<corpus, open>>

Apply_SavedFirst(address, approver, ok) ==
  LET incident == Executed(heap[address], approver)
  IN  /\ heap' = [heap EXCEPT ![address] = incident]
      /\ actuated' = [actuated EXCEPT ![incident.id] = @ + 1]
      /\ Put([heap[address] EXCEPT !.status = "RESOLVED"], ok)
      /\ Index(incident)
      /\ open' = [open EXCEPT ![incident.job] = None]

Apply(address, approver, ok) ==
  LET incident == Executed(heap[address], approver)
  IN  /\ heap' = [heap EXCEPT ![address] = incident]
      /\ actuated' = [actuated EXCEPT ![incident.id] = @ + 1]
      /\ PutResolved(incident, ok)
      /\ IF ok
         THEN /\ Index(incident)
              /\ open' = [open EXCEPT ![incident.job] = None]
         ELSE UNCHANGED <<corpus, open>>

-----------------------------------------------------------------------------
(* The diagnosis task: _diagnose and _alert *)

DiagnoseStart(i) ==
  /\ diag[i] = "scheduled"
  /\ diag' = [diag EXCEPT ![i] = "announced"]
  /\ heap' = [heap EXCEPT ![i].status = "DIAGNOSING"]
  /\ UNCHANGED <<open, store, quiet, consumer, read, req, sweep, corpus,
                 actuated, alerted, restarts>>

(* The thread reads the shared object while the loop goes on enriching it. *)
ThreadRead(i) ==
  /\ diag[i] = "announced"
  /\ diag' = [diag EXCEPT ![i] = "analysed"]
  /\ read' = [read EXCEPT ![i] = heap[i].anomalies]
  /\ UNCHANGED <<open, heap, store, quiet, consumer, req, sweep, corpus,
                 actuated, alerted, restarts>>

(* Back on the loop: the verdict is of the signals the thread read, the plan
   of the signals the incident has now. *)
DiagnoseDone_SavedBeforePlan(i, ok) ==
  LET verdict == [heap[i] EXCEPT !.diagnosis = read[i], !.status = "DIAGNOSED"]
  IN  /\ diag[i] = "analysed"
      /\ heap' = [heap EXCEPT ![i] = [verdict EXCEPT
           !.remediation = [proposal |-> Propose(heap[i].anomalies),
                            status |-> "PROPOSED", audit |-> <<>>]]]
      /\ Put(verdict, ok)
      /\ diag' = [diag EXCEPT ![i] = "diagnosed"]
      /\ UNCHANGED <<open, quiet, consumer, read, req, sweep, corpus, actuated,
                     alerted, restarts>>

DiagnoseDone(i, ok) ==
  LET incident == [heap[i] EXCEPT
        !.diagnosis = read[i],
        !.status = "DIAGNOSED",
        !.remediation = [proposal |-> Propose(heap[i].anomalies),
                         status |-> "PROPOSED", audit |-> <<>>]]
  IN  /\ diag[i] = "analysed"
      /\ heap' = [heap EXCEPT ![i] = incident]
      /\ Put(incident, ok)
      /\ diag' = [diag EXCEPT ![i] = IF ok THEN "diagnosed" ELSE "failed"]
      /\ UNCHANGED <<open, quiet, consumer, read, req, sweep, corpus, actuated,
                     alerted, restarts>>

(* diagnose_incident raises: the task ends, and nobody retries. *)
DiagnoseFail(i) ==
  /\ DiagnosisMayFail
  /\ diag[i] = "analysed"
  /\ diag' = [diag EXCEPT ![i] = "failed"]
  /\ UNCHANGED <<open, heap, store, quiet, consumer, read, req, sweep, corpus,
                 actuated, alerted, restarts>>

(* The diagnosed incident was announced; now the alert goes out. *)
Alert_OnlyOpen(i) ==
  /\ diag[i] = "diagnosed"
  /\ diag' = [diag EXCEPT ![i] = "alerted"]
  /\ alerted' = IF i \in Range(open) THEN alerted \cup {i} ELSE alerted
  /\ UNCHANGED <<open, heap, store, quiet, consumer, read, req, sweep, corpus,
                 actuated, restarts>>

Alert(i) ==
  /\ diag[i] = "diagnosed"
  /\ diag' = [diag EXCEPT ![i] = "alerted"]
  /\ alerted' = alerted \cup {i}
  /\ UNCHANGED <<open, heap, store, quiet, consumer, read, req, sweep, corpus,
                 actuated, restarts>>

MayAutoRemediate_PolicyOnly(incident) ==
  AutoRemediate /\ incident.remediation.status # "COMPLETED"

MayAutoRemediate(incident) ==
  /\ AutoRemediate
  /\ ~incident.remediation.proposal.requiresApproval
  /\ incident.remediation.status # "COMPLETED"

DiagnoseEnd(i) ==
  /\ diag[i] = "alerted"
  /\ ~MayAutoRemediate(heap[i])
  /\ diag' = [diag EXCEPT ![i] = "done"]
  /\ UNCHANGED <<open, heap, store, quiet, consumer, read, req, sweep, corpus,
                 actuated, alerted, restarts>>

AutoRemediateStart(i) ==
  /\ diag[i] = "alerted"
  /\ MayAutoRemediate(heap[i])
  /\ diag' = [diag EXCEPT ![i] = "executing"]
  /\ heap' = [heap EXCEPT ![i].status = "REMEDIATING"]
  /\ UNCHANGED <<open, store, quiet, consumer, read, req, sweep, corpus,
                 actuated, alerted, restarts>>

AutoRemediateFinish(i, ok) ==
  /\ diag[i] = "executing"
  /\ Apply(i, None, ok)
  /\ diag' = [diag EXCEPT ![i] = IF ok THEN "done" ELSE "failed"]
  /\ UNCHANGED <<quiet, consumer, read, req, sweep, alerted, restarts>>

-----------------------------------------------------------------------------
(* A remediation request: remediate *)

IsOpen(i) == i \in Range(open)

(* The object an operator's request for incident i gets: the shared one when
   i is open, else a copy of the row. *)
Found(i) == IF IsOpen(i) THEN heap[i] ELSE store[i]

Remediable_WithoutPlan(i) ==
  /\ Found(i) # None
  /\ Found(i).remediation = None \/ Found(i).remediation.status # "COMPLETED"

Remediable(i) ==
  /\ Found(i) # None
  /\ Found(i).remediation # None
  /\ Found(i).remediation.status # "COMPLETED"

(* Unknown id, nothing proposed, or already completed. *)
RemediateRefuse(r, i) ==
  /\ req[r].pc = "ready"
  /\ ~Remediable(i)
  /\ req' = [req EXCEPT ![r].pc = "done"]
  /\ UNCHANGED <<open, heap, store, quiet, consumer, diag, read, sweep, corpus,
                 actuated, alerted, restarts>>

RemediateStart(r, i) ==
  LET address == IF IsOpen(i) THEN i ELSE r
  IN  /\ req[r].pc = "ready"
      /\ Remediable(i)
      /\ heap' = [heap EXCEPT ![address] = [Found(i) EXCEPT !.status = "REMEDIATING"]]
      /\ req' = [req EXCEPT ![r] = [pc |-> "executing", ref |-> address]]
      /\ UNCHANGED <<open, store, quiet, consumer, diag, read, sweep, corpus,
                     actuated, alerted, restarts>>

RemediateFinish(r, ok) ==
  /\ req[r].pc = "executing"
  /\ \E approver \in Approvers : Apply(req[r].ref, approver, ok)
  /\ req' = [req EXCEPT ![r].pc = "done"]
  /\ UNCHANGED <<quiet, consumer, diag, read, sweep, alerted, restarts>>

-----------------------------------------------------------------------------
(* The heartbeat: sweep.  It works through a snapshot of _open, with the time
   it began; after each incident it resolves it awaits the announcement. *)

Pending == IF sweep.pc = "idle" THEN open ELSE sweep.todo

Silent_Now == quiet
Silent  == IF sweep.pc = "idle" THEN quiet ELSE sweep.quiet

Expired_AnyStatus(j) ==
  /\ Pending[j] # None
  /\ j \in Silent
  /\ heap[Pending[j]].status # "RESOLVED"

Expired(j) ==
  /\ Pending[j] # None
  /\ j \in Silent
  /\ heap[Pending[j]].status = "DIAGNOSED"

(* The jobs of the snapshot come in any order; those examined before j were
   found unfit and are done with.  A call that raises, or deleting a key that is
   gone, ends the heartbeat. *)
SweepResolve(j, ok) ==
  LET i        == Pending[j]
      incident == [heap[i] EXCEPT !.status = "RESOLVED"]
      survives == ok /\ open[j] # None
  IN  /\ sweep.pc # "dead"
      /\ Expired(j)
      /\ heap' = [heap EXCEPT ![i] = incident]
      /\ PutResolved(incident, ok)
      /\ IF ok THEN Index(incident) ELSE UNCHANGED corpus
      /\ open' = IF survives THEN [open EXCEPT ![j] = None] ELSE open
      /\ IF survives
         THEN \E unfit \in SUBSET {k \in Jobs \ {j} : ~Expired(k)} :
                sweep' = [pc   |-> "emitting",
                          todo |-> [k \in Jobs |-> IF k \in unfit \cup {j} THEN None
                                                   ELSE Pending[k]],
                          quiet |-> Silent]
         ELSE sweep' = [pc |-> "dead", todo |-> NoJobs, quiet |-> {}]
      /\ UNCHANGED <<quiet, consumer, diag, read, req, actuated, alerted, restarts>>

SweepEnd ==
  /\ sweep.pc = "emitting"
  /\ \A j \in Jobs : ~Expired(j)
  /\ sweep' = [pc |-> "idle", todo |-> NoJobs, quiet |-> {}]
  /\ UNCHANGED <<open, heap, store, quiet, consumer, diag, read, req, corpus,
                 actuated, alerted, restarts>>

-----------------------------------------------------------------------------
(* The process stops and starts again: only the rows are left, and nothing in
   the code reads them back into _open or into the corpus. *)
Restart ==
  /\ restarts < MaxRestarts
  /\ restarts' = restarts + 1
  /\ open' = NoJobs
  /\ heap' = [a \in Addresses |-> None]
  /\ quiet' = {}
  /\ consumer' = "up"
  /\ diag' = [i \in Incidents |-> IF diag[i] = "none" THEN "none" ELSE "lost"]
  /\ read' = [i \in Incidents |-> None]
  /\ req' = [r \in Requests |->
              [pc |-> IF req[r].pc = "ready" THEN "ready" ELSE "done", ref |-> None]]
  /\ sweep' = [pc |-> "idle", todo |-> NoJobs, quiet |-> {}]
  /\ corpus' = [i \in Incidents |-> 0]
  /\ UNCHANGED <<store, actuated, alerted>>

-----------------------------------------------------------------------------
ConsumerStep(j, ok) ==
  \E batch \in Batches : Enrich(j, batch, ok) \/ \E i \in Incidents : OpenIncident(i, j, batch, ok)

DiagnosisStep(i, ok) ==
  \/ ScheduleDiagnosis(i)
  \/ DiagnoseStart(i)
  \/ ThreadRead(i)
  \/ DiagnoseFail(i)
  \/ DiagnoseDone(i, ok)
  \/ Alert(i)
  \/ DiagnoseEnd(i)
  \/ AutoRemediateStart(i)
  \/ AutoRemediateFinish(i, ok)

RequestStep(r, ok) ==
  \/ RemediateFinish(r, ok)
  \/ \E i \in Incidents : RemediateStart(r, i) \/ RemediateRefuse(r, i)

HeartbeatStep(ok) == SweepEnd \/ \E j \in Jobs : SweepResolve(j, ok)

Next ==
  \/ \E j \in Jobs : Quieten(j)
  \/ Restart
  \/ \E ok \in WriteOutcomes :
       \/ \E j \in Jobs : ConsumerStep(j, ok)
       \/ \E i \in Incidents : DiagnosisStep(i, ok)
       \/ \E r \in Requests : RequestStep(r, ok)
       \/ HeartbeatStep(ok)

Spec == Init /\ [][Next]_vars

(* The event loop runs every coroutine that is ready, the thread pool runs the
   diagnosis, and a broadcast ends, since a dead socket is caught and dropped.
   Nothing makes a signal arrive, a job fall quiet or an operator approve. *)
Fairness ==
  /\ \A i \in Incidents : WF_vars(\E ok \in WriteOutcomes : DiagnosisStep(i, ok))
  /\ \A r \in Requests : WF_vars(\E ok \in WriteOutcomes : RemediateFinish(r, ok))
  /\ WF_vars(\E ok \in WriteOutcomes : HeartbeatStep(ok))

FairSpec == Spec /\ Fairness

-----------------------------------------------------------------------------
(* Properties *)

TypeOK ==
  /\ open \in [Jobs -> Incidents \cup {None}]
  /\ heap \in [Addresses -> IncidentObjects \cup {None}]
  /\ store \in [Incidents -> IncidentObjects \cup {None}]
  /\ quiet \in SUBSET Jobs
  /\ consumer \in {"up", "dead"}
  /\ diag \in [Incidents -> {"none", "opening", "scheduled", "announced", "analysed",
                             "diagnosed", "alerted", "executing", "done", "failed", "lost"}]
  /\ read \in [Incidents -> Signals \cup {None}]
  /\ req \in [Requests -> [pc : {"ready", "executing", "done"}, ref : Addresses \cup {None}]]
  /\ sweep \in [pc : {"idle", "emitting", "dead"}, todo : [Jobs -> Incidents \cup {None}],
                quiet : SUBSET Jobs]
  /\ corpus \in [Incidents -> Nat]
  /\ actuated \in [Incidents -> Nat]
  /\ alerted \in SUBSET Incidents
  /\ restarts \in 0 .. MaxRestarts

(* The row of each incident only moves forward, through every race, stale
   copy, failed diagnosis and restart: the manager implements IncidentRecord. *)
Stage(row) ==
  IF row = None THEN "absent"
  ELSE IF row.status = "RESOLVED" THEN "resolved"
  ELSE IF row.diagnosis # None THEN "diagnosed" ELSE "open"

RecordStage == [i \in Incidents |-> Stage(store[i])]

Record == INSTANCE IncidentRecord WITH stage <- RecordStage, FirstStage <- "open"

RecordForward == Record!Spec

(* _open holds no resolved incident (the comment "job -> open incident" of
   workflow.py:61): every path that resolves one also takes it out. *)
OpenIsUnresolved ==
  \A j \in Jobs : open[j] # None => heap[open[j]].status # "RESOLVED"

(* A crash loses nothing but a status in flight: the row of an open incident
   has its signals, diagnosis and plan as they are in memory, although only
   some of the assignments are followed by a put_incident. *)
RowTracksOpen ==
  \A j \in Jobs : open[j] # None =>
    LET incident == heap[open[j]]
        row      == store[open[j]]
    IN  /\ row = [incident EXCEPT !.status = row.status]
        /\ row.status # incident.status => incident.status \in {"DIAGNOSING", "REMEDIATING"}

(* The sweep resolves from a snapshot taken before its awaits.  What it still
   finds fit to resolve is the incident the job has now, or one that is gone:
   del self._open[job] never closes a newer incident of the job. *)
SweepTargetsCurrent ==
  \A j \in Jobs : Expired(j) => open[j] \in {Pending[j], None}

(* A resolved row is in the retrieval corpus of the running process
   (workflow.py:186-187 and :158), whichever of the two ways resolved it. *)
ResolvedIsIndexed ==
  \A i \in Incidents : Stage(store[i]) = "resolved" => corpus[i] > 0

(* The verdict is about signals the incident really had, oldest first, even
   though the thread read the list while it was being extended. *)
DiagnosisOfItsSignals ==
  \A i \in Incidents : Stage(store[i]) \in {"diagnosed", "resolved"} =>
    /\ store[i].diagnosis # <<>>
    /\ IsPrefix(store[i].diagnosis, store[i].anomalies)

(* The plan is at least as urgent as the offline verdict shown beside it: it is
   what the verdict recommends, or answers a more urgent fault that came in
   while the thread was at work.  Verdict and plan come from two tables with
   two rankings (bedrock.py:111-191, remediation.py:21-96) and from two
   readings of the signals.  A drop in throughput is left out: the tables do
   not agree on its name. *)
PlanCoversVerdict ==
  \A i \in Incidents : Stage(store[i]) \in {"diagnosed", "resolved"} =>
    LET kind   == LeadingKind(store[i].diagnosis)
        action == store[i].remediation.proposal.action
    IN  kind \in Range(Urgency) \ {"throughput_drop"} =>
          \/ action = Recommended(store[i].diagnosis)
          \/ \E p, q \in DOMAIN Urgency :
               p < q /\ Urgency[q] = kind /\ action = Advice[Urgency[p]]

(* What an operator was shown is what stays on record: the diagnosis and the
   plan of a row never change once there, whichever copy of the incident the
   next write comes from. *)
VerdictSettled ==
  [][\A i \in Incidents : store[i] # None /\ store[i].diagnosis # None =>
       /\ store'[i].diagnosis = store[i].diagnosis
       /\ store'[i].remediation.proposal = store[i].remediation.proposal]_store

(* No write takes a signal off the record, although the writers hold copies of
   different ages. *)
SignalsKept ==
  [][\A i \in Incidents : store[i] # None =>
       IsPrefix(store[i].anomalies, store'[i].anomalies)]_store

(* A plan that needs an operator's approval is run by nobody but a request
   (remediation.py:124-125).  A plan that runs without one is run by policy, is
   the plan on record and needs no approval, although the task reads the policy's
   guard two awaits after it proposed the plan and runs it one await later. *)
GatedExecution ==
  [][\A i \in Incidents : actuated'[i] # actuated[i] =>
       \/ \E r \in Requests : /\ req[r].pc = "executing" /\ req'[r].pc = "done"
                              /\ heap[req[r].ref].id = i
       \/ LET plan == heap[i].remediation.proposal
          IN  /\ AutoRemediate
              /\ ~plan.requiresApproval
              /\ store[i].remediation.proposal = plan]_vars

(* The record claims no run that did not happen: a plan is on record as
   completed only with the entry of a run, and each entry is of a run of the
   plan on the cluster, whichever copy the write came from and whatever raised. *)
RecordedRunsHappened ==
  \A i \in Incidents : store[i] # None /\ store[i].remediation # None =>
    LET record == store[i].remediation
    IN  /\ Len(record.audit) <= actuated[i]
        /\ record.status = "COMPLETED" <=> record.audit # <<>>

Completed(incident) ==
  /\ incident # None
  /\ incident.remediation # None
  /\ incident.remediation.status = "COMPLETED"

(* The audit trail on record has every run of the plan on the cluster
   (remediation.py:8), with one request in all and nothing run by policy.  Two
   requests on copies of one row each append to their own trail, and the second
   write drops the first entry; and the sweep, once a request has popped an
   incident it holds, overwrites the row of a run with the object it knows. *)
EveryRunAudited ==
  \A i \in Incidents : actuated[i] > 0 =>
    store[i].remediation # None /\ Len(store[i].remediation.audit) = actuated[i]

(* A run of a plan gets on record, and no later write takes it off, whichever
   stale copy it comes from (remediation.py:8).  Exempt are a write that raises
   and the sweep that finds an incident which a remediation popped behind its
   back: it puts its own, older object over the row and dies of the KeyError. *)
RunsStayOnRecord ==
  [][\A i \in Incidents :
       /\ actuated'[i] # actuated[i] => Completed(store'[i]) \/ (StoreMayFail /\ UNCHANGED store)
       /\ Completed(store[i]) =>
            Completed(store'[i]) \/ (sweep.pc = "emitting" /\ sweep'.pc = "dead")]_vars

(* Jobs have one unresolved incident on record (workflow.py:8-10). *)
OneUnresolvedPerJob ==
  \A i, k \in Incidents :
    /\ Stage(store[i]) \in {"open", "diagnosed"}
    /\ Stage(store[k]) \in {"open", "diagnosed"}
    /\ store[i].job = store[k].job
    => i = k

(* The plan of an incident is applied to the cluster at most once: the guard
   of _run_remediation refuses an EXECUTING or COMPLETED record. *)
AppliedOnce == \A i \in Incidents : actuated[i] <= 1

(* A job that stays quiet has its incident closed (workflow.py:33), whatever
   approvals and sweeps of other jobs do meanwhile, as far as the code goes:
   unless it stays open with a diagnosis that raised (workflow.py:118), or a
   remediation popped an incident behind the sweep's back and the KeyError ended
   the heartbeat (workflow.py:189).  Nothing else keeps it open. *)
QuietJobClosesOrStuck ==
  \A j \in Jobs : <>[](j \in quiet) =>
    []<>(open[j] = None \/ diag[open[j]] = "failed" \/ sweep.pc = "dead")

(* Every incident on record gets its alert, unless its diagnosis raised: again
   and again there is nobody who waits for one. *)
EveryIncidentAlerted ==
  []<>(\A i \in Incidents : store[i] # None => i \in alerted \/ diag[i] = "failed")

-----------------------------------------------------------------------------
(* Inductive invariants *)

Undiagnosed == {"opening", "scheduled", "announced", "analysed"}
Proposed    == {"diagnosed", "alerted", "executing"}

(* Every reference a coroutine holds across an await is to an object that is
   there, with the plan the coroutine will read: the strengthening that makes
   TypeOK inductive. *)
WellReferenced ==
  /\ \A j \in Jobs : open[j] # None => heap[open[j]] # None
  /\ \A j \in Jobs : sweep.todo[j] # None => heap[sweep.todo[j]] # None
  /\ \A i \in Incidents :
       /\ diag[i] = "none" => heap[i] = None
       /\ diag[i] \in Undiagnosed \cup Proposed => heap[i] # None
       /\ diag[i] \in Proposed => heap[i].remediation # None
       /\ diag[i] = "analysed" => read[i] # None
  /\ \A r \in Requests : req[r].pc = "executing" =>
       /\ req[r].ref # None
       /\ heap[req[r].ref] # None
       /\ heap[req[r].ref].remediation # None

(* A plan, a diagnosis and a status past DIAGNOSING come and stay together. *)
Coherent(incident) ==
  /\ incident.remediation = None <=> incident.diagnosis = None
  /\ incident.remediation = None <=> incident.status \in {"OPEN", "DIAGNOSING"}

(* How the objects and rows of an incident agree while the database works: the
   strengthening that makes OpenIsUnresolved inductive and every write a step
   of IncidentRecord. *)
ObjectsAgree ==
  \A i \in Incidents :
    /\ heap[i] # None =>
         /\ heap[i].id = i
         /\ Coherent(heap[i])
         /\ store[i] # None
         /\ heap[i].remediation = None <=> store[i].remediation = None
    /\ store[i] # None => store[i].id = i /\ Coherent(store[i])
    /\ diag[i] = "none" => store[i] = None
    /\ diag[i] \in Undiagnosed => heap[i].remediation = None

(* A request's own copy is of a diagnosed incident that is open no more. *)
CopiesAgree ==
  \A r \in Requests : heap[r] # None =>
    /\ Coherent(heap[r])
    /\ heap[r].remediation # None
    /\ store[heap[r].id] # None
    /\ store[heap[r].id].remediation # None
    /\ \A j \in Jobs : open[j] # heap[r].id

OpenAgree ==
  \A j \in Jobs : open[j] # None =>
    /\ heap[open[j]].job = j
    /\ heap[open[j]].status # "RESOLVED"
    /\ store[open[j]].status # "RESOLVED"

TodoAgree == \A j \in Jobs : sweep.todo[j] # None => heap[sweep.todo[j]].job = j

RowsAgree == ObjectsAgree /\ CopiesAgree /\ OpenAgree /\ TodoAgree
=============================================================================
