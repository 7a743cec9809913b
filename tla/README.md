# A TLA+ verification of gpumon

gpumon watches the GPUs of distributed training jobs: telemetry events go through an in-process
stream to detectors, firing signals are grouped into one incident per job, each incident is
diagnosed (retrieval plus a language model) and gets a remediation plan, and the plan runs after an
operator approved it or, when it is low-risk, by policy. This directory models that program in TLA+,
checks it with TLC and proves part of it with TLAPS. The same code is deployed on AWS as Lambda functions behind
Kinesis and Step Functions; that pipeline is modelled beside the local program. Line numbers are those of the repository;
`workflow.py` stands for `gpumon/workflow.py` and so on.

The local program runs on one asyncio event loop. Code between two awaits is atomic; the hard behaviours come
from what other coroutines do *at* the awaits, from the one piece of work that runs in a real thread
(the diagnosis), from calls that raise with half of a handler done, and from restarts, since the
process keeps most of its state in memory. On AWS they come from delivery: batches and answers are repeated or lost,
and everything has a time-out.

## 1. Inventory

| Component | State it keeps | Operations | Works with |
|---|---|---|---|
| Incident lifecycle (`workflow.py`) | `_open` (job -> incident), `_last_anomaly`, the incident objects the coroutines share | `ingest_anomalies`, `_diagnose` (a task per incident), `remediate`, `_run_remediation`, `sweep`, `_alert` | called by consumer, heartbeat and API; calls planner, store, retrieval, diagnosis, actuator, broadcast |
| Remediation planner (`remediation.py`) | none (the record lives in the incident) | `propose`, `execute` | lifecycle |
| Incident store (`store.py`) | one SQLite row per incident | `put_incident`, `get_incident`, listings | lifecycle, read endpoints |
| Event stream (`stream.py`) | a bounded queue per subscriber, a counter | `publish`, `subscribe` | producers in `api.py`; consumer |
| API runtime (`api.py`) | latest sample of each GPU, connected clients, background tasks | `POST /events`, `POST /incidents/{id}/remediate`, consumer, heartbeat, demo driver, actuator, broadcast | everything |
| Detectors (`detectors.py`) | EWMA mean and variance, ECC windows, last step of each rank | `process` | consumer, AWS pipeline |
| Cluster simulator (`simulator.py`) | active fault, clock, cordoned GPUs | `tick`, `inject`, `clear_fault`, `cordon` | demo driver, actuator |
| Retrieval (`rca/rag.py`, `rca/embeddings.py`) | documents, term counts or vectors, the lazily fitted IDF | `add`, `search` | diagnosis (thread), lifecycle (loop) |
| Diagnosis (`rca/engine.py`, `rca/bedrock.py`) | none | `diagnose_incident` | runs in a thread |
| AWS pipeline (`services/processor/handlers.py`, `infrastructure/lib/ai-stack.ts`, `api-stack.ts`) | detector state of a warm container, deliveries of the event source, state-machine executions, DynamoDB rows | `ingest`, `process_batch`, `gather_context`, `diagnose`, `persist_incident`, `apply_remediation`, the approval gate | Kinesis, Lambda, Step Functions, SNS, DynamoDB |
| History archive (`archive.py`) | an append-only file | `append`, `query` | heartbeat |
| Frontend (`frontend/`, `dashboard.html`) | the last messages received | render | WebSocket, read endpoints |

Hard behaviours, and what makes each component correct:

- **Lifecycle.** Four kinds of coroutine share one object per incident, and a request for an incident
  that is no longer open works on a *copy* loaded from the database. Guards are read before an await
  and not read again. Correct when a row only moves forward (open, diagnosed, resolved) whoever writes
  it, the verdict and the plan an operator saw stay on record, nothing resolved stays open, the sweep
  never closes an incident newer than the one it looked at, high-risk plans never run by policy, each
  plan is applied once and every application is audited, each incident is alerted, and a quiet job's
  incident is closed in the end.
- **Store.** A write may raise after the object was changed. Correct when a crash loses no more than a
  status in flight.
- **Stream.** A slow consumer's queue overflows. Correct when what is lost is old, what is
  kept is in order, and a consumer that caught up has the newest sample of each GPU.
- **Detectors, simulator.** Ranks report one after the other, the baselines adapt, the window only
  moves with new errors. Correct when a false alarm needs a change of pace, a slow rank is found, and
  the plan that follows clears the fault that is there.
- **Retrieval.** `search` runs in a diagnosis thread while the loop calls `add`. Correct when a
  document added is found, and scores are those of the document they are attached to.
- **Diagnosis.** The model may answer anything. Correct when an answer that is no verdict is refused or reviewed by hand, and
  the offline table of verdicts and the planner's playbook, which rank signals each on its own, do not contradict each other.
- **AWS pipeline.** Kinesis delivers a batch again after a failure, Step Functions repeats a task whose answer is lost, and
  containers with their detectors' memory come and go. Correct when no acknowledged fault is without an
  execution, repeated deliveries open a bounded number of executions in the order of the records, who is alerted finds the incident
  on record, a plan behind the gate is only run after an answer in time, rows only move forward, and every fault reaches an operator
  or shows as a failed execution or dropped batch.

`PROJECT.json` lists each hazard at the line where it bites and the properties that cover it.

## 2. Modules

| Module | What it is |
|---|---|
| `Remediation` | the planner as pure operators: the playbook, the dominant signal, `Propose` |
| `Diagnosis` | the verdicts as pure operators: what becomes of a reply, the offline table and its ranking of signals |
| `IncidentManager` | the incident lifecycle with store, requests, heartbeat and restarts; extends `Remediation`, `Diagnosis` and `Grouping` |
| `Grouping` | which signals of a batch an open incident takes; `IncidentManager` and `Cluster` extend it |
| `IncidentRecord` | abstract specification: what the database promises a reader of one row; `IncidentManager` and `Workflows` both implement it |
| `MCIncidentManager` | instances for TLC: batches of signals, symmetry, ids in order |
| `IncidentManagerProofs` | types, references, agreement of rows and memory, the refinement of `IncidentRecord`, the policy gate, settled verdicts, and records that claim only runs that happened, proved |
| `SignalProofs` | verdicts are of signals the incident had and the plan beside them answers them; signals on record, the sweep's snapshot, the rows of open incidents, the corpus, and runs that stay on record, proved |
| `EventStream` | the stream with its producers and subscribers |
| `MCEventStream` | instances for TLC |
| `EventStreamProofs` | types and what backpressure can lose, proved for every capacity |
| `Detectors` | the rules of the detector engine as pure operators |
| `Baseline` | the statistical layer: one series in exact arithmetic, with a reference definition of its statistics; it is its own instance |
| `BaselineProofs` | the recursive update computes the weighted mean and variance, and the layer notices changes, not states, proved for every series |
| `Cluster` | the simulated job, the detectors, and the way from signals over a plan back to the cluster; extends `Detectors`, `Remediation` and `Grouping` |
| `MCCluster` | instances of `Cluster` for TLC |
| `ClusterProofs` | slow ranks are found, false alarms pass, plans fit the fault: proved for every fleet, noise and backlog |
| `Retriever` | both retrievers, searched by threads while the loop adds to them |
| `MCRetriever` | instances for TLC |
| `RetrieverProofs` | what a search finds, what it must not and how much, proved for every corpus and number of threads |
| `StreamProcessor` | the AWS pipeline up to `start_execution`: deliveries, containers, detectors; extends `Detectors` |
| `Workflows` | the two Step Functions machines and their handlers over the table; extends `Diagnosis` |
| `Pipeline` | the composition of the two: a start in the first begins an execution in the second |
| `MCPipeline` | instances for TLC |
| `PipelineProofs` | all safety properties of both halves, proved for any lanes, containers, reports and failures |
| `Counting` | lemmas the proofs share: least elements, recursive functions, listings by a key, sums over finite sets and over growing sequences |

A definition `X_Y` written just before `X` is `X` with the plausible mistake `Y`. No action uses it; it
documents which mistake each property would catch.

### IncidentManager

One action is the code between two awaits. `diag[i]` is the program counter of the consumer's announcement
and then of the `_diagnose` task of incident `i`; `req[r].pc` that of a request; `sweep.pc` that of the heartbeat.

| Code | Actions |
|---|---|
| `ingest_anomalies`, new incident (`workflow.py:81-98`) | `OpenIncident`, then after the announcement `ScheduleDiagnosis` |
| `ingest_anomalies`, known incident (`:99-108`) | `Enrich` |
| `_diagnose` (`:110-133`) | `DiagnoseStart`; in the thread `ThreadRead`; `DiagnoseDone` or `DiagnoseFail`; `Alert`; `DiagnoseEnd` or `AutoRemediateStart`, `AutoRemediateFinish` |
| `remediate`, `_run_remediation` (`:135-161`) | `RemediateRefuse`, or `RemediateStart` and `RemediateFinish`; the part after the await is `Apply` |
| `sweep` (`:177-190`) | `SweepResolve` for each incident it resolves, `SweepEnd` |
| the clock | `Quieten`: `RESOLVE_COOLDOWN_S` pass without a signal of the job; `Hear` undoes it |
| process restart | `Restart` |

State: `open` is `_open`; `heap` holds the incident objects, at the incident's own address or, for a copy
loaded by a request, at the request's; `store` the rows; `corpus` counts how often an incident was indexed;
`actuated` and `alerted` are history. Signals are (kind, location) pairs, a diagnosis is the list of signals
it was computed from, the audit trail has one entry per run of the plan, naming who is said to have approved it. A request names
one of `Approvers`: "operator", which is the default and what the dashboard sends, or nobody, since a null or an empty `approved_by` passes `api.py:218`;
`remediation.py:136` puts a run nobody approved down to "auto-policy", and `Label` does so too. Titles,
severities, timestamps, prompts and step texts are left out. `_diagnosing`, the set guarding against a second
task for one incident, is left out: a task is only created where the incident is.

`Put` returns with the row written or raises with the row untouched. A resolved incident is also indexed, which in AWS mode embeds it:
`PutResolved` may raise with the row written (`rca/rag.py:118`). What an exception does is modelled at
each caller: it ends the consumer (`consumer = "dead"`), the heartbeat (`sweep.pc = "dead"`), the diagnosis
task (`"failed"`), or only the request.

### Diagnosis

`Recommended` is the offline verdict on a list of signals (`bedrock.py:101-195`), named by the action the planner would
call it; `Outcome` is what `diagnose` makes of a reply (`:61-83`): prose becomes a verdict to review by hand, JSON that does not fit raises.
`IncidentManager` holds `Recommended` of what the thread read against the plan proposed when the thread is back; `Workflows` uses `Outcome`.

### EventStream

`publish` never gives up the loop, so a batch of a producer is out before any subscriber runs; `batch` is
what is left of it. `queue[s]` is the asyncio queue, whose events are identified by their position in `sent`;
`got[s]` and `latest[s]` are what the subscriber took and the newest event it has of each GPU, as
`MetricsAggregator` keeps it. Kinesis mode adds `PublishFail`: the put raises after the counter was
incremented and the rest of the batch is lost.

### Detectors, Baseline and Cluster

`Cluster` is the demo: `Inject` and `Tick` are the driver and the simulator, `Consume` is one event through
`DetectorEngine.process` into the job's incident, `Diagnose` proposes a plan, `Actuate` is the actuator after an
approval, `Close` the sweep. An event is its GPU and the fault the GPU feels; what the simulator draws at random in it is
chosen when it is processed. The life of the incident is the short form of `IncidentManager`: one incident at a time, without
its races. A pace is a step time in percent of percent, so that the median rule is exact in integers.

In `Cluster` the statistical layer finds any choice of the kinds it is allowed once a GPU has enough samples: the rules do
not depend on it, and neither may the properties. How it chooses is `Baseline`, in exact rational
arithmetic. A deviation below 1e-9, which has no z-score, is one of zero there; floats reach it when a series repeats itself for long, and
then alarm less, not more.

### Retriever

Neither list of a retriever nor the IDF table has a lock. One action is what one thread does between two accesses to what they share.

| Code | Actions |
|---|---|
| `build_retriever`, constructor (`rag.py:133-165`) | `Init`: either retriever, over one of the corpora on disk |
| `add` (`:61-64`, `:116-118`) | `AddDocument`, `AddEntry` or `AddFail`, `AddEnd` |
| `retrieve` (`:170-173`) | `Retrieve`: a search of runbooks, then one of incidents; `Return` |
| `search` (`:87-99`, `:120-130`) | `SearchNothing`, or `Test`; `Query` or `QueryFail`; `Score` for each position; `Rank` |
| `_fit_idf` (`:66-72`) | `Fit`, `Publish`, `Clear` |

A text is the set of its terms and a table the number of entries it was fitted to, from which the terms with a weight follow. A score is positive or
not; how positive scores rank is any choice of `K`. Looking up the terms of one document in the table is one step.

### StreamProcessor, Workflows and Pipeline

| Code | Actions |
|---|---|
| `ingest` (`handlers.py:31-41`) | `Ingest` |
| `process_batch` (`:45-65`) | `Invoke`: the detectors over the batch, up to the first record that does not parse; `StartExecution` for each job, or `StartFails`, or `StartUnanswered` |
| event source and function (`api-stack.ts:63-80`) | `GiveBack` and `Acknowledge` within these; `Die`; `Recycle` |
| first state machine (`ai-stack.ts:69-92`) and its handlers (`handlers.py:69-122`) | `Begin`, `GatherContext`, `Diagnose`, `DiagnoseRaises`, `Persist`, `PersistUnanswered`, `Notify`, `GiveUp` |
| second state machine (`ai-stack.ts:94-131`) and `apply_remediation` (`handlers.py:126-147`) | `StartRemediation`, `Approve`, `ApprovalTimesOut`, `ApplyRemediation`, `ApplyUnanswered`, `ApplyRaises`, `ApplyGivesUp` |

A lane is a shard's slot of the event source: it delivers a batch until an invocation returns or its retries are used up. Any container
serves any lane, and the detector's memory is the container's. Of the detectors there are the XID rule, which has no memory, and
the ECC rule, whose window counts on; the statistical layer would only add alarms. The n-th `start_execution` that takes effect makes incident n,
because `gather_context` gives it a fresh id. The table keeps status and approver of a row. The services are
external: they are modelled by what the code configures and by what it relies on, at-least-once delivery and
repeated calls. Two assumptions are made about them. A call to Lambda whose answer is lost has ended before Step Functions repeats it, or
a late `put_item` of the first machine could take a resolved row back. And whoever starts a remediation, which no file of the repository does, has seen the alert.

## 3. Runs

| Run | Instance | What it shows |
|---|---|---|
| `Races` | 2 jobs, 4 incidents, 1 approval | no resolved incident stays open; the sweep closes no newer incident; every resolution feeds the corpus; the run of a request is audited; rows move forward |
| `Faults` | 1 job, 2 incidents, 2 approvals that may name nobody, low then high risk, policy on, diagnoses that raise, 1 restart | rows agree with memory up to a status in flight; no signal is lost; nobody but a request runs a high-risk plan; a run of a plan gets on record and stays there; the verdict is of signals the incident had, and the plan beside it is for that fault or a more urgent one |
| `WriteFaults` | 1 incident, 2 approvals, 3 kinds of signals, any write may raise, and so may the embedding after it, 1 restart | references held across awaits stay good; a record claims no run that did not happen; what was shown stays on record |
| `Live` | 2 jobs, one with 3 incidents and one with 1, 1 approval, diagnoses that raise, fairness | a job that stays quiet has its incident closed, unless its diagnosis raised or a remediation ended the heartbeat; every incident whose diagnosis did not raise is alerted |
| `Backpressure` | 2 subscribers, 2 GPUs, capacity 2, batches up to 3, 5 events, Kinesis may raise | loss is bounded, and the latest sample is the newest given |
| `Detection` | 2 nodes of 2 GPUs, 2 faults of 2 ticks, 7 kinds of fault at 2 places | a slow rank is found from its second step; false straggler alarms pass with the change of pace; a single-GPU fault gets its own plan |
| `Series` | every series of 4 samples in 0..4, weight 0.3, threshold 3, 2 samples before it counts | mean and variance are the weighted ones of all samples; an alarm needs a rise |
| `Retrieval` | 2 threads, both retrievers, empty or two-document corpus that grows to 3, K = 1, embedder may raise | a document is found once it is indexed, unless a fit overtook its `add`; what is found shares a term with the query, until an embedding fails |
| `Pipeline` | 1 lane, 1 container that may be replaced, 3 GPUs of 2 jobs, 2 records in batches of up to 2, 1 retry each, 3 executions, 1 remediation, 1 failure anywhere | no acknowledged fault without an execution; duplicates are bounded and in order; ECC alarms are due to errors delivered; alerts are on record; nothing is resolved around the gate; the table implements `IncidentRecord`; each fault reaches an operator |
| `OrphanedIncident`, `DoubleApproval`, `StickyEcc` | smallest instances | the findings below |

**Bounds.** Races between coroutines need two of a kind: two incidents of one job (an old one being remediated while
a newer one is open), two requests on one incident, and two jobs for a sweep to be interrupted between two incidents.
`Races` has four incidents:
the sweep is interrupted after one job's incident, while the other job's old incident is still being remediated from a copy, its newer
one leaves `_open`, and a third one is opened.
`Live` has two jobs as well, because the step that ends the heartbeat needs them: while the sweep awaits the announcement for one job, a remediation takes
the other job's new incident out of `_open`, by running the plan of an old one; and when the heartbeat is gone, that job needs a third incident to leave open. Batches of one signal are
enough to enrich; the two signals are a low-risk and a high-risk one, since the plan's gate is the only thing
that tells signals apart; `WriteFaults` adds a third kind that outranks one of them. One restart reaches every cut, and the process after
it starts with the rows alone. In `EventStream` a queue of two that meets a batch of three overflows inside one
batch, which is the case the code's comment is about. In `Detection` four GPUs are the
fewest the straggler rule looks at; one of them draws both extremes of the noise, the others one each; two
faults in a row give every pair of regimes, including the recovery between them, and an ECC window of three overflows. Four samples are enough for a
rise, a fall and a repetition after the baseline counts; length and values are no bound on the theorem.
In `Retrieval` two threads are what it takes for a fit to be overtaken by another fit, and one document added
at a time is what the loop can do; with K = 1 the ranking chooses. In `Pipeline` two records are a batch, two batches, or a batch with a record that does
not parse in front of or behind a fault; they are of one job or two, so that an invocation has two executions to start and fails between
them; three executions are one more than two jobs need; and one failure, wherever it is, meets each retry. ECC windows
of two reports overflow when a batch comes again. Two failures or two lanes at once take TLC beyond minutes; the
safety properties of `Pipeline` are proved for any number.
Symmetry over incidents, requests, subscribers, threads and GPUs is used only in runs
without liveness. In `Live` an id says whose incident it is to be, and the ids of a job are handed out in order (`OrderedSpec`): `uuid4` gives an
id that is new, no matter which, so that takes no behaviour away but by the number of incidents of each job, and no fairness is about opening any.
`Backpressure` ends when `MaxEvents` events are out, so deadlock is not checked there: producers may fall
silent and the subscribers wait. So may the samples of `Series` end, and the reports of `Pipeline`. `IncidentManager` never stops, because a quiet job may fall quiet again.

**Fairness** (`FairSpec`; `OrderedSpec` is `FairSpec` with such ids). Weak fairness of each diagnosis task, each request once it started, and the heartbeat: the
event loop runs every coroutine that is ready, the thread pool runs the diagnosis, and a broadcast ends
because a socket that raises is dropped. Nothing is assumed of signals, operators or the clock. A diagnosis
that raised and a heartbeat that died are behaviours of `Live`: what the code then leaves undone is named in the properties (section 4).

`Pipeline`: the event source invokes the function while its lane has records, and a function ends by its time-out (`LaneStep`); Step
Functions takes an execution to an end or to its own time-out (`ExecutionStep`). Nothing is assumed of reports, of the replacement of
containers, or of whoever starts and approves remediations. Failures are bounded, as those of a behaviour that is to reach anybody are.

`Cluster` in `StickyEcc`: the driver ticks for ever and the consumer runs, both weakly fair; nothing else is.

## 4. Findings

- **`OrphanedIncident`** (`workflow.py:159`): `_run_remediation` pops whatever incident the job has open, though
  the one it resolved may be an older one. The job's newer incident drops out of `_open` unresolved and the
  next signals open another, against "one incident per problem" (`workflow.py:8-10`).
- **`DoubleApproval`** (`workflow.py:147`): the guard is read before an await, the status set after it; two
  approvals both pass and the plan is applied twice.
- **`StickyEcc`** (`detectors.py:130`): the ECC window only slides when an error is reported, so five errors of any
  age make each later event of the GPU an alarm, even when it is cordoned; its job is never quiet again.
The models show more that no run is spent on.

*Lifecycle.* A diagnosis that raises leaves the incident `DIAGNOSING` (`workflow.py:118`), which `sweep` never resolves and `remediate`
refuses: it stays in `_open`, without an alert, unless the remediation of an older incident of its job pops it. A remediation that pops a job between two steps of a sweep makes
`del self._open[job]` (`workflow.py:189`) raise `KeyError`, which ends the heartbeat: it is the pop of `OrphanedIncident` once more,
and `SweepResolve` has the step. The sweep closes no incident after that. `QuietJobClosesOrStuck` has these two cases as its exceptions: there is
no third one, and without either of the two TLC finds the property violated in `Live`. The sweep may resolve an incident between its diagnosis and its
alert. Two copies of one incident that are both remediated each append to their own audit trail, and the last
write wins, so that a run of the plan is missing from the record: `EveryRunAudited` is broken by two approvals of an incident the sweep has resolved. It is
broken by two requests one after the other, too: the first one's pop leaves a newer incident orphaned that the sweep has in its list, the second
request runs the plan of that one on a copy, and then the sweep, if it was waiting for another job's write all the while, puts its own object over the row: the record says that the plan was
never run. That is the step of the `KeyError`: `RunsStayOnRecord` allows for it, and says that no other write ever takes a run off the record.
A request that names nobody as the approver has its run recorded as one by "auto-policy" (`remediation.py:136`), also of a high-risk plan, although "only low-risk actions may
auto-execute" (`remediation.py:124`): the trail cannot be relied on to tell who ran a plan, and `GatedExecution` is therefore about who did, and not about the trail. When `put_incident` raises at the end of a remediation, or the embedding after it, the incident stays in `_open` as resolved and
is enriched from then on: new signals of the job open no incident and get no diagnosis.

*Detectors and plans.* When the whole job slows down, the first rank to report is compared with peers that have not and is taken for a straggler
(`detectors.py:182`), and a healthy GPU is to be cordoned. The plan for lost throughput cannot be reached: it answers the kind
`throughput` (`remediation.py:83-96`), and the detectors report `throughput_drop`, which is why `PlanCoversVerdict` leaves that kind out.

*Retrieval.* A fit that began before an `add` clears `_dirty` after it (`rag.py:72`): the words of the new document weigh nothing until the next
`add`. When an embedding fails, the document stays without a vector and every later one is scored by the vector of another (`rag.py:117`).
After a restart the corpus has none of the incidents resolved before, although `rag.py:145` describes it as "resolved incidents (from the store)".

*AWS pipeline.* Each batch with anomalies opens an execution and an incident of its own, for as long as a fault lasts (`api-stack.ts:31` speaks of
"when an incident opens"). A batch that is delivered again opens them again, with a fresh id, and its ECC errors are counted again, so that an alarm may be
found in an earlier record than the one that caused it. A batch split over two containers may raise no alarm. One record that does not parse takes its batch with it, without a trace:
the dead-letter queue of `streaming-stack.ts:13-14` is in front of ingestion and not behind the event source. `put_records` may refuse some of the records; its answer is not read (`handlers.py:38-41`).
An execution that fails before `PersistTask` leaves no record of its incident. A second remediation of an incident replaces
the audit trail of the first. What `SendTaskSuccess` sends replaces the input of the execution: an answer without
`approved_by` puts "auto-policy" on record for a plan that a person approved, and one without the proposal makes the handler
raise, so that the approved plan is never run. `apply_remediation` sets no `resolved_at`.

## 5. Proofs

| Theorem | States | For |
|---|---|---|
| `TypeCorrect` | `Spec => []TypeOK` of `IncidentManager` | all constants |
| `ReferencesHold` | `Spec => []WellReferenced` | all constants |
| `GateAlwaysHolds` | `Spec => GatedExecution` | all constants |
| `VerdictsStaySettled` | `Spec => VerdictSettled` | all constants |
| `RecordsTellTrue` | `Spec => []RecordedRunsHappened` | all constants |
| `RunsAreKept` | `Spec => RunsStayOnRecord` | all constants |
| `VerdictsAreGrounded` | `Spec => []DiagnosisOfItsSignals` | all constants |
| `PlansCoverVerdicts` | `Spec => []PlanCoversVerdict` | all constants |
| `SweepStaysCurrent` | `Spec => []SweepTargetsCurrent` | all constants |
| `OpenUnresolved` | `Spec => []OpenIsUnresolved` | `StoreMayFail = FALSE` |
| `RowsStayAgreed` | `Spec => []RowsAgree` | `StoreMayFail = FALSE` |
| `RowsMoveForward` | `Spec => RecordForward` (refinement of `IncidentRecord`) | `StoreMayFail = FALSE` |
| `RowsTrackOpen` | `Spec => []RowTracksOpen` | `StoreMayFail = FALSE` |
| `SignalsStayOnRecord` | `Spec => SignalsKept` | `StoreMayFail = FALSE` |
| `ResolvedStaysIndexed` | `Spec => []ResolvedIsIndexed` | `StoreMayFail = FALSE`, `MaxRestarts = 0` |
| `StreamTyped` | `Spec => []TypeOK` of `EventStream` | every capacity, batch and set of subscribers |
| `LossIsBounded` | `Spec => []LossBounded` | same |
| `LatestStaysNewest` | `Spec => []LatestIsNewest` | same |
| `DrainedConsumerIsCurrent` | `Spec => []DrainedIsCurrent` | same |
| `StatisticsTyped` | `Spec => []TypeOK` of `Baseline` | series of every length and values, every weight |
| `StatisticsAreWeighted` | `Spec => []StatIsWeighted` | same |
| `AlarmsNeedRises` | `Spec => AlarmNeedsRise` | same, and every threshold with (1 - alpha) < alpha * threshold^2 |
| `ClusterTyped` | `Spec => []TypeOK` of `Cluster` | every fleet, noise, statistical layer, backlog and number of faults |
| `SlowRanksAreFound` | `Spec => [](Len(Fleet) >= 4 => SlowRankFound)` | same; a smaller fleet has no straggler rule (`detectors.py:183`) |
| `NoRankIsBlamed` | `Spec => []FalseAlarmsPass` | same |
| `PlansFitFaults` | `Spec => []PlanFitsFault` | same |
| `AtMostTwiceK` | `Spec => []TypeOK` of `Retriever` | every corpus, query, number of threads and of results, both retrievers |
| `IndexedStaysFound` | `Spec => []IndexedIsFound` | same |
| `HitsStayDeserved` | `Spec => []HitsAreDeserved` | same |
| `AcknowledgedIsStartedAlways` | `Spec => []AcknowledgedIsStarted` | all lanes, containers, reports, executions, remediations, retries and failures |
| `StartedInOrderAlways` | `Spec => []StartedInOrder` | same |
| `AlarmsCountDeliveriesAlways` | `Spec => []AlarmsCountDeliveries` | same |
| `AlertsAreOnRecord` | `Spec => []AlertedIsOnRecord` | same |
| `GateHolds` | `Spec => []ResolvedThroughGate` | same |
| `TableMovesForward` | `Spec => TableForward` (refinement of `IncidentRecord`) | same |
| `TypesHold` | `Spec => []TypeOK` of `Pipeline` | same |

*Assumptions*: batches are non-empty lists of signals, incidents and requests have different addresses, `None` is none of
the values it is compared with, the capacity is positive, the corpus is of documents of the two kinds, executions are numbered, each GPU of a fleet reports once in a tick,
and noise, slowdowns and errors are within what the simulator draws. TLC evaluates them on each run.

*IncidentManager.* `TypeOK` is not inductive: `DiagnoseDone` writes `read[i]` into an object, so the
thread must have read something and the object must be there. `WellReferenced` says that every reference
held across an await is good, and `TypeInv` is the conjunction of the two. The rows need more: a remediation may write from a stale copy, so a
write moves a row forward only if copy and row were diagnosed alike. `RowsAgree` has the four parts of the argument.
Objects agree with their row on whether there is a plan; a request's private copy is of an incident that is diagnosed
and not open any more (an incident never comes back into `_open`); the open incident of a job is the job's own and is unresolved; and
so are the sweep's targets the job's own. `RowInv` is `TypeInv` with `RowsAgree`; each
action is shown to preserve it and to write at most one row, by a step `Open`, `Diagnose`, `Resolve` or a stutter of
`IncidentRecord`. The run `Faults` checks `RowsAgree` and `WriteFaults` checks `TypeOK` and `WellReferenced`. When writes may raise, rows fall behind
their objects and the theorems that assume they do not are false.

Three results need nothing of the rows but what writers copy from them, and hold although calls raise. The gate: a plan is run by policy only if it
needs no approval. That is checked two awaits after the plan is proposed and one before it is run, so `GateInv` adds two facts to
`SettledInv` below: the row of an incident whose task is past its diagnosis has the verdict, and with it the plan of the object, for good; and an incident whose
run by policy has begun has passed the guard. The theorem is about the step that runs a plan: it is that of a request, or of a task whose plan is on record and needs no approval. The verdict: `SettledInv` says that every object, shared or copied, has the verdict and plan of its row once the row has one (`Follows`), that an
object has either both or neither (`Paired`), that copies are only of diagnosed rows, and that a diagnosis under way is of an incident
without one. No write can then change what an operator was shown. The runs: `BookInv` says of objects and rows that the trail is no longer than the number
of runs and that the record is completed exactly when it has an entry; a stale copy only claims less.

*SignalProofs.* `GroundInv` adds to `SettledInv` that each object and row is `Grounded` (its verdict is a prefix of its signals, and nothing is diagnosed or
resolved without a verdict) and that what a thread has read is a prefix of the list as it is now, because a list is only extended. For the second theorem
`MirrorInv` adds to `RowInv` that every object, a request's copy too, has the signals of its row; a copy cannot miss a signal, as only open incidents are enriched
and copies are made of those that are not.

`CoverInv` is about two tables that rank the kinds of signals, each with a loop of its own: a thread reads some signals, and the plan is proposed for all there are when it
is back. `PlanCoversRead`: the dominant kind of a list is at least as urgent as the leading kind of any of its prefixes, because the tables agree on all
kinds but the last (`TablesAgree`).

`SnapshotInv`: a job of the snapshot that was not heard of since has the incident of the snapshot, or none, because a job is heard when it opens
another one; the refresh of `_last_anomaly` is what keeps `del self._open[job]` from closing a newer incident. `TrackInv` is `RowTracksOpen` with `RowInv`: a write that is left out is
followed by an await only after a change of status, and an object that leaves `_open` never comes back. `IndexedInv`: only the two paths that index an incident write
it as resolved, since what is enriched or diagnosed is not. A restart empties the corpus, hence the assumption.

`LedgerInv` is about copies that are older than the record. The object of an open incident knows of the run its row has; an object whose plan was run is not diagnosed any more,
so the sweep, which takes what is, passes it by; and a request's copy is of an incident that is open no more, so whoever works on the shared object is not overtaken by it. What is left are writes of a
sweep that holds an incident which was popped meanwhile: by `SnapshotInv` its job has none then, so the sweep dies of the `KeyError` in that very step, which the property names.
With two requests the number of entries may still be less than that of runs; of how many there are, `EveryRunAudited` says only that one request has its own.

*EventStream.* The key is `QueueIsNewest`: a queue is the newest events, consecutive, so an event missing from it was
either taken or has a full queue behind it. `GivenBeforeQueued` and `NothingBeforeSubscribing` complete the inductive
invariant `StreamInv`, and `DrainedIsCurrent` follows from `LossBounded` and `LatestIsNewest`. The types are conjuncts of it.

*Baseline.* After the update the sample is (1 - alpha) of its old distance from the mean, and the variance is at least
alpha (1 - alpha) of that distance squared, so its z-score is below the square root of (1 - alpha) / alpha: 1.53 for 0.3, against a
threshold of 3 (`ChangeIsSwallowed`). The inductive invariant `ChangeSwallowed` says so of the last sample, and
the z-score grows with the sample. A fault that no rule looks at is thus found in its first event and is silent while it lasts.
For `StatIsWeighted`, one more sample multiplies the weight of each earlier one by 1 - alpha (`WeightsShrink`), so the weighted sum of a longer series is
the old one scaled plus the new sample (`WeightedAppend`, for the samples and for their squares), and the update of the variance is the identity `Incremental`.

*Cluster.* A property of one event is about a comparison of paces that were reported in different ticks, so the invariant has to say of which. `TimeInv`: there is a
list of the ticks so far, with what each GPU felt in each, such that the queue holds exactly the events of those ticks that are not processed yet, in the order in which the GPUs report
(`Place` and `Left` are the arithmetic of it), and each GPU's last pace is within the band of what it felt in its last tick that was processed (`Timeline`). With it, what each tick felt is the
doing of one fault: a straggler is alone, and a fault of the whole job spares nobody but cordoned GPUs (`Coherent`), and all that is felt was injected (`Explained`). In a steady event all paces are then of one
and the same feeling (`SteadyPaces`), and the two properties are lemmas about medians: `SmallestIs` is about the k-th smallest member of any finite set of GPUs, `StragglerIsFound` needs the bands 20160..27040 and 9600..10400 to be more
than a factor of 1.5 apart with all but one of the GPUs below, and `NoFalseStraggler` that at most half of the GPUs are below the band of the fault. `StragglerInv` keeps the verdict while more GPUs are
cordoned. `PlanFitsFault` is not about time: `PastInv` says that the errors in a window, and each signal by which the planner could be misled, are of a fault that happened on that
GPU; a straggler alarm belongs to them as long as only single GPUs are at fault, because a normal pace passes against peers of any pace (`NormalPacePasses`).
`DominantIs` has the rest.

*Counting.* Induction over data is stated with sets: a set of naturals that is not empty has a least element (`LeastOf`, from well-foundedness of `<`), so a
property of all numbers is proved by its least counterexample, which is a set and needs no operator as a parameter. `Recursion` gives recursive functions their equations, `SumTakes`, `SumAppend` and `SumTail` what
`SumFunction` of the community modules does when a set or a sequence grows or shrinks, and `ListedByKey` a finite set in the order of a key.

*Retriever.* `EntriesFollow`: entries are those of the documents, in order, up to the first one whose embedding failed. `FitsCover` is about the flag: every fit
under way, the table while the flag is clear, and the table under a search cover each document whose `add` no fit overtook, which holds because `add` sets the flag
last and a fit clears it last. `SearchesFollow` says how far each search has come and what it must have hit by then. With `Shape`, the types, they are inductive, and the
two properties follow. `Bounded` says that a search returns at most K documents of each kind, which the types need.

*Pipeline.* `StreamTyped` has the types of the first half in full, and where each lane stands. `BatchInv`: the groups of anomalies that wait are one for each job of the batch, and each fault of the batch
either waits or has an execution; a batch is only acknowledged when nothing waits. `PlaceInv`, `OrderInv` and `CountInv` relate the list of executions to
the deliveries: each execution is of a batch that is behind its lane or of a delivery of the batch at hand; those of a lane come in the order of batches and deliveries; and the executions that a record was given to, with
the one it waits for, are no more than its deliveries and the lost answers. `AlarmInv` is about windows: what a container's window holds is covered by
the errors of the reports times their deliveries, sums that grow with each delivery.

Alerts, gate and table need nothing of the first half but that an execution begins once. `RowFollowsExecution`: how far an execution has come tells what the table has of its incident,
so that `Persist`, repeated or late, never meets a resolved row, because only who was alerted resolves and an alerted execution is over. `GateFollowsAlert` is the same of
remediations, and `ResolverSettled` strengthens the property by a resolver past its gate, where its approver is settled. With
`FlowTypeOK` they are `FlowInv`, kept by each step of each machine (`ExecutionInv`, `GateInv`, `ApplyInv`) and left alone by deliveries. `TableStep` is shown with it.
`TypesHold` puts the halves together: an execution has begun exactly when it is in the list of those started (`BegunAsStarted`).

*Only model-checked*: the liveness properties, because fairness and ENABLED are out of the prover's reach; `EveryRunAudited`, which holds with one request only; and what the findings say is violated.
Every other invariant and action property of the passing runs has a theorem. No module has a RECURSIVE operator.

## 6. Not modelled, and what is left

Left for later:
the dashboard feed (`ConnectionManager.broadcast`), if it shows more than that clients may see messages in different orders.

Not modelled:

- vectors and their cosines, prompts and prose, titles and step texts: numerical or textual, with no state to relate;
- the history archive (`archive.py`), which appends rollups to a file and scans it;
- the command line (`__main__.py`), which starts the server or drives it over HTTP;
- the read endpoints, the snapshot and the WebSocket broadcast of `api.py`: their awaits are the points where the handlers are interrupted, and nothing reads what they send;
- the frontend, which renders the last messages;
- the other CDK stacks, which declare resources. The SQS queue of `streaming-stack.ts` is among them: nothing in the repository reads or writes it.
