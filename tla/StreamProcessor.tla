-------------------------- MODULE StreamProcessor --------------------------
(***************************************************************************)
(* The first half of the deployed pipeline: telemetry goes into Kinesis    *)
(* (handlers.ingest), and a Lambda function runs the detectors over each   *)
(* batch and starts one workflow execution per job with anomalies          *)
(* (handlers.process_batch), under the event source of api-stack.ts.       *)
(*                                                                         *)
(* A lane is a shard's slot of the event source: Kinesis keeps its records *)
(* in order and delivers them at least once.  A batch is delivered until   *)
(* an invocation returns or RetryAttempts retries have failed; then it is  *)
(* dropped.  Any warm container may serve any lane, and the detector's     *)
(* memory is the container's.  Of the detectors the XID rule, which needs  *)
(* no memory, and the ECC rule, which does, stand for the others.          *)
(*                                                                         *)
(* A definition named X_Y, before X, is X with the mistake Y, and is used  *)
(* by no action.                                                           *)
(***************************************************************************)
EXTENDS Detectors

CONSTANTS
  Lanes,
  Containers,
  Gpus,
  JobOf,          \* the job of each GPU
  LaneOf,         \* the lane its node's partition key hashes to
  Reports,        \* what may be posted to /events
  BatchSize,      \* batchSize (500)
  RetryAttempts,  \* retryAttempts (3)
  MaxRecords,     \* bounds the records of a behaviour
  MaxExecutions,  \* StartExecution is throttled beyond so many
  MaxFaults,      \* bounds the failures of a behaviour
  None

(* A record that TelemetryEvent refuses, or one of a GPU. *)
ASSUME ReportsAssumption ==
  /\ Reports \subseteq [at : Gpus, errors : Nat, xid : BOOLEAN, valid : BOOLEAN]
  /\ DOMAIN JobOf = Gpus
  /\ LaneOf \in [Gpus -> Lanes]
ASSUME DeliveryAssumption ==
  /\ BatchSize \in Nat \ {0}
  /\ {RetryAttempts, MaxRecords, MaxExecutions, MaxFaults} \subseteq Nat
  /\ None \notin Containers

VARIABLES
  log,        \* the records of each lane
  done,       \* how many of them are acknowledged or dropped
  last,       \* the end of the batch being delivered
  tries,      \* failed deliveries of that batch
  host,       \* the container an invocation runs in
  todo,       \* the executions it has still to start
  memory,     \* _ecc_window of each container
  delivered,  \* history: how often each record went through a detector
  dropped,    \* history: records given up
  started,    \* the executions, in the order StartExecution took effect
  faults

deliveryVars == <<log, done, last, tries, host, todo, memory, delivered, dropped, started, faults>>

Cold == [g \in Gpus |-> <<>>]

DeliveryInit ==
  /\ log = [l \in Lanes |-> <<>>]
  /\ done = [l \in Lanes |-> 0]
  /\ last = [l \in Lanes |-> 0]
  /\ tries = [l \in Lanes |-> 0]
  /\ host = [l \in Lanes |-> None]
  /\ todo = [l \in Lanes |-> <<>>]
  /\ memory = [c \in Containers |-> Cold]
  /\ delivered = [l \in Lanes |-> <<>>]
  /\ dropped = [l \in Lanes |-> {}]
  /\ started = <<>>
  /\ faults = 0

-----------------------------------------------------------------------------
(* What one invocation finds *)

(* The detector's memory after the first n records that follow the first done. *)
Remembered_PerJob(windows, l, n) ==
  LET Seen[k \in 0 .. n] ==
        IF k = 0 THEN windows
        ELSE LET report == log[l][done[l] + k]
             IN  [g \in Gpus |-> IF JobOf[g] = JobOf[report.at]
                                 THEN Slide(Seen[k - 1][g], report.errors) ELSE Seen[k - 1][g]]
  IN  Seen[n]

Remembered(windows, l, n) ==
  LET Seen[k \in 0 .. n] ==
        IF k = 0 THEN windows
        ELSE LET report == log[l][done[l] + k]
             IN  [Seen[k - 1] EXCEPT ![report.at] = Slide(@, report.errors)]
  IN  Seen[n]

(* The anomalies of those records, each with the record it was found in. *)
Anomalies(windows, l, n) ==
  UNION {LET report == log[l][done[l] + k]
             fires(kind) == {[kind |-> kind, gpu |-> report.at, record |-> done[l] + k]}
         IN  (IF EccAlarm(Remembered(windows, l, k)[report.at]) THEN fires("ecc") ELSE {})
             \cup (IF report.xid THEN fires("xid") ELSE {})
         : k \in 1 .. n}

(* by_job: one execution per job, in the order of their first anomalies. *)
ByJob_PerGpu(found) == {{a \in found : a.gpu = g} : g \in {a.gpu : a \in found}}

ByJob(found) == {{a \in found : JobOf[a.gpu] = j} : j \in {JobOf[a.gpu] : a \in found}}

First(anomalies) == CHOOSE n \in {a.record : a \in anomalies} : \A a \in anomalies : n <= a.record

Listed(found) ==
  CHOOSE s \in [1 .. Cardinality(ByJob(found)) -> ByJob(found)] :
    /\ Range(s) = ByJob(found)
    /\ \A j, k \in DOMAIN s : j < k => First(s[j]) < First(s[k])

-----------------------------------------------------------------------------
(* POST /events: the records go to the lane of their node, whatever they are;
   only the processor parses them. *)
Ingest(report) ==
  LET l == LaneOf[report.at]
  IN  /\ SumFunction([k \in Lanes |-> Len(log[k])]) < MaxRecords
      /\ log' = [log EXCEPT ![l] = Append(@, report)]
      /\ delivered' = [delivered EXCEPT ![l] = Append(@, 0)]
      /\ UNCHANGED <<done, last, tries, host, todo, memory, dropped, started, faults>>

(* The delivery ends: the batch is acknowledged, or it failed and is delivered
   again, or it failed once too often. *)
Acknowledge(l, end) ==
  /\ done' = [done EXCEPT ![l] = end]
  /\ tries' = [tries EXCEPT ![l] = 0]
  /\ UNCHANGED dropped

GiveBack_Forever(l, end) == UNCHANGED <<done, tries, dropped>>

GiveBack(l, end) ==
  IF tries[l] < RetryAttempts
  THEN /\ tries' = [tries EXCEPT ![l] = @ + 1]
       /\ UNCHANGED <<done, dropped>>
  ELSE /\ tries' = [tries EXCEPT ![l] = 0]
       /\ done' = [done EXCEPT ![l] = end]
       /\ dropped' = [dropped EXCEPT ![l] = @ \cup (done[l] + 1 .. end)]

(* An invocation with the next records, or the batch that failed.  It works
   through them to the first one it cannot parse. *)
Invoke(l, c, end) ==
  LET malformed == {n \in done[l] + 1 .. end : ~log[l][n].valid}
      stop  == IF malformed = {} THEN end ELSE (CHOOSE n \in malformed : \A m \in malformed : n <= m) - 1
      found == Anomalies(memory[c], l, stop - done[l])
  IN  /\ host[l] = None
      /\ \A k \in Lanes : host[k] # c
      /\ end \in done[l] + 1 .. Len(log[l])
      /\ IF tries[l] > 0 THEN end = last[l] ELSE end <= done[l] + BatchSize
      /\ last' = [last EXCEPT ![l] = end]
      /\ memory' = [memory EXCEPT ![c] = Remembered(@, l, stop - done[l])]
      /\ delivered' = [delivered EXCEPT ![l] =
                         [n \in DOMAIN @ |-> IF n \in done[l] + 1 .. stop THEN @[n] + 1 ELSE @[n]]]
      /\ CASE malformed # {} -> GiveBack(l, end) /\ UNCHANGED <<host, todo>>
           [] malformed = {} /\ found = {} -> Acknowledge(l, end) /\ UNCHANGED <<host, todo>>
           [] OTHER -> /\ host' = [host EXCEPT ![l] = c]
                       /\ todo' = [todo EXCEPT ![l] = Listed(found)]
                       /\ UNCHANGED <<done, tries, dropped>>
      /\ UNCHANGED <<log, started, faults>>

(* The invocation ends. *)
Leave(l) ==
  /\ host' = [host EXCEPT ![l] = None]
  /\ todo' = [todo EXCEPT ![l] = <<>>]

(* An execution is identified by its position in started. *)
Started(l) ==
  Append(started, [lane |-> l, first |-> done[l] + 1, last |-> last[l], try |-> tries[l],
                   anomalies |-> Head(todo[l])])

(* The next job's execution starts; with the last one the handler returns. *)
StartExecution(l) ==
  /\ todo[l] # <<>>
  /\ Len(started) < MaxExecutions
  /\ started' = Started(l)
  /\ IF Len(todo[l]) > 1
     THEN /\ todo' = [todo EXCEPT ![l] = Tail(@)]
          /\ UNCHANGED <<done, tries, dropped, host>>
     ELSE Leave(l) /\ Acknowledge(l, last[l])
  /\ UNCHANGED <<log, last, memory, delivered, faults>>

(* The call is refused, or fails before it takes effect: the handler raises,
   whatever it started before. *)
StartFails_Swallowed(l) ==
  /\ todo[l] # <<>>
  /\ Len(started) < MaxExecutions => faults < MaxFaults
  /\ faults' = IF Len(started) < MaxExecutions THEN faults + 1 ELSE faults
  /\ Leave(l)
  /\ Acknowledge(l, last[l])
  /\ UNCHANGED <<log, last, memory, delivered, started>>

StartFails(l) ==
  /\ todo[l] # <<>>
  /\ Len(started) < MaxExecutions => faults < MaxFaults
  /\ faults' = IF Len(started) < MaxExecutions THEN faults + 1 ELSE faults
  /\ Leave(l)
  /\ GiveBack(l, last[l])
  /\ UNCHANGED <<log, last, memory, delivered, started>>

(* It takes effect, but its answer is lost: the SDK repeats the call, or gives
   up and raises. *)
StartUnanswered(l) ==
  /\ todo[l] # <<>>
  /\ Len(started) < MaxExecutions
  /\ faults < MaxFaults
  /\ faults' = faults + 1
  /\ started' = Started(l)
  /\ \/ UNCHANGED <<done, tries, dropped, host, todo>>
     \/ Leave(l) /\ GiveBack(l, last[l])
  /\ UNCHANGED <<log, last, memory, delivered>>

(* The function times out or its container dies. *)
Die(l) ==
  /\ host[l] # None
  /\ faults < MaxFaults
  /\ faults' = faults + 1
  /\ memory' = [memory EXCEPT ![host[l]] = Cold]
  /\ Leave(l)
  /\ GiveBack(l, last[l])
  /\ UNCHANGED <<log, last, delivered, started>>

(* An idle container is replaced by a new one. *)
Recycle(c) ==
  /\ \A l \in Lanes : host[l] # c
  /\ memory[c] # Cold
  /\ memory' = [memory EXCEPT ![c] = Cold]
  /\ UNCHANGED <<log, done, last, tries, host, todo, delivered, dropped, started, faults>>

(* The steps of a delivery that start no execution. *)
Deliver(l) ==
  \/ \E c \in Containers : \E end \in 1 .. Len(log[l]) : Invoke(l, c, end)
  \/ StartFails(l)
  \/ Die(l)

Start(l) == StartExecution(l) \/ StartUnanswered(l)

-----------------------------------------------------------------------------
(* Properties *)

DeliveryTypeOK ==
  /\ log \in [Lanes -> Seq(Reports)]
  /\ \A l \in Lanes :
       /\ done[l] <= last[l] /\ last[l] <= Len(log[l])
       /\ DOMAIN delivered[l] = DOMAIN log[l]
       /\ dropped[l] \subseteq 1 .. done[l]
       /\ host[l] \in Containers \cup {None}
       /\ todo[l] # <<>> <=> host[l] # None
       /\ tries[l] \in 0 .. RetryAttempts
  /\ \A c \in Containers, g \in Gpus : Len(memory[c][g]) <= WindowLength
  /\ Len(started) <= MaxExecutions
  /\ faults \in 0 .. MaxFaults

(* The anomalies given to the executions of a delivery. *)
Handed(l, n, kind) ==
  {x \in DOMAIN started : started[x].lane = l
     /\ \E a \in started[x].anomalies : a.kind = kind /\ a.record = n}

(* The event source never moves past a fault in silence: an XID report that is
   acknowledged has an execution that was given it, although an invocation may
   fail between two start_execution calls, or start one and not hear of it
   (handlers.py:55-64). *)
AcknowledgedIsStarted ==
  \A l \in Lanes : \A n \in 1 .. done[l] :
    log[l][n].xid /\ log[l][n].valid /\ n \notin dropped[l] => Handed(l, n, "xid") # {}

(* A batch that is delivered again opens executions again, but within bounds:
   no record's anomaly is given to more executions than the record had
   deliveries and StartExecution lost answers, a delivery groups a job's
   anomalies in one execution, and the executions of a lane come in the order
   of its records and deliveries (handlers.py:47-64, api-stack.ts:73-79). *)
StartedInOrder ==
  /\ \A l \in Lanes : \A n \in DOMAIN log[l] :
       Cardinality(Handed(l, n, "xid")) <= delivered[l][n] + faults
  /\ \A x, y \in DOMAIN started : x < y /\ started[x].lane = started[y].lane =>
       LET a == started[x]
           b == started[y]
           job(e) == {JobOf[m.gpu] : m \in e.anomalies}
       IN  \/ a.last < b.first
           \/ /\ a.first = b.first /\ a.last = b.last
              /\ \/ a.try < b.try
                 \/ a.try = b.try /\ (job(a) = job(b) => a.anomalies = b.anomalies)

(* An ECC alarm is about one GPU: the errors it delivered, each as often as
   its record was, reach the threshold, whichever containers counted them and
   however often a batch came again (detectors.py:117-121, handlers.py:27). *)
AlarmsCountDeliveries ==
  \A x \in DOMAIN started : \A a \in started[x].anomalies : a.kind = "ecc" =>
    LET l   == started[x].lane
        own == {n \in DOMAIN log[l] : log[l][n].at = a.gpu}
    IN  SumFunction([n \in own |-> log[l][n].errors * delivered[l][n]]) >= 5
=============================================================================
