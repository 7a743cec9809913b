------------------------------ MODULE Pipeline ------------------------------
(***************************************************************************)
(* The deployed pipeline: StreamProcessor starts the executions that       *)
(* Workflows runs.  The n-th StartExecution that takes effect begins       *)
(* execution n, whether or not its answer reaches the processor.           *)
(***************************************************************************)
EXTENDS StreamProcessor, Workflows

CONSTANT MaxFailures \* bounds the failures of both halves together

ASSUME ExecutionsAssumption == Executions = 1 .. MaxExecutions

vars == <<deliveryVars, flowVars>>

Init == DeliveryInit /\ FlowInit

Post(report) == Ingest(report) /\ UNCHANGED flowVars

Replace(c) == Recycle(c) /\ UNCHANGED flowVars

LaneStep(l) ==
  \/ Deliver(l) /\ UNCHANGED flowVars
  \/ Start(l) /\ Begin(Len(started) + 1)

WorkflowStep == FlowNext /\ UNCHANGED deliveryVars

Next ==
  /\ \/ \E report \in Reports : Post(report)
     \/ \E c \in Containers : Replace(c)
     \/ \E l \in Lanes : LaneStep(l)
     \/ WorkflowStep
  /\ faults' + errors' <= MaxFailures

Spec == Init /\ [][Next]_vars

(* The event source invokes the function while its lane has records, an
   invocation ends within its time-out, and Step Functions runs an execution
   to an end or to its own time-out.  Nothing makes a report come, a container
   be replaced, or anybody start or approve a remediation. *)
Fairness ==
  /\ \A l \in Lanes : WF_vars(LaneStep(l))
  /\ \A n \in Executions : WF_vars(ExecutionStep(n) /\ UNCHANGED deliveryVars)

FairSpec == Spec /\ Fairness

-----------------------------------------------------------------------------
(* Properties *)

TypeOK ==
  /\ DeliveryTypeOK
  /\ FlowTypeOK
  /\ \A n \in Executions : exec[n].pc # "none" <=> n \in DOMAIN started

(* Executions given the XID report at position n of a lane. *)
Answers(l, n) == Handed(l, n, "xid")

(* An XID report that reaches the stream ends in an alert, in an execution that
   Step Functions shows as failed, or in a batch that the event source counts
   as dropped: no record that cannot be parsed blocks its lane for good, and
   no failed invocation loses what the next delivery would find. *)
FaultReachesOperator ==
  \A l \in Lanes, n \in 1 .. MaxRecords :
    (n \in DOMAIN log[l] /\ log[l][n].valid /\ log[l][n].xid)
      ~> \/ n \in dropped[l]
         \/ \E x \in Answers(l, n) : exec[x].pc \in Finished
=============================================================================
