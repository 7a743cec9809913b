----------------------------- MODULE Workflows -----------------------------
(***************************************************************************)
(* The second half of the deployed pipeline: the two Step Functions state  *)
(* machines of ai-stack.ts and the Lambda handlers they call, over the     *)
(* DynamoDB table.                                                         *)
(*                                                                         *)
(* One machine takes the anomalies of one job to an alert: it gathers      *)
(* context, diagnoses, persists and notifies.  Its n-th execution makes    *)
(* one incident, known here as incident n.  The other machine runs a       *)
(* remediation, behind an approval when the plan requires one; what starts *)
(* it is not in the repository, and is taken to have seen the alert.       *)
(*                                                                         *)
(* Step Functions repeats a task whose call to Lambda failed without an    *)
(* answer; that call is taken to have ended by then.  A handler that       *)
(* raises fails its execution, except that DiagnoseTask is tried again.    *)
(*                                                                         *)
(* A definition named X_Y, before X, is X with the mistake Y, and is used  *)
(* by no action.                                                           *)
(***************************************************************************)
EXTENDS Diagnosis

CONSTANTS
  Executions,       \* of the diagnosis machine: 1 .. a bound
  Remediations,     \* executions of the remediation machine: bounds them
  DiagnoseRetries,  \* maxAttempts of DiagnoseTask (2)
  MaxErrors         \* bounds the failures of a behaviour

ASSUME WorkflowAssumption == DiagnoseRetries \in Nat /\ MaxErrors \in Nat

VARIABLES
  exec,     \* where each execution stands
  row,      \* the table: status and approver on record of each incident
  alerted,  \* incidents published to the alert topic
  rem,      \* where each remediation stands
  errors

flowVars == <<exec, row, alerted, rem, errors>>

Running  == {"gather", "diagnose", "persist", "notify"}
Finished == {"succeeded", "failed", "timed_out"}
Absent   == [status |-> "ABSENT", by |-> "nobody"]
Approvers == {"operator", "auto-policy"}

FlowInit ==
  /\ exec = [n \in Executions |-> [pc |-> "none", tries |-> 0]]
  /\ row = [n \in Executions |-> Absent]
  /\ alerted = {}
  /\ rem = [r \in Remediations |-> [pc |-> "new", of |-> 0, gated |-> FALSE,
                                    approved |-> FALSE, proposal |-> TRUE, by |-> "nobody"]]
  /\ errors = 0

Fault == errors < MaxErrors /\ errors' = errors + 1

-----------------------------------------------------------------------------
(* The diagnosis machine *)

(* GatherContext -> DiagnoseWithBedrock -> PersistIncident -> Notify *)
After_NotifyFirst(pc) ==
  CASE pc = "gather" -> "diagnose" [] pc = "diagnose" -> "notify"
    [] pc = "notify" -> "persist" [] pc = "persist" -> "succeeded"

After(pc) ==
  CASE pc = "gather" -> "diagnose" [] pc = "diagnose" -> "persist"
    [] pc = "persist" -> "notify" [] pc = "notify" -> "succeeded"

Begin(n) ==
  /\ exec[n].pc = "none"
  /\ exec' = [exec EXCEPT ![n].pc = "gather"]
  /\ UNCHANGED <<row, alerted, rem, errors>>

(* A task of the execution succeeds. *)
Done(n, pc) ==
  /\ exec[n].pc = pc
  /\ exec' = [exec EXCEPT ![n].pc = After(pc)]
  /\ UNCHANGED <<rem, errors>>

(* gather_context makes the incident, and retrieves; it writes nothing. *)
GatherContext(n) == Done(n, "gather") /\ UNCHANGED <<row, alerted>>

Diagnose(n, reply) ==
  /\ Outcome(reply) = "diagnosed"
  /\ Done(n, "diagnose")
  /\ UNCHANGED <<row, alerted>>

DiagnoseRaises_Dropped(n, reply) ==
  /\ Outcome(reply) = "raised"
  /\ exec[n].pc = "diagnose"
  /\ Fault
  /\ exec' = [exec EXCEPT ![n] = [pc |-> "none", tries |-> @.tries + 1]]
  /\ UNCHANGED <<row, alerted, rem>>

(* The handler raises: tried again, then failed. *)
DiagnoseRaises(n, reply) ==
  /\ Outcome(reply) = "raised"
  /\ exec[n].pc = "diagnose"
  /\ Fault
  /\ exec' = IF exec[n].tries < DiagnoseRetries
             THEN [exec EXCEPT ![n].tries = @ + 1] ELSE [exec EXCEPT ![n].pc = "failed"]
  /\ UNCHANGED <<row, alerted, rem>>

(* put_item replaces whatever the table has under the incident's key. *)
Write(n) == row' = [row EXCEPT ![n] = [status |-> "DIAGNOSED", by |-> "nobody"]]

Persist(n) == Done(n, "persist") /\ Write(n) /\ UNCHANGED alerted

(* It is written, but the answer is lost, and the task repeated. *)
PersistUnanswered(n) ==
  /\ exec[n].pc = "persist"
  /\ Fault
  /\ Write(n)
  /\ UNCHANGED <<exec, alerted, rem>>

Notify(n) == Done(n, "notify") /\ alerted' = alerted \cup {n} /\ UNCHANGED row

(* Another task fails, or the execution's five minutes are over, with or
   without the write of a PersistTask under way. *)
GiveUp(n) ==
  /\ exec[n].pc \in Running
  /\ Fault
  /\ \/ exec[n].pc # "diagnose" /\ exec' = [exec EXCEPT ![n].pc = "failed"]
     \/ exec' = [exec EXCEPT ![n].pc = "timed_out"]
  /\ \/ exec[n].pc = "persist" /\ Write(n)
     \/ UNCHANGED row
  /\ UNCHANGED <<alerted, rem>>

Task(n) == GatherContext(n) \/ Persist(n) \/ Notify(n) \/ \E reply \in Replies : Diagnose(n, reply)

-----------------------------------------------------------------------------
(* The remediation machine *)

Move(r, from, next) ==
  /\ rem[r].pc = from
  /\ rem' = [rem EXCEPT ![r] = next]
  /\ UNCHANGED <<exec, alerted>>

(* NeedsApproval: the choice on proposal.requires_approval. *)
StartRemediation(r, n, gated) ==
  /\ n \in alerted
  /\ Move(r, "new", [rem[r] EXCEPT !.pc = IF gated THEN "waiting" ELSE "apply",
                                   !.of = n, !.gated = gated,
                                   !.by = IF gated THEN "nobody" ELSE "auto-policy"])
  /\ UNCHANGED <<row, errors>>

(* SendTaskSuccess: what the callback sends replaces the execution's input.  It
   names an approver, or leaves that to the default, and has the proposal and
   the incident, or not. *)
Approve(r, by, proposal) ==
  /\ Move(r, "waiting", [rem[r] EXCEPT !.pc = "apply", !.approved = TRUE,
                                       !.by = by, !.proposal = proposal])
  /\ UNCHANGED <<row, errors>>

ApprovalTimesOut_Applies(r) ==
  /\ Move(r, "waiting", [rem[r] EXCEPT !.pc = "apply", !.by = "auto-policy"])
  /\ UNCHANGED <<row, errors>>

(* An hour, and nobody answered; an answer that comes now is refused. *)
ApprovalTimesOut(r) ==
  /\ Move(r, "waiting", [rem[r] EXCEPT !.pc = "timed_out"])
  /\ UNCHANGED <<row, errors>>

Resolve(r) == row' = [row EXCEPT ![rem[r].of] = [status |-> "RESOLVED", by |-> rem[r].by]]

(* apply_remediation: a fresh record of this run alone. *)
ApplyRemediation(r) ==
  /\ rem[r].proposal
  /\ Move(r, "apply", [rem[r] EXCEPT !.pc = "done"])
  /\ Resolve(r)
  /\ UNCHANGED errors

ApplyUnanswered(r) ==
  /\ rem[r].pc = "apply"
  /\ rem[r].proposal
  /\ Fault
  /\ Resolve(r)
  /\ UNCHANGED <<exec, alerted, rem>>

(* The handler finds no proposal in the callback's answer. *)
ApplyRaises(r) ==
  /\ ~rem[r].proposal
  /\ Move(r, "apply", [rem[r] EXCEPT !.pc = "failed"])
  /\ UNCHANGED <<row, errors>>

(* The handler's write raises, or the execution's two hours are over. *)
ApplyGivesUp(r) ==
  /\ Fault
  /\ \E pc \in {"failed", "timed_out"} : Move(r, "apply", [rem[r] EXCEPT !.pc = pc])
  /\ UNCHANGED row

RemediationStep(r) ==
  \/ \E n \in Executions, gated \in BOOLEAN : StartRemediation(r, n, gated)
  \/ \E by \in Approvers, proposal \in BOOLEAN : Approve(r, by, proposal)
  \/ ApprovalTimesOut(r)
  \/ ApplyRemediation(r) \/ ApplyUnanswered(r) \/ ApplyRaises(r) \/ ApplyGivesUp(r)

(* Every step of an execution that runs. *)
ExecutionStep(n) ==
  \/ Task(n)
  \/ PersistUnanswered(n) \/ GiveUp(n)
  \/ \E reply \in Replies : DiagnoseRaises(n, reply)

FlowNext ==
  \/ \E n \in Executions : ExecutionStep(n)
  \/ \E r \in Remediations : RemediationStep(r)

-----------------------------------------------------------------------------
(* Properties *)

FlowTypeOK ==
  /\ exec \in [Executions -> [pc : {"none"} \cup Running \cup Finished, tries : 0 .. DiagnoseRetries]]
  /\ row \in [Executions -> [status : {"ABSENT", "DIAGNOSED", "RESOLVED"},
                             by : Approvers \cup {"nobody"}]]
  /\ alerted \in SUBSET Executions
  /\ rem \in [Remediations ->
       [pc : {"new", "waiting", "apply", "done", "failed", "timed_out"},
        of : Executions \cup {0}, gated : BOOLEAN, approved : BOOLEAN, proposal : BOOLEAN,
        by : Approvers \cup {"nobody"}]]
  /\ errors \in 0 .. MaxErrors

(* Nobody is alerted to an incident that is not in the table, whatever was
   repeated, failed or timed out on the way (ai-stack.ts:73-85). *)
AlertedIsOnRecord == \A n \in alerted : row[n].status # "ABSENT"

(* The gate holds: an incident is resolved by a remediation of its own, with
   the approver on record that this one had, and behind a gate only after an
   answer that came in time (ai-stack.ts:110-124, handlers.py:132-139). *)
ResolvedThroughGate ==
  \A n \in Executions : row[n].status = "RESOLVED" =>
    \E r \in Remediations :
      /\ rem[r].of = n
      /\ rem[r].by = row[n].by
      /\ rem[r].gated => rem[r].approved

(* The table keeps the promise the local database makes, without the stages
   before the diagnosis: a repeated or late write takes no row back. *)
Stage(status) ==
  CASE status = "ABSENT" -> "absent" [] status = "DIAGNOSED" -> "diagnosed"
    [] status = "RESOLVED" -> "resolved"

Record == INSTANCE IncidentRecord WITH
  Incidents <- Executions, FirstStage <- "diagnosed",
  stage <- [n \in Executions |-> Stage(row[n].status)]

TableForward == Record!Spec

-----------------------------------------------------------------------------
(* Inductive invariants *)

(* How far an execution has come tells what the table has of its incident:
   only who has been alerted can resolve. *)
RowFollowsExecution ==
  \A n \in Executions :
    /\ exec[n].pc \in {"none", "gather", "diagnose"} => row[n].status = "ABSENT"
    /\ exec[n].pc \in {"notify", "succeeded"} => row[n].status # "ABSENT"
    /\ n \in alerted => exec[n].pc = "succeeded"
    /\ row[n].status = "RESOLVED" => n \in alerted

(* A remediation is of an alerted incident, and past its gate with an answer. *)
GateFollowsAlert ==
  \A r \in Remediations :
    /\ rem[r].pc # "new" => rem[r].of \in alerted
    /\ rem[r].pc = "apply" => (rem[r].gated => rem[r].approved)

(* The remediation that answers for a resolved row is one that has left the
   gate, where its approver is settled. *)
ResolverSettled ==
  \A n \in Executions : row[n].status = "RESOLVED" =>
    \E r \in Remediations :
      /\ rem[r].pc \notin {"new", "waiting"}
      /\ rem[r].of = n
      /\ rem[r].by = row[n].by
      /\ rem[r].gated => rem[r].approved
=============================================================================
