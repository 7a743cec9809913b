--------------------------- MODULE IncidentRecord ---------------------------
(***************************************************************************)
(* What the database promises a reader of one incident (GET /incidents,    *)
(* the dashboard, the archive): its row only moves forward,                *)
(*                                                                         *)
(*          absent -> open -> diagnosed -> resolved                        *)
(*                                                                         *)
(* whatever coroutine, stale copy or process the write came from.  Rows    *)
(* are refreshed in place by stuttering steps.  This is the life the       *)
(* module docstring of gpumon/workflow.py draws (lines 3-6).               *)
(***************************************************************************)
CONSTANTS
  Incidents,
  FirstStage  \* what a new row may be: "open" locally, "diagnosed" in the cloud

VARIABLE stage

Stages == {"absent", "open", "diagnosed", "resolved"}

Init == stage = [i \in Incidents |-> "absent"]

Move(i, from, to) ==
  /\ stage[i] = from
  /\ stage' = [stage EXCEPT ![i] = to]

Open(i)     == Move(i, "absent", FirstStage)
Diagnose(i) == Move(i, "open", "diagnosed")
Resolve(i)  == Move(i, "diagnosed", "resolved")

Next == \E i \in Incidents : Open(i) \/ Diagnose(i) \/ Resolve(i)

Spec == Init /\ [][Next]_stage
=============================================================================
