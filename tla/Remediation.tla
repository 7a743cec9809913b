---------------------------- MODULE Remediation ----------------------------
(***************************************************************************)
(* The approval-gated remediation planner of gpumon/remediation.py: which  *)
(* playbook answers a list of signals, on which hardware, and whether a    *)
(* human has to approve it.  Pure operators; the incident lifecycle that   *)
(* calls them is IncidentManager.                                          *)
(*                                                                         *)
(* A signal (models.Anomaly) is its kind and the hardware it names: the    *)
(* (node, gpu) pair is one location, a member of the caller's set.         *)
(* Wording, step texts and the rationale are left out.  A plan keeps how   *)
(* many steps it runs, because the audit trail has one entry per step.     *)
(***************************************************************************)
EXTENDS Integers, Sequences

(* Every kind a detector puts in an Anomaly (detectors.py). *)
Kinds == {"straggler", "ecc", "xid", "oom", "thermal", "collective_stall",
          "throughput_drop", "slowdown", "fabric"}

Playbook ==
  [straggler        |-> [action |-> "cordon_gpu_and_restart", risk |-> "medium", steps |-> 4],
   ecc              |-> [action |-> "drain_node",             risk |-> "high",   steps |-> 3],
   xid              |-> [action |-> "reset_gpu",              risk |-> "high",   steps |-> 3],
   oom              |-> [action |-> "reduce_memory_pressure", risk |-> "low",    steps |-> 3],
   thermal          |-> [action |-> "power_cap_node",         risk |-> "low",    steps |-> 3],
   collective_stall |-> [action |-> "reroute_fabric",         risk |-> "medium", steps |-> 3],
   throughput       |-> [action |-> "rollback_deploy",        risk |-> "medium", steps |-> 3]]

(* The entry _PLAYBOOK.get falls back to. *)
InspectNode == [action |-> "inspect_node", risk |-> "medium", steps |-> 1]

(* Hardware first. *)
Priority == <<"xid", "ecc", "oom", "straggler", "thermal", "collective_stall", "throughput">>

(* The mistake of planning for the newest signal instead; used by nothing. *)
Dominant_Newest(anomalies) == anomalies[Len(anomalies)]

(***************************************************************************)
(* The signal a plan is built on: the best ranked kind present, and of its *)
(* signals the last one, because the dict comprehension that collects the  *)
(* kinds keeps the last value of a key; the first signal when no kind is   *)
(* ranked.                                                                 *)
(***************************************************************************)
Dominant(anomalies) ==
  LET Of(kind) == {k \in DOMAIN anomalies : anomalies[k].kind = kind}
      ranked   == {p \in DOMAIN Priority : Of(Priority[p]) # {}}
      best     == Priority[CHOOSE p \in ranked : \A q \in ranked : p <= q]
  IN  IF ranked = {} THEN anomalies[1]
      ELSE anomalies[CHOOSE k \in Of(best) : \A m \in Of(best) : m <= k]

(* remediation.propose: only low-risk plans may run without a human. *)
Propose(anomalies) ==
  LET lead == Dominant(anomalies)
      play == IF lead.kind \in DOMAIN Playbook THEN Playbook[lead.kind] ELSE InspectNode
  IN  [action           |-> play.action,
       requiresApproval |-> play.risk # "low",
       target           |-> lead.at,
       steps            |-> play.steps]

(* Every plan propose can return for hardware in the given set. *)
Plans(locations) ==
  LET plays == {Playbook[k] : k \in DOMAIN Playbook} \cup {InspectNode}
  IN  [action : {p.action : p \in plays}, requiresApproval : BOOLEAN,
       target : locations, steps : {p.steps : p \in plays}]
=============================================================================
