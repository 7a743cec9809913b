----------------------------- MODULE Diagnosis -----------------------------
(***************************************************************************)
(* The verdicts of gpumon/rca/bedrock.py: what diagnose makes of the       *)
(* model's reply, and what the offline table recommends for a list of      *)
(* signals.  Pure operators.  Prompts and prose are left out: a verdict    *)
(* is the action its text recommends, named as the remediation planner     *)
(* names it.                                                               *)
(***************************************************************************)
EXTENDS Integers, Sequences

(* What invoke_model may come back with. *)
Replies == {"verdict", "prose", "unfit json", "error"}

(* _parse turns prose into a verdict to review by hand; JSON
   without a key, or with a confidence of 90, is only refused after it, when the
   Diagnosis is built. *)
Outcome(reply) ==
  CASE reply = "verdict" -> "diagnosed"
    [] reply = "prose"   -> "diagnosed"
    [] OTHER             -> "raised"

(* Hardware faults win over derived signals. *)
Urgency == <<"xid", "ecc", "oom", "straggler", "thermal", "collective_stall", "throughput_drop">>

Advice ==
  [straggler        |-> "cordon_gpu_and_restart",
   ecc              |-> "drain_node",
   xid              |-> "reset_gpu",
   oom              |-> "reduce_memory_pressure",
   thermal          |-> "power_cap_node",
   collective_stall |-> "reroute_fabric",
   throughput_drop  |-> "rollback_deploy"]

(* _dominant: the most urgent kind present, or the first one. *)
LeadingKind(anomalies) ==
  LET present == {p \in DOMAIN Urgency : \E k \in DOMAIN anomalies : anomalies[k].kind = Urgency[p]}
  IN  IF present = {} THEN anomalies[1].kind
      ELSE Urgency[CHOOSE p \in present : \A q \in present : p <= q]

(* The offline verdict on some signals. *)
Recommended(anomalies) ==
  LET kind == LeadingKind(anomalies)
  IN  IF kind \in DOMAIN Advice THEN Advice[kind] ELSE "inspect_node"
=============================================================================
