------------------------------ MODULE Grouping ------------------------------
(***************************************************************************)
(* Which signals of a batch an open incident takes: the comparison of      *)
(* ingest_anomalies in gpumon/workflow.py.  IncidentManager and Cluster    *)
(* use it.                                                                 *)
(***************************************************************************)
EXTENDS Integers, SequencesExt

(* The positions of the batch whose signal the incident does not have (the
   batch is not compared with itself), and the one way to list them in order. *)
Unseen(batch, anomalies) == {k \in DOMAIN batch : batch[k] \notin Range(anomalies)}
InOrder(positions) ==
  {pos \in [1 .. Cardinality(positions) -> positions] :
     \A a, b \in DOMAIN pos : a < b => pos[a] < pos[b]}

=============================================================================
