----------------------------- MODULE MCPipeline -----------------------------
(* Instances of Pipeline for TLC. *)
EXTENDS Pipeline

CONSTANTS g1, g2, g3, j1, j2, lane

Jobs    == [g \in {g1, g2, g3} |-> IF g = g3 THEN j2 ELSE j1]
OneLane == [g \in {g1, g2, g3} |-> lane]
(* Two GPUs of one job with a fault and some ECC errors, a faulty GPU of another
   job, and a record that cannot be parsed. *)
Posted  ==
  {[at |-> g1, errors |-> 3, xid |-> TRUE,  valid |-> TRUE],
   [at |-> g2, errors |-> 3, xid |-> TRUE,  valid |-> TRUE],
   [at |-> g3, errors |-> 0, xid |-> TRUE,  valid |-> TRUE],
   [at |-> g3, errors |-> 0, xid |-> FALSE, valid |-> FALSE]}
Few     == 1 .. 3
=============================================================================
