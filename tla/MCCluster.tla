----------------------------- MODULE MCCluster -----------------------------
(* Instances of Cluster for TLC. *)
EXTENDS Cluster

CONSTANTS g1, g2, g3, g4

TwoNodes  == <<g1, g2, g3, g4>>
HalfEach  == [g \in {g1, g2, g3, g4} |-> IF g \in {g1, g2} THEN g1 ELSE g3]
Uneven    == [g \in {g1, g2, g3, g4} |->
                CASE g = g1 -> {96, 104} [] g = g2 -> {104} [] OTHER -> {96}]
HotBaseline   == {[kind |-> "thermal", at |-> g2]}
AllScenarios  == {"straggler", "ecc", "xid", "oom", "thermal", "nccl", "throughput"}
=============================================================================
