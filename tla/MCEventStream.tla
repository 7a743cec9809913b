--------------------------- MODULE MCEventStream ---------------------------
(* Instances of EventStream for TLC. *)
EXTENDS EventStream, TLC

Interchangeable == Permutations(Subscribers) \cup Permutations(Gpus)
=============================================================================
