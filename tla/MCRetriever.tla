---------------------------- MODULE MCRetriever ----------------------------
(* Instances of Retriever for TLC. *)
EXTENDS Retriever, TLC

CONSTANTS book, past, x, y

Words  == [d \in {book, past} |-> IF d = book THEN {x} ELSE {y}]
Kind   == [d \in {book, past} |-> IF d = book THEN "runbook" ELSE "incident"]
(* Nothing on disk, or a runbook and a seed incident. *)
OnDisk == {<<>>, <<book, past>>}
(* A term of the runbook, and one that only incidents have. *)
Asked  == {{x, y}}

Interchangeable == Permutations(Threads)
=============================================================================
