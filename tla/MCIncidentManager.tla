------------------------- MODULE MCIncidentManager -------------------------
(* Instances of IncidentManager for TLC. *)
EXTENDS IncidentManager

CONSTANTS g1, g2

Thermal == [kind |-> "thermal", at |-> g1]
Ecc     == [kind |-> "ecc",     at |-> g2]

(* A low-risk signal alone; and one that turns the plan into a high-risk one. *)
LowThenHigh == {<<Thermal>>, <<Ecc>>}
ThreeSignals == LowThenHigh \cup {<<[kind |-> "oom", at |-> g1]>>}
OneSignal   == {<<Thermal>>}
(* One event that fires two detectors for the same signal. *)
TwiceInOne  == {<<Thermal, Thermal>>, <<Ecc>>}

(* uuid4 hands out an id that is new, no matter which.  A symmetry set says so
   where no liveness is checked.  Where it is, an id says whose incident it is
   to be and the ids of a job are handed out in order, which bounds the incidents
   of each job by itself and takes nothing else away but names. *)
ThreeAndOne == {11, 12, 13, 21}
Owner(i) == i \div 10

OldestFirst ==
  /\ \A i \in Incidents : heap[i] # None => heap[i].job = Owner(i)
  /\ \A i, k \in Incidents :
       Owner(i) = Owner(k) /\ i < k /\ diag[k] # "none" => diag[i] # "none"

OrderedSpec == Init /\ [][Next /\ OldestFirst']_vars /\ Fairness

Interchangeable == Permutations(Incidents) \cup Permutations(Requests)
=============================================================================
