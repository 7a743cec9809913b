----------------------------- MODULE Detectors -----------------------------
(***************************************************************************)
(* The rules of gpumon/detectors.py: what DetectorEngine.process finds in  *)
(* one telemetry event, given what it remembers of the job's GPUs.  Pure   *)
(* operators; Cluster feeds them the events of a training job.             *)
(*                                                                         *)
(* A pace is a step time in hundredths of a percent of the job's normal    *)
(* one; 0 stands for a GPU that has not reported.  Metrics that only reach *)
(* the statistical layer are left out: what that layer finds is a          *)
(* parameter, any choice of its kinds once a series has MinSamples         *)
(* samples.  Baseline is about how it chooses.                             *)
(*                                                                         *)
(* A definition named X_Y, before X, is X with the mistake Y, and is used  *)
(* by nothing.                                                             *)
(***************************************************************************)
EXTENDS Integers, FiniteSets, SequencesExt

CONSTANTS
  WindowLength, \* maxlen of an ECC window (10)
  MinSamples    \* ARGUS_MIN_SAMPLES

ASSUME WindowAssumption == WindowLength \in Nat \ {0}
ASSUME SamplesAssumption == MinSamples \in Nat

(* A deque that loses its oldest element when it is full; only reports of
   errors go in. *)
Slide_Unbounded(window, errors) ==
  IF errors = 0 THEN window ELSE Append(window, errors)

Slide(window, errors) ==
  IF errors = 0 THEN window
  ELSE Append(IF Len(window) = WindowLength THEN Tail(window) ELSE window, errors)

EccAlarm(window) == SumFunction(window) >= 5

(* The k-th smallest pace of the given GPUs. *)
Smallest(k, paces, gpus) ==
  CHOOSE p \in {paces[g] : g \in gpus} :
    /\ Cardinality({g \in gpus : paces[g] < p}) < k
    /\ Cardinality({g \in gpus : paces[g] <= p}) >= k

(* statistics.median, twice: the mean of the two middle ones. *)
TwiceMedian(paces, gpus) ==
  LET n == Cardinality(gpus)
  IN  Smallest((n + 1) \div 2, paces, gpus) + Smallest(n \div 2 + 1, paces, gpus)

(* The last pace of every GPU that has reported is a peer's, its own
   included. *)
Peers(paces) == {g \in DOMAIN paces : paces[g] > 0}

IsStraggler_OfSlowest(g, paces) ==
  LET peers == Peers(paces)
  IN  /\ Cardinality(peers) >= 4
      /\ 2 * paces[g] >= 3 * Smallest(Cardinality(peers), paces, peers)

IsStraggler_OfFastest(g, paces) ==
  LET peers == Peers(paces)
  IN  /\ Cardinality(peers) >= 4
      /\ 2 * paces[g] >= 3 * Smallest(1, paces, peers)

IsStraggler(g, paces) ==
  LET peers == Peers(paces)
  IN  /\ Cardinality(peers) >= 4
      /\ 4 * paces[g] >= 3 * TwiceMedian(paces, peers)

(* The kinds process finds in an event, in order: those of the statistical
   layer as its metrics are tried, then the rules'.  A hot GPU may be found by
   both. *)
Found(report, baseline, windows, paces) ==
  LET rule(kind, fires) == IF fires THEN <<kind>> ELSE <<>>
      metric(kind)      == rule(kind, kind \in baseline)
  IN  metric("slowdown") \o metric("collective_stall") \o metric("thermal")
      \o metric("throughput_drop") \o metric("fabric")
      \o rule("ecc", EccAlarm(windows[report.at]))
      \o rule("xid", report.xid)
      \o rule("thermal", report.hot)
      \o rule("oom", report.full)
      \o rule("straggler", IsStraggler(report.at, paces))
=============================================================================
