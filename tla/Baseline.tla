------------------------------ MODULE Baseline ------------------------------
(***************************************************************************)
(* RollingStat of gpumon/detectors.py: the mean and the variance of a      *)
(* series with exponentially fading weights, and the z-score of a sample.  *)
(*                                                                         *)
(* The weight alpha of the newest sample is Num / Den, and the arithmetic  *)
(* is exact: the statistics of n samples are integers in units of          *)
(* Den^-(n-1) for the mean and of the square of that for the variance.     *)
(* A sample may be any integer; a series that falls is one of negated      *)
(* samples that rises.                                                     *)
(*                                                                         *)
(* A definition named X_Y, before X, is X with the mistake Y.              *)
(***************************************************************************)
EXTENDS Integers, SequencesExt

CONSTANTS
  Num, Den,   \* ARGUS_EWMA_ALPHA = 0.3
  Threshold,  \* ARGUS_ZSCORE = 3
  MinSamples, \* ARGUS_MIN_SAMPLES = 20
  Values,     \* values a sample may have
  MaxSamples  \* bounds the samples of a behaviour

ASSUME AlphaAssumption == Num \in Nat /\ Den \in Nat /\ 0 < Num /\ Num < Den
ASSUME ThresholdAssumption == Threshold \in Nat
ASSUME SeriesAssumption == Values \subseteq Int /\ MinSamples \in Nat /\ MaxSamples \in Nat

VARIABLES
  samples,  \* the series so far
  stat,     \* its statistics
  fired     \* whether its last sample went off

vars == <<samples, stat, fired>>

(* The mean is mean / unit, the variance var / unit^2. *)
Stats == [mean : Int, var : Nat, unit : Nat \ {0}]

First(x) == [mean |-> x, var |-> 0, unit |-> 1]

(* How far a sample is from the mean. *)
Delta(s, x) == x * s.unit - s.mean

(* zscore >= zscore_threshold.  A series that never varied has no z-score. *)
Fires(s, x) ==
  /\ s.var > 0
  /\ Delta(s, x) >= 0
  /\ Delta(s, x) * Delta(s, x) >= Threshold * Threshold * s.var

Update_Undamped(s, x) ==
  [mean |-> Den * s.mean + Num * Delta(s, x),
   var  |-> Den * (Den * s.var + Num * (Delta(s, x) * Delta(s, x))),
   unit |-> Den * s.unit]

Update_SwappedDifference(s, x) ==
  LET mean == Den * s.mean + Num * Delta(s, x)
      moved == mean - x * Den * s.unit  \* taken from the sample, not to it
  IN [mean |-> mean,
      var  |-> Den * ((Den - Num) * s.var) + Num * (Delta(s, x) * moved),
      unit |-> Den * s.unit]

Update_SkipsOutliers(s, x) ==
  IF Fires(s, x)
  THEN [mean |-> Den * s.mean, var |-> Den * Den * s.var, unit |-> Den * s.unit]
  ELSE [mean |-> Den * s.mean + Num * Delta(s, x),
        var  |-> (Den - Num) * (Den * s.var + Num * (Delta(s, x) * Delta(s, x))),
        unit |-> Den * s.unit]

Update(s, x) ==
  [mean |-> Den * s.mean + Num * Delta(s, x),
   var  |-> (Den - Num) * (Den * s.var + Num * (Delta(s, x) * Delta(s, x))),
   unit |-> Den * s.unit]

(* The z-score is taken before the sample enters the statistics. *)
Observe(x) ==
  /\ Len(samples) < MaxSamples
  /\ samples' = Append(samples, x)
  /\ stat' = IF samples = <<>> THEN First(x) ELSE Update(stat, x)
  /\ fired' = (Len(samples) >= MinSamples /\ Fires(stat, x))

Init == samples = <<>> /\ stat = [mean |-> 0, var |-> 0, unit |-> 1] /\ fired = FALSE

Next == \E x \in Values : Observe(x)

Spec == Init /\ [][Next]_vars

-----------------------------------------------------------------------------
(* Properties *)

TypeOK == samples \in Seq(Int) /\ stat \in Stats /\ fired \in BOOLEAN

Power(b, n) ==
  LET power[k \in Nat] == IF k = 0 THEN 1 ELSE b * power[k - 1]
  IN  power[n]

Weight(k, n) == IF k = 1 THEN Power(Den - Num, n - 1)
                ELSE Num * Power(Den - Num, n - k) * Power(Den, k - 2)

Weighted(xs) == SumFunction([k \in DOMAIN xs |-> Weight(k, Len(xs)) * xs[k]])

(* The incremental update computes the weighted mean and variance of all
   samples ("West's incremental EWMA variance", detectors.py:32-33): the mean
   square less the square of the mean. *)
StatIsWeighted ==
  samples # <<>> =>
    /\ stat.mean = Weighted(samples)
    /\ stat.var = stat.unit * Weighted([k \in DOMAIN samples |-> samples[k] * samples[k]])
                  - stat.mean * stat.mean

(* An alarm needs a rise: a sample that is not above the one before it does not
   go off, because one sample is enough for the baseline to swallow a change,
   however large.  A fault that only the statistical layer notices
   (detectors.py:101-106) is found in its first event and is silent while it
   lasts. *)
AlarmNeedsRise ==
  [][fired' => samples # <<>> /\ Last(samples') > Last(samples)]_vars

-----------------------------------------------------------------------------
(* Inductive invariant *)

(* What a series reached does not go off by staying there; nothing has gone
   into an empty one. *)
ChangeSwallowed ==
  /\ samples # <<>> => ~Fires(stat, Last(samples))
  /\ samples = <<>> => stat.var = 0
=============================================================================
