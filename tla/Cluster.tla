------------------------------ MODULE Cluster ------------------------------
(***************************************************************************)
(* A training job as the demo driver runs it: the simulator                *)
(* (gpumon/simulator.py) with its faults, the detectors, and the part of   *)
(* the incident's life that leads back to the cluster, from its signals to *)
(* a plan and from the plan to the actuator of gpumon/api.py.              *)
(*                                                                         *)
(* The driver publishes the events of a tick at once; the consumer takes   *)
(* them one by one and may lag behind.  What the simulator draws at random *)
(* in an event is chosen when the event is processed, since nobody looks   *)
(* at it before.                                                           *)
(*                                                                         *)
(* A definition named X_Y, before X, is X with the mistake Y, and is used  *)
(* by no action.                                                           *)
(***************************************************************************)
EXTENDS Detectors, Remediation, Grouping

CONSTANTS
  Fleet,          \* the job's GPUs, in the order they report
  NodeOf,         \* the node of each GPU
  Scenarios,      \* faults that may be injected
  Targets,        \* GPUs they may be injected at
  BaselineAlarms, \* what the statistical layer may find, and where
  Noise,          \* step times of each GPU, in percent: within 96 .. 104
  StragglerPaces, \* step times of a straggler, in percent: within 210 .. 260
  EccErrors,      \* errors in a report of an ECC fault: within 1 .. 3
  MaxFaults,      \* bounds the faults of a behaviour
  Durations,      \* how many ticks a fault may last
  MaxBacklog,     \* bounds how far the consumer lags behind
  None

Gpus == Range(Fleet)

ASSUME FleetAssumption ==
  /\ Fleet \in Seq(Gpus) /\ Fleet # <<>>
  /\ \A j, k \in DOMAIN Fleet : Fleet[j] = Fleet[k] => j = k
  /\ Targets \subseteq Gpus
ASSUME RatesAssumption ==
  /\ Noise \in [Gpus -> SUBSET (96 .. 104)]
  /\ StragglerPaces \subseteq 210 .. 260
  /\ EccErrors \subseteq 1 .. 3
  /\ Durations \subseteq Nat \ {0}
ASSUME NoneAssumption == None \notin [Gpus -> Scenarios \cup {"none"}]

VARIABLES
  fault,     \* _fault: what is wrong, where, for how many ticks
  injected,  \* the faults so far, oldest first
  cordoned,  \* _cordoned
  regime,    \* what the previous tick was generated under
  todo,      \* events published and not processed
  paces,     \* _rank_step: the last pace of each GPU
  windows,   \* _ecc_window of each GPU
  samples,   \* samples in the baselines of each GPU, up to MinSamples
  last,      \* the event processed last, and the kinds it had
  incident,  \* the signals of the job's open incident, <<>> for none
  plan       \* its proposed remediation

vars == <<fault, injected, cordoned, regime, todo, paces, windows, samples, last,
          incident, plan>>

Init ==
  /\ fault = None
  /\ injected = <<>>
  /\ cordoned = {}
  /\ regime = None
  /\ todo = <<>>
  /\ paces = [g \in Gpus |-> 0]
  /\ windows = [g \in Gpus |-> <<>>]
  /\ samples = [g \in Gpus |-> 0]
  /\ last = [event |-> None, found |-> <<>>]
  /\ incident = <<>>
  /\ plan = None

-----------------------------------------------------------------------------
(* The simulator *)

(* The timeline starts a fault when none is active. *)
Inject(kind, g, steps) ==
  /\ fault = None
  /\ Len(injected) < MaxFaults
  /\ fault' = [kind |-> kind, at |-> g, left |-> steps]
  /\ injected' = Append(injected, [kind |-> kind, at |-> g])
  /\ UNCHANGED <<cordoned, regime, todo, paces, windows, samples, last, incident, plan>>

(* The fault as GPU g feels it. *)
Felt(g) ==
  IF /\ fault # None
     /\ g \notin cordoned
     /\ \/ fault.kind \in {"nccl", "throughput"}
        \/ fault.kind = "thermal" /\ NodeOf[g] = NodeOf[fault.at]
        \/ fault.at = g
  THEN fault.kind ELSE "none"

(* Every GPU reports once.  A tick is steady when each GPU felt the same in
   the tick before. *)
Tick ==
  LET feels == [g \in Gpus |-> Felt(g)]
  IN  /\ Len(todo) <= MaxBacklog
      /\ todo' = todo \o [r \in DOMAIN Fleet |->
                            [at |-> Fleet[r], felt |-> feels[Fleet[r]],
                             steady |-> regime = feels]]
      /\ regime' = feels
      /\ fault' = IF fault # None /\ fault.left > 1 THEN [fault EXCEPT !.left = @ - 1] ELSE None
      /\ UNCHANGED <<injected, cordoned, paces, windows, samples, last, incident, plan>>

(* By how much a fault stretches the step time, in percent. *)
Slowdown(felt) ==
  CASE felt = "straggler"  -> StragglerPaces
    [] felt = "thermal"    -> {115}
    [] felt = "nccl"       -> {140}
    [] felt = "throughput" -> {180}
    [] OTHER               -> {100}

-----------------------------------------------------------------------------
(* The consumer: the detectors, and the signals of the incident *)

Process(event, noise, slowdown, errors, baseline) ==
  LET g       == event.at
      report  == [at |-> g, xid |-> event.felt = "xid", hot |-> event.felt = "thermal",
                  full |-> event.felt = "oom"]
      found   == last'.found
      signals == [k \in DOMAIN found |-> [kind |-> found[k], at |-> g]]
  IN  /\ todo' = Tail(todo)
      /\ paces' = [paces EXCEPT ![g] = noise * slowdown]
      /\ windows' = [windows EXCEPT ![g] = Slide(@, errors)]
      /\ samples' = [samples EXCEPT ![g] = IF @ < MinSamples THEN @ + 1 ELSE @]
      /\ last' = [event |-> event, found |-> Found(report, baseline, windows', paces')]
      /\ IF found = <<>> THEN UNCHANGED incident
         ELSE \E pos \in InOrder(Unseen(signals, incident)) :
                incident' = incident \o [k \in DOMAIN pos |-> signals[pos[k]]]
      /\ UNCHANGED <<fault, injected, cordoned, regime, plan>>

Consume ==
  /\ todo # <<>>
  /\ LET event   == Head(todo)
         settled == samples[event.at] >= MinSamples
     IN  \E noise \in Noise[event.at], slowdown \in Slowdown(event.felt),
            errors \in IF event.felt = "ecc" THEN EccErrors ELSE {0},
            baseline \in SUBSET {k \in Kinds : settled /\ [kind |-> k, at |-> event.at] \in BaselineAlarms} :
           Process(event, noise, slowdown, errors, baseline)

-----------------------------------------------------------------------------
(* From the signals to the cluster *)

(* The diagnosis is done: the plan is of the signals the incident has now. *)
Diagnose ==
  /\ incident # <<>>
  /\ plan = None
  /\ plan' = Propose(incident)
  /\ UNCHANGED <<fault, injected, cordoned, regime, todo, paces, windows, samples, last, incident>>

(* The plan is approved, by a human or by policy: the actuator cordons its
   target and clears whatever fault is active. *)
Actuate ==
  /\ plan # None
  /\ cordoned' = cordoned \cup {plan.target}
  /\ fault' = None
  /\ incident' = <<>>
  /\ plan' = None
  /\ UNCHANGED <<injected, regime, todo, paces, windows, samples, last>>

(* The sweep: the job has been quiet for a while. *)
Close ==
  /\ plan # None
  /\ last.found = <<>>
  /\ incident' = <<>>
  /\ plan' = None
  /\ UNCHANGED <<fault, injected, cordoned, regime, todo, paces, windows, samples, last>>

Next ==
  \/ \E kind \in Scenarios, g \in Targets, steps \in Durations : Inject(kind, g, steps)
  \/ Tick
  \/ Consume
  \/ Diagnose
  \/ Actuate
  \/ Close

Spec == Init /\ [][Next]_vars

(* The driver ticks and the consumer runs. *)
FairSpec == Spec /\ WF_vars(Tick) /\ WF_vars(Consume)

-----------------------------------------------------------------------------
(* Properties *)

Reports == [at : Gpus, felt : Scenarios \cup {"none"}, steady : BOOLEAN]
Signals == Seq([kind : Kinds, at : Gpus])

TypeOK ==
  /\ fault \in [kind : Scenarios, at : Targets, left : Nat \ {0}] \cup {None}
  /\ injected \in Seq([kind : Scenarios, at : Targets])
  /\ cordoned \in SUBSET Gpus
  /\ regime \in [Gpus -> Scenarios \cup {"none"}] \cup {None}
  /\ todo \in Seq(Reports)
  /\ paces \in [Gpus -> Nat]
  /\ windows \in [Gpus -> Seq(1 .. 3)]
  /\ \A g \in Gpus : Len(windows[g]) <= WindowLength
  /\ samples \in [Gpus -> 0 .. MinSamples]
  /\ last \in [event : Reports \cup {None}, found : Seq(Kinds)]
  /\ incident \in Signals
  /\ plan \in Plans(Gpus) \cup {None}

(* A rank that falls behind is found (docs/architecture.md:40-42): from its
   second slow step on at the latest, although its peers' paces are of
   different steps and the job may just have recovered from another fault. *)
SlowRankFound ==
  last.event # None =>
    (last.event.steady /\ last.event.felt = "straggler" => "straggler" \in Range(last.found))

(* A rank is taken for a straggler without being one only in a step in which
   the job changes pace, when it is compared with peers that have not reported
   since; unless most of the peers are cordoned GPUs, which are spared what
   slows down the rest. *)
FalseAlarmsPass ==
  last.event # None /\ 2 * Cardinality(cordoned) <= Len(Fleet) =>
    (last.event.steady /\ "straggler" \in Range(last.found) => last.event.felt = "straggler")

(* "Hardware first" (remediation.py:95): while the first fault of the cluster
   is one of a single GPU, whatever else fires on other GPUs, a plan made once
   its signal is there is the playbook's for it, at that GPU. *)
PlanFitsFault ==
  Len(injected) = 1 /\ injected[1].kind \in {"straggler", "ecc", "xid", "oom"} =>
    (injected[1] \in Range(incident) =>
       /\ Propose(incident).target = injected[1].at
       /\ Propose(incident).action = Playbook[injected[1].kind].action)

(* When no fault comes any more, the alarms stop: ECC totals are "recent"
   (detectors.py:78). *)
AlarmsStop == <>[](fault = None) => <>[](last.found = <<>>)
=============================================================================
