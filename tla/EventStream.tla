---------------------------- MODULE EventStream ----------------------------
(***************************************************************************)
(* The telemetry stream of gpumon/stream.py with its producers (POST       *)
(* /events and the demo driver of api.py) and its subscribers.  What a     *)
(* subscriber does with an event is to keep the newest one of each GPU,    *)
(* the part of the consumer that depends on loss and order                 *)
(* (MetricsAggregator.update, DetectorEngine._rank_step).                  *)
(*                                                                         *)
(* A producer publishes its batch without giving up the event loop: no     *)
(* subscriber runs before the batch is out.  An event that reaches the     *)
(* fan-out is identified by its position in sent.                          *)
(*                                                                         *)
(* A definition named X_Y, before X, is X with the mistake Y, and is used  *)
(* by no action.                                                           *)
(***************************************************************************)
EXTENDS Integers, Sequences, FiniteSets

CONSTANTS
  Subscribers,   \* callers of subscribe()
  Gpus,          \* (node, gpu) pairs events come from
  Capacity,      \* maxsize of a subscriber's queue (10_000)
  MaxBatch,      \* bounds the events of one request
  MaxEvents,     \* bounds the events of a behaviour
  KinesisMayFail \* AWS mode: put_record may raise

ASSUME CapacityAssumption == Capacity \in Nat \ {0}
ASSUME BatchAssumption == MaxBatch \in Nat /\ MaxEvents \in Nat /\ KinesisMayFail \in BOOLEAN

VARIABLES
  published,  \* EventStream.published, shown as events_ingested
  sent,       \* the GPU of each event that reached the fan-out
  batch,      \* events the running producer has still to publish
  state,      \* of each subscriber: "new", "subscribed" or "gone"
  since,      \* Len(sent) when it subscribed
  queue,      \* its asyncio.Queue
  got,        \* the events it took out of its queue
  latest      \* its newest event of each GPU, 0 for none

vars == <<published, sent, batch, state, since, queue, got, latest>>

NoEvents == [g \in Gpus |-> 0]

Init ==
  /\ published = 0
  /\ sent = <<>>
  /\ batch = 0
  /\ state = [s \in Subscribers |-> "new"]
  /\ since = [s \in Subscribers |-> 0]
  /\ queue = [s \in Subscribers |-> <<>>]
  /\ got = [s \in Subscribers |-> {}]
  /\ latest = [s \in Subscribers |-> NoEvents]

-----------------------------------------------------------------------------
(* POST /events, or one tick of the demo driver. *)
Ingest(size) ==
  /\ batch = 0
  /\ published + size <= MaxEvents
  /\ batch' = size
  /\ UNCHANGED <<published, sent, state, since, queue, got, latest>>

(* A full queue loses its oldest event. *)
Offer_DropsNewest(q, n) == IF Len(q) >= Capacity THEN q ELSE Append(q, n)

Offer(q, n) == Append(IF Len(q) >= Capacity THEN Tail(q) ELSE q, n)

Publish(g) ==
  /\ batch > 0
  /\ batch' = batch - 1
  /\ published' = published + 1
  /\ sent' = Append(sent, g)
  /\ queue' = [s \in Subscribers |->
                 IF state[s] = "subscribed" THEN Offer(queue[s], Len(sent) + 1) ELSE queue[s]]
  /\ UNCHANGED <<state, since, got, latest>>

PublishFail_FanOutFirst ==
  /\ KinesisMayFail
  /\ batch > 0
  /\ batch' = 0
  /\ published' = published + 1
  /\ queue' = [s \in Subscribers |->
                 IF state[s] = "subscribed" THEN Offer(queue[s], Len(sent) + 1) ELSE queue[s]]
  /\ UNCHANGED <<sent, state, since, got, latest>>

(* put_record raises: the event is counted but goes nowhere, and the rest of
   the batch is not published. *)
PublishFail ==
  /\ KinesisMayFail
  /\ batch > 0
  /\ batch' = 0
  /\ published' = published + 1
  /\ UNCHANGED <<sent, state, since, queue, got, latest>>

Subscribe(s) ==
  /\ batch = 0
  /\ state[s] = "new"
  /\ state' = [state EXCEPT ![s] = "subscribed"]
  /\ since' = [since EXCEPT ![s] = Len(sent)]
  /\ UNCHANGED <<published, sent, batch, queue, got, latest>>

(* The subscriber gets the next event of its queue. *)
Take_Newest(s) ==
  LET n == queue[s][Len(queue[s])]
  IN  /\ batch = 0
      /\ state[s] = "subscribed"
      /\ queue[s] # <<>>
      /\ queue' = [queue EXCEPT ![s] = SubSeq(@, 1, Len(@) - 1)]
      /\ got' = [got EXCEPT ![s] = @ \cup {n}]
      /\ latest' = [latest EXCEPT ![s][sent[n]] = n]
      /\ UNCHANGED <<published, sent, batch, state, since>>

Take(s) ==
  LET n == Head(queue[s])
  IN  /\ batch = 0
      /\ state[s] = "subscribed"
      /\ queue[s] # <<>>
      /\ queue' = [queue EXCEPT ![s] = Tail(@)]
      /\ got' = [got EXCEPT ![s] = @ \cup {n}]
      /\ latest' = [latest EXCEPT ![s][sent[n]] = n]
      /\ UNCHANGED <<published, sent, batch, state, since>>

(* Its loop is cancelled or raises: the finally clause removes the queue. *)
Unsubscribe(s) ==
  /\ batch = 0
  /\ state[s] = "subscribed"
  /\ state' = [state EXCEPT ![s] = "gone"]
  /\ queue' = [queue EXCEPT ![s] = <<>>]
  /\ UNCHANGED <<published, sent, batch, since, got, latest>>

Next ==
  \/ \E size \in 1 .. MaxBatch : Ingest(size)
  \/ \E g \in Gpus : Publish(g)
  \/ PublishFail
  \/ \E s \in Subscribers : Subscribe(s) \/ Take(s) \/ Unsubscribe(s)

Spec == Init /\ [][Next]_vars

-----------------------------------------------------------------------------
(* Properties *)

Events == 1 .. Len(sent)

TypeOK ==
  /\ published \in Nat
  /\ sent \in Seq(Gpus)
  /\ batch \in 0 .. MaxBatch
  /\ state \in [Subscribers -> {"new", "subscribed", "gone"}]
  /\ since \in [Subscribers -> 0 .. Len(sent)]
  /\ queue \in [Subscribers -> Seq(Events)]
  /\ got \in [Subscribers -> SUBSET Events]
  /\ latest \in [Subscribers -> [Gpus -> 0 .. Len(sent)]]

(* Backpressure costs a subscriber the oldest events only (the comment "drop-
   oldest under backpressure", stream.py:38): an event it has neither got nor
   in its queue has Capacity newer events behind it, however the batches, the
   gets and the subscriptions interleave. *)
LossBounded ==
  \A s \in Subscribers : state[s] = "subscribed" =>
    \A n \in since[s] + 1 .. Len(sent) :
      n \in got[s] \/ (\E k \in 1 .. Len(queue[s]) : queue[s][k] = n) \/ n + Capacity <= Len(sent)

(* "ordered per-partition delivery" (stream.py:4): what a subscriber keeps of a
   GPU is the newest event of that GPU it was given, never an older one that
   came late. *)
LatestIsNewest ==
  \A s \in Subscribers : \A n \in got[s] : latest[s][sent[n]] >= n

(* A subscriber that has drained its queue is up to date: its sample of a GPU
   is the GPU's newest, unless Capacity events of others came after it. *)
DrainedIsCurrent ==
  \A s \in Subscribers : state[s] = "subscribed" /\ queue[s] = <<>> =>
    \A n \in since[s] + 1 .. Len(sent) :
      n + Capacity > Len(sent) => latest[s][sent[n]] >= n

-----------------------------------------------------------------------------
(* Inductive invariants *)

(* A subscriber's queue is the newest events, in order, without a gap. *)
QueueIsNewest ==
  \A s \in Subscribers :
    /\ Len(queue[s]) <= Capacity
    /\ state[s] = "subscribed" =>
         \A k \in 1 .. Len(queue[s]) : queue[s][k] = Len(sent) - Len(queue[s]) + k

(* The events it was given are older than the ones in its queue. *)
GivenBeforeQueued ==
  \A s \in Subscribers : state[s] = "subscribed" =>
    \A n \in got[s] : n <= Len(sent) - Len(queue[s])

(* Until it subscribes a subscriber has nothing, and what it has is younger
   than its subscription. *)
NothingBeforeSubscribing ==
  \A s \in Subscribers :
    /\ state[s] # "subscribed" => queue[s] = <<>>
    /\ state[s] = "new" => got[s] = {}
    /\ state[s] = "subscribed" => Len(queue[s]) <= Len(sent) - since[s]
=============================================================================
