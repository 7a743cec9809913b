------------------------- MODULE EventStreamProofs -------------------------
(***************************************************************************)
(* The bounded drop-oldest queues of EventStream keep order and bound the  *)
(* loss for every capacity, batch size and number of subscribers.          *)
(***************************************************************************)
EXTENDS EventStream, TLAPS

(* Offering the next event to a queue of events gives a non-empty queue of
   events that is no longer than the capacity and ends with the new one. *)
LEMMA OfferLength ==
  ASSUME NEW m \in Nat, NEW q \in Seq(1 .. m), Len(q) <= Capacity
  PROVE  /\ Offer(q, m + 1) \in Seq(1 .. m + 1)
         /\ Len(Offer(q, m + 1)) <= Capacity
         /\ Len(Offer(q, m + 1)) = IF Len(q) = Capacity THEN Len(q) ELSE Len(q) + 1
         /\ \A k \in 1 .. Len(Offer(q, m + 1)) :
              Offer(q, m + 1)[k] = IF k = Len(Offer(q, m + 1)) THEN m + 1
                                   ELSE IF Len(q) = Capacity THEN q[k + 1] ELSE q[k]
<1> DEFINE kept == IF Len(q) = Capacity THEN Tail(q) ELSE q
<1>1. Offer(q, m + 1) = Append(kept, m + 1)
  BY CapacityAssumption DEF Offer
<1>2. /\ kept \in Seq(1 .. m)
      /\ Len(kept) = IF Len(q) = Capacity THEN Len(q) - 1 ELSE Len(q)
      /\ \A k \in 1 .. Len(kept) : kept[k] = IF Len(q) = Capacity THEN q[k + 1] ELSE q[k]
  <2>1. CASE Len(q) = Capacity
    <3>1. q # <<>>
      BY <2>1, CapacityAssumption
    <3> QED
      BY <2>1, <3>1
  <2>2. CASE Len(q) # Capacity
    BY <2>2
  <2> QED BY <2>1, <2>2
<1> HIDE DEF kept
<1>3. kept \in Seq(1 .. m + 1)
  BY <1>2
<1>4. /\ Append(kept, m + 1) \in Seq(1 .. m + 1)
      /\ Len(Append(kept, m + 1)) = Len(kept) + 1
      /\ \A k \in 1 .. Len(kept) + 1 :
           Append(kept, m + 1)[k] = IF k = Len(kept) + 1 THEN m + 1 ELSE kept[k]
  BY <1>3
<1>5. Len(q) \in Nat /\ Len(kept) \in Nat
  BY <1>2
<1> HIDE DEF Offer
<1>6. /\ Len(Append(kept, m + 1)) = IF Len(q) = Capacity THEN Len(q) ELSE Len(q) + 1
      /\ Len(Append(kept, m + 1)) <= Capacity
  BY <1>2, <1>4, <1>5, CapacityAssumption
<1>7. ASSUME NEW k \in 1 .. Len(Append(kept, m + 1))
      PROVE  Append(kept, m + 1)[k] =
               IF k = Len(Append(kept, m + 1)) THEN m + 1
               ELSE IF Len(q) = Capacity THEN q[k + 1] ELSE q[k]
  <2>1. k \in 1 .. Len(kept) + 1
    BY <1>4
  <2>2. CASE k = Len(kept) + 1
    BY <1>4, <2>1, <2>2
  <2>3. CASE k # Len(kept) + 1
    <3>1. k \in 1 .. Len(kept)
      BY <1>5, <2>1, <2>3
    <3> QED BY <1>2, <1>4, <2>1, <2>3, <3>1
  <2> QED BY <2>2, <2>3
<1> QED
  BY <1>1, <1>4, <1>6, <1>7

-----------------------------------------------------------------------------
StreamInv == /\ TypeOK
             /\ QueueIsNewest
             /\ GivenBeforeQueued
             /\ NothingBeforeSubscribing
             /\ LossBounded
             /\ LatestIsNewest

(* A stream without subscribers (__init__). *)
LEMMA StreamInvInit == Init => StreamInv
<1> SUFFICES ASSUME Init PROVE StreamInv
  OBVIOUS
<1>1. TypeOK
  BY BatchAssumption DEF Init, TypeOK, Events, NoEvents
<1>2. QueueIsNewest /\ GivenBeforeQueued /\ NothingBeforeSubscribing
  BY CapacityAssumption DEF Init, QueueIsNewest, GivenBeforeQueued, NothingBeforeSubscribing
<1>3. LossBounded /\ LatestIsNewest
  BY DEF Init, LossBounded, LatestIsNewest
<1> QED BY <1>1, <1>2, <1>3 DEF StreamInv

(* A producer starting its batch disturbs no subscriber. *)
LEMMA IngestInv == ASSUME StreamInv, NEW size \in 1 .. MaxBatch, Ingest(size) PROVE StreamInv'
<1>1. TypeOK'
  BY BatchAssumption DEF StreamInv, TypeOK, Ingest, Events
<1>2. (QueueIsNewest /\ GivenBeforeQueued /\ NothingBeforeSubscribing)'
  BY DEF StreamInv, Ingest, QueueIsNewest, GivenBeforeQueued, NothingBeforeSubscribing
<1>3. (LossBounded /\ LatestIsNewest)'
  BY DEF StreamInv, Ingest, LossBounded, LatestIsNewest
<1> QED BY <1>1, <1>2, <1>3 DEF StreamInv

(* Nor does a put_record that raises. *)
LEMMA PublishFailInv == ASSUME StreamInv, PublishFail PROVE StreamInv'
<1>1. TypeOK'
  BY BatchAssumption DEF StreamInv, TypeOK, PublishFail, Events
<1>2. (QueueIsNewest /\ GivenBeforeQueued /\ NothingBeforeSubscribing)'
  BY DEF StreamInv, PublishFail, QueueIsNewest, GivenBeforeQueued, NothingBeforeSubscribing
<1>3. (LossBounded /\ LatestIsNewest)'
  BY DEF StreamInv, PublishFail, LossBounded, LatestIsNewest
<1> QED BY <1>1, <1>2, <1>3 DEF StreamInv

(* publish appends the event to every queue and drops the oldest of a full one. *)
LEMMA PublishInv == ASSUME StreamInv, NEW g \in Gpus, Publish(g) PROVE StreamInv'
<1> DEFINE m == Len(sent)
<1>1. /\ m \in Nat
      /\ sent' \in Seq(Gpus)
      /\ Len(sent') = m + 1
      /\ \A n \in 1 .. m : sent'[n] = sent[n]
  BY DEF StreamInv, TypeOK, Publish
<1>2. /\ state' = state /\ since' = since /\ got' = got /\ latest' = latest
      /\ published' = published + 1
      /\ batch' \in 0 .. MaxBatch
      /\ published \in Nat
  BY BatchAssumption DEF StreamInv, TypeOK, Publish
<1>3. ASSUME NEW s \in Subscribers
      PROVE  /\ queue[s] \in Seq(1 .. m)
             /\ Len(queue[s]) \in Nat
             /\ Len(queue[s]) <= Capacity
             /\ since[s] \in 0 .. m
             /\ got[s] \in SUBSET (1 .. m)
             /\ latest[s] \in [Gpus -> 0 .. m]
  BY <1>1 DEF StreamInv, TypeOK, QueueIsNewest, Events
<1>4. ASSUME NEW s \in Subscribers
      PROVE  queue'[s] = IF state[s] = "subscribed" THEN Offer(queue[s], m + 1) ELSE queue[s]
  BY DEF Publish
<1>5. ASSUME NEW s \in Subscribers
      PROVE  /\ Offer(queue[s], m + 1) \in Seq(1 .. m + 1)
             /\ Len(Offer(queue[s], m + 1)) <= Capacity
             /\ Len(Offer(queue[s], m + 1)) =
                  IF Len(queue[s]) = Capacity THEN Len(queue[s]) ELSE Len(queue[s]) + 1
             /\ \A k \in 1 .. Len(Offer(queue[s], m + 1)) :
                  Offer(queue[s], m + 1)[k] =
                    IF k = Len(Offer(queue[s], m + 1)) THEN m + 1
                    ELSE IF Len(queue[s]) = Capacity THEN queue[s][k + 1] ELSE queue[s][k]
  BY <1>1, <1>3, OfferLength
<1>6a. ASSUME NEW s \in Subscribers
      PROVE  Len(queue'[s]) \in Nat
  BY <1>3, <1>4, <1>5
<1> HIDE DEF m
<1>6. TypeOK'
  <2>1. queue' \in [Subscribers -> Seq(1 .. m + 1)]
    <3>1. DOMAIN queue' = Subscribers /\ queue' = [s \in Subscribers |-> queue'[s]]
      BY DEF Publish
    <3>2. \A s \in Subscribers : queue[s] \in Seq(1 .. m + 1)
      BY <1>1, <1>3
    <3> QED BY <1>4, <1>5, <3>1, <3>2
  <2>2. /\ since' \in [Subscribers -> 0 .. m + 1]
        /\ got' \in [Subscribers -> SUBSET (1 .. m + 1)]
        /\ latest' \in [Subscribers -> [Gpus -> 0 .. m + 1]]
    <3>1. /\ since \in [Subscribers -> 0 .. m]
          /\ got \in [Subscribers -> SUBSET (1 .. m)]
          /\ latest \in [Subscribers -> [Gpus -> 0 .. m]]
      BY DEF StreamInv, TypeOK, Events, m
    <3> QED BY <1>1, <1>2, <3>1
  <2>3. state' \in [Subscribers -> {"new", "subscribed", "gone"}]
    BY <1>2 DEF StreamInv, TypeOK
  <2> QED BY <1>1, <1>2, <2>1, <2>2, <2>3 DEF TypeOK, Events
<1>7. QueueIsNewest'
  <2> SUFFICES ASSUME NEW s \in Subscribers
               PROVE  /\ Len(queue'[s]) <= Capacity
                      /\ state[s] = "subscribed" =>
                           \A k \in 1 .. Len(queue'[s]) : queue'[s][k] = Len(sent') - Len(queue'[s]) + k
    BY <1>2 DEF QueueIsNewest
  <2>1. CASE state[s] = "subscribed"
    <3>1. \A k \in 1 .. Len(queue[s]) : queue[s][k] = m - Len(queue[s]) + k
      BY <1>3, <2>1 DEF StreamInv, QueueIsNewest, m
    <3>2. queue'[s] = Offer(queue[s], m + 1)
      BY <1>4, <1>5, <2>1
    <3>3. Len(queue'[s]) \in Nat
      BY <1>5, <3>2
    <3>4. ASSUME NEW k \in 1 .. Len(queue'[s])
          PROVE  queue'[s][k] = m + 1 - Len(queue'[s]) + k
      <4>1. CASE k = Len(queue'[s])
        BY <1>1, <1>5, <3>2, <3>3, <4>1
      <4>2. CASE k # Len(queue'[s]) /\ Len(queue[s]) = Capacity
        <5>1. k + 1 \in 1 .. Len(queue[s]) /\ queue'[s][k] = queue[s][k + 1]
          BY <1>3, <1>5, <3>2, <4>2
        <5>2. queue[s][k + 1] = m - Len(queue[s]) + (k + 1)
          BY <3>1, <5>1
        <5>3. Len(queue'[s]) = Len(queue[s]) /\ Len(queue[s]) \in Nat
          BY <1>3, <1>5, <3>2, <4>2
        <5> QED BY <1>1, <5>1, <5>2, <5>3
      <4>3. CASE k # Len(queue'[s]) /\ Len(queue[s]) # Capacity
        <5>1. k \in 1 .. Len(queue[s]) /\ queue'[s][k] = queue[s][k]
          BY <1>3, <1>5, <3>2, <4>3
        <5>2. queue[s][k] = m - Len(queue[s]) + k
          BY <3>1, <5>1
        <5>3. Len(queue'[s]) = Len(queue[s]) + 1 /\ Len(queue[s]) \in Nat
          BY <1>3, <1>5, <3>2, <4>3
        <5> QED BY <1>1, <5>1, <5>2, <5>3
      <4> QED BY <4>1, <4>2, <4>3
    <3> QED BY <1>1, <1>5, <3>2, <3>4
  <2>2. CASE state[s] # "subscribed"
    BY <1>3, <1>4, <2>2
  <2> QED BY <2>1, <2>2
<1>8. GivenBeforeQueued'
  <2> SUFFICES ASSUME NEW s \in Subscribers, state[s] = "subscribed", NEW n \in got[s]
               PROVE  n <= Len(sent') - Len(queue'[s])
    BY <1>2 DEF GivenBeforeQueued
  <2>1. n <= m - Len(queue[s]) /\ n \in 1 .. m
    BY <1>3 DEF StreamInv, GivenBeforeQueued, m
  <2>2. Len(queue'[s]) <= Len(queue[s]) + 1 /\ Len(queue'[s]) \in Nat
    BY <1>3, <1>4, <1>5
  <2> QED BY <1>1, <1>3, <2>1, <2>2
<1>9. NothingBeforeSubscribing'
  <2>1. \A s \in Subscribers : state[s] = "subscribed" =>
          Len(queue'[s]) <= Len(queue[s]) + 1 /\ Len(queue'[s]) \in Nat
    BY <1>3, <1>4, <1>5
  <2>2. NothingBeforeSubscribing /\ m = Len(sent) /\ Len(sent') = m + 1 /\ m \in Nat
    BY <1>1, <1>3 DEF StreamInv, m
  <2>3. ASSUME NEW s \in Subscribers
        PROVE  /\ state'[s] # "subscribed" => queue'[s] = <<>>
               /\ state'[s] = "new" => got'[s] = {}
               /\ state'[s] = "subscribed" => Len(queue'[s]) <= Len(sent') - since'[s]
    <3>1. /\ state[s] # "subscribed" => queue[s] = <<>>
          /\ state[s] = "new" => got[s] = {}
          /\ state[s] = "subscribed" => Len(queue[s]) <= m - since[s]
      BY <2>2 DEF NothingBeforeSubscribing
    <3>2. state[s] # "subscribed" => queue'[s] = <<>>
      BY <1>4, <3>1
    <3>3. Len(queue[s]) \in Nat /\ since[s] \in Nat
      BY <1>3, <2>2
    <3>4. state[s] = "subscribed" => Len(queue'[s]) <= m + 1 - since[s]
      BY <2>1, <2>2, <3>1, <3>3
    <3>5. state' = state /\ since' = since /\ got' = got
      BY <1>2
    <3>6. state[s] = "subscribed" => Len(queue'[s]) <= Len(sent') - since[s]
      BY <2>1, <2>2, <3>3, <3>4
    <3> QED BY <3>1, <3>2, <3>5, <3>6, Zenon
  <2> QED BY <2>3, Zenon DEF NothingBeforeSubscribing
<1>10. LossBounded'
  <2> SUFFICES ASSUME NEW s \in Subscribers, state[s] = "subscribed",
                      NEW n \in since[s] + 1 .. m + 1, n \notin got[s], n + Capacity > m + 1
               PROVE  \E k \in 1 .. Len(queue'[s]) : queue'[s][k] = n
    BY <1>1, <1>2, <1>3, <1>6a, CapacityAssumption DEF LossBounded
  <2>1. queue'[s] = Offer(queue[s], m + 1)
        /\ Len(queue'[s]) \in Nat
    BY <1>4, <1>5
  <2>2. CASE n = m + 1
    <3>1. Len(queue'[s]) \in 1 .. Len(queue'[s])
      BY <1>3, <1>5, <2>1, CapacityAssumption
    <3> QED BY <1>5, <2>1, <2>2, <3>1
  <2>3. CASE n # m + 1
    <3>1. n \in since[s] + 1 .. m /\ n + Capacity > m
      BY <1>1, <1>3, <2>3, CapacityAssumption
    <3>2. PICK k \in 1 .. Len(queue[s]) : queue[s][k] = n
      <4>1. \/ n \in got[s]
            \/ \E k \in 1 .. Len(queue[s]) : queue[s][k] = n
            \/ n + Capacity <= m
        BY <3>1 DEF StreamInv, LossBounded, m
      <4>2. ~(n + Capacity <= m)
        BY <1>1, <1>3, <3>1, CapacityAssumption
      <4> QED BY <4>1, <4>2
    <3>3. queue[s][k] = m - Len(queue[s]) + k
      BY <1>3 DEF StreamInv, QueueIsNewest, m
    <3>4. CASE Len(queue[s]) = Capacity
      <4>1. k > 1
        BY <1>1, <1>3, <3>2, <3>3, <3>4, CapacityAssumption
      <4>2. k - 1 \in 1 .. Len(queue'[s]) /\ k - 1 # Len(queue'[s])
        BY <1>3, <1>5, <2>1, <3>4, <4>1
      <4>3. queue'[s][k - 1] = queue[s][k]
        <5>1. queue'[s][k - 1] = queue[s][(k - 1) + 1]
          BY <1>5, <2>1, <3>4, <4>2
        <5>2. (k - 1) + 1 = k
          OBVIOUS
        <5> QED BY <5>1, <5>2
      <4> QED BY <2>1, <3>2, <4>2, <4>3
    <3>5. CASE Len(queue[s]) # Capacity
      <4>1. k \in 1 .. Len(queue'[s]) /\ k # Len(queue'[s])
        BY <1>3, <1>5, <2>1, <3>5
      <4> QED BY <1>5, <2>1, <3>2, <3>5, <4>1
    <3> QED BY <3>4, <3>5
  <2> QED BY <2>2, <2>3
<1>11. LatestIsNewest'
  BY <1>1, <1>2, <1>3 DEF StreamInv, LatestIsNewest
<1> QED BY <1>6, <1>7, <1>8, <1>9, <1>10, <1>11 DEF StreamInv

(* A new subscriber starts with an empty queue and owes nothing. *)
LEMMA SubscribeInv == ASSUME StreamInv, NEW s \in Subscribers, Subscribe(s) PROVE StreamInv'
<1>1. queue[s] = <<>> /\ got[s] = {} /\ Len(sent) \in Nat
  BY DEF StreamInv, TypeOK, NothingBeforeSubscribing, Subscribe
<1>2. TypeOK'
  BY <1>1 DEF StreamInv, TypeOK, Subscribe, Events
<1>3. QueueIsNewest'
  BY <1>1 DEF StreamInv, TypeOK, QueueIsNewest, Subscribe
<1>4. GivenBeforeQueued'
  BY <1>1 DEF StreamInv, TypeOK, GivenBeforeQueued, Subscribe
<1>5. NothingBeforeSubscribing'
  BY <1>1 DEF StreamInv, TypeOK, NothingBeforeSubscribing, Subscribe
<1>6. LossBounded'
  BY <1>1 DEF StreamInv, TypeOK, LossBounded, Subscribe
<1>7. LatestIsNewest'
  BY DEF StreamInv, LatestIsNewest, Subscribe
<1> QED BY <1>2, <1>3, <1>4, <1>5, <1>6, <1>7 DEF StreamInv

(* A subscriber that leaves takes its queue with it and keeps what it has. *)
LEMMA UnsubscribeInv == ASSUME StreamInv, NEW s \in Subscribers, Unsubscribe(s) PROVE StreamInv'
<1>1. TypeOK'
  BY DEF StreamInv, TypeOK, Unsubscribe, Events
<1>2. QueueIsNewest' /\ GivenBeforeQueued'
  BY CapacityAssumption DEF StreamInv, TypeOK, QueueIsNewest, GivenBeforeQueued, Unsubscribe
<1>3. NothingBeforeSubscribing'
  BY DEF StreamInv, TypeOK, NothingBeforeSubscribing, Unsubscribe
<1>4. LossBounded' /\ LatestIsNewest'
  BY DEF StreamInv, TypeOK, LossBounded, LatestIsNewest, Unsubscribe
<1> QED BY <1>1, <1>2, <1>3, <1>4 DEF StreamInv

(* The event a subscriber takes is the oldest of its queue, newer than all it
   was given before. *)
LEMMA TakeInv == ASSUME StreamInv, NEW s \in Subscribers, Take(s) PROVE StreamInv'
<1> DEFINE n == Head(queue[s])
           m == Len(sent)
<1>1. /\ m \in Nat
      /\ queue[s] \in Seq(1 .. m)
      /\ queue[s] # <<>>
      /\ state[s] = "subscribed"
      /\ Len(queue[s]) \in Nat \ {0}
  BY DEF StreamInv, TypeOK, Events, Take
<1>2. /\ Tail(queue[s]) \in Seq(1 .. m)
      /\ Len(Tail(queue[s])) = Len(queue[s]) - 1
      /\ \A k \in 1 .. Len(queue[s]) - 1 : Tail(queue[s])[k] = queue[s][k + 1]
  <2>1. \A q \in Seq(1 .. m) : q # <<>> =>
          /\ Tail(q) \in Seq(1 .. m)
          /\ Len(Tail(q)) = Len(q) - 1
          /\ \A k \in 1 .. Len(q) - 1 : Tail(q)[k] = q[k + 1]
    OBVIOUS
  <2> QED BY <1>1, <2>1
<1>3. /\ n \in 1 .. m
      /\ n = queue[s][1]
  <2>1. \A q \in Seq(1 .. m) : Len(q) # 0 => Head(q) = q[1] /\ q[1] \in 1 .. m
    OBVIOUS
  <2> QED BY <1>1, <2>1
<1>4. \A k \in 1 .. Len(queue[s]) : queue[s][k] = m - Len(queue[s]) + k
  BY <1>1 DEF StreamInv, QueueIsNewest
<1>5. n = m - Len(queue[s]) + 1
  <2>1. 1 \in 1 .. Len(queue[s])
    BY <1>1
  <2> QED BY <1>3, <1>4, <2>1
<1> HIDE DEF n
<1>6. sent[n] \in Gpus
  BY <1>3 DEF StreamInv, TypeOK
<1>7. /\ queue' = [queue EXCEPT ![s] = Tail(queue[s])]
      /\ got' = [got EXCEPT ![s] = got[s] \cup {n}]
      /\ latest' = [latest EXCEPT ![s][sent[n]] = n]
      /\ UNCHANGED <<published, sent, batch, state, since>>
  BY DEF Take, n
<1>8. TypeOK'
  BY <1>2, <1>3, <1>6, <1>7 DEF StreamInv, TypeOK, Events
<1>9. QueueIsNewest'
  <2> SUFFICES ASSUME NEW t \in Subscribers
               PROVE  /\ Len(queue'[t]) <= Capacity
                      /\ state[t] = "subscribed" =>
                           \A k \in 1 .. Len(queue'[t]) : queue'[t][k] = Len(sent) - Len(queue'[t]) + k
    BY <1>7 DEF QueueIsNewest
  <2>1. CASE t = s
    <3>1. queue'[t] = Tail(queue[s])
      BY <1>7, <2>1 DEF StreamInv, TypeOK
    <3>2. ASSUME NEW k \in 1 .. Len(queue[s]) - 1
          PROVE  Tail(queue[s])[k] = m - Len(queue[s]) + (k + 1)
      <4>1. k + 1 \in 1 .. Len(queue[s])
        BY <1>1
      <4> QED BY <1>2, <1>4, <4>1
    <3>3. Len(queue[s]) <= Capacity
      BY DEF StreamInv, QueueIsNewest
    <3>4. Len(queue'[t]) = Len(queue[s]) - 1 /\ Len(queue'[t]) <= Capacity
      BY <1>1, <1>2, <3>1, <3>3, CapacityAssumption
    <3>5. ASSUME NEW k \in 1 .. Len(queue'[t])
          PROVE  queue'[t][k] = m - Len(queue'[t]) + k
      <4>1. k \in 1 .. Len(queue[s]) - 1
        BY <3>4
      <4>2. queue'[t][k] = m - Len(queue[s]) + (k + 1)
        BY <3>1, <3>2, <4>1
      <4> QED BY <1>1, <3>4, <4>1, <4>2
    <3> QED BY <3>4, <3>5
  <2>2. CASE t # s
    BY <1>7, <2>2 DEF StreamInv, TypeOK, QueueIsNewest
  <2> QED BY <2>1, <2>2
<1>10. GivenBeforeQueued'
  <2> SUFFICES ASSUME NEW t \in Subscribers, state[t] = "subscribed", NEW e \in got'[t]
               PROVE  e <= Len(sent) - Len(queue'[t])
    BY <1>7 DEF GivenBeforeQueued
  <2>1. CASE t = s
    <3>1. queue'[t] = Tail(queue[s]) /\ (e \in got[s] \/ e = n)
      BY <1>7, <2>1 DEF StreamInv, TypeOK
    <3>2. e \in got[s] => e <= m - Len(queue[s]) /\ e \in 1 .. m
      BY <1>1 DEF StreamInv, TypeOK, GivenBeforeQueued, Events
    <3>3. Len(queue'[t]) = Len(queue[s]) - 1
      BY <1>2, <3>1
    <3>4. CASE e = n
      BY <1>1, <1>5, <3>3, <3>4
    <3>5. CASE e \in got[s]
      <4>1. e \in 1 .. m /\ e <= m - Len(queue[s])
        BY <3>2, <3>5
      <4> QED BY <1>1, <3>3, <4>1
    <3> QED BY <3>1, <3>4, <3>5
  <2>2. CASE t # s
    BY <1>7, <2>2 DEF StreamInv, TypeOK, GivenBeforeQueued
  <2> QED BY <2>1, <2>2
<1>11. NothingBeforeSubscribing'
  <2>1. Len(queue'[s]) <= Len(queue[s]) /\ Len(queue'[s]) \in Nat
    BY <1>1, <1>2, <1>7 DEF StreamInv, TypeOK
  <2>2. since[s] \in 0 .. m
    BY DEF StreamInv, TypeOK
  <2>3. Len(queue'[s]) <= m - since[s]
    BY <1>1, <2>1, <2>2 DEF StreamInv, NothingBeforeSubscribing
  <2> QED BY <1>1, <1>7, <2>3 DEF StreamInv, TypeOK, NothingBeforeSubscribing
<1>12. LossBounded'
  <2> SUFFICES ASSUME NEW t \in Subscribers, state[t] = "subscribed",
                      NEW e \in since[t] + 1 .. Len(sent), e \notin got'[t], ~(e + Capacity <= Len(sent))
               PROVE  \E k \in 1 .. Len(queue'[t]) : queue'[t][k] = e
    BY <1>7 DEF LossBounded
  <2>1. CASE t = s
    <3>1. queue'[t] = Tail(queue[s]) /\ e \notin got[s] /\ e # n
      BY <1>7, <2>1 DEF StreamInv, TypeOK
    <3>2. PICK k \in 1 .. Len(queue[s]) : queue[s][k] = e
      BY <2>1, <3>1 DEF StreamInv, LossBounded
    <3>3. k # 1
      BY <1>3, <3>1, <3>2
    <3>4. k - 1 \in 1 .. Len(queue[s]) - 1 /\ (k - 1) + 1 = k
      BY <1>1, <3>2, <3>3
    <3>5. Tail(queue[s])[k - 1] = e
      BY <1>2, <3>2, <3>4
    <3> QED BY <1>2, <3>1, <3>4, <3>5
  <2>2. CASE t # s
    BY <1>7, <2>2 DEF StreamInv, TypeOK, LossBounded
  <2> QED BY <2>1, <2>2
<1>13. LatestIsNewest'
  <2> SUFFICES ASSUME NEW t \in Subscribers, NEW e \in got'[t]
               PROVE  latest'[t][sent[e]] >= e
    BY <1>7 DEF LatestIsNewest
  <2>1. CASE t = s
    <3>1. e \in got[s] \/ e = n
      BY <1>7, <2>1 DEF StreamInv, TypeOK
    <3>2. e \in 1 .. m /\ e <= n
      <4>1. e \in got[s] => e \in 1 .. m /\ e <= m - Len(queue[s])
        BY <1>1 DEF StreamInv, TypeOK, GivenBeforeQueued, Events
      <4>2. CASE e = n
        BY <1>3, <4>2
      <4>3. CASE e \in got[s]
        <5>1. e \in 1 .. m /\ e <= m - Len(queue[s])
          BY <4>1, <4>3
        <5> QED BY <1>1, <1>5, <5>1
      <4> QED BY <3>1, <4>2, <4>3
    <3>3. sent[e] \in Gpus
      BY <3>2 DEF StreamInv, TypeOK
    <3>4. latest'[s][sent[e]] = IF sent[e] = sent[n] THEN n ELSE latest[s][sent[e]]
      BY <1>6, <1>7, <3>3 DEF StreamInv, TypeOK
    <3>5. e \in got[s] => latest[s][sent[e]] >= e
      BY DEF StreamInv, LatestIsNewest
    <3>6. e = n => sent[e] = sent[n]
      OBVIOUS
    <3> QED BY <1>3, <2>1, <3>1, <3>2, <3>4, <3>5, <3>6
  <2>2. CASE t # s
    BY <1>7, <2>2 DEF StreamInv, TypeOK, LatestIsNewest
  <2> QED BY <2>1, <2>2
<1> QED BY <1>8, <1>9, <1>10, <1>11, <1>12, <1>13 DEF StreamInv

(* Every step of producers and subscribers keeps the queues in order. *)
LEMMA StreamInvNext == StreamInv /\ [Next]_vars => StreamInv'
<1> SUFFICES ASSUME StreamInv, [Next]_vars PROVE StreamInv'
  OBVIOUS
<1>1. CASE \E size \in 1 .. MaxBatch : Ingest(size)
  BY <1>1, IngestInv
<1>2. CASE \E g \in Gpus : Publish(g)
  BY <1>2, PublishInv
<1>3. CASE PublishFail
  BY <1>3, PublishFailInv
<1>4. ASSUME NEW s \in Subscribers, Subscribe(s) \/ Take(s) \/ Unsubscribe(s)
      PROVE  StreamInv'
  BY <1>4, SubscribeInv, TakeInv, UnsubscribeInv
<1>5. CASE UNCHANGED vars
  BY <1>5 DEF vars, StreamInv, TypeOK, Events, QueueIsNewest, GivenBeforeQueued,
              NothingBeforeSubscribing, LossBounded, LatestIsNewest
<1> QED BY <1>1, <1>2, <1>3, <1>4, <1>5 DEF Next

(* No subscriber is given, or keeps for later, an event that was not published:
   whatever is in a queue or in the newest samples of a consumer is the position
   of an event of the stream (stream.py's subscribe and publish). *)
THEOREM StreamTyped == Spec => []TypeOK
<1>1. StreamInv => TypeOK
  BY DEF StreamInv
<1> QED BY <1>1, StreamInvInit, StreamInvNext, PTL DEF Spec

(* Backpressure costs a subscriber the oldest events only, whatever the size of
   the queue and of the batches: the fan-out of EventStream.publish. *)
THEOREM LossIsBounded == Spec => []LossBounded
<1>1. StreamInv => LossBounded
  BY DEF StreamInv
<1> QED BY <1>1, StreamInvInit, StreamInvNext, PTL DEF Spec

(* A consumer that has drained its queue is up to date, unless it lost the
   event to Capacity newer ones: EventStream.subscribe with the consumer's
   newest sample of each GPU. *)
THEOREM DrainedConsumerIsCurrent == Spec => []DrainedIsCurrent
<1>1. StreamInv => DrainedIsCurrent
  <2> SUFFICES ASSUME StreamInv, NEW s \in Subscribers, state[s] = "subscribed", queue[s] = <<>>,
                      NEW n \in since[s] + 1 .. Len(sent), n + Capacity > Len(sent)
               PROVE  latest[s][sent[n]] >= n
    BY DEF DrainedIsCurrent
  <2>1. n \in Nat /\ Len(sent) \in Nat /\ Len(queue[s]) = 0
    BY DEF StreamInv, TypeOK
  <2>2. n \in got[s]
    BY <2>1, CapacityAssumption DEF StreamInv, LossBounded
  <2> QED BY <2>2 DEF StreamInv, LatestIsNewest
<1> QED BY <1>1, StreamInvInit, StreamInvNext, PTL DEF Spec

(* Per GPU a consumer never falls back to an older sample (stream.py:4). *)
THEOREM LatestStaysNewest == Spec => []LatestIsNewest
<1>1. StreamInv => LatestIsNewest
  BY DEF StreamInv
<1> QED BY <1>1, StreamInvInit, StreamInvNext, PTL DEF Spec
=============================================================================
