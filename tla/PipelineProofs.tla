--------------------------- MODULE PipelineProofs ---------------------------
(***************************************************************************)
(* What the pipeline guarantees, for any number of records, containers,    *)
(* executions, remediations, retries, failures and deliveries.             *)
(*                                                                         *)
(* The stream processor first: what it keeps (StreamTyped), that a batch   *)
(* is acknowledged once its executions are started (BatchInv), the order   *)
(* and the number of the executions (PlaceInv, OrderInv, CountInv), and    *)
(* the errors behind an alarm (AlarmInv).  Then the two state machines     *)
(* (FlowInv), and last the halves together (TypesHold).                    *)
(***************************************************************************)
EXTENDS Pipeline, Counting, TLAPS

-----------------------------------------------------------------------------
(* What the stream processor keeps *)

(* What an invocation may find, and what StartExecution is given. *)
Anomaly == [kind : {"ecc", "xid"}, gpu : Gpus, record : Nat]

Order == [lane : Lanes, first : Nat, last : Nat, try : Nat, anomalies : SUBSET Anomaly]

Windows == {w \in Seq(Nat) : Len(w) <= WindowLength}

(* The types in full. *)
Kept ==
  /\ log \in [Lanes -> Seq(Reports)]
  /\ done \in [Lanes -> Nat] /\ last \in [Lanes -> Nat] /\ tries \in [Lanes -> 0 .. RetryAttempts]
  /\ host \in [Lanes -> Containers \cup {None}]
  /\ todo \in [Lanes -> Seq(SUBSET Anomaly)]
  /\ memory \in [Containers -> [Gpus -> Windows]]
  /\ delivered \in [Lanes -> Seq(Nat)]
  /\ dropped \in [Lanes -> SUBSET Nat]
  /\ started \in Seq(Order) /\ Len(started) <= MaxExecutions
  /\ faults \in 0 .. MaxFaults

(* Where a lane stands: a batch that failed, or whose executions are being
   started, is the one from done to last; a record is in the lane that its
   GPU's node hashes to. *)
LaneKept(l) ==
  /\ done[l] <= last[l] /\ last[l] <= Len(log[l])
  /\ Len(delivered[l]) = Len(log[l])
  /\ dropped[l] \subseteq 1 .. done[l]
  /\ todo[l] # <<>> <=> host[l] # None
  /\ tries[l] > 0 \/ todo[l] # <<>> => done[l] < last[l]
  /\ \A n \in DOMAIN log[l] : LaneOf[log[l][n].at] = l

StreamTyped == Kept /\ \A l \in Lanes : LaneKept(l)

(* The groups that an invocation starts executions for are one for each job, of
   anomalies of its batch. *)
Grouped(l, first, end, groups) ==
  /\ \A k \in DOMAIN groups : groups[k] # {} /\ \A a \in groups[k] :
       a.record \in first .. end /\ a.gpu = log[l][a.record].at
  /\ \A j, k \in DOMAIN groups : \A a \in groups[j], b \in groups[k] :
       JobOf[a.gpu] = JobOf[b.gpu] <=> j = k

(* The XID report at position n waits for its execution. *)
Awaited(n, groups) == \E k \in DOMAIN groups : \E a \in groups[k] : a.kind = "xid" /\ a.record = n

BatchKept(l) ==
  /\ Grouped(l, done[l] + 1, last[l], todo[l])
  /\ todo[l] # <<>> => \A n \in done[l] + 1 .. last[l] :
       log[l][n].valid /\ (log[l][n].xid => Handed(l, n, "xid") # {} \/ Awaited(n, todo[l]))

(* AcknowledgedIsStarted for one lane. *)
Acknowledged(l) ==
  \A n \in 1 .. done[l] :
    log[l][n].xid /\ log[l][n].valid /\ n \notin dropped[l] => Handed(l, n, "xid") # {}

BatchInv == \A l \in Lanes : BatchKept(l) /\ Acknowledged(l)

Jobs(anomalies) == {JobOf[a.gpu] : a \in anomalies}

(* Where an execution stands among the deliveries of its lane: its batch is
   behind, or it is of an earlier try of the batch at hand, or of this one, and
   then its job's group does not come again unless it is the same. *)
Placed(e) ==
  \/ e.last <= done[e.lane]
  \/ /\ e.first = done[e.lane] + 1 /\ e.last = last[e.lane]
     /\ \/ e.try < tries[e.lane]
        \/ /\ e.try = tries[e.lane] /\ todo[e.lane] # <<>>
           /\ \A k \in DOMAIN todo[e.lane] :
                Jobs(todo[e.lane][k]) = Jobs(e.anomalies) => todo[e.lane][k] = e.anomalies

(* Its anomalies are of records delivered. *)
Founded(e) ==
  \A a \in e.anomalies : a.record \in 1 .. e.last /\ a.gpu = log[e.lane][a.record].at

PlaceInv == \A x \in DOMAIN started : Placed(started[x]) /\ Founded(started[x])

(* Two executions of a lane, the earlier first. *)
Ordered(a, b) ==
  \/ a.last < b.first
  \/ /\ a.first = b.first /\ a.last = b.last
     /\ \/ a.try < b.try
        \/ a.try = b.try /\ (Jobs(a.anomalies) = Jobs(b.anomalies) => a.anomalies = b.anomalies)

OrderInv ==
  \A x, y \in DOMAIN started :
    x < y /\ started[x].lane = started[y].lane => Ordered(started[x], started[y])

(* A record's executions, those that have still to start included, are no more
   than its deliveries and the failures. *)
Pending(l, n) == IF Awaited(n, todo[l]) THEN 1 ELSE 0

Counted(l, n) == Cardinality(Handed(l, n, "xid")) + Pending(l, n) <= delivered[l][n] + faults

CountInv == \A l \in Lanes : \A n \in DOMAIN log[l] : Counted(l, n)

(* The errors that the GPU's records bring, each as often as it was delivered. *)
OwnIn(records, g) == {n \in DOMAIN records : records[n].at = g}

Errors(records, counts, g) == SumFunction([n \in OwnIn(records, g) |-> records[n].errors * counts[n]])

ErrorsOf(l, g) == Errors(log[l], delivered[l], g)

(* What the containers count, and what was found, is covered by deliveries. *)
Covered(l, anomalies) == \A a \in anomalies : a.kind = "ecc" => ErrorsOf(l, a.gpu) >= 5

AlarmInv ==
  /\ \A c \in Containers, g \in Gpus : SumFunction(memory[c][g]) <= ErrorsOf(LaneOf[g], g)
  /\ \A l \in Lanes : \A k \in DOMAIN todo[l] : Covered(l, todo[l][k])
  /\ \A x \in DOMAIN started : Covered(started[x].lane, started[x].anomalies)

-----------------------------------------------------------------------------
(* What one invocation finds *)

(* A report is what the constants allow. *)
LEMMA ReportTyped ==
  ASSUME NEW r \in Reports
  PROVE  r.at \in Gpus /\ r.errors \in Nat /\ r.xid \in BOOLEAN /\ r.valid \in BOOLEAN /\ LaneOf[r.at] \in Lanes
BY ReportsAssumption

(* A window never holds more than WindowLength reports. *)
LEMMA SlideTyped == ASSUME NEW w \in Windows, NEW e \in Nat PROVE Slide(w, e) \in Windows
<1>1. w \in Seq(Nat) /\ Len(w) \in Nat /\ Len(w) <= WindowLength /\ WindowLength \in Nat \ {0}
  BY WindowAssumption DEF Windows
<1>2. CASE e = 0
  BY <1>2 DEF Slide
<1>3. CASE e # 0 /\ Len(w) = WindowLength
  <2>1. Tail(w) \in Seq(Nat) /\ Len(Tail(w)) = Len(w) - 1
    BY <1>1, <1>3, EmptySeq, HeadTailProperties
  <2>2. Append(Tail(w), e) \in Seq(Nat) /\ Len(Append(Tail(w), e)) = Len(w)
    BY <1>1, <2>1, AppendProperties
  <2> QED BY <1>1, <1>3, <2>2 DEF Slide, Windows
<1>4. CASE e # 0 /\ Len(w) # WindowLength
  BY <1>1, <1>4 DEF Slide, Windows
<1> QED BY <1>2, <1>3, <1>4

(* The memory after k records, one record at a time. *)
LEMMA RememberedSteps ==
  ASSUME StreamTyped, NEW l \in Lanes, NEW windows \in [Gpus -> Windows],
         NEW N \in Nat, done[l] + N <= Len(log[l])
  PROVE  /\ Remembered(windows, l, 0) = windows
         /\ \A k \in 0 .. N : Remembered(windows, l, k) \in [Gpus -> Windows]
         /\ \A k \in 1 .. N :
              LET report == log[l][done[l] + k]
              IN  Remembered(windows, l, k) =
                    [Remembered(windows, l, k - 1) EXCEPT ![report.at] = Slide(@, report.errors)]
<1> DEFINE report(k) == log[l][done[l] + k]
           next(k, m) == [m EXCEPT ![report(k).at] = Slide(m[report(k).at], report(k).errors)]
           step == [x \in Nat \X [Gpus -> Windows] |-> IF x[1] \in 1 .. N THEN next(x[1], x[2]) ELSE x[2]]
           Law(n, p) == p = [k \in 0 .. n |-> IF k = 0 THEN windows ELSE next(k, p[k - 1])]
<1>1. \A k \in 1 .. N : report(k) \in Reports
  BY SMTT(30) DEF StreamTyped, Kept, LaneKept
<1>2. ASSUME NEW k \in 1 .. N, NEW m \in [Gpus -> Windows] PROVE next(k, m) \in [Gpus -> Windows]
  <2> DEFINE r == report(k)
  <2>1. r.at \in Gpus /\ r.errors \in Nat
    BY <1>1, ReportTyped
  <2>2. Slide(m[r.at], r.errors) \in Windows
    BY <2>1, SlideTyped
  <2> HIDE DEF r
  <2>3. [m EXCEPT ![r.at] = Slide(m[r.at], r.errors)] \in [Gpus -> Windows]
    BY <2>1, <2>2
  <2> QED BY <2>3 DEF r
<1> HIDE DEF next
<1>3. PICK f \in [Nat -> [Gpus -> Windows]] : Follows(f, windows, step)
  <2>1. step \in [Nat \X [Gpus -> Windows] -> [Gpus -> Windows]]
    BY <1>2
  <2> HIDE DEF step
  <2> QED BY <2>1, Recursion, Zenon
<1>4. f[0] = windows /\ \A k \in 1 .. N : f[k] = next(k, f[k - 1])
  <2>1. f[0] = windows
    BY <1>3 DEF Follows
  <2>2. ASSUME NEW k \in 1 .. N PROVE f[k] = next(k, f[k - 1])
    <3>1. k \in Nat /\ k # 0 /\ k - 1 \in Nat /\ f[k - 1] \in [Gpus -> Windows]
      BY <1>3
    <3>2. f[k] = step[<<k, f[k - 1]>>]
      BY <1>3, <3>1 DEF Follows
    <3>3. <<k, f[k - 1]>> \in Nat \X [Gpus -> Windows]
      BY <3>1
    <3> QED BY <3>2, <3>3
  <2> QED BY <2>1, <2>2
<1> HIDE DEF step
<1>5. ASSUME NEW n \in 0 .. N PROVE Remembered(windows, l, n) = f[n]
  <2> DEFINE part == [k \in 0 .. n |-> f[k]]
             seen == CHOOSE p : Law(n, p)
  <2>1. Law(n, part)
    <3>1. ASSUME NEW k \in 0 .. n PROVE part[k] = IF k = 0 THEN windows ELSE next(k, part[k - 1])
      <4>1. k # 0 => k \in 1 .. N /\ k - 1 \in 0 .. n
        OBVIOUS
      <4> QED BY <1>4, <4>1
    <3>2. part = [k \in 0 .. n |-> part[k]]
      OBVIOUS
    <3> HIDE DEF part
    <3> QED BY <3>1, <3>2
  <2>2. Law(n, seen)
    <3> HIDE DEF part, Law
    <3> QED BY <2>1
  <2>3. Remembered(windows, l, n) = seen[n]
    BY DEF Remembered, next
  <2> HIDE DEF seen
  <2>4. seen[0] = windows /\ \A k \in 1 .. n : seen[k] = next(k, seen[k - 1])
    BY <2>2
  <2> DEFINE Same == {k \in Nat : k <= n => seen[k] = f[k]}
  <2>5. 0 \in Same
    BY <1>4, <2>4
  <2>6. ASSUME NEW k \in Nat, k \in Same PROVE k + 1 \in Same
    <3> SUFFICES ASSUME k + 1 <= n PROVE seen[k + 1] = f[k + 1]
      OBVIOUS
    <3>1. k + 1 \in 1 .. n /\ k + 1 \in 1 .. N /\ (k + 1) - 1 = k /\ seen[k] = f[k]
      BY <2>6, SMTT(30)
    <3>2. seen[k + 1] = next(k + 1, seen[k]) /\ f[k + 1] = next(k + 1, f[k])
      BY <1>4, <2>4, <3>1
    <3> QED BY <3>1, <3>2
  <2> HIDE DEF Same
  <2>7. n \in Same
    BY <2>5, <2>6, Induction
  <2> QED BY <2>3, <2>7 DEF Same
<1>6. Remembered(windows, l, 0) = windows
  BY <1>4, <1>5
<1>7. ASSUME NEW k \in 0 .. N PROVE Remembered(windows, l, k) \in [Gpus -> Windows]
  BY <1>3, <1>5
<1>8. ASSUME NEW k \in 1 .. N PROVE Remembered(windows, l, k) = next(k, Remembered(windows, l, k - 1))
  <2>1. k \in 0 .. N /\ k - 1 \in 0 .. N
    OBVIOUS
  <2> QED BY <1>4, <1>5, <2>1
<1> QED BY <1>6, <1>7, <1>8 DEF next

(* An anomaly found in record n of a lane. *)
Finding(kind, l, n) == [kind |-> kind, gpu |-> log[l][n].at, record |-> n]

LEMMA AnomaliesAre ==
  ASSUME NEW windows, NEW l, NEW n \in Nat, NEW a
  PROVE  a \in Anomalies(windows, l, n) <=>
           \E k \in 1 .. n :
             \/ a = Finding("ecc", l, done[l] + k)
                /\ EccAlarm(Remembered(windows, l, k)[log[l][done[l] + k].at])
             \/ a = Finding("xid", l, done[l] + k) /\ log[l][done[l] + k].xid
BY DEF Anomalies, Finding

(* What is found is of the records read, and of their GPUs. *)
LEMMA FoundTyped ==
  ASSUME StreamTyped, NEW windows, NEW l \in Lanes, NEW n \in Nat, done[l] + n <= Len(log[l])
  PROVE  /\ Anomalies(windows, l, n) \in SUBSET Anomaly
         /\ IsFiniteSet(Anomalies(windows, l, n))
         /\ \A a \in Anomalies(windows, l, n) :
              a.record \in done[l] + 1 .. done[l] + n /\ a.gpu = log[l][a.record].at
<1> DEFINE found == Anomalies(windows, l, n)
           records == done[l] + 1 .. done[l] + n
           may == {Finding(x[1], l, x[2]) : x \in {"ecc", "xid"} \X records}
<1>1. done[l] \in Nat /\ Len(log[l]) \in Nat /\ \A m \in records : log[l][m].at \in Gpus
  BY ReportTyped, SMTT(30) DEF StreamTyped, Kept, LaneKept
<1>2. \A a \in found : \E kind \in {"ecc", "xid"}, m \in records : a = Finding(kind, l, m)
  <2> SUFFICES ASSUME NEW a \in found PROVE \E kind \in {"ecc", "xid"}, m \in records : a = Finding(kind, l, m)
    OBVIOUS
  <2>0. a \in Anomalies(windows, l, n) <=>
           \E k \in 1 .. n :
             \/ a = Finding("ecc", l, done[l] + k)
                /\ EccAlarm(Remembered(windows, l, k)[log[l][done[l] + k].at])
             \/ a = Finding("xid", l, done[l] + k) /\ log[l][done[l] + k].xid
    BY AnomaliesAre
  <2>1. PICK k \in 1 .. n : a = Finding("ecc", l, done[l] + k) \/ a = Finding("xid", l, done[l] + k)
    BY <2>0
  <2>2. done[l] + k \in records
    BY <1>1
  <2> QED BY <2>1, <2>2
<1> HIDE DEF found
<1>3. \A a \in found : a \in Anomaly /\ a.record \in records /\ a.gpu = log[l][a.record].at
  BY <1>1, <1>2 DEF Finding, Anomaly
<1>4. IsFiniteSet(may)
  <2> DEFINE pairs == {"ecc", "xid"} \X records
  <2>1. IsFiniteSet(records)
    <3>1. done[l] + 1 \in Int /\ done[l] + n \in Int
      BY <1>1
    <3> QED BY <3>1, FS_Interval
  <2>2. IsFiniteSet({"ecc", "xid"})
    <3>1. {"ecc", "xid"} = ({"ecc"} \cup {"xid"})
      OBVIOUS
    <3>2. IsFiniteSet({"ecc"}) /\ IsFiniteSet({"xid"})
      BY FS_Singleton
    <3> QED BY <3>1, <3>2, FS_Union
  <2>3. IsFiniteSet(pairs)
    BY <2>1, <2>2, FS_Product
  <2> DEFINE f == [x \in pairs |-> Finding(x[1], l, x[2])]
  <2>4. may = {f[x] : x \in pairs}
    OBVIOUS
  <2> HIDE DEF f, pairs, may
  <2> QED BY <2>3, <2>4, ImageIsFinite
<1>5. found \subseteq may
  <2> SUFFICES ASSUME NEW a \in found PROVE a \in may
    OBVIOUS
  <2>0. PICK kind \in {"ecc", "xid"}, m \in records : a = Finding(kind, l, m)
    BY <1>2
  <2>1. <<kind, m>> \in {"ecc", "xid"} \X records
    OBVIOUS
  <2>2. Finding(<<kind, m>>[1], l, <<kind, m>>[2]) \in may
    BY <2>1
  <2> QED BY <2>0, <2>2
<1>6. IsFiniteSet(found)
  <2> HIDE DEF may
  <2> QED BY <1>4, <1>5, FS_Subset
<1> QED BY <1>3, <1>6 DEF found

(* The first record of a group. *)
LEMMA FirstIs ==
  ASSUME NEW g \in SUBSET Anomaly, g # {}
  PROVE  First(g) \in Nat /\ \E a \in g : a.record = First(g)
<1> DEFINE records == {a.record : a \in g}
<1>1. records \in SUBSET Nat /\ records # {}
  BY DEF Anomaly
<1> HIDE DEF records
<1>2. PICK n \in records : \A m \in records : n <= m
  BY <1>1, LeastOf
<1>3. n \in {a.record : a \in g} /\ \A a \in g : n <= a.record
  BY <1>2 DEF records
<1>4. First(g) \in {a.record : a \in g}
  BY <1>3 DEF First
<1> QED BY <1>1, <1>4 DEF records

(* The groups are one for each job, together all that was found. *)
LEMMA ListedGroups ==
  ASSUME NEW found \in SUBSET Anomaly, IsFiniteSet(found), found # {},
         \A a, b \in found : a.record = b.record => JobOf[a.gpu] = JobOf[b.gpu]
  PROVE  /\ Listed(found) \in Seq(SUBSET Anomaly) /\ Listed(found) # <<>>
         /\ \A k \in DOMAIN Listed(found) : Listed(found)[k] # {} /\ Listed(found)[k] \subseteq found
         /\ \A a \in found : \E k \in DOMAIN Listed(found) : a \in Listed(found)[k]
         /\ \A j, k \in DOMAIN Listed(found) : \A a \in Listed(found)[j], b \in Listed(found)[k] :
              JobOf[a.gpu] = JobOf[b.gpu] <=> j = k
<1> DEFINE groups == ByJob(found)
           group(j) == {a \in found : JobOf[a.gpu] = j}
           jobs == {JobOf[a.gpu] : a \in found}
           key == [g \in groups |-> First(g)]
           n == Cardinality(groups)
<1>1. groups = {group(j) : j \in jobs}
  BY DEF ByJob
<1>2. \A g \in groups : /\ g # {} /\ g \subseteq found /\ g \in SUBSET Anomaly
                        /\ \A a \in g : \A b \in found : JobOf[a.gpu] = JobOf[b.gpu] <=> b \in g
  BY <1>1
<1>3. ASSUME NEW a \in found PROVE \E g \in groups : a \in g
  <2>1. JobOf[a.gpu] \in jobs /\ a \in group(JobOf[a.gpu])
    OBVIOUS
  <2> HIDE DEF jobs, group, groups
  <2>2. group(JobOf[a.gpu]) \in groups
    BY <1>1, <2>1
  <2> QED BY <2>1, <2>2
<1>4. IsFiniteSet(groups)
  <2> DEFINE job == [a \in found |-> JobOf[a.gpu]]
             of == [j \in jobs |-> group(j)]
  <2>1. IsFiniteSet({job[a] : a \in found})
    <3> HIDE DEF job
    <3> QED BY ImageIsFinite
  <2>2. jobs = {job[a] : a \in found}
    OBVIOUS
  <2>3. IsFiniteSet(jobs)
    BY <2>1, <2>2
  <2> HIDE DEF jobs, job
  <2>4. IsFiniteSet({of[j] : j \in jobs})
    <3> HIDE DEF of
    <3> QED BY <2>3, ImageIsFinite
  <2>5. groups = {of[j] : j \in jobs}
    BY <1>1
  <2> QED BY <2>4, <2>5
<1> HIDE DEF groups, group, jobs
<1>5. \A g \in groups : First(g) \in Nat /\ \E a \in g : a.record = First(g)
  BY <1>2, FirstIs
<1>6. key \in [groups -> Nat]
  BY <1>5
<1>7. \A g, h \in groups : key[g] = key[h] => g = h
  <2> SUFFICES ASSUME NEW g \in groups, NEW h \in groups, First(g) = First(h) PROVE g = h
    OBVIOUS
  <2>1. PICK a \in g, b \in h : a.record = First(g) /\ b.record = First(h)
    BY <1>5
  <2>2. a \in found /\ b \in found /\ JobOf[a.gpu] = JobOf[b.gpu]
    BY <1>2, <2>1
  <2>3. ASSUME NEW c \in found PROVE c \in g <=> c \in h
    BY <1>2, <2>1, <2>2
  <2>4. g \subseteq found /\ h \subseteq found
    BY <1>2
  <2> QED BY <2>3, <2>4
<1> DEFINE Good(s) == /\ Range(s) = groups
                      /\ \A j, k \in DOMAIN s : j < k => First(s[j]) < First(s[k])
           s == Listed(found)
<1>8. s \in [1 .. n -> groups] /\ Good(s)
  <2>1. PICK t \in [1 .. n -> groups] : Range(t) = groups /\ InOrderOf(key, t)
    <3> HIDE DEF key
    <3> QED BY <1>4, <1>6, <1>7, ListedByKey
  <2>2. Good(t)
    BY <2>1 DEF InOrderOf
  <2>3. s = CHOOSE u \in [1 .. n -> groups] : Good(u)
    BY DEF Listed, groups
  <2> HIDE DEF Good, s
  <2> QED BY <2>2, <2>3
<1> HIDE DEF s, n, key
<1>9. n \in Nat
  BY <1>4, FS_CardinalityType DEF n
<1>10. s \in Seq(SUBSET Anomaly) /\ DOMAIN s = 1 .. n
  <2>1. s \in Seq(groups)
    BY <1>8, <1>9, IsASeq
  <2>2. groups \subseteq SUBSET Anomaly
    BY <1>2
  <2> QED BY <1>8, <2>1, <2>2, SeqMonotonic
<1>11. \A k \in DOMAIN s : s[k] \in groups
  BY <1>8, <1>10
<1>12. \A g \in groups : \E k \in DOMAIN s : s[k] = g
  BY <1>8 DEF Range
<1>13. s # <<>>
  <2>1. PICK a \in found : TRUE
    OBVIOUS
  <2>2. DOMAIN s # {}
    BY <1>3, <1>12, <2>1
  <2> QED BY <2>2
<1>14. \A j, k \in DOMAIN s : s[j] = s[k] => j = k
  <2> SUFFICES ASSUME NEW j \in DOMAIN s, NEW k \in DOMAIN s, s[j] = s[k], j # k PROVE FALSE
    OBVIOUS
  <2>1. j \in Nat /\ k \in Nat
    BY <1>9, <1>10
  <2>2. First(s[j]) \in Nat
    BY <1>5, <1>11
  <2>3. j < k \/ k < j
    BY <2>1
  <2> QED BY <1>8, <2>2, <2>3
<1>15. \A k \in DOMAIN s : s[k] # {} /\ s[k] \subseteq found
  BY <1>2, <1>11
<1>16. \A a \in found : \E k \in DOMAIN s : a \in s[k]
  BY <1>3, <1>12
<1>17. ASSUME NEW j \in DOMAIN s, NEW k \in DOMAIN s, NEW a \in s[j], NEW b \in s[k]
       PROVE  JobOf[a.gpu] = JobOf[b.gpu] <=> j = k
  <2>1. JobOf[a.gpu] = JobOf[b.gpu] <=> b \in s[j]
    BY <1>2, <1>11, <1>15
  <2>2. b \in s[j] => s[j] = s[k]
    <3> SUFFICES ASSUME b \in s[j] PROVE s[j] = s[k]
      OBVIOUS
    <3>1. \A c \in found : (c \in s[j] <=> JobOf[b.gpu] = JobOf[c.gpu])
                           /\ (c \in s[k] <=> JobOf[b.gpu] = JobOf[c.gpu])
      BY <1>2, <1>11
    <3> QED BY <1>15, <3>1
  <2> QED BY <1>14, <2>1, <2>2
<1> QED BY <1>10, <1>13, <1>15, <1>16, <1>17 DEF s

(* A container works through a lane's records up to stop. *)
Read(l, c, stop) ==
  /\ memory' = [memory EXCEPT ![c] = Remembered(memory[c], l, stop - done[l])]
  /\ delivered' = [delivered EXCEPT ![l] =
                     [n \in DOMAIN @ |-> IF n \in done[l] + 1 .. stop THEN @[n] + 1 ELSE @[n]]]

(* There is nothing to start for the batch. *)
Settles(l, end) ==
  /\ \A n \in done[l] + 1 .. end : log[l][n].valid /\ ~log[l][n].xid
  /\ Acknowledge(l, end) /\ UNCHANGED <<host, todo>>

(* There are executions to start for it. *)
Opens(l, c, end, groups) ==
  /\ groups # <<>> /\ Grouped(l, done[l] + 1, end, groups)
  /\ \A n \in done[l] + 1 .. end : log[l][n].valid /\ (log[l][n].xid => Awaited(n, groups))
  /\ \A k \in DOMAIN groups : \A a \in groups[k] : a.kind = "ecc" =>
       \E i \in 1 .. end - done[l] : a.record = done[l] + i /\ EccAlarm(Remembered(memory[c], l, i)[a.gpu])
  /\ host' = [host EXCEPT ![l] = c]
  /\ todo' = [todo EXCEPT ![l] = groups]
  /\ UNCHANGED <<done, tries, dropped>>

(* An invocation reads its batch, and then fails, finds nothing, or has
   executions to start. *)
LEMMA InvokeEffect ==
  ASSUME StreamTyped, NEW l \in Lanes, NEW c \in Containers, NEW end \in Nat, Invoke(l, c, end)
  PROVE  /\ host[l] = None /\ todo[l] = <<>>
         /\ end \in done[l] + 1 .. Len(log[l]) /\ (tries[l] > 0 => end = last[l])
         /\ last' = [last EXCEPT ![l] = end]
         /\ UNCHANGED <<log, started, faults>>
         /\ \E stop \in done[l] .. end :
              /\ Read(l, c, stop)
              /\ \/ GiveBack(l, end) /\ UNCHANGED <<host, todo>>
                 \/ stop = end /\ Settles(l, end)
                 \/ stop = end /\ \E groups \in Seq(SUBSET Anomaly) : Opens(l, c, end, groups)
<1> DEFINE malformed == {n \in done[l] + 1 .. end : ~log[l][n].valid}
           stop == IF malformed = {} THEN end ELSE (CHOOSE n \in malformed : \A m \in malformed : n <= m) - 1
           found == Anomalies(memory[c], l, stop - done[l])
           groups == Listed(found)
<1>1. done[l] \in Nat /\ Len(log[l]) \in Nat
  BY DEF StreamTyped, Kept
<1>2. /\ host[l] = None /\ end \in done[l] + 1 .. Len(log[l]) /\ (tries[l] > 0 => end = last[l])
      /\ last' = [last EXCEPT ![l] = end]
      /\ memory' = [memory EXCEPT ![c] = Remembered(memory[c], l, stop - done[l])]
      /\ delivered' = [delivered EXCEPT ![l] =
                         [n \in DOMAIN @ |-> IF n \in done[l] + 1 .. stop THEN @[n] + 1 ELSE @[n]]]
      /\ UNCHANGED <<log, started, faults>>
  BY DEF Invoke
<1>3. \/ malformed # {} /\ GiveBack(l, end) /\ UNCHANGED <<host, todo>>
      \/ malformed = {} /\ found = {} /\ Acknowledge(l, end) /\ UNCHANGED <<host, todo>>
      \/ malformed = {} /\ found # {} /\ host' = [host EXCEPT ![l] = c]
         /\ todo' = [todo EXCEPT ![l] = groups] /\ UNCHANGED <<done, tries, dropped>>
  BY DEF Invoke
<1>4. todo[l] = <<>>
  BY <1>2 DEF StreamTyped, LaneKept
<1>5. stop \in done[l] .. end /\ (malformed = {} => stop = end)
  <2>1. CASE malformed = {}
    BY <1>1, <1>2, <2>1
  <2>2. CASE malformed # {}
    <3>1. malformed \in SUBSET Nat
      BY <1>1, <1>2
    <3>2. PICK n \in malformed : \A m \in malformed : n <= m
      BY <2>2, <3>1, LeastOf
    <3> DEFINE least == CHOOSE x \in malformed : \A m \in malformed : x <= m
    <3>3. least \in malformed
      BY <3>2
    <3>4. least \in done[l] + 1 .. end /\ stop = least - 1
      BY <2>2, <3>3
    <3> HIDE DEF least, stop
    <3> QED BY <1>1, <1>2, <2>2, <3>4
  <2> QED BY <2>1, <2>2
<1>6. malformed = {} => \A n \in done[l] + 1 .. end : log[l][n].valid
  OBVIOUS
<1> HIDE DEF malformed, stop
<1> DEFINE size == stop - done[l]
<1>7. size \in Nat /\ done[l] + size = stop /\ stop <= Len(log[l])
  BY <1>1, <1>2, <1>5
<1> HIDE DEF size
<1>8. /\ found \in SUBSET Anomaly /\ IsFiniteSet(found)
      /\ \A a \in found : a.record \in done[l] + 1 .. stop /\ a.gpu = log[l][a.record].at
  BY <1>7, FoundTyped DEF size
<1>9. \A a \in found : \E i \in 1 .. size : a.record = done[l] + i
        /\ (a.kind = "ecc" => EccAlarm(Remembered(memory[c], l, i)[a.gpu]))
  <2> SUFFICES ASSUME NEW a \in found
               PROVE  \E i \in 1 .. size : a.record = done[l] + i
                        /\ (a.kind = "ecc" => EccAlarm(Remembered(memory[c], l, i)[a.gpu]))
    OBVIOUS
  <2>1. a \in Anomalies(memory[c], l, size) <=>
          \E k \in 1 .. size :
             \/ a = Finding("ecc", l, done[l] + k)
                /\ EccAlarm(Remembered(memory[c], l, k)[log[l][done[l] + k].at])
             \/ a = Finding("xid", l, done[l] + k) /\ log[l][done[l] + k].xid
    BY <1>7, AnomaliesAre
  <2>2. PICK k \in 1 .. size :
             \/ a = Finding("ecc", l, done[l] + k)
                /\ EccAlarm(Remembered(memory[c], l, k)[log[l][done[l] + k].at])
             \/ a = Finding("xid", l, done[l] + k) /\ log[l][done[l] + k].xid
    BY <2>1 DEF size
  <2>3. a.record = done[l] + k /\ a.gpu = log[l][done[l] + k].at
    BY <2>2 DEF Finding
  <2>4. a.kind = "ecc" => EccAlarm(Remembered(memory[c], l, k)[log[l][done[l] + k].at])
    BY <2>2 DEF Finding
  <2> QED BY <2>3, <2>4
<1>10. \A n \in done[l] + 1 .. stop : log[l][n].xid => \E a \in found : a.kind = "xid" /\ a.record = n
  <2> SUFFICES ASSUME NEW n \in done[l] + 1 .. stop, log[l][n].xid
               PROVE  \E a \in found : a.kind = "xid" /\ a.record = n
    OBVIOUS
  <2> DEFINE k == n - done[l]
             a == Finding("xid", l, done[l] + k)
  <2>1. k \in 1 .. size /\ done[l] + k = n
    BY <1>1, <1>7
  <2>2. a \in Anomalies(memory[c], l, size)
    <3>1. log[l][done[l] + k].xid
      BY <2>1
    <3> HIDE DEF k
    <3> QED BY <1>7, <2>1, <3>1, AnomaliesAre
  <2>3. a \in found /\ a.kind = "xid" /\ a.record = n
    BY <2>1, <2>2 DEF Finding, size
  <2> QED BY <2>3
<1> HIDE DEF found
<1>11. found # {} => /\ groups \in Seq(SUBSET Anomaly) /\ groups # <<>>
                     /\ \A k \in DOMAIN groups : groups[k] # {} /\ groups[k] \subseteq found
                     /\ \A a \in found : \E k \in DOMAIN groups : a \in groups[k]
                     /\ \A j, k \in DOMAIN groups : \A a \in groups[j], b \in groups[k] :
                           JobOf[a.gpu] = JobOf[b.gpu] <=> j = k
  <2>1. \A a, b \in found : a.record = b.record => JobOf[a.gpu] = JobOf[b.gpu]
    BY <1>8
  <2> QED BY <1>8, <2>1, ListedGroups
<1> HIDE DEF groups
<1>12. found # {} => /\ Grouped(l, done[l] + 1, stop, groups)
                     /\ \A n \in done[l] + 1 .. stop : log[l][n].xid => Awaited(n, groups)
                     /\ \A k \in DOMAIN groups : \A a \in groups[k] : a.kind = "ecc" =>
                          \E i \in 1 .. size : a.record = done[l] + i
                            /\ EccAlarm(Remembered(memory[c], l, i)[a.gpu])
  <2> SUFFICES ASSUME found # {} 
               PROVE /\ Grouped(l, done[l] + 1, stop, groups)
                     /\ \A n \in done[l] + 1 .. stop : log[l][n].xid => Awaited(n, groups)
                     /\ \A k \in DOMAIN groups : \A a \in groups[k] : a.kind = "ecc" =>
                          \E i \in 1 .. size : a.record = done[l] + i
                            /\ EccAlarm(Remembered(memory[c], l, i)[a.gpu])
    OBVIOUS
  <2>1. Grouped(l, done[l] + 1, stop, groups)
    BY <1>8, <1>11 DEF Grouped
  <2>2. ASSUME NEW n \in done[l] + 1 .. stop, log[l][n].xid PROVE Awaited(n, groups)
    <3>1. PICK a \in found : a.kind = "xid" /\ a.record = n
      BY <1>10, <2>2
    <3>2. PICK k \in DOMAIN groups : a \in groups[k]
      BY <1>11
    <3> QED BY <3>1, <3>2 DEF Awaited
  <2>3. ASSUME NEW k \in DOMAIN groups, NEW a \in groups[k], a.kind = "ecc"
        PROVE  \E i \in 1 .. size : a.record = done[l] + i
                            /\ EccAlarm(Remembered(memory[c], l, i)[a.gpu])
    BY <1>9, <1>11, <2>3
  <2> QED BY <2>1, <2>2, <2>3
<1>13. Read(l, c, stop)
  BY <1>2 DEF Read
<1>14. CASE malformed # {}
  BY <1>2, <1>3, <1>4, <1>5, <1>13, <1>14
<1>15. CASE malformed = {} /\ found = {}
  <2>1. Settles(l, end)
    BY <1>3, <1>5, <1>6, <1>10, <1>15 DEF Settles
  <2> QED BY <1>2, <1>4, <1>5, <1>13, <1>15, <2>1
<1>16. CASE malformed = {} /\ found # {}
  <2>1. stop = end /\ size = end - done[l]
    BY <1>5, <1>16 DEF size
  <2>2. Opens(l, c, end, groups)
    BY <1>3, <1>6, <1>11, <1>12, <1>16, <2>1 DEF Opens
  <2> QED BY <1>2, <1>4, <1>5, <1>11, <1>13, <1>16, <2>1, <2>2
<1> QED BY <1>14, <1>15, <1>16

-----------------------------------------------------------------------------
(* The types are kept *)

(* A lane that a step leaves alone. *)
LEMMA LaneStays ==
  ASSUME NEW k, LaneKept(k), UNCHANGED <<log[k], done[k], last[k], host[k], delivered[k], dropped[k]>>,
         UNCHANGED <<todo[k], tries[k]>>
  PROVE  LaneKept(k)'
BY DEF LaneKept

(* The end of a delivery moves the lane to the end of its batch, or leaves it
   where it was, or counts a try. *)
LEMMA DeliveryEnds ==
  ASSUME StreamTyped, NEW l \in Lanes, NEW end \in done[l] + 1 .. Len(log[l]),
         GiveBack(l, end) \/ Acknowledge(l, end)
  PROVE  /\ done' \in [Lanes -> Nat] /\ tries' \in [Lanes -> 0 .. RetryAttempts]
         /\ dropped' \in [Lanes -> SUBSET Nat]
         /\ \A k \in Lanes \ {l} : done'[k] = done[k] /\ tries'[k] = tries[k] /\ dropped'[k] = dropped[k]
         /\ dropped[l] \subseteq dropped'[l] /\ dropped'[l] \subseteq 1 .. done'[l]
         /\ \/ done'[l] = end /\ tries'[l] = 0
            \/ done'[l] = done[l] /\ tries'[l] = tries[l] + 1
<1>1. /\ done \in [Lanes -> Nat] /\ tries \in [Lanes -> 0 .. RetryAttempts]
      /\ dropped \in [Lanes -> SUBSET Nat] /\ dropped[l] \subseteq 1 .. done[l]
      /\ RetryAttempts \in Nat /\ Len(log[l]) \in Nat /\ end \in Nat /\ done[l] < end
  <2>1. RetryAttempts \in Nat
    BY DeliveryAssumption
  <2>2. /\ done \in [Lanes -> Nat] /\ tries \in [Lanes -> 0 .. RetryAttempts]
        /\ dropped \in [Lanes -> SUBSET Nat] /\ log[l] \in Seq(Reports)
    BY DEF StreamTyped, Kept
  <2>3. dropped[l] \subseteq 1 .. done[l]
    BY DEF StreamTyped, LaneKept
  <2>4. done[l] \in Nat /\ Len(log[l]) \in Nat
    BY <2>2
  <2> QED BY <2>1, <2>2, <2>3, <2>4
<1>2. CASE Acknowledge(l, end)
  BY <1>1, <1>2 DEF Acknowledge
<1>3. CASE GiveBack(l, end) /\ tries[l] < RetryAttempts
  BY <1>1, <1>3 DEF GiveBack
<1>4. CASE GiveBack(l, end) /\ ~(tries[l] < RetryAttempts)
  <2>1. dropped' = [dropped EXCEPT ![l] = @ \cup (done[l] + 1 .. end)]
    BY <1>4 DEF GiveBack
  <2>2. dropped' \in [Lanes -> SUBSET Nat] /\ dropped'[l] = dropped[l] \cup (done[l] + 1 .. end)
    BY <1>1, <2>1
  <2>3. done' = [done EXCEPT ![l] = end] /\ tries' = [tries EXCEPT ![l] = 0]
    BY <1>4 DEF GiveBack
  <2> QED BY <1>1, <2>1, <2>2, <2>3
<1> QED BY <1>2, <1>3, <1>4

LEMMA IngestTyped == ASSUME StreamTyped, NEW report \in Reports, Ingest(report) PROVE StreamTyped'
<1> DEFINE l == LaneOf[report.at]
<1>1. l \in Lanes
  BY ReportTyped
<1>2. /\ log' = [log EXCEPT ![l] = Append(@, report)] /\ delivered' = [delivered EXCEPT ![l] = Append(@, 0)]
      /\ UNCHANGED <<done, last, tries, host, todo, memory, dropped, started, faults>>
  BY DEF Ingest
<1> HIDE DEF l
<1>3. Kept'
  BY <1>1, <1>2, SMTT(30) DEF StreamTyped, Kept
<1>4. ASSUME NEW k \in Lanes, k # l PROVE LaneKept(k)'
  BY <1>1, <1>2, <1>4, LaneStays DEF StreamTyped, Kept
<1>5. LaneKept(l)'
  <2>1. log[l] \in Seq(Reports) /\ delivered[l] \in Seq(Nat) /\ log'[l] = Append(log[l], report)
        /\ delivered'[l] = Append(delivered[l], 0) /\ last[l] \in Nat
    BY <1>1, <1>2 DEF StreamTyped, Kept
  <2>2. Len(log'[l]) = Len(log[l]) + 1 /\ Len(delivered'[l]) = Len(delivered[l]) + 1
    BY <2>1
  <2>3. \A n \in DOMAIN log'[l] : LaneOf[log'[l][n].at] = l
    <3>1. ASSUME NEW n \in DOMAIN log'[l] PROVE LaneOf[log'[l][n].at] = l
      <4>1. \/ n \in DOMAIN log[l] /\ log'[l][n] = log[l][n]
            \/ log'[l][n] = report
        BY <2>1
      <4> QED BY <1>1, <4>1 DEF StreamTyped, LaneKept, l
    <3> QED BY <3>1
  <2> QED BY <1>1, <1>2, <2>1, <2>2, <2>3 DEF StreamTyped, LaneKept
<1> QED BY <1>3, <1>4, <1>5 DEF StreamTyped

LEMMA RecycleTyped == ASSUME StreamTyped, NEW c \in Containers, Recycle(c) PROVE StreamTyped'
<1>1. Cold \in [Gpus -> Windows]
  BY WindowAssumption DEF Cold, Windows
<1>2. Kept'
  BY <1>1 DEF Recycle, StreamTyped, Kept
<1>3. ASSUME NEW k \in Lanes PROVE LaneKept(k)'
  BY LaneStays DEF Recycle, StreamTyped
<1> QED BY <1>2, <1>3 DEF StreamTyped

LEMMA InvokeTyped ==
  ASSUME StreamTyped, NEW l \in Lanes, NEW c \in Containers, NEW end \in Nat, Invoke(l, c, end)
  PROVE  StreamTyped'
<1>1. /\ host[l] = None /\ todo[l] = <<>>
      /\ end \in done[l] + 1 .. Len(log[l]) /\ (tries[l] > 0 => end = last[l])
      /\ last' = [last EXCEPT ![l] = end]
      /\ UNCHANGED <<log, started, faults>>
  BY InvokeEffect
<1>2. PICK stop \in done[l] .. end :
        /\ Read(l, c, stop)
        /\ \/ GiveBack(l, end) /\ UNCHANGED <<host, todo>>
           \/ stop = end /\ Settles(l, end)
           \/ stop = end /\ \E groups \in Seq(SUBSET Anomaly) : Opens(l, c, end, groups)
  BY InvokeEffect
<1>3. done[l] \in Nat /\ Len(log[l]) \in Nat /\ stop - done[l] \in Nat /\ stop <= Len(log[l]) /\ stop \in Nat
  BY <1>1, <1>2 DEF StreamTyped, Kept
<1>4. memory' \in [Containers -> [Gpus -> Windows]]
  <2>1. memory[c] \in [Gpus -> Windows] /\ memory \in [Containers -> [Gpus -> Windows]]
    BY DEF StreamTyped, Kept
  <2> DEFINE size == stop - done[l]
  <2>2. size \in Nat /\ done[l] + size <= Len(log[l]) /\ size \in 0 .. size
    BY <1>3
  <2> HIDE DEF size
  <2>3. Remembered(memory[c], l, size) \in [Gpus -> Windows]
    BY <2>1, <2>2, RememberedSteps
  <2> QED BY <1>2, <2>1, <2>3 DEF size, Read
<1>5. /\ delivered' \in [Lanes -> Seq(Nat)] /\ Len(delivered'[l]) = Len(log[l])
      /\ \A k \in Lanes \ {l} : delivered'[k] = delivered[k]
  <2> DEFINE more == [n \in DOMAIN delivered[l] |->
                        IF n \in done[l] + 1 .. stop THEN delivered[l][n] + 1 ELSE delivered[l][n]]
  <2>1. delivered \in [Lanes -> Seq(Nat)] /\ delivered[l] \in Seq(Nat) /\ Len(delivered[l]) = Len(log[l])
    BY DEF StreamTyped, Kept, LaneKept
  <2>2. delivered' = [delivered EXCEPT ![l] = more]
    BY <1>2 DEF Read
  <2>3. more \in [1 .. Len(log[l]) -> Nat]
    BY <2>1
  <2> HIDE DEF more
  <2>4. more \in Seq(Nat) /\ Len(more) = Len(log[l])
    BY <1>3, <2>3
  <2> QED BY <2>1, <2>2, <2>4
<1>6. /\ todo' \in [Lanes -> Seq(SUBSET Anomaly)] /\ host' \in [Lanes -> Containers \cup {None}]
      /\ \A k \in Lanes \ {l} : todo'[k] = todo[k] /\ host'[k] = host[k]
      /\ todo'[l] # <<>> <=> host'[l] # None
      /\ todo'[l] # <<>> => UNCHANGED <<done, tries, dropped>>
  <2>1. CASE UNCHANGED <<host, todo>>
    BY <1>1, <2>1 DEF StreamTyped, Kept
  <2>2. CASE \E groups \in Seq(SUBSET Anomaly) : Opens(l, c, end, groups)
    <3>1. PICK groups \in Seq(SUBSET Anomaly) :
            /\ groups # <<>> /\ host' = [host EXCEPT ![l] = c] /\ todo' = [todo EXCEPT ![l] = groups]
            /\ UNCHANGED <<done, tries, dropped>>
      BY <2>2 DEF Opens
    <3>2. c # None
      BY DeliveryAssumption
    <3> QED BY <1>1, <3>1, <3>2 DEF StreamTyped, Kept
  <2> QED BY <1>2, <2>1, <2>2 DEF Settles
<1>7. /\ done' \in [Lanes -> Nat] /\ tries' \in [Lanes -> 0 .. RetryAttempts]
      /\ dropped' \in [Lanes -> SUBSET Nat]
      /\ \A k \in Lanes \ {l} : done'[k] = done[k] /\ tries'[k] = tries[k] /\ dropped'[k] = dropped[k]
      /\ dropped'[l] \subseteq 1 .. done'[l]
      /\ \/ done'[l] = end /\ tries'[l] = 0 /\ todo'[l] = <<>>
         \/ done'[l] = done[l]
  <2>1. CASE (GiveBack(l, end) \/ Acknowledge(l, end)) /\ UNCHANGED <<host, todo>>
    BY <1>1, <2>1, DeliveryEnds
  <2>2. CASE UNCHANGED <<done, tries, dropped>>
    BY <2>2 DEF StreamTyped, Kept, LaneKept
  <2> QED BY <1>2, <2>1, <2>2 DEF Settles, Opens
<1>8. Kept'
  BY <1>1, <1>4, <1>5, <1>6, <1>7 DEF StreamTyped, Kept
<1>9. ASSUME NEW k \in Lanes \ {l} PROVE LaneKept(k)'
  BY <1>1, <1>5, <1>6, <1>7, LaneStays DEF StreamTyped, Kept
<1>10. LaneKept(l)'
  <2>1. last'[l] = end
    BY <1>1 DEF StreamTyped, Kept
  <2> QED BY <1>1, <1>3, <1>5, <1>6, <1>7, <2>1, SMTT(30) DEF StreamTyped, LaneKept
<1> QED BY <1>8, <1>9, <1>10 DEF StreamTyped

(* The execution that starts next. *)
Execution(l) == [lane |-> l, first |-> done[l] + 1, last |-> last[l], try |-> tries[l], anomalies |-> Head(todo[l])]

LEMMA StartsOne ==
  ASSUME StreamTyped, NEW l \in Lanes, todo[l] # <<>>
  PROVE  /\ Execution(l) \in Order /\ Started(l) = Append(started, Execution(l))
         /\ Started(l) \in Seq(Order) /\ Len(Started(l)) = Len(started) + 1
         /\ Tail(todo[l]) \in Seq(SUBSET Anomaly) /\ Len(Tail(todo[l])) = Len(todo[l]) - 1
         /\ Len(todo[l]) \in Nat \ {0} /\ Head(todo[l]) = todo[l][1] /\ 1 \in DOMAIN todo[l]
         /\ \A k \in DOMAIN Tail(todo[l]) : k + 1 \in DOMAIN todo[l] /\ Tail(todo[l])[k] = todo[l][k + 1]
         /\ done[l] < last[l] /\ last[l] <= Len(log[l]) /\ host[l] # None
         /\ Len(todo[l]) > 1 => Tail(todo[l]) # <<>>
<1>1. todo[l] \in Seq(SUBSET Anomaly) /\ done[l] \in Nat /\ last[l] \in Nat /\ tries[l] \in Nat
  BY DeliveryAssumption DEF StreamTyped, Kept
<1>2. /\ Head(todo[l]) \in SUBSET Anomaly /\ Tail(todo[l]) \in Seq(SUBSET Anomaly)
      /\ Len(Tail(todo[l])) = Len(todo[l]) - 1 /\ Len(todo[l]) \in Nat \ {0} /\ Head(todo[l]) = todo[l][1]
  BY <1>1, HeadTailProperties, EmptySeq
<1>3. \A k \in DOMAIN Tail(todo[l]) : k + 1 \in DOMAIN todo[l] /\ Tail(todo[l])[k] = todo[l][k + 1]
  BY <1>1, <1>2
<1>4. Execution(l) \in Order
  BY <1>1, <1>2 DEF Execution, Order
<1>5. Started(l) = Append(started, Execution(l))
  BY DEF Started, Execution
<1>6. Append(started, Execution(l)) \in Seq(Order) /\ Len(Append(started, Execution(l))) = Len(started) + 1
  <2> HIDE DEF Execution
  <2> QED BY <1>4, AppendProperties DEF StreamTyped, Kept
<1>7. done[l] < last[l] /\ last[l] <= Len(log[l]) /\ host[l] # None
  BY DEF StreamTyped, LaneKept
<1>8. Len(todo[l]) > 1 => Tail(todo[l]) # <<>>
  <2> DEFINE rest == Tail(todo[l])
             m == Len(todo[l])
  <2>1. Len(rest) = m - 1 /\ m \in Nat
    BY <1>2
  <2>2. Len(<<>>) = 0
    OBVIOUS
  <2> HIDE DEF rest, m
  <2>3. m > 1 => rest # <<>>
    BY <2>1, <2>2
  <2> QED BY <2>3 DEF rest, m
<1> QED BY <1>1, <1>2, <1>3, <1>4, <1>5, <1>6, <1>7, <1>8

(* An invocation that leaves is over. *)
LEMMA LeaveTyped ==
  ASSUME StreamTyped, NEW l \in Lanes, host[l] # None, Leave(l),
         GiveBack(l, last[l]) \/ Acknowledge(l, last[l]), UNCHANGED <<log, last, delivered>>,
         memory' \in [Containers -> [Gpus -> Windows]],
         started' \in Seq(Order), Len(started') <= MaxExecutions, faults' \in 0 .. MaxFaults
  PROVE  StreamTyped'
<1>1. last[l] \in done[l] + 1 .. Len(log[l]) /\ last[l] \in Nat /\ done[l] \in Nat
  <2>1. done[l] < last[l] /\ last[l] <= Len(log[l])
    BY DEF StreamTyped, LaneKept
  <2> QED BY <2>1 DEF StreamTyped, Kept
<1>2. /\ done' \in [Lanes -> Nat] /\ tries' \in [Lanes -> 0 .. RetryAttempts]
      /\ dropped' \in [Lanes -> SUBSET Nat]
      /\ \A k \in Lanes \ {l} : done'[k] = done[k] /\ tries'[k] = tries[k] /\ dropped'[k] = dropped[k]
      /\ dropped'[l] \subseteq 1 .. done'[l]
      /\ \/ done'[l] = last[l] /\ tries'[l] = 0
         \/ done'[l] = done[l]
  BY <1>1, DeliveryEnds
<1>3. /\ host' \in [Lanes -> Containers \cup {None}] /\ todo' \in [Lanes -> Seq(SUBSET Anomaly)]
      /\ \A k \in Lanes \ {l} : host'[k] = host[k] /\ todo'[k] = todo[k]
      /\ host'[l] = None /\ todo'[l] = <<>>
  <2>1. host \in [Lanes -> Containers \cup {None}] /\ todo \in [Lanes -> Seq(SUBSET Anomaly)]
        /\ host' = [host EXCEPT ![l] = None] /\ todo' = [todo EXCEPT ![l] = <<>>]
    BY DEF Leave, StreamTyped, Kept
  <2>2. <<>> \in Seq(SUBSET Anomaly)
    BY EmptySeq
  <2> DEFINE nil == <<>>
  <2> HIDE DEF nil
  <2>3. todo' = [todo EXCEPT ![l] = nil] /\ nil \in Seq(SUBSET Anomaly)
    BY <2>1, <2>2 DEF nil
  <2>4. todo' \in [Lanes -> Seq(SUBSET Anomaly)] /\ todo'[l] = nil /\ \A k \in Lanes \ {l} : todo'[k] = todo[k]
    BY <2>1, <2>3
  <2>5. host' \in [Lanes -> Containers \cup {None}] /\ host'[l] = None /\ \A k \in Lanes \ {l} : host'[k] = host[k]
    BY <2>1
  <2> QED BY <2>4, <2>5 DEF nil
<1>4. Kept'
  BY <1>2, <1>3 DEF StreamTyped, Kept
<1>5. ASSUME NEW k \in Lanes \ {l} PROVE LaneKept(k)'
  BY <1>2, <1>3, LaneStays DEF StreamTyped
<1>6. LaneKept(l)'
  BY <1>1, <1>2, <1>3 DEF StreamTyped, LaneKept
<1> QED BY <1>4, <1>5, <1>6 DEF StreamTyped

(* A fault is counted within its bound. *)
LEMMA FaultCounted ==
  ASSUME StreamTyped, \/ faults < MaxFaults /\ faults' = faults + 1
                      \/ UNCHANGED faults
  PROVE  faults' \in 0 .. MaxFaults /\ faults <= faults' /\ faults \in Nat
<1>1. MaxFaults \in Nat /\ faults \in 0 .. MaxFaults
  BY DeliveryAssumption DEF StreamTyped, Kept
<1> QED BY <1>1

LEMMA StartFailsTyped == ASSUME StreamTyped, NEW l \in Lanes, StartFails(l) PROVE StreamTyped'
<1>1. host[l] # None
  BY DEF StartFails, StreamTyped, LaneKept
<1>2. faults' \in 0 .. MaxFaults
  BY FaultCounted DEF StartFails
<1> QED BY <1>1, <1>2, LeaveTyped DEF StartFails, StreamTyped, Kept

LEMMA DieTyped == ASSUME StreamTyped, NEW l \in Lanes, Die(l) PROVE StreamTyped'
<1>1. faults' \in 0 .. MaxFaults
  BY FaultCounted DEF Die
<1>2. memory' \in [Containers -> [Gpus -> Windows]]
  <2>1. Cold \in [Gpus -> Windows]
    BY WindowAssumption DEF Cold, Windows
  <2>2. memory \in [Containers -> [Gpus -> Windows]] /\ memory' = [memory EXCEPT ![host[l]] = Cold]
    BY DEF Die, StreamTyped, Kept
  <2> QED BY <2>1, <2>2
<1> QED BY <1>1, <1>2, LeaveTyped DEF Die, StreamTyped, Kept

(* An execution starts, and its lane keeps what is left to start. *)
LEMMA GoesOnTyped ==
  ASSUME StreamTyped, NEW l \in Lanes, todo[l] # <<>>, Len(started) < MaxExecutions, started' = Started(l),
         NEW groups \in Seq(SUBSET Anomaly), groups # <<>>, todo' = [todo EXCEPT ![l] = groups],
         faults' \in 0 .. MaxFaults, UNCHANGED <<log, done, last, tries, host, memory, delivered, dropped>>
  PROVE  StreamTyped'
<1>1. Started(l) \in Seq(Order) /\ Len(Started(l)) = Len(started) + 1
  BY StartsOne
<1>2. Len(started') <= MaxExecutions
  BY <1>1, DeliveryAssumption DEF StreamTyped, Kept
<1>3. Kept'
  BY <1>1, <1>2 DEF StreamTyped, Kept
<1>4. ASSUME NEW k \in Lanes \ {l} PROVE LaneKept(k)'
  BY LaneStays DEF StreamTyped, Kept
<1>5. LaneKept(l)'
  BY DEF StreamTyped, Kept, LaneKept
<1> QED BY <1>3, <1>4, <1>5 DEF StreamTyped

LEMMA StartExecutionTyped == ASSUME StreamTyped, NEW l \in Lanes, StartExecution(l) PROVE StreamTyped'
<1>1. todo[l] # <<>> /\ Len(started) < MaxExecutions /\ started' = Started(l)
      /\ UNCHANGED <<log, last, memory, delivered, faults>>
  BY DEF StartExecution
<1>2. /\ Started(l) \in Seq(Order) /\ Len(Started(l)) = Len(started) + 1 /\ host[l] # None
      /\ Tail(todo[l]) \in Seq(SUBSET Anomaly) /\ Len(Tail(todo[l])) = Len(todo[l]) - 1
  BY <1>1, StartsOne
<1>3. memory' \in [Containers -> [Gpus -> Windows]] /\ faults' \in 0 .. MaxFaults /\ started \in Seq(Order)
  BY <1>1 DEF StreamTyped, Kept
<1>4. Len(started') <= MaxExecutions
  BY <1>1, <1>2, <1>3, DeliveryAssumption
<1>5. CASE Len(todo[l]) > 1
  <2>1. todo' = [todo EXCEPT ![l] = Tail(todo[l])] /\ UNCHANGED <<done, tries, dropped, host>>
    BY <1>5 DEF StartExecution
  <2>2. Tail(todo[l]) # <<>>
    BY <1>1, <1>5, StartsOne
  <2> QED BY <1>1, <1>2, <1>3, <2>1, <2>2, GoesOnTyped
<1>6. CASE ~(Len(todo[l]) > 1)
  <2>1. Leave(l) /\ Acknowledge(l, last[l])
    BY <1>6 DEF StartExecution
  <2> QED BY <1>1, <1>2, <1>3, <1>4, <2>1, LeaveTyped
<1> QED BY <1>5, <1>6

LEMMA StartUnansweredTyped == ASSUME StreamTyped, NEW l \in Lanes, StartUnanswered(l) PROVE StreamTyped'
<1>1. todo[l] # <<>> /\ Len(started) < MaxExecutions /\ started' = Started(l)
      /\ UNCHANGED <<log, last, memory, delivered>>
  BY DEF StartUnanswered
<1>2. Started(l) \in Seq(Order) /\ Len(Started(l)) = Len(started) + 1 /\ host[l] # None
  BY <1>1, StartsOne
<1>3. /\ memory' \in [Containers -> [Gpus -> Windows]] /\ started \in Seq(Order)
      /\ todo \in [Lanes -> Seq(SUBSET Anomaly)]
  BY <1>1 DEF StreamTyped, Kept
<1>4. faults' \in 0 .. MaxFaults
  BY FaultCounted DEF StartUnanswered
<1>5. Len(started') <= MaxExecutions
  BY <1>1, <1>2, <1>3, DeliveryAssumption
<1>6. CASE UNCHANGED <<done, tries, dropped, host, todo>>
  <2>1. todo' = [todo EXCEPT ![l] = todo[l]] /\ todo[l] \in Seq(SUBSET Anomaly)
    BY <1>3, <1>6
  <2> QED BY <1>1, <1>4, <1>6, <2>1, GoesOnTyped
<1>7. CASE Leave(l) /\ GiveBack(l, last[l])
  BY <1>1, <1>2, <1>3, <1>4, <1>5, <1>7, LeaveTyped
<1> QED BY <1>6, <1>7 DEF StartUnanswered

(* A step of the pipeline, as the stream processor sees it. *)
Delivering ==
  \/ \E report \in Reports : Ingest(report)
  \/ \E c \in Containers : Recycle(c)
  \/ \E l \in Lanes, c \in Containers, end \in Nat : Invoke(l, c, end)
  \/ \E l \in Lanes : StartFails(l) \/ Die(l) \/ StartExecution(l) \/ StartUnanswered(l)
  \/ UNCHANGED deliveryVars

LEMMA PipelineDelivers == ASSUME [Next]_vars PROVE Delivering
<1>1. CASE UNCHANGED vars
  BY <1>1 DEF vars, Delivering
<1>2. ASSUME NEW report \in Reports, Post(report) PROVE Delivering
  BY <1>2 DEF Post, Delivering
<1>3. ASSUME NEW c \in Containers, Replace(c) PROVE Delivering
  BY <1>3 DEF Replace, Delivering
<1>4. ASSUME NEW l \in Lanes, LaneStep(l) PROVE Delivering
  <2>1. ASSUME NEW c \in Containers, NEW end \in 1 .. Len(log[l]), Invoke(l, c, end) PROVE Delivering
    <3>1. end \in Nat
      OBVIOUS
    <3> QED BY <2>1, <3>1 DEF Delivering
  <2> QED BY <1>4, <2>1 DEF LaneStep, Deliver, Start, Delivering
<1>5. CASE WorkflowStep
  BY <1>5 DEF WorkflowStep, Delivering
<1> QED BY <1>1, <1>2, <1>3, <1>4, <1>5 DEF Next

LEMMA StreamTypedInit == ASSUME Init PROVE StreamTyped
<1>1. Cold \in [Gpus -> Windows]
  BY WindowAssumption DEF Cold, Windows
<1>2. Kept
  BY <1>1, DeliveryAssumption DEF Init, DeliveryInit, Kept
<1>3. ASSUME NEW l \in Lanes PROVE LaneKept(l)
  BY DEF Init, DeliveryInit, LaneKept
<1> QED BY <1>2, <1>3 DEF StreamTyped

LEMMA StreamTypedStep == ASSUME StreamTyped, Delivering PROVE StreamTyped'
<1>1. CASE UNCHANGED deliveryVars
  BY <1>1 DEF deliveryVars, StreamTyped, Kept, LaneKept
<1> QED BY <1>1, IngestTyped, RecycleTyped, InvokeTyped, StartFailsTyped, DieTyped, StartExecutionTyped,
           StartUnansweredTyped DEF Delivering

-----------------------------------------------------------------------------
(* What is acknowledged was started *)

(* An execution that is given the XID report at position n. *)
Gets(e, l, n) == e.lane = l /\ \E a \in e.anomalies : a.kind = "xid" /\ a.record = n

(* An execution that starts is the last one. *)
LEMMA HandedTo ==
  ASSUME started \in Seq(Order), NEW order \in Order, started' = Append(started, order), NEW l, NEW n
  PROVE  Handed(l, n, "xid")' =
           Handed(l, n, "xid") \cup
             {x \in {Len(started) + 1} : Gets(order, l, n)}
<1>1. DOMAIN started' = DOMAIN started \cup {Len(started) + 1} /\ Len(started) + 1 \notin DOMAIN started
  OBVIOUS
<1>2. started'[Len(started) + 1] = order /\ \A x \in DOMAIN started : started'[x] = started[x]
  OBVIOUS
<1> DEFINE now == Len(started) + 1
           more == {x \in {now} : Gets(order, l, n)}
           had == Handed(l, n, "xid")
           has == Handed(l, n, "xid")'
<1>3. has = {x \in DOMAIN started' : Gets(started'[x], l, n)}
  BY DEF Handed, Gets
<1>4. had = {x \in DOMAIN started : Gets(started[x], l, n)}
  BY DEF Handed, Gets
<1>5. more = {x \in {now} : Gets(order, l, n)}
  OBVIOUS
<1> HIDE DEF more, had, has, now
<1>6. ASSUME NEW x PROVE x \in has <=> x \in had \/ x \in more
  BY <1>1, <1>2, <1>3, <1>4, <1>5 DEF now
<1>7. has = had \cup more
  BY <1>6
<1> QED BY <1>7 DEF more, had, has, now

LEMMA HandedGrows ==
  ASSUME StreamTyped, NEW m \in Lanes, NEW l, NEW n,
         \/ UNCHANGED started
         \/ started' = Started(m) /\ todo[m] # <<>>
  PROVE  Handed(l, n, "xid") \subseteq Handed(l, n, "xid")'
<1>1. CASE UNCHANGED started
  BY <1>1 DEF Handed
<1>2. CASE started' = Started(m) /\ todo[m] # <<>>
  <2>1. Execution(m) \in Order /\ started' = Append(started, Execution(m)) /\ started \in Seq(Order)
    BY <1>2, StartsOne DEF StreamTyped, Kept
  <2> QED BY <2>1, HandedTo
<1> QED BY <1>1, <1>2

(* A lane whose delivery stands where it stood. *)
LEMMA BatchStays ==
  ASSUME StreamTyped, NEW k \in Lanes, BatchKept(k), Acknowledged(k),
         UNCHANGED <<done[k], last[k], todo[k], dropped[k]>>,
         \A n \in 1 .. last[k] : log'[k][n] = log[k][n],
         \A n \in Nat : Handed(k, n, "xid") \subseteq Handed(k, n, "xid")'
  PROVE  BatchKept(k)' /\ Acknowledged(k)'
<1>1. done[k] \in Nat /\ last[k] \in Nat /\ done[k] <= last[k]
  BY DEF StreamTyped, Kept, LaneKept
<1>2. Grouped(k, done[k] + 1, last[k], todo[k])'
  <2>1. \A x \in done[k] + 1 .. last[k] : log'[k][x] = log[k][x]
    BY <1>1
  <2> QED BY <2>1 DEF BatchKept, Grouped
<1>3. ASSUME todo[k] # <<>>, NEW n \in done[k] + 1 .. last[k]
      PROVE  /\ log'[k][n].valid
             /\ (log'[k][n].xid => Handed(k, n, "xid")' # {} \/ Awaited(n, todo[k]))
  <2>1. n \in Nat /\ log'[k][n] = log[k][n] /\ Handed(k, n, "xid") \subseteq Handed(k, n, "xid")'
    BY <1>1, <1>3
  <2>2. log[k][n].valid /\ (log[k][n].xid => Handed(k, n, "xid") # {} \/ Awaited(n, todo[k]))
    BY <1>3 DEF BatchKept
  <2> QED BY <2>1, <2>2
<1>4. ASSUME NEW n \in 1 .. done[k], log'[k][n].xid, log'[k][n].valid, n \notin dropped[k]
      PROVE  Handed(k, n, "xid")' # {}
  <2>1. n \in Nat /\ log'[k][n] = log[k][n] /\ Handed(k, n, "xid") \subseteq Handed(k, n, "xid")'
    BY <1>1, <1>4
  <2>2. Handed(k, n, "xid") # {}
    BY <1>4, <2>1 DEF Acknowledged
  <2> QED BY <2>1, <2>2
<1>5. BatchKept(k)'
  BY <1>2, <1>3 DEF BatchKept, Awaited
<1>6. Acknowledged(k)'
  BY <1>4 DEF Acknowledged
<1> QED BY <1>5, <1>6

(* What is given back is delivered again, or dropped as a whole. *)
LEMMA BatchGivenBack ==
  ASSUME StreamTyped, NEW l \in Lanes, BatchKept(l), Acknowledged(l),
         NEW end \in done[l] + 1 .. Len(log[l]), GiveBack(l, end), todo'[l] = <<>>, UNCHANGED log,
         \A n \in Nat : Handed(l, n, "xid") \subseteq Handed(l, n, "xid")'
  PROVE  BatchKept(l)' /\ Acknowledged(l)'
<1>1. BatchKept(l)'
  <2>1. DOMAIN todo'[l] = {}
    OBVIOUS
  <2> QED BY <2>1 DEF BatchKept, Grouped
<1>2. /\ dropped[l] \subseteq dropped'[l]
      /\ \/ done'[l] = done[l]
         \/ done'[l] = end /\ done[l] + 1 .. end \subseteq dropped'[l]
  <2>1. done \in [Lanes -> Nat] /\ dropped \in [Lanes -> SUBSET Nat]
    BY DEF StreamTyped, Kept
  <2>2. CASE tries[l] < RetryAttempts
    <3>1. done' = done /\ dropped' = dropped
      BY <2>2 DEF GiveBack
    <3> QED BY <3>1
  <2>3. CASE ~(tries[l] < RetryAttempts)
    <3>1. dropped' = [dropped EXCEPT ![l] = dropped[l] \cup (done[l] + 1 .. end)] /\ done' = [done EXCEPT ![l] = end]
      BY <2>3 DEF GiveBack
    <3>2. dropped'[l] = dropped[l] \cup (done[l] + 1 .. end) /\ done'[l] = end
      BY <2>1, <3>1
    <3> QED BY <3>2
  <2> QED BY <2>2, <2>3
<1>3. done[l] \in Nat /\ end \in Nat
  BY DEF StreamTyped, Kept
<1>4. ASSUME NEW n \in 1 .. done'[l], log[l][n].xid, log[l][n].valid, n \notin dropped'[l]
      PROVE  Handed(l, n, "xid")' # {}
  <2>1. n \in 1 .. done[l] /\ n \notin dropped[l] /\ n \in Nat
    BY <1>2, <1>3, <1>4
  <2>2. Handed(l, n, "xid") # {}
    BY <1>4, <2>1 DEF Acknowledged
  <2> QED BY <2>1, <2>2
<1>5. Acknowledged(l)'
  BY <1>4 DEF Acknowledged
<1> QED BY <1>1, <1>5

(* What is acknowledged was started. *)
LEMMA BatchAcknowledged ==
  ASSUME StreamTyped, NEW l \in Lanes, Acknowledged(l),
         NEW end \in done[l] + 1 .. Len(log[l]), Acknowledge(l, end), todo'[l] = <<>>, UNCHANGED log,
         \A n \in Nat : Handed(l, n, "xid") \subseteq Handed(l, n, "xid")',
         \A n \in done[l] + 1 .. end : log[l][n].xid => Handed(l, n, "xid")' # {}
  PROVE  BatchKept(l)' /\ Acknowledged(l)'
<1>1. BatchKept(l)'
  <2>1. DOMAIN todo'[l] = {}
    OBVIOUS
  <2> QED BY <2>1 DEF BatchKept, Grouped
<1>2. done'[l] = end /\ dropped' = dropped /\ done[l] \in Nat
  BY DEF Acknowledge, StreamTyped, Kept
<1>3. ASSUME NEW n \in 1 .. done'[l], log[l][n].xid, log[l][n].valid, n \notin dropped[l]
      PROVE  Handed(l, n, "xid")' # {}
  <2>1. CASE n <= done[l]
    <3>1. n \in 1 .. done[l] /\ n \in Nat
      BY <1>2, <1>3, <2>1
    <3>2. Handed(l, n, "xid") # {}
      BY <1>3, <3>1 DEF Acknowledged
    <3> QED BY <3>1, <3>2
  <2>2. CASE ~(n <= done[l])
    <3>1. n \in done[l] + 1 .. end
      BY <1>2, <1>3, <2>2
    <3> QED BY <1>3, <3>1
  <2> QED BY <2>1, <2>2
<1>4. Acknowledged(l)'
  BY <1>2, <1>3 DEF Acknowledged
<1> QED BY <1>1, <1>4

LEMMA BatchUntouched ==
  ASSUME StreamTyped, BatchInv, UNCHANGED <<done, last, todo, dropped, started>>,
         \A l \in Lanes : \A n \in DOMAIN log[l] : log'[l][n] = log[l][n]
  PROVE  BatchInv'
<1>1. ASSUME NEW k \in Lanes PROVE BatchKept(k)' /\ Acknowledged(k)'
  <2>1. \A n \in 1 .. last[k] : log'[k][n] = log[k][n]
    <3>1. log[k] \in Seq(Reports) /\ last[k] <= Len(log[k]) /\ last[k] \in Nat
      BY DEF StreamTyped, Kept, LaneKept
    <3> QED BY <3>1
  <2>2. \A n \in Nat : Handed(k, n, "xid") \subseteq Handed(k, n, "xid")'
    BY HandedGrows
  <2> QED BY <2>1, <2>2, BatchStays DEF BatchInv
<1> QED BY <1>1 DEF BatchInv

LEMMA BatchIngest == ASSUME StreamTyped, BatchInv, NEW report \in Reports, Ingest(report) PROVE BatchInv'
<1> DEFINE m == LaneOf[report.at]
<1>1. log' = [log EXCEPT ![m] = Append(@, report)] /\ UNCHANGED <<done, last, todo, dropped, started>>
  BY DEF Ingest
<1> HIDE DEF m
<1>2. ASSUME NEW l \in Lanes, NEW n \in DOMAIN log[l] PROVE log'[l][n] = log[l][n]
  BY <1>1 DEF StreamTyped, Kept
<1> QED BY <1>1, <1>2, BatchUntouched

LEMMA BatchInvoke ==
  ASSUME StreamTyped, BatchInv, NEW l \in Lanes, NEW c \in Containers, NEW end \in Nat, Invoke(l, c, end)
  PROVE  BatchInv'
<1>1. /\ todo[l] = <<>> /\ end \in done[l] + 1 .. Len(log[l])
      /\ last' = [last EXCEPT ![l] = end] /\ UNCHANGED <<log, started>>
  BY InvokeEffect
<1>2. \/ GiveBack(l, end) /\ UNCHANGED <<host, todo>>
      \/ Settles(l, end)
      \/ \E groups \in Seq(SUBSET Anomaly) : Opens(l, c, end, groups)
  BY InvokeEffect
<1>3. \A k \in Lanes : \A n \in Nat : Handed(k, n, "xid") \subseteq Handed(k, n, "xid")'
  BY <1>1, HandedGrows
<1>4. ASSUME NEW k \in Lanes, k # l, UNCHANGED <<done[k], todo[k], dropped[k]>>
      PROVE  BatchKept(k)' /\ Acknowledged(k)'
  <2>1. UNCHANGED last[k]
    BY <1>1, <1>4 DEF StreamTyped, Kept
  <2> QED BY <1>1, <1>3, <1>4, <2>1, BatchStays DEF BatchInv
<1>5. CASE GiveBack(l, end) /\ UNCHANGED <<host, todo>>
  <2>1. BatchKept(l)' /\ Acknowledged(l)'
    BY <1>1, <1>3, <1>5, BatchGivenBack DEF BatchInv
  <2>2. \A k \in Lanes \ {l} : UNCHANGED <<done[k], todo[k], dropped[k]>>
    BY <1>1, <1>5, DeliveryEnds
  <2> QED BY <1>4, <2>1, <2>2 DEF BatchInv
<1>6. CASE Settles(l, end)
  <2>1. Acknowledge(l, end) /\ UNCHANGED <<host, todo>> /\ \A n \in done[l] + 1 .. end : ~log[l][n].xid
    BY <1>6 DEF Settles
  <2>2. BatchKept(l)' /\ Acknowledged(l)'
    BY <1>1, <1>3, <2>1, BatchAcknowledged DEF BatchInv
  <2>3. \A k \in Lanes \ {l} : UNCHANGED <<done[k], todo[k], dropped[k]>>
    BY <1>1, <2>1, DeliveryEnds
  <2> QED BY <1>4, <2>2, <2>3 DEF BatchInv
<1>7. ASSUME NEW groups \in Seq(SUBSET Anomaly), Opens(l, c, end, groups) PROVE BatchInv'
  <2>1. /\ Grouped(l, done[l] + 1, end, groups) /\ todo' = [todo EXCEPT ![l] = groups]
        /\ \A n \in done[l] + 1 .. end : log[l][n].valid /\ (log[l][n].xid => Awaited(n, groups))
        /\ UNCHANGED <<done, tries, dropped>>
    BY <1>7 DEF Opens
  <2>2. todo'[l] = groups /\ last'[l] = end /\ \A k \in Lanes \ {l} : UNCHANGED todo[k]
    BY <1>1, <2>1 DEF StreamTyped, Kept
  <2>3. BatchKept(l)'
    BY <1>1, <2>1, <2>2 DEF BatchKept, Grouped, Awaited
  <2>4. Acknowledged(l)'
    <3>1. Acknowledged(l)
      BY DEF BatchInv
    <3> QED BY <1>1, <2>1, <3>1 DEF Acknowledged, Handed
  <2> QED BY <1>4, <2>1, <2>2, <2>3, <2>4 DEF BatchInv
<1> QED BY <1>2, <1>5, <1>6, <1>7

LEMMA BatchLeft ==
  ASSUME StreamTyped, BatchInv, NEW l \in Lanes, host[l] # None, Leave(l), GiveBack(l, last[l]),
         UNCHANGED <<log, last>>,
         \/ UNCHANGED started
         \/ started' = Started(l) /\ todo[l] # <<>>
  PROVE  BatchInv'
<1>1. last[l] \in done[l] + 1 .. Len(log[l])
  <2>1. done[l] < last[l] /\ last[l] <= Len(log[l])
    BY DEF StreamTyped, LaneKept
  <2> QED BY <2>1 DEF StreamTyped, Kept
<1>2. \A k \in Lanes : \A n \in Nat : Handed(k, n, "xid") \subseteq Handed(k, n, "xid")'
  BY HandedGrows
<1>3. todo'[l] = <<>> /\ \A k \in Lanes \ {l} : UNCHANGED todo[k]
  <2>1. todo' = [todo EXCEPT ![l] = <<>>] /\ todo \in [Lanes -> Seq(SUBSET Anomaly)]
    BY DEF Leave, StreamTyped, Kept
  <2> QED BY <2>1
<1>4. BatchKept(l)' /\ Acknowledged(l)'
  BY <1>1, <1>2, <1>3, BatchGivenBack DEF BatchInv
<1>5. ASSUME NEW k \in Lanes \ {l} PROVE BatchKept(k)' /\ Acknowledged(k)'
  <2>1. UNCHANGED <<done[k], dropped[k], last[k]>>
    BY <1>1, DeliveryEnds
  <2> QED BY <1>2, <1>3, <2>1, BatchStays DEF BatchInv
<1> QED BY <1>4, <1>5 DEF BatchInv

(* The execution that starts is given the anomalies of its group. *)
LEMMA HandedHead ==
  ASSUME StreamTyped, NEW l \in Lanes, todo[l] # <<>>, started' = Started(l), NEW n \in Nat,
         Awaited(n, todo[l])
  PROVE  Handed(l, n, "xid")' # {} \/ Awaited(n, Tail(todo[l]))
<1>1. PICK k \in DOMAIN todo[l] : \E a \in todo[l][k] : a.kind = "xid" /\ a.record = n
  BY DEF Awaited
<1>2. /\ Execution(l) \in Order /\ started' = Append(started, Execution(l)) /\ started \in Seq(Order)
      /\ Tail(todo[l]) \in Seq(SUBSET Anomaly) /\ Len(Tail(todo[l])) = Len(todo[l]) - 1
      /\ Len(todo[l]) \in Nat \ {0} /\ Head(todo[l]) = todo[l][1] /\ todo[l] \in Seq(SUBSET Anomaly)
      /\ \A j \in DOMAIN Tail(todo[l]) : Tail(todo[l])[j] = todo[l][j + 1]
  BY StartsOne DEF StreamTyped, Kept
<1>3. CASE k = 1
  <2>1. \E b \in Execution(l).anomalies : b.kind = "xid" /\ b.record = n
    BY <1>1, <1>2, <1>3 DEF Execution
  <2>2. Execution(l).lane = l
    BY DEF Execution
  <2>3. Len(started) + 1 \in {x \in {Len(started) + 1} : Gets(Execution(l), l, n)}
    BY <2>1, <2>2 DEF Gets
  <2>4. Len(started) + 1 \in Handed(l, n, "xid")'
    BY <1>2, <2>3, HandedTo
  <2> QED BY <2>4
<1>4. CASE k # 1
  <2>1. k - 1 \in DOMAIN Tail(todo[l]) /\ Tail(todo[l])[k - 1] = todo[l][k]
    BY <1>1, <1>2, <1>4, SMTT(30)
  <2> QED BY <1>1, <2>1 DEF Awaited
<1> QED BY <1>3, <1>4

LEMMA BatchStart == ASSUME StreamTyped, BatchInv, NEW l \in Lanes, StartExecution(l) PROVE BatchInv'
<1>1. todo[l] # <<>> /\ started' = Started(l) /\ UNCHANGED <<log, last>>
  BY DEF StartExecution
<1>2. /\ Tail(todo[l]) \in Seq(SUBSET Anomaly) /\ Len(Tail(todo[l])) = Len(todo[l]) - 1
      /\ Len(todo[l]) \in Nat \ {0} /\ last[l] \in done[l] + 1 .. Len(log[l]) /\ done[l] \in Nat
      /\ \A k \in DOMAIN Tail(todo[l]) : k + 1 \in DOMAIN todo[l] /\ Tail(todo[l])[k] = todo[l][k + 1]
      /\ todo \in [Lanes -> Seq(SUBSET Anomaly)]
  <2>1. last[l] \in Nat /\ done[l] \in Nat /\ log[l] \in Seq(Reports) /\ todo \in [Lanes -> Seq(SUBSET Anomaly)]
    BY DEF StreamTyped, Kept
  <2> QED BY <1>1, <2>1, StartsOne
<1>3. \A k \in Lanes : \A n \in Nat : Handed(k, n, "xid") \subseteq Handed(k, n, "xid")'
  BY <1>1, HandedGrows
<1>4. ASSUME NEW n \in done[l] + 1 .. last[l], log[l][n].xid
      PROVE  Handed(l, n, "xid")' # {} \/ Awaited(n, Tail(todo[l]))
  <2>1. n \in Nat /\ Handed(l, n, "xid") \subseteq Handed(l, n, "xid")'
    BY <1>2, <1>3, <1>4
  <2>2. Handed(l, n, "xid") # {} \/ Awaited(n, todo[l])
    BY <1>1, <1>4 DEF BatchInv, BatchKept
  <2> QED BY <1>1, <2>1, <2>2, HandedHead
<1>5. CASE Len(todo[l]) > 1
  <2>1. todo' = [todo EXCEPT ![l] = Tail(todo[l])] /\ UNCHANGED <<done, tries, dropped, host>>
    BY <1>5 DEF StartExecution
  <2>2. todo'[l] = Tail(todo[l]) /\ \A k \in Lanes \ {l} : UNCHANGED todo[k]
    BY <1>2, <2>1
  <2>3. ASSUME NEW k \in Lanes \ {l} PROVE BatchKept(k)' /\ Acknowledged(k)'
    BY <1>1, <1>3, <2>1, <2>2, BatchStays DEF BatchInv
  <2>4. Grouped(l, done[l] + 1, last[l], Tail(todo[l]))
    <3>1. Grouped(l, done[l] + 1, last[l], todo[l])
      BY DEF BatchInv, BatchKept
    <3>2. \A j, k \in DOMAIN Tail(todo[l]) : j \in Int /\ k \in Int /\ (j + 1 = k + 1 <=> j = k)
      BY <1>2
    <3> DEFINE rest == Tail(todo[l])
    <3>3. ASSUME NEW j \in DOMAIN rest, NEW k \in DOMAIN rest, NEW a \in rest[j], NEW b \in rest[k]
          PROVE  JobOf[a.gpu] = JobOf[b.gpu] <=> j = k
      <4>1. j + 1 \in DOMAIN todo[l] /\ k + 1 \in DOMAIN todo[l] /\ a \in todo[l][j + 1] /\ b \in todo[l][k + 1]
        BY <1>2, <3>3
      <4>2. JobOf[a.gpu] = JobOf[b.gpu] <=> j + 1 = k + 1
        BY <3>1, <4>1 DEF Grouped
      <4> QED BY <3>2, <4>2
    <3>4. ASSUME NEW k \in DOMAIN rest
          PROVE  rest[k] # {} /\ \A a \in rest[k] : a.record \in done[l] + 1 .. last[l] /\ a.gpu = log[l][a.record].at
      BY <1>2, <3>1, <3>4 DEF Grouped
    <3> QED BY <3>3, <3>4 DEF Grouped
  <2>5. \A n \in done[l] + 1 .. last[l] : log[l][n].valid
    BY <1>1 DEF BatchInv, BatchKept
  <2>6. BatchKept(l)'
    <3> DEFINE rest == Tail(todo[l])
    <3>1. Grouped(l, done[l] + 1, last[l], rest)
      BY <2>4
    <3>2. ASSUME NEW n \in done[l] + 1 .. last[l], log[l][n].xid
          PROVE  Handed(l, n, "xid")' # {} \/ Awaited(n, rest)
      BY <1>4, <3>2
    <3>3. todo'[l] = rest /\ UNCHANGED <<log, done, last>>
      BY <1>1, <2>1, <2>2
    <3> HIDE DEF rest
    <3>4. Grouped(l, done[l] + 1, last[l], todo[l])'
      BY <3>1, <3>3 DEF Grouped
    <3> QED BY <2>5, <3>2, <3>3, <3>4 DEF BatchKept, Awaited
  <2>7. Acknowledged(l)'
    <3>1. ASSUME NEW n \in 1 .. done[l], log[l][n].xid, log[l][n].valid, n \notin dropped[l]
          PROVE  Handed(l, n, "xid")' # {}
      <4>1. Handed(l, n, "xid") # {}
        BY <3>1 DEF BatchInv, Acknowledged
      <4>2. n \in Nat
        BY <1>2
      <4> QED BY <1>3, <4>1, <4>2
    <3> QED BY <1>1, <2>1, <3>1 DEF Acknowledged
  <2> QED BY <2>3, <2>6, <2>7 DEF BatchInv
<1>6. CASE ~(Len(todo[l]) > 1)
  <2>1. Leave(l) /\ Acknowledge(l, last[l])
    BY <1>6 DEF StartExecution
  <2>2. todo'[l] = <<>> /\ \A k \in Lanes \ {l} : UNCHANGED todo[k]
    BY <1>2, <2>1 DEF Leave
  <2>3. DOMAIN Tail(todo[l]) = {}
    BY <1>2, <1>6
  <2>4. \A n \in done[l] + 1 .. last[l] : log[l][n].xid => Handed(l, n, "xid")' # {}
    BY <1>4, <2>3 DEF Awaited
  <2>5. BatchKept(l)' /\ Acknowledged(l)'
    BY <1>1, <1>2, <1>3, <2>1, <2>2, <2>4, BatchAcknowledged DEF BatchInv
  <2>6. ASSUME NEW k \in Lanes \ {l} PROVE BatchKept(k)' /\ Acknowledged(k)'
    <3>1. UNCHANGED <<done[k], dropped[k]>>
      BY <1>2, <2>1, DeliveryEnds
    <3> QED BY <1>1, <1>3, <2>2, <3>1, BatchStays DEF BatchInv
  <2> QED BY <2>5, <2>6 DEF BatchInv
<1> QED BY <1>5, <1>6

LEMMA BatchInvStep == ASSUME StreamTyped, BatchInv, Delivering PROVE BatchInv'
<1>1. CASE UNCHANGED deliveryVars
  BY <1>1, BatchUntouched DEF deliveryVars
<1>2. ASSUME NEW c \in Containers, Recycle(c) PROVE BatchInv'
  BY <1>2, BatchUntouched DEF Recycle
<1>3. ASSUME NEW l \in Lanes, StartFails(l) PROVE BatchInv'
  <2>1. host[l] # None
    BY <1>3 DEF StartFails, StreamTyped, LaneKept
  <2> QED BY <1>3, <2>1, BatchLeft DEF StartFails
<1>4. ASSUME NEW l \in Lanes, Die(l) PROVE BatchInv'
  BY <1>4, BatchLeft DEF Die
<1>5. ASSUME NEW l \in Lanes, StartUnanswered(l) PROVE BatchInv'
  <2>1. todo[l] # <<>> /\ host[l] # None /\ started' = Started(l) /\ UNCHANGED <<log, last, memory, delivered>>
    BY <1>5 DEF StartUnanswered, StreamTyped, LaneKept
  <2>2. CASE Leave(l) /\ GiveBack(l, last[l])
    BY <2>1, <2>2, BatchLeft
  <2>3. CASE UNCHANGED <<done, tries, dropped, host, todo>>
    <3>1. ASSUME NEW k \in Lanes PROVE BatchKept(k)' /\ Acknowledged(k)'
      <4>1. \A n \in Nat : Handed(k, n, "xid") \subseteq Handed(k, n, "xid")'
        BY <2>1, HandedGrows
      <4> QED BY <2>1, <2>3, <4>1, BatchStays DEF BatchInv
    <3> QED BY <3>1 DEF BatchInv
  <2> QED BY <1>5, <2>2, <2>3 DEF StartUnanswered
<1> QED BY <1>1, <1>2, <1>3, <1>4, <1>5, BatchIngest, BatchInvoke, BatchStart DEF Delivering

LEMMA BatchInvInit == ASSUME Init PROVE BatchInv
BY DEF Init, DeliveryInit, BatchInv, BatchKept, Grouped, Acknowledged

(* AcknowledgedIsStarted: the event source never moves past an XID report that
   it neither dropped nor gave to an execution. *)
THEOREM AcknowledgedIsStartedAlways == Spec => []AcknowledgedIsStarted
<1>1. Init => StreamTyped /\ BatchInv
  BY StreamTypedInit, BatchInvInit
<1>2. StreamTyped /\ BatchInv /\ [Next]_vars => StreamTyped' /\ BatchInv'
  BY PipelineDelivers, StreamTypedStep, BatchInvStep
<1>3. BatchInv => AcknowledgedIsStarted
  BY DEF BatchInv, Acknowledged, AcknowledgedIsStarted
<1> QED BY <1>1, <1>2, <1>3, PTL DEF Spec

-----------------------------------------------------------------------------
(* Executions start in the order of the deliveries *)

LEMMA BatchOf ==
  ASSUME StreamTyped, NEW e \in Order, Placed(e)
  PROVE  e.last <= last[e.lane] /\ last[e.lane] <= Len(log[e.lane]) /\ e.lane \in Lanes
         /\ e.first \in Nat /\ e.last \in Nat /\ e.try \in Nat
<1>1. e.lane \in Lanes /\ e.first \in Nat /\ e.last \in Nat /\ e.try \in Nat
  BY DEF Order
<1>2. done[e.lane] \in Nat /\ last[e.lane] \in Nat /\ done[e.lane] <= last[e.lane]
      /\ last[e.lane] <= Len(log[e.lane])
  BY <1>1 DEF StreamTyped, Kept, LaneKept
<1> QED BY <1>1, <1>2 DEF Placed

LEMMA PlacedStays ==
  ASSUME StreamTyped, NEW e \in Order, Placed(e),
         UNCHANGED <<done[e.lane], last[e.lane], tries[e.lane], todo[e.lane]>>
  PROVE  Placed(e)'
BY DEF Placed

LEMMA PlacedEnds ==
  ASSUME StreamTyped, NEW e \in Order, Placed(e), NEW end \in done[e.lane] + 1 .. Len(log[e.lane]),
         GiveBack(e.lane, end) \/ Acknowledge(e.lane, end), last'[e.lane] = end,
         tries[e.lane] > 0 \/ todo[e.lane] # <<>> => end = last[e.lane]
  PROVE  Placed(e)'
<1> DEFINE l == e.lane
<1>1. l \in Lanes /\ e.first \in Nat /\ e.last \in Nat /\ e.try \in Nat
  BY DEF Order
<1>2. done[l] \in Nat /\ tries[l] \in Nat /\ end \in Nat /\ done[l] < end
  <2>1. done[l] \in Nat /\ tries[l] \in 0 .. RetryAttempts /\ RetryAttempts \in Nat
    BY <1>1, DeliveryAssumption DEF StreamTyped, Kept
  <2>2. end \in done[l] + 1 .. Len(log[l]) /\ Len(log[l]) \in Nat
    BY <1>1 DEF StreamTyped, Kept
  <2> QED BY <2>1, <2>2
<1>3. \/ done'[l] = end
      \/ done'[l] = done[l] /\ tries'[l] = tries[l] + 1
  BY <1>1, DeliveryEnds
<1> HIDE DEF l
<1>4. \/ e.last <= done[l]
      \/ e.first = done[l] + 1 /\ e.last = last[l] /\ e.try <= tries[l] /\ end = last[l]
  <2>1. CASE e.last <= done[l]
    BY <2>1
  <2>2. CASE ~(e.last <= done[l])
    BY <1>1, <1>2, <2>2 DEF Placed, l
  <2> QED BY <2>1, <2>2
<1>5. \/ e.last <= done'[l]
      \/ e.first = done'[l] + 1 /\ e.last = last'[l] /\ e.try < tries'[l]
  BY <1>1, <1>2, <1>3, <1>4 DEF l
<1> QED BY <1>5 DEF Placed, l

(* Executions that started before, and the reports they were given. *)
LEMMA FoundedStays ==
  ASSUME StreamTyped, NEW e \in Order, Placed(e), Founded(e),
         \A l \in Lanes : \A n \in DOMAIN log[l] : log'[l][n] = log[l][n]
  PROVE  Founded(e)'
<1>1. e.lane \in Lanes /\ e.last \in Nat /\ e.last <= last[e.lane] /\ last[e.lane] <= Len(log[e.lane])
  BY BatchOf
<1>2. ASSUME NEW a \in e.anomalies PROVE a.record \in 1 .. e.last /\ a.gpu = log'[e.lane][a.record].at
  <2>1. a.record \in 1 .. e.last /\ a.gpu = log[e.lane][a.record].at
    BY <1>2 DEF Founded
  <2>2. Len(log[e.lane]) \in Nat /\ last[e.lane] \in Nat /\ log[e.lane] \in Seq(Reports)
    BY <1>1 DEF StreamTyped, Kept
  <2>3. a.record \in DOMAIN log[e.lane]
    BY <1>1, <2>1, <2>2
  <2> QED BY <1>1, <2>1, <2>3
<1> QED BY <1>2 DEF Founded

(* A step that starts nothing keeps the order. *)
LEMMA NothingStarts ==
  ASSUME StreamTyped, PlaceInv, OrderInv, UNCHANGED started,
         \A l \in Lanes : \A n \in DOMAIN log[l] : log'[l][n] = log[l][n],
         \A e \in Order : Placed(e) => Placed(e)'
  PROVE  PlaceInv' /\ OrderInv'
<1>1. ASSUME NEW x \in DOMAIN started PROVE Placed(started[x])' /\ Founded(started[x])'
  <2>1. started[x] \in Order
    BY DEF StreamTyped, Kept
  <2> DEFINE e == started[x]
  <2>2. e \in Order /\ Placed(e) /\ Founded(e) /\ e' = e
    BY <2>1 DEF PlaceInv
  <2>3. \A o \in Order : Placed(o) /\ Founded(o) => Founded(o)'
    BY FoundedStays
  <2>4. e.lane' = e.lane /\ e.anomalies' = e.anomalies
    BY <2>2
  <2> QED BY <2>2, <2>3, <2>4 DEF Founded, Placed
<1>2. PlaceInv'
  BY <1>1 DEF PlaceInv, Placed, Founded
<1>3. OrderInv'
  BY DEF OrderInv, Ordered
<1> QED BY <1>2, <1>3

(* An execution that starts comes after those that started before it. *)
LEMMA OneStarts ==
  ASSUME StreamTyped, BatchInv, PlaceInv, OrderInv, NEW l \in Lanes, todo[l] # <<>>, started' = Started(l),
         UNCHANGED log, \A e \in Order : Placed(e) => Placed(e)',
         NEW order \in Order, order = Execution(l), Placed(order)'
  PROVE  PlaceInv' /\ OrderInv'
<1> DEFINE n == Len(started)
<1>1. /\ started \in Seq(Order) /\ started' = Append(started, order)
      /\ Head(todo[l]) = todo[l][1] /\ 1 \in DOMAIN todo[l]
      /\ done[l] \in Nat /\ last[l] \in Nat /\ done[l] < last[l]
  BY StartsOne DEF StreamTyped, Kept
<1>2. /\ n \in Nat /\ DOMAIN started = 1 .. n /\ DOMAIN started' = 1 .. n + 1 /\ started'[n + 1] = order
      /\ \A x \in 1 .. n : started'[x] = started[x] /\ started[x] \in Order
  BY <1>1
<1>3. /\ order.lane = l /\ order.first = done[l] + 1 /\ order.last = last[l] /\ order.try = tries[l]
      /\ order.anomalies = todo[l][1]
  BY <1>1 DEF Execution
<1>4. Founded(order)'
  <2>1. \A a \in todo[l][1] : a.record \in done[l] + 1 .. last[l] /\ a.gpu = log[l][a.record].at
    BY <1>1 DEF BatchInv, BatchKept, Grouped
  <2>2. \A a \in todo[l][1] : a.record \in 1 .. last[l]
    BY <1>1, <2>1
  <2> QED BY <1>3, <2>1, <2>2 DEF Founded
<1>5. \A e \in Order : Placed(e) /\ Founded(e) => Founded(e)'
  BY FoundedStays
<1>6. ASSUME NEW e \in Order, Placed(e), e.lane = l PROVE Ordered(e, order)
  <2>1. e.first \in Nat /\ e.last \in Nat /\ e.try \in Nat
    BY BatchOf, <1>6
  <2>2. CASE e.last <= done[l]
    BY <1>1, <1>3, <2>1, <2>2 DEF Ordered
  <2>3. CASE ~(e.last <= done[l])
    BY <1>1, <1>3, <1>6, <2>3 DEF Ordered, Placed
  <2> QED BY <2>2, <2>3
<1> HIDE DEF n
<1>7. PlaceInv'
  <2>1. ASSUME NEW x \in 1 .. n + 1, NEW e \in Order, e = started'[x] PROVE Placed(e)' /\ Founded(e)'
    <3>1. CASE x = n + 1
      BY <1>2, <1>4, <2>1, <3>1
    <3>2. CASE x # n + 1
      <4>1. x \in 1 .. n
        BY <1>2, <3>2
      <4>2. e = started[x] /\ Placed(e) /\ Founded(e)
        BY <1>2, <2>1, <4>1 DEF PlaceInv
      <4> QED BY <1>5, <4>2
    <3> QED BY <3>1, <3>2
  <2>2. ASSUME NEW x \in 1 .. n + 1 PROVE Placed(started[x])' /\ Founded(started[x])'
    <3>1. started'[x] \in Order
      BY <1>2
    <3>2. PICK e \in Order : e = started'[x]
      BY <3>1
    <3>3. Placed(e)' /\ Founded(e)'
      BY <2>1, <3>2
    <3> QED BY <3>2, <3>3 DEF Placed, Founded
  <2> QED BY <1>2, <2>2 DEF PlaceInv
<1>8. OrderInv'
  <2>1. ASSUME NEW x \in 1 .. n + 1, NEW y \in 1 .. n + 1, x < y, started'[x].lane = started'[y].lane
        PROVE  Ordered(started'[x], started'[y])
    <3>1. x \in 1 .. n
      BY <1>2, <2>1
    <3>2. CASE y = n + 1
      BY <1>2, <1>3, <1>6, <2>1, <3>1, <3>2 DEF PlaceInv
    <3>3. CASE y # n + 1
      <4>1. y \in 1 .. n
        BY <1>2, <3>3
      <4> QED BY <1>2, <2>1, <3>1, <4>1 DEF OrderInv
    <3> QED BY <3>2, <3>3
  <2> QED BY <1>2, <2>1 DEF OrderInv, Ordered
<1> QED BY <1>7, <1>8

LEMMA PlaceInvoke ==
  ASSUME StreamTyped, PlaceInv, OrderInv, NEW l \in Lanes, NEW c \in Containers, NEW end \in Nat, Invoke(l, c, end)
  PROVE  PlaceInv' /\ OrderInv'
<1>1. /\ todo[l] = <<>> /\ end \in done[l] + 1 .. Len(log[l]) /\ (tries[l] > 0 => end = last[l])
      /\ last' = [last EXCEPT ![l] = end] /\ UNCHANGED <<log, started>>
  BY InvokeEffect
<1>2. \/ (GiveBack(l, end) \/ Acknowledge(l, end)) /\ UNCHANGED todo
      \/ UNCHANGED <<done, tries>> /\ \E groups \in Seq(SUBSET Anomaly) : todo' = [todo EXCEPT ![l] = groups]
  <2>1. \/ GiveBack(l, end) /\ UNCHANGED <<host, todo>>
        \/ Settles(l, end)
        \/ \E groups \in Seq(SUBSET Anomaly) : Opens(l, c, end, groups)
    BY InvokeEffect
  <2>2. Settles(l, end) => Acknowledge(l, end) /\ UNCHANGED todo
    BY DEF Settles
  <2>3. ASSUME NEW groups \in Seq(SUBSET Anomaly), Opens(l, c, end, groups)
        PROVE  UNCHANGED <<done, tries>> /\ todo' = [todo EXCEPT ![l] = groups]
    BY <2>3 DEF Opens
  <2> QED BY <2>1, <2>2, <2>3
<1>3. last'[l] = end /\ \A k \in Lanes \ {l} : UNCHANGED last[k]
  BY <1>1 DEF StreamTyped, Kept
<1>4. ASSUME NEW e \in Order, Placed(e), e.lane # l PROVE Placed(e)'
  <2>1. e.lane \in Lanes
    BY DEF Order
  <2>2. UNCHANGED <<done[e.lane], tries[e.lane], todo[e.lane]>>
    <3>1. CASE (GiveBack(l, end) \/ Acknowledge(l, end)) /\ UNCHANGED todo
      BY <1>1, <1>4, <2>1, <3>1, DeliveryEnds
    <3>2. CASE UNCHANGED <<done, tries>> /\ \E groups \in Seq(SUBSET Anomaly) : todo' = [todo EXCEPT ![l] = groups]
      BY <1>4, <2>1, <3>2 DEF StreamTyped, Kept
    <3> QED BY <1>2, <3>1, <3>2
  <2> QED BY <1>3, <1>4, <2>1, <2>2, PlacedStays
<1>5. ASSUME NEW e \in Order, Placed(e), e.lane = l PROVE Placed(e)'
  <2>1. CASE (GiveBack(l, end) \/ Acknowledge(l, end)) /\ UNCHANGED todo
    BY <1>1, <1>3, <1>5, <2>1, PlacedEnds
  <2>2. CASE UNCHANGED <<done, tries>>
    <3>1. tries[l] \in Nat /\ e.try \in Nat
      BY DeliveryAssumption DEF StreamTyped, Kept, Order
    <3>2. CASE e.last <= done[l]
      BY <1>5, <2>2, <3>2 DEF Placed
    <3>3. CASE ~(e.last <= done[l])
      <4>1. e.first = done[l] + 1 /\ e.last = last[l] /\ e.try < tries[l]
        BY <1>1, <1>5, <3>3 DEF Placed
      <4>2. end = last[l]
        BY <1>1, <3>1, <4>1
      <4> QED BY <1>3, <1>5, <2>2, <4>1, <4>2 DEF Placed
    <3> QED BY <3>2, <3>3
  <2> QED BY <1>2, <2>1, <2>2
<1> QED BY <1>1, <1>4, <1>5, NothingStarts

(* An invocation that is over leaves the order as it is. *)
LEMMA PlacedLeaves ==
  ASSUME StreamTyped, NEW l \in Lanes, host[l] # None, Leave(l), GiveBack(l, last[l]) \/ Acknowledge(l, last[l]),
         UNCHANGED <<log, last>>, NEW e \in Order, Placed(e)
  PROVE  Placed(e)'
<1>1. last[l] \in done[l] + 1 .. Len(log[l])
  <2>1. done[l] < last[l] /\ last[l] <= Len(log[l])
    BY DEF StreamTyped, LaneKept
  <2> QED BY <2>1 DEF StreamTyped, Kept
<1>2. CASE e.lane = l
  BY <1>1, <1>2, PlacedEnds
<1>3. CASE e.lane # l
  <2>1. e.lane \in Lanes
    BY DEF Order
  <2>2. UNCHANGED <<done[e.lane], tries[e.lane]>>
    BY <1>1, <1>3, <2>1, DeliveryEnds
  <2>3. UNCHANGED todo[e.lane]
    <3>1. todo' = [todo EXCEPT ![l] = <<>>] /\ todo \in [Lanes -> Seq(SUBSET Anomaly)]
      BY DEF Leave, StreamTyped, Kept
    <3> QED BY <1>3, <2>1, <3>1
  <2> QED BY <2>1, <2>2, <2>3, PlacedStays
<1> QED BY <1>2, <1>3

(* The execution that starts is of the batch at hand. *)
LEMMA PlacedExecution ==
  ASSUME StreamTyped, BatchInv, NEW l \in Lanes, todo[l] # <<>>, NEW order \in Order, order = Execution(l)
  PROVE  Placed(order) /\ \A k \in DOMAIN Tail(todo[l]) : Jobs(Tail(todo[l])[k]) # Jobs(order.anomalies)
<1>1. /\ Head(todo[l]) = todo[l][1] /\ 1 \in DOMAIN todo[l]
      /\ \A k \in DOMAIN Tail(todo[l]) : k + 1 \in DOMAIN todo[l] /\ Tail(todo[l])[k] = todo[l][k + 1]
      /\ Tail(todo[l]) \in Seq(SUBSET Anomaly)
  BY StartsOne
<1>2. /\ order.lane = l /\ order.first = done[l] + 1 /\ order.last = last[l] /\ order.try = tries[l]
      /\ order.anomalies = todo[l][1]
  BY <1>1 DEF Execution
<1>3. ASSUME NEW k \in DOMAIN todo[l], Jobs(todo[l][k]) = Jobs(todo[l][1]) PROVE k = 1
  <2>1. PICK a \in todo[l][1] : TRUE
    BY <1>1 DEF BatchInv, BatchKept, Grouped
  <2>2. JobOf[a.gpu] \in Jobs(todo[l][k])
    BY <1>3, <2>1 DEF Jobs
  <2>3. PICK b \in todo[l][k] : JobOf[b.gpu] = JobOf[a.gpu]
    BY <2>2 DEF Jobs
  <2> QED BY <1>1, <2>1, <2>3 DEF BatchInv, BatchKept, Grouped
<1>4. Placed(order)
  BY <1>2, <1>3 DEF Placed
<1>5. ASSUME NEW k \in DOMAIN Tail(todo[l]) PROVE Jobs(Tail(todo[l])[k]) # Jobs(order.anomalies)
  <2>1. k + 1 # 1
    BY <1>1
  <2> QED BY <1>1, <1>2, <1>3, <2>1
<1> QED BY <1>4, <1>5

LEMMA PlaceStart ==
  ASSUME StreamTyped, BatchInv, PlaceInv, OrderInv, NEW l \in Lanes, StartExecution(l)
  PROVE  PlaceInv' /\ OrderInv'
<1>1. todo[l] # <<>> /\ started' = Started(l) /\ UNCHANGED <<log, last>>
  BY DEF StartExecution
<1>2. PICK order \in Order : order = Execution(l)
  BY <1>1, StartsOne
<1>3. Placed(order) /\ \A k \in DOMAIN Tail(todo[l]) : Jobs(Tail(todo[l])[k]) # Jobs(order.anomalies)
  BY <1>1, <1>2, PlacedExecution
<1>4. /\ todo \in [Lanes -> Seq(SUBSET Anomaly)] /\ Len(Tail(todo[l])) = Len(todo[l]) - 1
      /\ Len(todo[l]) \in Nat /\ host[l] # None /\ Tail(todo[l]) \in Seq(SUBSET Anomaly)
      /\ \A k \in DOMAIN Tail(todo[l]) : k + 1 \in DOMAIN todo[l] /\ Tail(todo[l])[k] = todo[l][k + 1]
  BY <1>1, StartsOne DEF StreamTyped, Kept
<1>5. CASE Len(todo[l]) > 1
  <2>1. todo' = [todo EXCEPT ![l] = Tail(todo[l])] /\ UNCHANGED <<done, tries>>
    BY <1>5 DEF StartExecution
  <2>2. todo'[l] = Tail(todo[l]) /\ \A k \in Lanes \ {l} : UNCHANGED todo[k]
    BY <1>4, <2>1
  <2>3. Tail(todo[l]) # <<>>
    BY <1>1, <1>5, StartsOne
  <2>4. ASSUME NEW e \in Order, Placed(e), e.lane # l PROVE Placed(e)'
    <3>1. e.lane \in Lanes
      BY DEF Order
    <3> QED BY <1>1, <2>1, <2>2, <2>4, <3>1, PlacedStays
  <2> DEFINE rest == Tail(todo[l])
  <2>5. /\ todo'[l] = rest /\ rest # <<>> /\ UNCHANGED <<done, tries, last>>
        /\ \A k \in DOMAIN rest : k + 1 \in DOMAIN todo[l] /\ rest[k] = todo[l][k + 1]
        /\ \A k \in DOMAIN rest : Jobs(rest[k]) # Jobs(order.anomalies)
    BY <1>1, <1>3, <1>4, <2>1, <2>2, <2>3
  <2> HIDE DEF rest
  <2>6. ASSUME NEW e \in Order, Placed(e), e.lane = l PROVE Placed(e)'
    <3>1. CASE e.last <= done[l]
      BY <2>5, <2>6, <3>1 DEF Placed
    <3>2. CASE ~(e.last <= done[l]) /\ e.try < tries[l]
      BY <2>5, <2>6, <3>2 DEF Placed
    <3>3. CASE ~(e.last <= done[l]) /\ ~(e.try < tries[l])
      <4>1. e.first = done[l] + 1 /\ e.last = last[l] /\ e.try = tries[l]
            /\ \A k \in DOMAIN todo[l] : Jobs(todo[l][k]) = Jobs(e.anomalies) => todo[l][k] = e.anomalies
        BY <2>6, <3>3 DEF Placed
      <4>2. \A k \in DOMAIN rest : Jobs(rest[k]) = Jobs(e.anomalies) => rest[k] = e.anomalies
        BY <2>5, <4>1
      <4> QED BY <2>5, <2>6, <4>1, <4>2 DEF Placed
    <3> QED BY <3>1, <3>2, <3>3
  <2>7. Placed(order)'
    <3>1. order.lane = l /\ order.first = done[l] + 1 /\ order.last = last[l] /\ order.try = tries[l]
      BY <1>2 DEF Execution
    <3> QED BY <2>5, <3>1 DEF Placed
  <2> QED BY <1>1, <1>2, <2>4, <2>6, <2>7, OneStarts
<1>6. CASE ~(Len(todo[l]) > 1)
  <2>1. Leave(l) /\ Acknowledge(l, last[l])
    BY <1>6 DEF StartExecution
  <2>2. \A e \in Order : Placed(e) => Placed(e)'
    BY <1>1, <1>4, <2>1, PlacedLeaves
  <2> QED BY <1>1, <1>2, <1>3, <2>2, OneStarts
<1> QED BY <1>5, <1>6

LEMMA PlaceUnanswered ==
  ASSUME StreamTyped, BatchInv, PlaceInv, OrderInv, NEW l \in Lanes, StartUnanswered(l)
  PROVE  PlaceInv' /\ OrderInv'
<1>1. todo[l] # <<>> /\ started' = Started(l) /\ UNCHANGED <<log, last>>
  BY DEF StartUnanswered
<1>2. PICK order \in Order : order = Execution(l)
  BY <1>1, StartsOne
<1>3. Placed(order) /\ host[l] # None
  BY <1>1, <1>2, PlacedExecution, StartsOne
<1>4. \A e \in Order : Placed(e) => Placed(e)'
  <2>1. CASE UNCHANGED <<done, tries, dropped, host, todo>>
    BY <1>1, <2>1 DEF Placed
  <2>2. CASE Leave(l) /\ GiveBack(l, last[l])
    BY <1>1, <1>3, <2>2, PlacedLeaves
  <2> QED BY <2>1, <2>2 DEF StartUnanswered
<1> QED BY <1>1, <1>2, <1>3, <1>4, OneStarts

LEMMA PlaceInvStep ==
  ASSUME StreamTyped, BatchInv, PlaceInv, OrderInv, Delivering PROVE PlaceInv' /\ OrderInv'
<1>1. ASSUME UNCHANGED <<done, last, tries, todo, started>>,
             \A l \in Lanes : \A n \in DOMAIN log[l] : log'[l][n] = log[l][n]
      PROVE  PlaceInv' /\ OrderInv'
  BY <1>1, PlacedStays, NothingStarts
<1>2. ASSUME NEW report \in Reports, Ingest(report) PROVE PlaceInv' /\ OrderInv'
  <2>1. ASSUME NEW l \in Lanes, NEW n \in DOMAIN log[l] PROVE log'[l][n] = log[l][n]
    <3> DEFINE m == LaneOf[report.at]
    <3>1. log' = [log EXCEPT ![m] = Append(@, report)]
      BY <1>2 DEF Ingest
    <3> HIDE DEF m
    <3> QED BY <3>1 DEF StreamTyped, Kept
  <2> QED BY <1>1, <1>2, <2>1 DEF Ingest
<1>3. ASSUME NEW c \in Containers, Recycle(c) PROVE PlaceInv' /\ OrderInv'
  BY <1>1, <1>3 DEF Recycle
<1>4. ASSUME NEW l \in Lanes, StartFails(l) \/ Die(l) PROVE PlaceInv' /\ OrderInv'
  <2>1. host[l] # None /\ Leave(l) /\ GiveBack(l, last[l]) /\ UNCHANGED <<log, last, started>>
    BY <1>4 DEF StartFails, Die, StreamTyped, LaneKept
  <2>2. \A e \in Order : Placed(e) => Placed(e)'
    BY <2>1, PlacedLeaves
  <2> QED BY <2>1, <2>2, NothingStarts
<1>5. CASE UNCHANGED deliveryVars
  BY <1>1, <1>5 DEF deliveryVars
<1> QED BY <1>2, <1>3, <1>4, <1>5, PlaceInvoke, PlaceStart, PlaceUnanswered DEF Delivering

LEMMA PlaceInvInit == ASSUME Init PROVE PlaceInv /\ OrderInv
BY DEF Init, DeliveryInit, PlaceInv, OrderInv

-----------------------------------------------------------------------------
(* No more executions than deliveries and failures *)

LEMMA HandedFinite ==
  ASSUME StreamTyped, NEW l, NEW n
  PROVE  IsFiniteSet(Handed(l, n, "xid")) /\ Cardinality(Handed(l, n, "xid")) \in Nat
<1>1. IsFiniteSet(1 .. Len(started))
  <2>1. Len(started) \in Int
    BY DEF StreamTyped, Kept
  <2> QED BY <2>1, FS_Interval
<1>2. Handed(l, n, "xid") \subseteq 1 .. Len(started)
  BY DEF Handed, StreamTyped, Kept
<1> QED BY <1>1, <1>2, FS_Subset, FS_CardinalityType

(* An execution counts once. *)
LEMMA HandedCount ==
  ASSUME StreamTyped, NEW order \in Order, started' = Append(started, order), NEW l, NEW n
  PROVE  Cardinality(Handed(l, n, "xid")') = Cardinality(Handed(l, n, "xid")) + (IF Gets(order, l, n) THEN 1 ELSE 0)
<1> DEFINE now == Len(started) + 1
           had == Handed(l, n, "xid")
           has == Handed(l, n, "xid")'
<1>1. IsFiniteSet(had) /\ Cardinality(had) \in Nat
  BY HandedFinite
<1>2. now \notin had
  BY DEF Handed, StreamTyped, Kept
<1>3. has = had \cup {x \in {now} : Gets(order, l, n)}
  BY HandedTo DEF StreamTyped, Kept
<1> HIDE DEF had, has, now
<1>4. CASE Gets(order, l, n)
  <2>1. has = had \cup {now}
    BY <1>3, <1>4
  <2>2. Cardinality(had \cup {now}) = Cardinality(had) + 1
    BY <1>1, <1>2, FS_AddElement
  <2> QED BY <1>4, <2>1, <2>2 DEF had, has
<1>5. CASE ~Gets(order, l, n)
  <2>1. has = had
    BY <1>3, <1>5
  <2> QED BY <1>1, <1>5, <2>1 DEF had, has
<1> QED BY <1>4, <1>5

(* A step that starts nothing: what waits, waited before, or was delivered
   once more. *)
LEMMA NothingCounted ==
  ASSUME StreamTyped, CountInv, UNCHANGED started, faults <= faults', faults' \in Nat,
         NEW l \in Lanes, NEW n \in DOMAIN log[l],
         delivered'[l][n] \in Nat, delivered[l][n] <= delivered'[l][n],
         \/ Awaited(n, todo'[l]) => Awaited(n, todo[l])
         \/ ~Awaited(n, todo[l]) /\ delivered'[l][n] = delivered[l][n] + 1
  PROVE  Counted(l, n)'
<1> DEFINE card == Cardinality(Handed(l, n, "xid"))
           pend == Pending(l, n)
           pend1 == IF Awaited(n, todo'[l]) THEN 1 ELSE 0
<1>1. card \in Nat
  BY HandedFinite
<1>2. Cardinality(Handed(l, n, "xid")') = card
  BY DEF Handed
<1>3. card + pend <= delivered[l][n] + faults
  BY DEF CountInv, Counted
<1>4. delivered[l][n] \in Nat /\ faults \in Nat
  <2>1. delivered[l] \in Seq(Nat) /\ Len(delivered[l]) = Len(log[l]) /\ faults \in Nat
    BY DEF StreamTyped, Kept, LaneKept
  <2> QED BY <2>1 DEF StreamTyped, Kept
<1>5. pend \in {0, 1} /\ pend1 \in {0, 1}
      /\ (pend1 <= pend \/ (pend = 0 /\ delivered'[l][n] = delivered[l][n] + 1))
  BY DEF Pending
<1> HIDE DEF card, pend, pend1
<1>6. card + pend1 <= delivered'[l][n] + faults'
  BY <1>1, <1>3, <1>4, <1>5
<1> QED BY <1>2, <1>6 DEF Counted, Pending, pend1, Awaited

LEMMA CountIngest ==
  ASSUME StreamTyped, BatchInv, PlaceInv, CountInv, NEW report \in Reports, Ingest(report) PROVE CountInv'
<1> DEFINE m == LaneOf[report.at]
<1>1. m \in Lanes
  BY ReportTyped
<1>2. /\ log' = [log EXCEPT ![m] = Append(@, report)] /\ delivered' = [delivered EXCEPT ![m] = Append(@, 0)]
      /\ UNCHANGED <<done, last, tries, host, todo, memory, dropped, started, faults>>
  BY DEF Ingest
<1> HIDE DEF m
<1>3. ASSUME NEW l \in Lanes
      PROVE  log[l] \in Seq(Reports) /\ delivered[l] \in Seq(Nat) /\ Len(delivered[l]) = Len(log[l])
  BY DEF StreamTyped, Kept, LaneKept
<1>4. faults \in Nat
  BY DEF StreamTyped, Kept
<1>5. ASSUME NEW l \in Lanes, NEW n \in DOMAIN log[l] PROVE Counted(l, n)'
  <2>1. n \in DOMAIN delivered[l] /\ delivered[l][n] \in Nat
    BY <1>3, <1>5
  <2>2. delivered'[l][n] = delivered[l][n]
    BY <1>1, <1>2, <1>3, <2>1 DEF StreamTyped, Kept
  <2> QED BY <1>2, <1>4, <2>1, <2>2, NothingCounted
<1> PICK n \in Nat : n = Len(log[m]) + 1
  BY <1>1, <1>3
<1>6. log'[m] = Append(log[m], report) /\ delivered'[m] = Append(delivered[m], 0)
      /\ \A l \in Lanes \ {m} : log'[l] = log[l]
  BY <1>1, <1>2, <1>3 DEF StreamTyped, Kept
<1>7. DOMAIN log'[m] = DOMAIN log[m] \cup {n} /\ delivered'[m][n] = 0
  BY <1>1, <1>3, <1>6
<1>8. ~Awaited(n, todo[m])
  <2> SUFFICES ASSUME NEW k \in DOMAIN todo[m], NEW a \in todo[m][k], a.record = n PROVE FALSE
    BY DEF Awaited
  <2>1. a.record \in done[m] + 1 .. last[m]
    BY <1>1 DEF BatchInv, BatchKept, Grouped
  <2>2. last[m] <= Len(log[m]) /\ last[m] \in Nat /\ done[m] \in Nat /\ Len(log[m]) \in Nat
    BY <1>1, <1>3 DEF StreamTyped, Kept, LaneKept
  <2> QED BY <2>1, <2>2
<1>9. Handed(m, n, "xid") = {}
  <2> SUFFICES ASSUME NEW x \in DOMAIN started, started[x].lane = m,
                      NEW a \in started[x].anomalies, a.record = n PROVE FALSE
    BY DEF Handed
  <2>1. started[x] \in Order /\ Placed(started[x]) /\ Founded(started[x])
    BY DEF PlaceInv, StreamTyped, Kept
  <2> DEFINE e == started[x]
  <2>2. e.last \in Nat /\ e.last <= last[m] /\ last[m] <= Len(log[m])
    <3> HIDE DEF e
    <3>1. e \in Order /\ Placed(e) /\ e.lane = m
      BY <2>1 DEF e
    <3> QED BY <3>1, BatchOf
  <2>3. a.record \in 1 .. e.last
    BY <2>1 DEF Founded
  <2>4. last[m] \in Nat /\ Len(log[m]) \in Nat
    BY <1>1, <1>3 DEF StreamTyped, Kept
  <2> HIDE DEF e
  <2> QED BY <2>2, <2>3, <2>4
<1>10. Counted(m, n)'
  <2>1. Cardinality(Handed(m, n, "xid")') = 0
    <3>1. Handed(m, n, "xid")' = Handed(m, n, "xid")
      BY <1>2 DEF Handed
    <3> QED BY <1>9, <3>1, FS_EmptySet
  <2>2. ~Awaited(n, todo'[m]) /\ faults' \in Nat
    BY <1>2, <1>4, <1>8
  <2> QED BY <1>7, <2>1, <2>2 DEF Counted, Pending, Awaited
<1>11. ASSUME NEW l \in Lanes, NEW k \in DOMAIN log'[l] PROVE Counted(l, k)'
  <2>1. CASE k \in DOMAIN log[l]
    BY <1>5, <2>1
  <2>2. CASE ~(k \in DOMAIN log[l])
    <3>1. l = m /\ k = n
      BY <1>6, <1>7, <1>11, <2>2
    <3> QED BY <1>10, <3>1
  <2> QED BY <2>1, <2>2
<1> QED BY <1>11 DEF CountInv

LEMMA CountInvoke ==
  ASSUME StreamTyped, CountInv, NEW l \in Lanes, NEW c \in Containers, NEW end \in Nat, Invoke(l, c, end)
  PROVE  CountInv'
<1>1. todo[l] = <<>> /\ end \in done[l] + 1 .. Len(log[l]) /\ UNCHANGED <<log, started, faults>>
  BY InvokeEffect
<1>2. PICK stop \in done[l] .. end :
        /\ Read(l, c, stop)
        /\ \/ GiveBack(l, end) /\ UNCHANGED <<host, todo>>
           \/ stop = end /\ Settles(l, end)
           \/ stop = end /\ \E groups \in Seq(SUBSET Anomaly) : Opens(l, c, end, groups)
  BY InvokeEffect
<1>3. /\ faults \in Nat /\ delivered \in [Lanes -> Seq(Nat)] /\ todo \in [Lanes -> Seq(SUBSET Anomaly)]
      /\ \A k \in Lanes : Len(delivered[k]) = Len(log[k]) /\ log[k] \in Seq(Reports)
  BY DEF StreamTyped, Kept, LaneKept
<1>4. /\ \A k \in Lanes \ {l} : delivered'[k] = delivered[k]
      /\ \A n \in DOMAIN log[l] : delivered'[l][n] =
           IF n \in done[l] + 1 .. stop THEN delivered[l][n] + 1 ELSE delivered[l][n]
  <2>1. delivered' = [delivered EXCEPT ![l] =
                        [n \in DOMAIN @ |-> IF n \in done[l] + 1 .. stop THEN @[n] + 1 ELSE @[n]]]
    BY <1>2 DEF Read
  <2>2. DOMAIN delivered[l] = DOMAIN log[l]
    BY <1>3
  <2> QED BY <1>3, <2>1, <2>2
<1>5. ASSUME NEW k \in Lanes, NEW n \in DOMAIN log[k]
      PROVE  delivered'[k][n] \in Nat /\ delivered[k][n] <= delivered'[k][n]
  <2>1. delivered[k][n] \in Nat
    BY <1>3, <1>5
  <2> QED BY <1>4, <1>5, <2>1
<1>6. CASE UNCHANGED todo
  BY <1>1, <1>3, <1>5, <1>6, NothingCounted, SMTT(30) DEF CountInv
<1>7. ASSUME stop = end, NEW groups \in Seq(SUBSET Anomaly), Opens(l, c, end, groups) PROVE CountInv'
  <2>1. Grouped(l, done[l] + 1, end, groups) /\ todo' = [todo EXCEPT ![l] = groups]
    BY <1>7 DEF Opens
  <2>2. todo'[l] = groups /\ \A k \in Lanes \ {l} : todo'[k] = todo[k]
    BY <1>3, <2>1
  <2>3. ASSUME NEW k \in Lanes \ {l}, NEW n \in DOMAIN log[k] PROVE Counted(k, n)'
    <3>1. k \in Lanes /\ todo'[k] = todo[k]
      BY <2>2
    <3>2. delivered'[k][n] \in Nat /\ delivered[k][n] <= delivered'[k][n]
      BY <1>5, <2>3, <3>1
    <3>3. faults <= faults' /\ faults' \in Nat
      BY <1>1, <1>3
    <3> QED BY <1>1, <2>3, <3>1, <3>2, <3>3, NothingCounted
  <2>4. ASSUME NEW n \in DOMAIN log[l] PROVE Counted(l, n)'
    <3>1. ~Awaited(n, todo[l])
      BY <1>1 DEF Awaited
    <3>2. CASE n \in done[l] + 1 .. end
      <4>1. delivered'[l][n] = delivered[l][n] + 1
        BY <1>4, <1>7, <3>2
      <4> QED BY <1>1, <1>3, <1>5, <3>1, <4>1, NothingCounted
    <3>3. CASE ~(n \in done[l] + 1 .. end)
      <4>1. ~Awaited(n, groups)
        BY <2>1, <3>3 DEF Awaited, Grouped
      <4> QED BY <1>1, <1>3, <1>5, <2>2, <4>1, NothingCounted, SMTT(30)
    <3> QED BY <3>2, <3>3
  <2> QED BY <1>1, <2>3, <2>4 DEF CountInv
<1> QED BY <1>2, <1>6, <1>7 DEF Settles

(* An invocation that is over has nothing to start. *)
LEMMA LeftWaits ==
  ASSUME StreamTyped, NEW l \in Lanes, Leave(l), NEW k \in Lanes, NEW n
  PROVE  Awaited(n, todo'[k]) => Awaited(n, todo[k])
<1>1. todo' = [todo EXCEPT ![l] = <<>>] /\ todo \in [Lanes -> Seq(SUBSET Anomaly)]
  BY DEF Leave, StreamTyped, Kept
<1>2. CASE k = l
  <2>1. todo'[k] = <<>>
    BY <1>1, <1>2
  <2>2. DOMAIN <<>> = {}
    OBVIOUS
  <2> QED BY <2>1, <2>2 DEF Awaited
<1>3. CASE k # l
  <2>1. todo'[k] = todo[k]
    BY <1>1, <1>3
  <2> QED BY <2>1
<1> QED BY <1>2, <1>3

(* A record's job is in one group, so what the head was given does not come
   again in the tail. *)
LEMMA SharedOnce ==
  ASSUME StreamTyped, BatchInv, NEW l \in Lanes, todo[l] # <<>>, NEW n
  PROVE  /\ Gets(Execution(l), l, n) => Awaited(n, todo[l]) /\ ~Awaited(n, Tail(todo[l]))
         /\ Awaited(n, Tail(todo[l])) => Awaited(n, todo[l])
<1> DEFINE rest == Tail(todo[l])
<1>1. /\ Execution(l).anomalies = todo[l][1] /\ 1 \in DOMAIN todo[l]
      /\ \A k \in DOMAIN rest : k + 1 \in DOMAIN todo[l] /\ rest[k] = todo[l][k + 1] /\ k + 1 # 1
  <2>1. /\ Head(todo[l]) = todo[l][1] /\ 1 \in DOMAIN todo[l] /\ rest \in Seq(SUBSET Anomaly)
        /\ \A k \in DOMAIN rest : k + 1 \in DOMAIN todo[l] /\ rest[k] = todo[l][k + 1]
    BY StartsOne
  <2>2. Execution(l).anomalies = todo[l][1]
    BY <2>1 DEF Execution
  <2>3. \A k \in DOMAIN rest : k \in Nat /\ k >= 1
    BY <2>1
  <2> QED BY <2>1, <2>2, <2>3
<1> HIDE DEF rest
<1>2. Awaited(n, rest) => Awaited(n, todo[l])
  <2> SUFFICES ASSUME NEW k \in DOMAIN rest, NEW a \in rest[k], a.kind = "xid", a.record = n PROVE Awaited(n, todo[l])
    BY DEF Awaited
  <2>1. k + 1 \in DOMAIN todo[l] /\ a \in todo[l][k + 1]
    BY <1>1
  <2> QED BY <2>1 DEF Awaited
<1>3. ASSUME Gets(Execution(l), l, n) PROVE Awaited(n, todo[l]) /\ ~Awaited(n, rest)
  <2>1. PICK a \in todo[l][1] : a.kind = "xid" /\ a.record = n
    BY <1>1, <1>3 DEF Gets
  <2>2. Awaited(n, todo[l])
    BY <1>1, <2>1 DEF Awaited
  <2>3. ASSUME NEW k \in DOMAIN rest, NEW b \in rest[k], b.record = n PROVE FALSE
    <3>1. k + 1 \in DOMAIN todo[l] /\ b \in todo[l][k + 1] /\ k + 1 # 1
      BY <1>1, <2>3
    <3>2. Grouped(l, done[l] + 1, last[l], todo[l])
      BY DEF BatchInv, BatchKept
    <3>3. a.gpu = log[l][n].at /\ b.gpu = log[l][n].at
      BY <1>1, <2>1, <2>3, <3>1, <3>2 DEF Grouped
    <3> QED BY <1>1, <2>1, <3>1, <3>2, <3>3 DEF Grouped
  <2> QED BY <2>2, <2>3 DEF Awaited
<1> QED BY <1>2, <1>3 DEF rest

(* A step that starts an execution. *)
LEMMA OneCounted ==
  ASSUME StreamTyped, BatchInv, CountInv, NEW l \in Lanes, todo[l] # <<>>, started' = Started(l),
         NEW k \in Lanes, NEW n \in DOMAIN log[k], UNCHANGED delivered,
         Awaited(n, todo'[k]) => Awaited(n, todo[k]),
         \/ faults' = faults + 1
         \/ faults' = faults /\ (k = l => (Awaited(n, todo'[k]) => Awaited(n, Tail(todo[l]))))
  PROVE  Counted(k, n)'
<1> DEFINE card == Cardinality(Handed(k, n, "xid"))
           card1 == Cardinality(Handed(k, n, "xid")')
           pend == Pending(k, n)
           pend1 == IF Awaited(n, todo'[k]) THEN 1 ELSE 0
<1>1. card \in Nat
  BY HandedFinite
<1>2. card1 = card + (IF Gets(Execution(l), k, n) THEN 1 ELSE 0)
  <2>1. Execution(l) \in Order /\ started' = Append(started, Execution(l))
    BY StartsOne
  <2> HIDE DEF card, card1
  <2> QED BY <2>1, HandedCount DEF card, card1
<1>3. card + pend <= delivered[k][n] + faults
  BY DEF CountInv, Counted
<1>4. delivered[k][n] \in Nat /\ faults \in Nat
  <2>1. delivered[k] \in Seq(Nat) /\ Len(delivered[k]) = Len(log[k]) /\ log[k] \in Seq(Reports) /\ faults \in Nat
    BY DEF StreamTyped, Kept, LaneKept
  <2> QED BY <2>1
<1>5. pend \in {0, 1} /\ pend1 \in {0, 1} /\ pend1 <= pend
  BY DEF Pending
<1>6. Gets(Execution(l), k, n) => k = l /\ pend = 1 /\ (faults' = faults => pend1 = 0)
  <2> SUFFICES ASSUME Gets(Execution(l), k, n) PROVE k = l /\ pend = 1 /\ (faults' = faults => pend1 = 0)
    OBVIOUS
  <2>1. k = l
    BY DEF Gets, Execution
  <2>2. Awaited(n, todo[l]) /\ ~Awaited(n, Tail(todo[l]))
    BY <2>1, SharedOnce
  <2>3. faults' = faults => ~Awaited(n, todo'[k])
    BY <1>4, <2>1, <2>2
  <2> QED BY <2>1, <2>2, <2>3 DEF Pending
<1> HIDE DEF card, card1, pend, pend1
<1>7. card1 + pend1 <= delivered[k][n] + faults'
  <2>1. CASE Gets(Execution(l), k, n)
    BY <1>1, <1>2, <1>3, <1>4, <1>5, <1>6, <2>1
  <2>2. CASE ~Gets(Execution(l), k, n)
    BY <1>1, <1>2, <1>3, <1>4, <1>5, <2>2
  <2> QED BY <2>1, <2>2
<1> QED BY <1>7 DEF Counted, Pending, pend1, card1, Awaited

LEMMA CountStart ==
  ASSUME StreamTyped, BatchInv, CountInv, NEW l \in Lanes, StartExecution(l) PROVE CountInv'
<1>1. todo[l] # <<>> /\ started' = Started(l) /\ UNCHANGED <<log, delivered, faults>>
  BY DEF StartExecution
<1>2. ASSUME NEW k \in Lanes, NEW n
      PROVE  /\ Awaited(n, todo'[k]) => Awaited(n, todo[k])
             /\ k = l => (Awaited(n, todo'[k]) => Awaited(n, Tail(todo[l])))
  <2>1. CASE Len(todo[l]) > 1
    <3>1. todo' = [todo EXCEPT ![l] = Tail(todo[l])] /\ todo \in [Lanes -> Seq(SUBSET Anomaly)]
      BY <2>1 DEF StartExecution, StreamTyped, Kept
    <3>2. \/ k = l /\ todo'[k] = Tail(todo[l])
          \/ k # l /\ todo'[k] = todo[k]
      BY <3>1
    <3> QED BY <1>1, <3>2, SharedOnce
  <2>2. CASE ~(Len(todo[l]) > 1)
    <3>1. Leave(l)
      BY <2>2 DEF StartExecution
    <3>2. Awaited(n, todo'[k]) => Awaited(n, todo[k])
      BY <3>1, LeftWaits
    <3>3. k = l => ~Awaited(n, todo'[k])
      <4>1. todo' = [todo EXCEPT ![l] = <<>>] /\ todo \in [Lanes -> Seq(SUBSET Anomaly)]
        BY <3>1 DEF Leave, StreamTyped, Kept
      <4>2. k = l => todo'[k] = <<>>
        BY <4>1
      <4>3. DOMAIN <<>> = {}
        OBVIOUS
      <4> QED BY <4>2, <4>3 DEF Awaited
    <3> QED BY <3>2, <3>3
  <2> QED BY <2>1, <2>2
<1> QED BY <1>1, <1>2, OneCounted DEF CountInv

LEMMA CountInvStep ==
  ASSUME StreamTyped, BatchInv, PlaceInv, CountInv, Delivering PROVE CountInv'
<1>1. ASSUME UNCHANGED <<log, started, delivered>>, faults <= faults', faults' \in Nat,
             \A k \in Lanes : \A n \in DOMAIN log[k] : Awaited(n, todo'[k]) => Awaited(n, todo[k])
      PROVE  CountInv'
  <2>1. ASSUME NEW k \in Lanes, NEW n \in DOMAIN log[k] PROVE Counted(k, n)'
    <3>1. delivered[k][n] \in Nat
      <4>1. delivered[k] \in Seq(Nat) /\ Len(delivered[k]) = Len(log[k]) /\ log[k] \in Seq(Reports)
        BY DEF StreamTyped, Kept, LaneKept
      <4> QED BY <4>1
    <3>2. delivered'[k][n] \in Nat /\ delivered[k][n] <= delivered'[k][n]
      BY <1>1, <3>1
    <3> QED BY <1>1, <3>2, NothingCounted
  <2> QED BY <1>1, <2>1 DEF CountInv
<1>2. faults \in Nat /\ faults <= faults
  BY DEF StreamTyped, Kept
<1>3. ASSUME NEW l \in Lanes, StartFails(l) PROVE CountInv'
  <2>1. faults <= faults' /\ faults' \in Nat
    BY <1>3, FaultCounted, DeliveryAssumption DEF StartFails
  <2> QED BY <1>1, <1>3, <2>1, LeftWaits DEF StartFails
<1>4. ASSUME NEW l \in Lanes, Die(l) PROVE CountInv'
  <2>1. faults <= faults' /\ faults' \in Nat
    BY <1>4, FaultCounted, DeliveryAssumption DEF Die
  <2> QED BY <1>1, <1>4, <2>1, LeftWaits DEF Die
<1>5. ASSUME NEW l \in Lanes, StartUnanswered(l) PROVE CountInv'
  <2>1. todo[l] # <<>> /\ started' = Started(l) /\ faults' = faults + 1 /\ UNCHANGED <<log, delivered>>
    BY <1>5 DEF StartUnanswered
  <2>2. ASSUME NEW k \in Lanes, NEW n \in DOMAIN log[k] PROVE Awaited(n, todo'[k]) => Awaited(n, todo[k])
    BY <1>5, LeftWaits DEF StartUnanswered
  <2> QED BY <2>1, <2>2, OneCounted DEF CountInv
<1>6. ASSUME NEW c \in Containers, Recycle(c) PROVE CountInv'
  BY <1>1, <1>2, <1>6 DEF Recycle
<1>7. CASE UNCHANGED deliveryVars
  BY <1>1, <1>2, <1>7 DEF deliveryVars
<1> QED BY <1>3, <1>4, <1>5, <1>6, <1>7, CountIngest, CountInvoke, CountStart DEF Delivering

LEMMA CountInvInit == ASSUME Init PROVE CountInv
BY DEF Init, DeliveryInit, CountInv

(* StartedInOrder: a batch that is delivered again opens executions again, but
   no more of them than it had deliveries and failures, in the order of its
   lane, and one for each job. *)
THEOREM StartedInOrderAlways == Spec => []StartedInOrder
<1>1. Init => StreamTyped /\ BatchInv /\ PlaceInv /\ OrderInv /\ CountInv
  BY StreamTypedInit, BatchInvInit, PlaceInvInit, CountInvInit
<1>2. StreamTyped /\ BatchInv /\ PlaceInv /\ OrderInv /\ CountInv /\ [Next]_vars =>
        StreamTyped' /\ BatchInv' /\ PlaceInv' /\ OrderInv' /\ CountInv'
  BY PipelineDelivers, StreamTypedStep, BatchInvStep, PlaceInvStep, CountInvStep
<1>3. StreamTyped /\ OrderInv /\ CountInv => StartedInOrder
  <2> SUFFICES ASSUME StreamTyped, OrderInv, CountInv PROVE StartedInOrder
    OBVIOUS
  <2>1. ASSUME NEW l \in Lanes, NEW n \in DOMAIN log[l]
        PROVE  Cardinality(Handed(l, n, "xid")) <= delivered[l][n] + faults
    <3>1. Cardinality(Handed(l, n, "xid")) \in Nat /\ Pending(l, n) \in {0, 1}
      BY HandedFinite DEF Pending
    <3>2. Cardinality(Handed(l, n, "xid")) + Pending(l, n) <= delivered[l][n] + faults
      BY <2>1 DEF CountInv, Counted
    <3>3. delivered[l][n] \in Nat /\ faults \in Nat
      <4>1. delivered[l] \in Seq(Nat) /\ Len(delivered[l]) = Len(log[l]) /\ log[l] \in Seq(Reports)
        BY DEF StreamTyped, Kept, LaneKept
      <4> QED BY <4>1 DEF StreamTyped, Kept
    <3> QED BY <3>1, <3>2, <3>3
  <2>2. ASSUME NEW x \in DOMAIN started, NEW y \in DOMAIN started, x < y, started[x].lane = started[y].lane
        PROVE  Ordered(started[x], started[y])
    BY <2>2 DEF OrderInv
  <2> QED BY <2>1, <2>2 DEF StartedInOrder, Ordered, Jobs
<1> QED BY <1>1, <1>2, <1>3, PTL DEF Spec

-----------------------------------------------------------------------------
(* An alarm is covered by the errors delivered *)

LEMMA Product == ASSUME NEW a \in Nat, NEW b \in Nat PROVE a * b \in Nat /\ a * (b + 1) = a * b + a
OBVIOUS

LEMMA ProductGrows == ASSUME NEW a \in Nat, NEW b \in Nat, NEW c \in Nat, b <= c PROVE a * b <= a * c
<1>1. PICK d \in Nat : c = b + d
  <2>1. c - b \in Nat /\ c = b + (c - b)
    OBVIOUS
  <2> QED BY <2>1
<1>2. a * c = a * b + a * d
  BY <1>1
<1>3. a * d \in Nat /\ a * b \in Nat
  BY Product
<1> QED BY <1>2, <1>3

(* The sum is over a finite set, of natural numbers. *)
LEMMA ErrorsAre ==
  ASSUME NEW records \in Seq(Reports), NEW counts \in Seq(Nat), Len(counts) = Len(records), NEW g
  PROVE  /\ IsFiniteSet(OwnIn(records, g))
         /\ \A n \in OwnIn(records, g) : /\ records[n].errors \in Nat /\ counts[n] \in Nat
                                         /\ records[n].errors * counts[n] \in Nat
         /\ Errors(records, counts, g) =
              SumFunctionOnSet([n \in OwnIn(records, g) |-> records[n].errors * counts[n]], OwnIn(records, g))
         /\ Errors(records, counts, g) \in Nat
<1> DEFINE own == OwnIn(records, g)
           f == [n \in own |-> records[n].errors * counts[n]]
           none == [n \in own |-> 0 * f[n]]
<1>1. IsFiniteSet(own)
  <2>1. own \subseteq 1 .. Len(records) /\ Len(records) \in Int
    BY DEF OwnIn
  <2>2. IsFiniteSet(1 .. Len(records))
    BY <2>1, FS_Interval
  <2> HIDE DEF own
  <2> QED BY <2>1, <2>2, FS_Subset
<1>2. ASSUME NEW n \in own PROVE records[n].errors \in Nat /\ counts[n] \in Nat /\ records[n].errors * counts[n] \in Nat
  <2>1. n \in DOMAIN records /\ n \in DOMAIN counts
    BY DEF OwnIn
  <2>2. records[n].errors \in Nat /\ counts[n] \in Nat
    BY <2>1, ReportTyped
  <2> QED BY <2>2, Product
<1>3. Errors(records, counts, g) = SumFunctionOnSet(f, own)
  BY DEF Errors, SumFunction
<1>4. \A n \in own : f[n] \in Nat
  BY <1>2
<1> HIDE DEF f, own
<1>5. SumFunctionOnSet(f, own) \in Int
  <2>1. \A n \in own : f[n] \in Int
    BY <1>4
  <2> QED BY <1>1, <2>1, SumTakes
<1>6. SumFunctionOnSet(none, own) <= SumFunctionOnSet(f, own)
  <2>1. \A n \in own : none[n] \in Int /\ f[n] \in Int /\ none[n] <= f[n]
    BY <1>4
  <2> HIDE DEF none
  <2> QED BY <1>1, <2>1, SumGrows
<1>7. SumFunctionOnSet(none, own) = 0
  <2>1. SumFunctionOnSet(none, own) = 0 * SumFunctionOnSet(f, own)
    <3>1. 0 \in Int /\ \A n \in own : f[n] \in Int
      BY <1>4
    <3> QED BY <1>1, <3>1, SumScales
  <2> QED BY <1>5, <2>1
<1>8. Errors(records, counts, g) \in Nat
  BY <1>3, <1>5, <1>6, <1>7
<1> QED BY <1>1, <1>2, <1>3, <1>8 DEF f, own

(* More deliveries, more errors. *)
(* More deliveries, more errors. *)
NoFewer(records, counts, more) ==
  /\ Len(counts) = Len(records) /\ Len(more) = Len(records)
  /\ \A n \in DOMAIN records : counts[n] <= more[n]

LEMMA ErrorsGrow ==
  ASSUME NEW records \in Seq(Reports), NEW counts \in Seq(Nat), NEW more \in Seq(Nat),
         NoFewer(records, counts, more), NEW g
  PROVE  Errors(records, counts, g) <= Errors(records, more, g)
<1> DEFINE own == OwnIn(records, g)
           f == [n \in own |-> records[n].errors * counts[n]]
           h == [n \in own |-> records[n].errors * more[n]]
<1>0. /\ Len(counts) = Len(records) /\ Len(more) = Len(records)
      /\ \A n \in DOMAIN records : counts[n] <= more[n]
  BY DEF NoFewer
<1>1. ASSUME NEW n \in own PROVE f[n] \in Int /\ h[n] \in Int /\ f[n] <= h[n]
  <2>1. records[n].errors \in Nat /\ counts[n] \in Nat /\ more[n] \in Nat /\ counts[n] <= more[n]
    BY <1>0, ErrorsAre DEF OwnIn
  <2>2. f[n] \in Nat /\ h[n] \in Nat
    BY <1>0, ErrorsAre
  <2>3. records[n].errors * counts[n] <= records[n].errors * more[n]
    BY <2>1, ProductGrows
  <2> QED BY <2>2, <2>3
<1>2. IsFiniteSet(own)
  BY <1>0, ErrorsAre
<1> HIDE DEF f, h, own
<1>3. SumFunctionOnSet(f, own) <= SumFunctionOnSet(h, own)
  BY <1>1, <1>2, SumGrows
<1> QED BY <1>0, <1>3, ErrorsAre DEF f, h, own

(* What one more delivery of one record brings. *)
Brings(records, i, g) == IF records[i].at = g THEN records[i].errors ELSE 0

OneMore(records, counts, more, i) ==
  /\ Len(counts) = Len(records) /\ Len(more) = Len(records)
  /\ i \in DOMAIN records /\ more[i] = counts[i] + 1
  /\ \A n \in DOMAIN records : n # i => more[n] = counts[n]

LEMMA ErrorsOnce ==
  ASSUME NEW records \in Seq(Reports), NEW counts \in Seq(Nat), NEW more \in Seq(Nat), NEW i \in Nat,
         OneMore(records, counts, more, i), NEW g
  PROVE  Errors(records, more, g) = Errors(records, counts, g) + Brings(records, i, g)
<1> DEFINE own == OwnIn(records, g)
           f == [n \in own |-> records[n].errors * counts[n]]
           h == [n \in own |-> records[n].errors * more[n]]
<1>1. /\ Len(counts) = Len(records) /\ Len(more) = Len(records)
      /\ i \in DOMAIN records /\ i \in DOMAIN counts /\ counts[i] \in Nat
  BY DEF OneMore
<1>2. more[i] = counts[i] + 1 /\ \A n \in DOMAIN records : n # i => more[n] = counts[n]
  BY DEF OneMore
<1>3. IsFiniteSet(own) /\ \A n \in own : f[n] \in Nat /\ h[n] \in Nat
  BY <1>1, ErrorsAre
<1>4. Errors(records, counts, g) = SumFunctionOnSet(f, own) /\ Errors(records, more, g) = SumFunctionOnSet(h, own)
  BY <1>1, ErrorsAre
<1>5. own \subseteq DOMAIN records /\ (i \in own <=> records[i].at = g)
  BY <1>1 DEF OwnIn
<1>6. \A n \in own : n # i => h[n] = f[n]
  BY <1>2, <1>5
<1>7. i \in own => h[i] = f[i] + records[i].errors
  <2> SUFFICES ASSUME i \in own PROVE h[i] = f[i] + records[i].errors
    OBVIOUS
  <2>1. records[i].errors \in Nat
    BY <1>1, ReportTyped
  <2> QED BY <1>1, <1>2, <2>1, Product
<1> HIDE DEF f, h, own
<1>8. CASE i \in own
  <2>1. SumFunctionOnSet(h, own) = SumFunctionOnSet(f, own) + (h[i] - f[i])
    <3>1. (\A n \in own : f[n] \in Int) /\ (\A n \in own : h[n] \in Int)
      BY <1>3
    <3> DEFINE rest == own \ {i}
    <3>2. IsFiniteSet(rest) /\ \A n \in rest : h[n] = f[n]
      BY <1>3, <1>6, FS_Subset
    <3> HIDE DEF rest
    <3>3. SumFunctionOnSet(h, rest) = SumFunctionOnSet(f, rest)
      BY <3>2, SumSame
    <3>4. SumFunctionOnSet(f, own) = f[i] + SumFunctionOnSet(f, own \ {i})
      BY <1>3, <1>8, <3>1, SumTakes
    <3>5. SumFunctionOnSet(h, own) = h[i] + SumFunctionOnSet(h, own \ {i})
      BY <1>3, <1>8, <3>1, SumTakes
    <3>6. SumFunctionOnSet(f, own \ {i}) \in Int
      <4>1. \A n \in rest : f[n] \in Int
        BY <3>1 DEF rest
      <4> QED BY <3>2, <4>1, SumTakes DEF rest
    <3> QED BY <1>8, <3>1, <3>3, <3>4, <3>5, <3>6 DEF rest
  <2>2. h[i] - f[i] = records[i].errors
    <3>1. f[i] \in Nat /\ records[i].errors \in Nat
      BY <1>1, <1>3, <1>8, ReportTyped
    <3> QED BY <1>7, <1>8, <3>1
  <2> QED BY <1>1, <1>4, <1>5, <1>8, <2>1, <2>2 DEF Brings
<1>9. CASE ~(i \in own)
  <2>1. SumFunctionOnSet(h, own) = SumFunctionOnSet(f, own)
    BY <1>3, <1>6, <1>9, SumSame
  <2>2. Errors(records, counts, g) \in Nat
    BY <1>1, ErrorsAre
  <2> QED BY <1>1, <1>4, <1>5, <1>9, <2>1, <2>2 DEF Brings
<1> QED BY <1>8, <1>9

(* A record that nobody read yet brings none. *)
LEMMA ErrorsIngest ==
  ASSUME NEW records \in Seq(Reports), NEW counts \in Seq(Nat), Len(counts) = Len(records), NEW r \in Reports, NEW g
  PROVE  Errors(Append(records, r), Append(counts, 0), g) = Errors(records, counts, g)
<1> DEFINE n == Len(records) + 1
           longer == Append(records, r)
           more == Append(counts, 0)
           own == OwnIn(records, g)
           own1 == OwnIn(longer, g)
           f == [k \in own |-> records[k].errors * counts[k]]
           h == [k \in own1 |-> longer[k].errors * more[k]]
<1>1. longer \in Seq(Reports) /\ more \in Seq(Nat) /\ Len(longer) = n /\ Len(more) = n /\ n \in Nat
  OBVIOUS
<1>2. DOMAIN longer = DOMAIN records \cup {n} /\ n \notin DOMAIN records /\ longer[n] = r /\ more[n] = 0
  OBVIOUS
<1>3. \A k \in DOMAIN records : longer[k] = records[k] /\ more[k] = counts[k]
  OBVIOUS
<1> HIDE DEF longer, more, n
<1>4. own1 = own \cup {k \in {n} : r.at = g}
  BY <1>2, <1>3 DEF OwnIn
<1>5. IsFiniteSet(own) /\ IsFiniteSet(own1) /\ (\A k \in own : f[k] \in Nat) /\ (\A k \in own1 : h[k] \in Nat)
  BY <1>1, ErrorsAre
<1>6. Errors(records, counts, g) = SumFunctionOnSet(f, own) /\ Errors(longer, more, g) = SumFunctionOnSet(h, own1)
  BY <1>1, ErrorsAre
<1>7. own \subseteq DOMAIN records /\ \A k \in own : h[k] = f[k]
  BY <1>3, <1>4 DEF OwnIn
<1>8. n \in own1 => h[n] = 0
  <2>1. r.errors \in Nat
    BY ReportTyped
  <2> QED BY <1>2, <2>1
<1> HIDE DEF f, h, own, own1
<1>9. SumFunctionOnSet(h, own) = SumFunctionOnSet(f, own)
  BY <1>5, <1>7, SumSame
<1>10. CASE r.at = g
  <2>1. own1 = own \cup {n} /\ n \notin own
    BY <1>2, <1>4, <1>7, <1>10
  <2>2. SumFunctionOnSet(h, own \cup {n}) = SumFunctionOnSet(h, own) + h[n]
    <3>1. \A k \in own \cup {n} : h[k] \in Int
      BY <1>5, <2>1
    <3> QED BY <1>5, <2>1, <3>1, SumAdds
  <2>3. Errors(records, counts, g) \in Nat
    BY ErrorsAre
  <2> QED BY <1>6, <1>8, <1>9, <2>1, <2>2, <2>3 DEF longer, more
<1>11. CASE r.at # g
  <2>1. own1 = own
    BY <1>4, <1>11
  <2> QED BY <1>6, <1>9, <2>1 DEF longer, more
<1> QED BY <1>10, <1>11

(* A window takes up the errors of a report, and may forget older ones. *)
LEMMA SlideSum ==
  ASSUME NEW w \in Windows, NEW e \in Nat
  PROVE  SumFunction(Slide(w, e)) <= SumFunction(w) + e /\ SumFunction(w) \in Int
<1>1. w \in Seq(Nat) /\ w \in Seq(Int) /\ e \in Int /\ Len(w) \in Nat /\ WindowLength \in Nat \ {0}
  <2>1. w \in Seq(Nat)
    BY DEF Windows
  <2> QED BY <2>1, WindowAssumption
<1>2. SumFunction(w) \in Int /\ SumFunction(Append(w, e)) = SumFunction(w) + e
  BY <1>1, SumAppend
<1>3. CASE e = 0
  BY <1>2, <1>3 DEF Slide
<1>4. CASE e # 0 /\ Len(w) = WindowLength
  <2>1. w # <<>>
    BY <1>1, <1>4
  <2>2. Tail(w) \in Seq(Int) /\ w[1] \in Nat
    BY <1>1, <2>1, HeadTailProperties, EmptySeq
  <2>3. SumFunction(w) = w[1] + SumFunction(Tail(w)) /\ SumFunction(Tail(w)) \in Int
    BY <1>1, <2>1, SumTail
  <2>4. SumFunction(Append(Tail(w), e)) = SumFunction(Tail(w)) + e
    BY <1>1, <2>2, SumAppend
  <2>5. Slide(w, e) = Append(Tail(w), e)
    BY <1>4 DEF Slide
  <2> QED BY <1>1, <1>2, <2>2, <2>3, <2>4, <2>5
<1>5. CASE e # 0 /\ Len(w) # WindowLength
  BY <1>2, <1>5 DEF Slide
<1> QED BY <1>3, <1>4, <1>5

(* Counts of deliveries, one higher for the k records after the first d. *)
Raised(counts, d, k) ==
  [n \in DOMAIN counts |-> IF n \in d + 1 .. d + k THEN counts[n] + 1 ELSE counts[n]]

LEMMA RaisedSteps ==
  ASSUME NEW counts \in Seq(Nat), NEW d \in Nat, NEW k \in Nat, d + k <= Len(counts)
  PROVE  /\ Raised(counts, d, k) \in Seq(Nat) /\ Len(Raised(counts, d, k)) = Len(counts)
         /\ \A n \in DOMAIN counts : counts[n] <= Raised(counts, d, k)[n]
         /\ k = 0 => Raised(counts, d, k) = counts
         /\ k > 0 => Raised(counts, d, k) = [Raised(counts, d, k - 1) EXCEPT ![d + k] = @ + 1]
<1> DEFINE now == Raised(counts, d, k)
<1>1. counts \in [1 .. Len(counts) -> Nat] /\ Len(counts) \in Nat
  OBVIOUS
<1>2. now \in [1 .. Len(counts) -> Nat]
  BY <1>1 DEF Raised
<1>3. \A n \in DOMAIN counts : counts[n] <= now[n]
  BY <1>1 DEF Raised
<1>4. now \in Seq(Nat) /\ Len(now) = Len(counts)
  <2> HIDE DEF now
  <2> QED BY <1>1, <1>2
<1>5. ASSUME k = 0 PROVE now = counts
  <2>1. \A n \in 1 .. Len(counts) : now[n] = counts[n]
    BY <1>1, <1>5 DEF Raised
  <2> HIDE DEF now
  <2> QED BY <1>1, <1>2, <2>1
<1>6. ASSUME k > 0 PROVE now = [Raised(counts, d, k - 1) EXCEPT ![d + k] = @ + 1]
  <2> DEFINE i == d + k
             was == Raised(counts, d, k - 1)
             next == [was EXCEPT ![i] = @ + 1]
  <2>1. i \in 1 .. Len(counts)
    BY <1>1, <1>6
  <2>2. was \in [1 .. Len(counts) -> Nat]
    BY <1>1 DEF Raised
  <2>3. ASSUME NEW n \in 1 .. Len(counts) PROVE now[n] = next[n]
    <3>1. was[n] = IF n \in d + 1 .. d + (k - 1) THEN counts[n] + 1 ELSE counts[n]
      BY <1>1 DEF Raised
    <3>2. now[n] = IF n \in d + 1 .. i THEN counts[n] + 1 ELSE counts[n]
      BY <1>1 DEF Raised
    <3>3. next[n] = IF n = i THEN was[n] + 1 ELSE was[n]
      <4> HIDE DEF was, i
      <4> QED BY <2>1, <2>2
    <3>4. n \in d + 1 .. i <=> n = i \/ n \in d + 1 .. d + (k - 1)
      BY <1>1, <1>6
    <3>5. ~(i \in d + 1 .. d + (k - 1))
      BY <1>1
    <3> HIDE DEF i, was, now, next
    <3> QED BY <3>1, <3>2, <3>3, <3>4, <3>5
  <2> HIDE DEF was, i
  <2>4. next \in [1 .. Len(counts) -> Nat]
    BY <2>1, <2>2
  <2> HIDE DEF now, next
  <2>5. now = next
    BY <1>2, <2>3, <2>4
  <2> QED BY <2>5 DEF next, was, i
<1> QED BY <1>3, <1>4, <1>5, <1>6

(* The deliveries of a lane once k records of a batch were read. *)
Partly(l, k) == Raised(delivered[l], done[l], k)

LEMMA PartlySteps ==
  ASSUME StreamTyped, NEW l \in Lanes, NEW k \in Nat, done[l] + k <= Len(log[l])
  PROVE  /\ Partly(l, k) \in Seq(Nat) /\ Len(Partly(l, k)) = Len(log[l])
         /\ \A n \in DOMAIN log[l] : delivered[l][n] <= Partly(l, k)[n]
         /\ k = 0 => Partly(l, k) = delivered[l]
         /\ k > 0 => /\ done[l] + k \in DOMAIN log[l]
                     /\ Partly(l, k) = [Partly(l, k - 1) EXCEPT ![done[l] + k] = @ + 1]
<1>1. /\ delivered[l] \in Seq(Nat) /\ log[l] \in Seq(Reports) /\ Len(delivered[l]) = Len(log[l]) /\ done[l] \in Nat
      /\ DOMAIN delivered[l] = DOMAIN log[l] /\ DOMAIN log[l] = 1 .. Len(log[l]) /\ Len(log[l]) \in Nat
  BY DEF StreamTyped, Kept, LaneKept
<1>2. k > 0 => done[l] + k \in DOMAIN log[l]
  BY <1>1
<1>3. done[l] + k <= Len(delivered[l])
  BY <1>1
<1> DEFINE counts == delivered[l]
           d == done[l]
<1>4. counts \in Seq(Nat) /\ d \in Nat /\ d + k <= Len(counts)
  BY <1>1, <1>3
<1> HIDE DEF counts, d
<1>5. /\ Raised(counts, d, k) \in Seq(Nat) /\ Len(Raised(counts, d, k)) = Len(counts)
      /\ \A n \in DOMAIN counts : counts[n] <= Raised(counts, d, k)[n]
      /\ k = 0 => Raised(counts, d, k) = counts
      /\ k > 0 => Raised(counts, d, k) = [Raised(counts, d, k - 1) EXCEPT ![d + k] = @ + 1]
  BY <1>4, RaisedSteps
<1> QED BY <1>1, <1>2, <1>5 DEF Partly, counts, d

(* The errors of a GPU once k records of a batch were read. *)
ErrorsAfter(l, k, g) == IF LaneOf[g] = l THEN Errors(log[l], Partly(l, k), g) ELSE ErrorsOf(LaneOf[g], g)

LEMMA ErrorsOfAre ==
  ASSUME StreamTyped, NEW l \in Lanes, NEW g
  PROVE  /\ ErrorsOf(l, g) \in Nat /\ log[l] \in Seq(Reports) /\ delivered[l] \in Seq(Nat)
         /\ Len(delivered[l]) = Len(log[l])
<1>1. log[l] \in Seq(Reports) /\ delivered[l] \in Seq(Nat) /\ Len(delivered[l]) = Len(log[l])
  BY DEF StreamTyped, Kept, LaneKept
<1> QED BY <1>1, ErrorsAre DEF ErrorsOf

LEMMA ErrorsAfterStep ==
  ASSUME StreamTyped, NEW l \in Lanes, NEW k \in Nat \ {0}, done[l] + k <= Len(log[l]), NEW g \in Gpus
  PROVE  /\ ErrorsAfter(l, k - 1, g) \in Nat
         /\ ErrorsAfter(l, k, g) = ErrorsAfter(l, k - 1, g)
              + Brings(log[l], done[l] + k, g)
<1> DEFINE i == done[l] + k
           was == Partly(l, k - 1)
<1>1. done[l] \in Nat /\ Len(log[l]) \in Nat /\ k - 1 \in Nat /\ done[l] + (k - 1) <= Len(log[l]) /\ k > 0
  BY DEF StreamTyped, Kept
<1>2. was \in Seq(Nat) /\ Len(was) = Len(log[l])
  BY <1>1, PartlySteps
<1>3. i \in DOMAIN log[l] /\ Partly(l, k) = [was EXCEPT ![i] = @ + 1]
  BY <1>1, PartlySteps
<1>4. LaneOf[log[l][i].at] = l
  BY <1>3 DEF StreamTyped, LaneKept
<1>5. log[l] \in Seq(Reports)
  BY ErrorsOfAre
<1> HIDE DEF i, was
<1>6. Errors(log[l], Partly(l, k), g) =
        Errors(log[l], was, g) + Brings(log[l], i, g)
  <2>1. PICK records \in Seq(Reports) : records = log[l]
    BY <1>5
  <2>2. PICK counts \in Seq(Nat) : counts = was
    BY <1>2
  <2>3. PICK more \in Seq(Nat) : more = Partly(l, k)
    BY <1>1, PartlySteps
  <2>4. PICK n \in Nat : n = i
    BY <1>3, <1>5
  <2>5. OneMore(records, counts, more, n)
    BY <1>2, <1>3, <2>1, <2>2, <2>3, <2>4 DEF OneMore
  <2>6. Errors(records, more, g) = Errors(records, counts, g) + Brings(records, n, g)
    BY <2>5, ErrorsOnce
  <2> QED BY <2>1, <2>2, <2>3, <2>4, <2>6
<1>7. Errors(log[l], was, g) \in Nat
  BY <1>2, <1>5, ErrorsAre
<1>8. CASE LaneOf[g] = l
  BY <1>3, <1>6, <1>7, <1>8 DEF ErrorsAfter, i, was
<1>9. CASE LaneOf[g] # l
  <2>1. log[l][i].at # g
    BY <1>4, <1>9
  <2>2. ErrorsOf(LaneOf[g], g) \in Nat
    BY ErrorsOfAre, ReportsAssumption
  <2> QED BY <1>9, <2>1, <2>2 DEF ErrorsAfter, Brings, i
<1> QED BY <1>8, <1>9

(* What a container remembers after k records is covered by their delivery. *)
LEMMA RememberedCovered ==
  ASSUME StreamTyped, AlarmInv, NEW l \in Lanes, NEW c \in Containers, NEW N \in Nat, done[l] + N <= Len(log[l])
  PROVE  \A k \in 0 .. N : \A g \in Gpus :
           SumFunction(Remembered(memory[c], l, k)[g]) <= ErrorsAfter(l, k, g)
<1> DEFINE seen(k) == Remembered(memory[c], l, k)
           Known == {k \in Nat : k <= N => \A g \in Gpus : SumFunction(seen(k)[g]) <= ErrorsAfter(l, k, g)}
<1>1. done[l] \in Nat /\ Len(log[l]) \in Nat /\ memory[c] \in [Gpus -> Windows]
  BY DEF StreamTyped, Kept
<1>2. /\ seen(0) = memory[c]
      /\ \A k \in 0 .. N : seen(k) \in [Gpus -> Windows]
      /\ \A k \in 1 .. N : seen(k) = [seen(k - 1) EXCEPT ![log[l][done[l] + k].at] = Slide(@, log[l][done[l] + k].errors)]
  <2> DEFINE windows == memory[c]
  <2>1. windows \in [Gpus -> Windows]
    BY <1>1
  <2> HIDE DEF windows
  <2>2. /\ Remembered(windows, l, 0) = windows
        /\ \A k \in 0 .. N : Remembered(windows, l, k) \in [Gpus -> Windows]
        /\ \A k \in 1 .. N : Remembered(windows, l, k) =
             [Remembered(windows, l, k - 1) EXCEPT ![log[l][done[l] + k].at] = Slide(@, log[l][done[l] + k].errors)]
    BY <2>1, RememberedSteps
  <2> QED BY <2>2, Zenon DEF windows
<1> HIDE DEF seen
<1>3. 0 \in Known
  <2>1. Partly(l, 0) = delivered[l]
    BY <1>1, PartlySteps
  <2>2. ASSUME NEW g \in Gpus PROVE SumFunction(seen(0)[g]) <= ErrorsAfter(l, 0, g)
    <3>1. SumFunction(memory[c][g]) <= ErrorsOf(LaneOf[g], g)
      BY DEF AlarmInv
    <3> QED BY <1>2, <2>1, <3>1 DEF ErrorsAfter, ErrorsOf
  <2> QED BY <2>2
<1>4. ASSUME NEW k \in Nat, k \in Known PROVE k + 1 \in Known
  <2> SUFFICES ASSUME k + 1 <= N, NEW g \in Gpus
               PROVE  SumFunction(seen(k + 1)[g]) <= ErrorsAfter(l, k + 1, g)
    BY <1>4
  <2> DEFINE i == done[l] + (k + 1)
             r == log[l][i]
  <2>1. k + 1 \in 1 .. N /\ k \in 0 .. N /\ (k + 1) - 1 = k /\ k + 1 \in Nat \ {0} /\ i \in 1 .. Len(log[l])
        /\ done[l] + (k + 1) <= Len(log[l])
    BY <1>1
  <2>2. seen(k + 1) = [seen(k) EXCEPT ![r.at] = Slide(@, r.errors)] /\ seen(k) \in [Gpus -> Windows]
    BY <1>2, <2>1
  <2>3. SumFunction(seen(k)[g]) <= ErrorsAfter(l, k, g)
    BY <1>4, <2>1
  <2>4. /\ ErrorsAfter(l, k, g) \in Nat
        /\ ErrorsAfter(l, k + 1, g) = ErrorsAfter(l, k, g) + (IF r.at = g THEN r.errors ELSE 0)
    BY <2>1, ErrorsAfterStep DEF Brings
  <2>5. r.at \in Gpus /\ r.errors \in Nat
    <3>1. log[l] \in Seq(Reports)
      BY ErrorsOfAre
    <3>2. r \in Reports
      BY <2>1, <3>1
    <3> QED BY <3>2, ReportTyped
  <2> HIDE DEF r, i
  <2> DEFINE w == seen(k)[g]
  <2>6. w \in Windows
    BY <2>2
  <2>7. SumFunction(Slide(w, r.errors)) <= SumFunction(w) + r.errors /\ SumFunction(w) \in Int
    BY <2>5, <2>6, SlideSum
  <2>8. seen(k + 1)[g] = IF r.at = g THEN Slide(w, r.errors) ELSE w
    BY <2>2, <2>5
  <2>9. SumFunction(Slide(w, r.errors)) \in Int
    <3>1. Slide(w, r.errors) \in Windows
      BY <2>5, <2>6, SlideTyped
    <3>2. 0 \in Nat
      OBVIOUS
    <3> QED BY <3>1, <3>2, SlideSum
  <2> HIDE DEF w
  <2> QED BY <2>3, <2>4, <2>5, <2>7, <2>8, <2>9 DEF w
<1>5. ASSUME NEW k \in 0 .. N PROVE \A g \in Gpus : SumFunction(seen(k)[g]) <= ErrorsAfter(l, k, g)
  <2> HIDE DEF Known
  <2>1. k \in Known
    BY <1>3, <1>4, Induction
  <2> QED BY <2>1 DEF Known
<1> QED BY <1>5 DEF seen

(* The more records of a batch are read, the more errors their GPUs delivered. *)
LEMMA ErrorsAfterGrow ==
  ASSUME StreamTyped, NEW l \in Lanes, NEW k \in Nat, NEW m \in Nat, k <= m, done[l] + m <= Len(log[l]), NEW g \in Gpus
  PROVE  /\ ErrorsAfter(l, k, g) \in Nat /\ ErrorsAfter(l, m, g) \in Nat
         /\ ErrorsAfter(l, k, g) <= ErrorsAfter(l, m, g)
<1>1. done[l] \in Nat /\ Len(log[l]) \in Nat /\ done[l] + k <= Len(log[l])
  BY DEF StreamTyped, Kept
<1>2. PICK records \in Seq(Reports) : records = log[l]
  BY ErrorsOfAre
<1>3. PICK counts \in Seq(Nat) : counts = Partly(l, k)
  BY <1>1, PartlySteps
<1>4. PICK more \in Seq(Nat) : more = Partly(l, m)
  BY <1>1, PartlySteps
<1>5. Len(counts) = Len(records) /\ Len(more) = Len(records)
  BY <1>1, <1>2, <1>3, <1>4, PartlySteps
<1>6. \A n \in DOMAIN records : counts[n] <= more[n]
  <2>1. ASSUME NEW n \in DOMAIN records PROVE counts[n] <= more[n]
    <3>1. delivered[l] \in Seq(Nat) /\ Len(delivered[l]) = Len(log[l])
      BY ErrorsOfAre
    <3>2. n \in DOMAIN delivered[l] /\ delivered[l][n] \in Nat
      BY <1>2, <3>1
    <3>3. n \in done[l] + 1 .. done[l] + k => n \in done[l] + 1 .. done[l] + m
      BY <1>1
    <3>4. /\ counts[n] = IF n \in done[l] + 1 .. done[l] + k THEN delivered[l][n] + 1 ELSE delivered[l][n]
          /\ more[n] = IF n \in done[l] + 1 .. done[l] + m THEN delivered[l][n] + 1 ELSE delivered[l][n]
      BY <1>3, <1>4, <3>2 DEF Partly, Raised
    <3> QED BY <3>2, <3>3, <3>4
  <2> QED BY <2>1
<1>7. Errors(records, counts, g) <= Errors(records, more, g)
  BY <1>5, <1>6, ErrorsGrow DEF NoFewer
<1>8. Errors(records, counts, g) \in Nat /\ Errors(records, more, g) \in Nat
  BY <1>5, ErrorsAre
<1>9. LaneOf[g] \in Lanes /\ ErrorsOf(LaneOf[g], g) \in Nat
  BY ErrorsOfAre, ReportsAssumption
<1> QED BY <1>2, <1>3, <1>4, <1>7, <1>8, <1>9 DEF ErrorsAfter

LEMMA ErrorsStay ==
  ASSUME StreamTyped, UNCHANGED <<log, delivered>>, NEW l \in Lanes, NEW g
  PROVE  ErrorsOf(l, g)' \in Nat /\ ErrorsOf(l, g) <= ErrorsOf(l, g)'
<1>1. ErrorsOf(l, g)' = ErrorsOf(l, g)
  BY DEF ErrorsOf
<1> QED BY <1>1, ErrorsOfAre

(* The alarms stay covered when no GPU's errors fall, no container remembers
   more than it did, and only what waited for its execution is started. *)
LEMMA AlarmStays ==
  ASSUME StreamTyped, AlarmInv,
         \A l \in Lanes, g \in Gpus : ErrorsOf(l, g)' \in Nat /\ ErrorsOf(l, g) <= ErrorsOf(l, g)',
         \A c \in Containers, g \in Gpus : memory'[c][g] \in {memory[c][g], <<>>},
         \A l \in Lanes : \A k \in DOMAIN todo'[l] : \E j \in DOMAIN todo[l] : todo'[l][k] = todo[l][j],
         \A x \in DOMAIN started' :
           \/ x \in DOMAIN started /\ started'[x] = started[x]
           \/ \E l \in Lanes : \E k \in DOMAIN todo[l] :
                started'[x].lane = l /\ started'[x].anomalies = todo[l][k]
  PROVE  AlarmInv'
<1>1. ASSUME NEW l \in Lanes, NEW found \in SUBSET Anomaly, Covered(l, found) PROVE Covered(l, found)'
  <2>1. ASSUME NEW a \in found, a.kind = "ecc" PROVE ErrorsOf(l, a.gpu)' >= 5
    <3>1. a.gpu \in Gpus
      BY DEF Anomaly
    <3>2. ErrorsOf(l, a.gpu) >= 5
      BY <1>1, <2>1 DEF Covered
    <3>3. ErrorsOf(l, a.gpu) \in Nat /\ ErrorsOf(l, a.gpu)' \in Nat /\ ErrorsOf(l, a.gpu) <= ErrorsOf(l, a.gpu)'
      BY <3>1, ErrorsOfAre
    <3> QED BY <3>2, <3>3
  <2> QED BY <2>1 DEF Covered
<1>2. ASSUME NEW c \in Containers, NEW g \in Gpus
      PROVE  SumFunction(memory'[c][g]) <= ErrorsOf(LaneOf[g], g)'
  <2>1. LaneOf[g] \in Lanes
    BY ReportsAssumption
  <2>2. /\ ErrorsOf(LaneOf[g], g) \in Nat /\ ErrorsOf(LaneOf[g], g)' \in Nat
        /\ ErrorsOf(LaneOf[g], g) <= ErrorsOf(LaneOf[g], g)'
    BY <2>1, ErrorsOfAre
  <2>3. CASE memory'[c][g] = memory[c][g]
    <3>1. SumFunction(memory[c][g]) <= ErrorsOf(LaneOf[g], g)
      BY DEF AlarmInv
    <3>2. SumFunction(memory[c][g]) \in Int
      <4>1. memory[c][g] \in Windows /\ 0 \in Nat
        BY DEF StreamTyped, Kept
      <4> QED BY <4>1, SlideSum
    <3> QED BY <2>2, <2>3, <3>1, <3>2
  <2>4. CASE memory'[c][g] = <<>>
    <3>1. SumFunction(<<>>) = 0
      <4>1. DOMAIN <<>> = {}
        OBVIOUS
      <4> QED BY <4>1, SumEmpty DEF SumFunction
    <3> QED BY <2>2, <2>4, <3>1
  <2> QED BY <2>3, <2>4
<1>3. ASSUME NEW l \in Lanes, NEW k \in DOMAIN todo[l] PROVE todo[l][k] \in SUBSET Anomaly /\ Covered(l, todo[l][k])
  BY DEF AlarmInv, StreamTyped, Kept
<1>4. ASSUME NEW x \in DOMAIN started
      PROVE  /\ started[x].lane \in Lanes /\ started[x].anomalies \in SUBSET Anomaly
             /\ Covered(started[x].lane, started[x].anomalies)
  <2>1. started[x] \in Order
    BY DEF StreamTyped, Kept
  <2> QED BY <2>1 DEF AlarmInv, Order
<1>5. ASSUME NEW l \in Lanes, NEW k \in DOMAIN todo'[l] PROVE Covered(l, todo[l][k])'
  <2>1. PICK j \in DOMAIN todo[l] : todo'[l][k] = todo[l][j]
    OBVIOUS
  <2>2. PICK found \in SUBSET Anomaly : found = todo[l][j]
    BY <1>3
  <2>3. Covered(l, found)'
    BY <1>1, <1>3, <2>2
  <2> QED BY <2>1, <2>2, <2>3 DEF Covered, ErrorsOf
<1>6. ASSUME NEW x \in DOMAIN started' PROVE Covered(started[x].lane, started[x].anomalies)'
  <2>1. PICK l \in Lanes, found \in SUBSET Anomaly :
           started'[x].lane = l /\ started'[x].anomalies = found /\ Covered(l, found)
    <3>1. CASE x \in DOMAIN started /\ started'[x] = started[x]
      BY <1>4, <3>1
    <3>2. CASE \E l \in Lanes : \E k \in DOMAIN todo[l] :
                 started'[x].lane = l /\ started'[x].anomalies = todo[l][k]
      BY <1>3, <3>2
    <3> QED BY <3>1, <3>2
  <2>2. Covered(l, found)'
    BY <1>1, <2>1
  <2> QED BY <2>1, <2>2 DEF Covered, ErrorsOf
<1> QED BY <1>2, <1>5, <1>6 DEF AlarmInv

LEMMA AlarmIngest == ASSUME StreamTyped, AlarmInv, NEW report \in Reports, Ingest(report) PROVE AlarmInv'
<1> DEFINE m == LaneOf[report.at]
<1>1. m \in Lanes
  BY ReportTyped
<1>2. /\ log' = [log EXCEPT ![m] = Append(@, report)] /\ delivered' = [delivered EXCEPT ![m] = Append(@, 0)]
      /\ UNCHANGED <<memory, todo, started>>
  BY DEF Ingest
<1> HIDE DEF m
<1>3. ASSUME NEW l \in Lanes, NEW g \in Gpus PROVE ErrorsOf(l, g)' \in Nat /\ ErrorsOf(l, g) <= ErrorsOf(l, g)'
  <2>1. PICK records \in Seq(Reports) : records = log[l]
    BY ErrorsOfAre
  <2>2. PICK counts \in Seq(Nat) : counts = delivered[l]
    BY ErrorsOfAre
  <2>3. Len(counts) = Len(records) /\ Errors(records, counts, g) \in Nat /\ ErrorsOf(l, g) = Errors(records, counts, g)
    BY <2>1, <2>2, ErrorsOfAre DEF ErrorsOf
  <2>4. log \in [Lanes -> Seq(Reports)] /\ delivered \in [Lanes -> Seq(Nat)]
    BY DEF StreamTyped, Kept
  <2>5. CASE l = m
    <3>1. log'[l] = Append(records, report) /\ delivered'[l] = Append(counts, 0)
      BY <1>1, <1>2, <2>1, <2>2, <2>4, <2>5
    <3>2. Errors(Append(records, report), Append(counts, 0), g) = Errors(records, counts, g)
      BY <2>3, ErrorsIngest
    <3> QED BY <2>3, <3>1, <3>2 DEF ErrorsOf
  <2>6. CASE l # m
    <3>1. log'[l] = records /\ delivered'[l] = counts
      BY <1>2, <2>1, <2>2, <2>4, <2>6
    <3> QED BY <2>3, <3>1 DEF ErrorsOf
  <2> QED BY <2>5, <2>6
<1> QED BY <1>2, <1>3, AlarmStays

(* The memory of a new container is empty. *)
LEMMA ColdIsEmpty ==
  ASSUME StreamTyped, NEW c \in Containers \cup {None}, memory' = [memory EXCEPT ![c] = Cold],
         NEW d \in Containers, NEW g \in Gpus
  PROVE  memory'[d][g] \in {memory[d][g], <<>>}
<1>1. memory'[d] = IF c = d THEN Cold ELSE memory[d]
  BY DEF StreamTyped, Kept
<1>2. Cold[g] = <<>>
  BY DEF Cold
<1> QED BY <1>1, <1>2

(* What waits after an invocation left waited before. *)
LEMMA LeftGroups ==
  ASSUME StreamTyped, NEW l \in Lanes, Leave(l), NEW m \in Lanes, NEW k \in DOMAIN todo'[m]
  PROVE  \E j \in DOMAIN todo[m] : todo'[m][k] = todo[m][j]
<1>1. todo' = [todo EXCEPT ![l] = <<>>] /\ todo \in [Lanes -> Seq(SUBSET Anomaly)]
  BY DEF Leave, StreamTyped, Kept
<1>2. CASE m = l
  <2>1. todo'[m] = <<>>
    BY <1>1, <1>2
  <2>2. DOMAIN <<>> = {}
    OBVIOUS
  <2> QED BY <2>1, <2>2
<1>3. CASE m # l
  <2>1. todo'[m] = todo[m]
    BY <1>1, <1>3
  <2> QED BY <2>1
<1> QED BY <1>2, <1>3

LEMMA AlarmRecycle == ASSUME StreamTyped, AlarmInv, NEW c \in Containers, Recycle(c) PROVE AlarmInv'
<1>1. UNCHANGED <<log, delivered, todo, started>> /\ memory' = [memory EXCEPT ![c] = Cold]
  BY DEF Recycle
<1>2. \A d \in Containers, g \in Gpus : memory'[d][g] \in {memory[d][g], <<>>}
  BY <1>1, ColdIsEmpty
<1>3. \A l \in Lanes, g \in Gpus : ErrorsOf(l, g)' \in Nat /\ ErrorsOf(l, g) <= ErrorsOf(l, g)'
  BY <1>1, ErrorsStay
<1> QED BY <1>1, <1>2, <1>3, AlarmStays

LEMMA AlarmLeft ==
  ASSUME StreamTyped, AlarmInv, NEW l \in Lanes, StartFails(l) \/ Die(l) PROVE AlarmInv'
<1>1. UNCHANGED <<log, delivered, started>> /\ Leave(l)
  BY DEF StartFails, Die
<1>2. \A d \in Containers, g \in Gpus : memory'[d][g] \in {memory[d][g], <<>>}
  <2>1. CASE StartFails(l)
    BY <2>1 DEF StartFails
  <2>2. CASE Die(l)
    <3>1. memory' = [memory EXCEPT ![host[l]] = Cold] /\ host[l] \in Containers \cup {None}
      BY <2>2 DEF Die, StreamTyped, Kept
    <3> QED BY <3>1, ColdIsEmpty
  <2> QED BY <2>1, <2>2
<1>3. \A m \in Lanes, g \in Gpus : ErrorsOf(m, g)' \in Nat /\ ErrorsOf(m, g) <= ErrorsOf(m, g)'
  BY <1>1, ErrorsStay
<1>4. \A m \in Lanes : \A k \in DOMAIN todo'[m] : \E j \in DOMAIN todo[m] : todo'[m][k] = todo[m][j]
  BY <1>1, LeftGroups
<1> QED BY <1>1, <1>2, <1>3, <1>4, AlarmStays

(* The group at the head is started. *)
LEMMA AlarmStart ==
  ASSUME StreamTyped, AlarmInv, NEW l \in Lanes, StartExecution(l) \/ StartUnanswered(l) PROVE AlarmInv'
<1>1. todo[l] # <<>> /\ started' = Started(l) /\ UNCHANGED <<log, memory, delivered>>
  BY DEF StartExecution, StartUnanswered
<1>2. /\ Execution(l) \in Order /\ Started(l) = Append(started, Execution(l))
      /\ Head(todo[l]) = todo[l][1] /\ 1 \in DOMAIN todo[l]
      /\ \A k \in DOMAIN Tail(todo[l]) : k + 1 \in DOMAIN todo[l] /\ Tail(todo[l])[k] = todo[l][k + 1]
  BY <1>1, StartsOne
<1>3. ASSUME NEW x \in DOMAIN started'
      PROVE  \/ x \in DOMAIN started /\ started'[x] = started[x]
             \/ \E m \in Lanes : \E k \in DOMAIN todo[m] :
                  started'[x].lane = m /\ started'[x].anomalies = todo[m][k]
  <2>1. started \in Seq(Order)
    BY DEF StreamTyped, Kept
  <2>2. \/ x \in DOMAIN started /\ started'[x] = started[x]
        \/ started'[x] = Execution(l)
    <3> HIDE DEF Execution
    <3> QED BY <1>1, <1>2, <2>1
  <2>3. Execution(l).lane = l /\ Execution(l).anomalies = todo[l][1]
    BY <1>2 DEF Execution
  <2> QED BY <1>2, <2>2, <2>3
<1>4. ASSUME NEW m \in Lanes, NEW k \in DOMAIN todo'[m]
      PROVE  \E j \in DOMAIN todo[m] : todo'[m][k] = todo[m][j]
  <2>1. CASE UNCHANGED todo
    BY <2>1
  <2>2. CASE Leave(l)
    BY <2>2, LeftGroups
  <2>3. CASE todo' = [todo EXCEPT ![l] = Tail(todo[l])]
    <3>1. todo'[m] = IF m = l THEN Tail(todo[l]) ELSE todo[m]
      BY <2>3 DEF StreamTyped, Kept
    <3>2. CASE m = l
      BY <1>2, <3>1, <3>2
    <3>3. CASE m # l
      BY <3>1, <3>3
    <3> QED BY <3>2, <3>3
  <2> QED BY <2>1, <2>2, <2>3 DEF StartExecution, StartUnanswered
<1>5. \A m \in Lanes, g \in Gpus : ErrorsOf(m, g)' \in Nat /\ ErrorsOf(m, g) <= ErrorsOf(m, g)'
  BY <1>1, ErrorsStay
<1> QED BY <1>1, <1>3, <1>4, <1>5, AlarmStays

(* An invocation delivers the records that it counts. *)
LEMMA AlarmInvoke ==
  ASSUME StreamTyped, AlarmInv, NEW l \in Lanes, NEW c \in Containers, NEW end \in Nat, Invoke(l, c, end)
  PROVE  AlarmInv'
<1>1. UNCHANGED <<log, started>> /\ end \in done[l] + 1 .. Len(log[l]) /\ todo[l] = <<>>
  BY InvokeEffect
<1>2. PICK stop \in done[l] .. end :
        /\ Read(l, c, stop)
        /\ \/ GiveBack(l, end) /\ UNCHANGED <<host, todo>>
           \/ stop = end /\ Settles(l, end)
           \/ stop = end /\ \E groups \in Seq(SUBSET Anomaly) : Opens(l, c, end, groups)
  BY InvokeEffect
<1>3. done[l] \in Nat /\ Len(log[l]) \in Nat
  BY DEF StreamTyped, Kept
<1>4. PICK size \in Nat : size = stop - done[l] /\ stop = done[l] + size /\ done[l] + size <= Len(log[l])
  <2>1. stop - done[l] \in Nat /\ stop = done[l] + (stop - done[l]) /\ stop <= Len(log[l])
    BY <1>1, <1>3
  <2> QED BY <2>1
<1>5. /\ memory' = [memory EXCEPT ![c] = Remembered(memory[c], l, size)]
      /\ delivered' = [delivered EXCEPT ![l] = Partly(l, size)]
  <2>1. Partly(l, size) = [n \in DOMAIN delivered[l] |->
                             IF n \in done[l] + 1 .. stop THEN delivered[l][n] + 1 ELSE delivered[l][n]]
    BY <1>4 DEF Partly, Raised
  <2> QED BY <1>2, <1>4, <2>1 DEF Read
<1>6. ASSUME NEW m \in Lanes, NEW g \in Gpus
      PROVE  /\ ErrorsOf(m, g)' \in Nat /\ ErrorsOf(m, g) \in Nat /\ ErrorsOf(m, g) <= ErrorsOf(m, g)'
             /\ m = LaneOf[g] => ErrorsOf(m, g)' = ErrorsAfter(l, size, g)
  <2>1. delivered'[m] = IF m = l THEN Partly(l, size) ELSE delivered[m]
    BY <1>5 DEF StreamTyped, Kept
  <2>2. CASE m # l
    <3>1. ErrorsOf(m, g)' = ErrorsOf(m, g)
      BY <1>1, <2>1, <2>2 DEF ErrorsOf
    <3>2. ErrorsOf(m, g) \in Nat
      BY ErrorsOfAre
    <3>3. m = LaneOf[g] => ErrorsAfter(l, size, g) = ErrorsOf(m, g)
      BY <2>2 DEF ErrorsAfter
    <3> QED BY <3>1, <3>2, <3>3
  <2>3. CASE m = l
    <3>1. PICK records \in Seq(Reports) : records = log[l]
      BY ErrorsOfAre
    <3>2. PICK counts \in Seq(Nat) : counts = delivered[l]
      BY ErrorsOfAre
    <3>3. PICK more \in Seq(Nat) : more = Partly(l, size)
      BY <1>4, PartlySteps
    <3>4. NoFewer(records, counts, more)
      <4>1. Len(counts) = Len(records)
        BY <3>1, <3>2, ErrorsOfAre
      <4>2. Len(more) = Len(records) /\ \A n \in DOMAIN records : counts[n] <= more[n]
        BY <1>4, <3>1, <3>2, <3>3, PartlySteps
      <4> QED BY <4>1, <4>2 DEF NoFewer
    <3>5. Errors(records, counts, g) <= Errors(records, more, g)
      BY <3>4, ErrorsGrow
    <3>6. Errors(records, counts, g) \in Nat /\ Errors(records, more, g) \in Nat
      BY <3>4, ErrorsAre DEF NoFewer
    <3>7. ErrorsOf(m, g) = Errors(records, counts, g) /\ ErrorsOf(m, g)' = Errors(records, more, g)
      BY <1>1, <2>1, <2>3, <3>1, <3>2, <3>3 DEF ErrorsOf
    <3>8. m = LaneOf[g] => ErrorsAfter(l, size, g) = Errors(records, more, g)
      BY <2>3, <3>1, <3>3 DEF ErrorsAfter
    <3> QED BY <3>5, <3>6, <3>7, <3>8
  <2> QED BY <2>2, <2>3
<1>7. ASSUME NEW d \in Containers, NEW g \in Gpus
      PROVE  SumFunction(memory'[d][g]) <= ErrorsOf(LaneOf[g], g)'
  <2>1. LaneOf[g] \in Lanes /\ memory' = [memory EXCEPT ![c] = Remembered(memory[c], l, size)]
    BY <1>5, ReportsAssumption
  <2>2. CASE d = c
    <3>1. memory'[d] = Remembered(memory[c], l, size)
      BY <2>1, <2>2 DEF StreamTyped, Kept
    <3>2. SumFunction(Remembered(memory[c], l, size)[g]) <= ErrorsAfter(l, size, g)
      BY <1>4, RememberedCovered
    <3>3. ErrorsOf(LaneOf[g], g)' = ErrorsAfter(l, size, g)
      BY <1>6, <2>1
    <3>4. memory'[d][g] = Remembered(memory[c], l, size)[g]
      BY <3>1
    <3> QED BY <3>2, <3>3, <3>4
  <2>3. CASE d # c
    <3>1. memory'[d] = memory[d]
      BY <2>1, <2>3 DEF StreamTyped, Kept
    <3>2. SumFunction(memory[d][g]) <= ErrorsOf(LaneOf[g], g)
      BY DEF AlarmInv
    <3>3. SumFunction(memory[d][g]) \in Int
      <4>1. memory[d][g] \in Windows /\ 0 \in Nat
        BY DEF StreamTyped, Kept
      <4> QED BY <4>1, SlideSum
    <3>4. /\ ErrorsOf(LaneOf[g], g)' \in Nat /\ ErrorsOf(LaneOf[g], g) \in Nat
          /\ ErrorsOf(LaneOf[g], g) <= ErrorsOf(LaneOf[g], g)'
      BY <1>6, <2>1
    <3> QED BY <3>1, <3>2, <3>3, <3>4
  <2> QED BY <2>2, <2>3
<1>8. ASSUME NEW m \in Lanes, NEW found \in SUBSET Anomaly, Covered(m, found)
      PROVE  \A a \in found : a.kind = "ecc" => ErrorsOf(m, a.gpu)' >= 5
  <2> SUFFICES ASSUME NEW a \in found, a.kind = "ecc" PROVE ErrorsOf(m, a.gpu)' >= 5
    OBVIOUS
  <2>1. a.gpu \in Gpus /\ ErrorsOf(m, a.gpu) >= 5
    BY <1>8 DEF Anomaly, Covered
  <2>2. /\ ErrorsOf(m, a.gpu)' \in Nat /\ ErrorsOf(m, a.gpu) \in Nat
        /\ ErrorsOf(m, a.gpu) <= ErrorsOf(m, a.gpu)'
    BY <1>6, <2>1
  <2> QED BY <2>1, <2>2
<1>9. ASSUME NEW groups \in Seq(SUBSET Anomaly), stop = end, Opens(l, c, end, groups), NEW k \in DOMAIN groups,
             NEW a \in groups[k], a.kind = "ecc"
      PROVE  ErrorsOf(l, a.gpu)' >= 5
  <2>1. PICK i \in 1 .. end - done[l] :
           a.record = done[l] + i /\ EccAlarm(Remembered(memory[c], l, i)[a.gpu])
    BY <1>9 DEF Opens
  <2>2. i \in Nat /\ i \in 0 .. size /\ i <= size /\ done[l] + i \in DOMAIN log[l]
    BY <1>1, <1>3, <1>4, <1>9, <2>1
  <2>3. PICK g \in Gpus : g = a.gpu
    <3>1. a \in Anomaly
      BY <1>9
    <3> QED BY <3>1 DEF Anomaly
  <2>4. LaneOf[g] = l
    <3>1. a.gpu = log[l][a.record].at
      BY <1>9 DEF Opens, Grouped
    <3> QED BY <2>1, <2>2, <2>3, <3>1 DEF StreamTyped, LaneKept
  <2>5. SumFunction(Remembered(memory[c], l, i)[g]) <= ErrorsAfter(l, i, g)
    BY <1>4, <2>2, RememberedCovered
  <2>6. SumFunction(Remembered(memory[c], l, i)[g]) >= 5
    BY <2>1, <2>3 DEF EccAlarm
  <2>7. /\ ErrorsAfter(l, i, g) \in Nat /\ ErrorsAfter(l, size, g) \in Nat
        /\ ErrorsAfter(l, i, g) <= ErrorsAfter(l, size, g)
    BY <1>4, <2>2, ErrorsAfterGrow
  <2>8. ErrorsOf(l, g)' = ErrorsAfter(l, size, g)
    BY <1>6, <2>4
  <2>9. SumFunction(Remembered(memory[c], l, i)[g]) \in Int
    <3>1. memory[c] \in [Gpus -> Windows]
      BY DEF StreamTyped, Kept
    <3>2. Remembered(memory[c], l, i) \in [Gpus -> Windows]
      BY <1>4, <2>2, <3>1, RememberedSteps
    <3>3. Remembered(memory[c], l, i)[g] \in Windows /\ 0 \in Nat
      BY <3>2
    <3> QED BY <3>3, SlideSum
  <2>10. ErrorsOf(l, g)' >= 5
    BY <2>5, <2>6, <2>7, <2>8, <2>9
  <2> QED BY <2>3, <2>10
<1>10. ASSUME NEW m \in Lanes, NEW k \in DOMAIN todo'[m] PROVE Covered(m, todo[m][k])'
  <2>1. ASSUME UNCHANGED todo PROVE Covered(m, todo[m][k])'
    <3>1. todo[m][k] \in SUBSET Anomaly /\ Covered(m, todo[m][k])
      BY <1>10, <2>1, SMTT(30) DEF AlarmInv, StreamTyped, Kept
    <3>2. PICK found \in SUBSET Anomaly : found = todo[m][k] /\ Covered(m, found)
      BY <3>1
    <3>3. \A a \in found : a.kind = "ecc" => ErrorsOf(m, a.gpu)' >= 5
      BY <1>8, <3>2
    <3> QED BY <2>1, <3>2, <3>3 DEF Covered
  <2>2. ASSUME NEW groups \in Seq(SUBSET Anomaly), stop = end, Opens(l, c, end, groups)
        PROVE  Covered(m, todo[m][k])'
    <3>1. todo' = [todo EXCEPT ![l] = groups] /\ todo \in [Lanes -> Seq(SUBSET Anomaly)]
      BY <2>2 DEF Opens, StreamTyped, Kept
    <3>2. CASE m = l
      <4>1. todo'[m] = groups
        BY <3>1, <3>2
      <4>2. \A a \in groups[k] : a.kind = "ecc" => ErrorsOf(l, a.gpu)' >= 5
        BY <1>9, <1>10, <2>2, <4>1
      <4> QED BY <3>2, <4>1, <4>2 DEF Covered
    <3>3. CASE m # l
      <4>1. todo'[m] = todo[m]
        BY <3>1, <3>3
      <4>2. todo[m][k] \in SUBSET Anomaly /\ Covered(m, todo[m][k])
        BY <1>10, <3>1, <4>1 DEF AlarmInv
      <4>3. PICK found \in SUBSET Anomaly : found = todo[m][k] /\ Covered(m, found)
        BY <4>2
      <4>4. \A a \in found : a.kind = "ecc" => ErrorsOf(m, a.gpu)' >= 5
        BY <1>8, <4>3
      <4> QED BY <4>1, <4>3, <4>4 DEF Covered
    <3> QED BY <3>2, <3>3
  <2> QED BY <1>2, <2>1, <2>2 DEF Settles
<1>11. ASSUME NEW x \in DOMAIN started' PROVE Covered(started[x].lane, started[x].anomalies)'
  <2>1. started[x] \in Order /\ Covered(started[x].lane, started[x].anomalies)
    BY <1>1 DEF AlarmInv, StreamTyped, Kept
  <2>2. PICK m \in Lanes, found \in SUBSET Anomaly :
          started[x].lane = m /\ started[x].anomalies = found /\ Covered(m, found)
    BY <2>1 DEF Order
  <2>3. \A a \in found : a.kind = "ecc" => ErrorsOf(m, a.gpu)' >= 5
    BY <1>8, <2>2
  <2>4. started'[x] = started[x]
    BY <1>1
  <2> QED BY <2>2, <2>3, <2>4 DEF Covered, ErrorsOf
<1> QED BY <1>7, <1>10, <1>11 DEF AlarmInv

LEMMA AlarmInvStep == ASSUME StreamTyped, AlarmInv, Delivering PROVE AlarmInv'
<1>1. CASE UNCHANGED deliveryVars
  <2>1. UNCHANGED <<log, delivered, memory, todo, started>>
    BY <1>1 DEF deliveryVars
  <2>2. \A m \in Lanes, g \in Gpus : ErrorsOf(m, g)' \in Nat /\ ErrorsOf(m, g) <= ErrorsOf(m, g)'
    BY <2>1, ErrorsStay
  <2> QED BY <2>1, <2>2, AlarmStays
<1> QED BY <1>1, AlarmIngest, AlarmRecycle, AlarmInvoke, AlarmLeft, AlarmStart DEF Delivering

LEMMA AlarmInvInit == ASSUME Init PROVE AlarmInv
<1>1. StreamTyped
  BY StreamTypedInit
<1>2. /\ \A l \in Lanes : todo[l] = <<>>
      /\ started = <<>> /\ \A c \in Containers, g \in Gpus : memory[c][g] = <<>>
  BY DEF Init, DeliveryInit, Cold
<1>3. ASSUME NEW c \in Containers, NEW g \in Gpus
      PROVE  SumFunction(memory[c][g]) <= ErrorsOf(LaneOf[g], g)
  <2>1. SumFunction(<<>>) = 0
    <3>1. DOMAIN <<>> = {}
      OBVIOUS
    <3> QED BY <3>1, SumEmpty DEF SumFunction
  <2>2. ErrorsOf(LaneOf[g], g) \in Nat
    BY <1>1, ErrorsOfAre, ReportsAssumption
  <2> QED BY <1>2, <2>1, <2>2
<1>4. DOMAIN <<>> = {}
  OBVIOUS
<1> QED BY <1>2, <1>3, <1>4 DEF AlarmInv

(* AlarmsCountDeliveries: an ECC alarm is backed by the errors of its GPU, each
   record counted as often as it was delivered, whichever containers counted. *)
THEOREM AlarmsCountDeliveriesAlways == Spec => []AlarmsCountDeliveries
<1>1. Init => StreamTyped /\ AlarmInv
  BY StreamTypedInit, AlarmInvInit
<1>2. StreamTyped /\ AlarmInv /\ [Next]_vars => StreamTyped' /\ AlarmInv'
  BY PipelineDelivers, StreamTypedStep, AlarmInvStep
<1>3. AlarmInv => AlarmsCountDeliveries
  BY DEF AlarmInv, Covered, ErrorsOf, Errors, OwnIn, AlarmsCountDeliveries
<1> QED BY <1>1, <1>2, <1>3, PTL DEF Spec

-----------------------------------------------------------------------------
(* The two state machines *)

FlowInv == FlowTypeOK /\ RowFollowsExecution /\ GateFollowsAlert /\ ResolverSettled

TableStage == [n \in Executions |-> Stage(row[n].status)]

TableStep == [Record!Next]_TableStage

-----------------------------------------------------------------------------
(* Nothing has run: the invariant, and the initial state of IncidentRecord. *)
LEMMA FlowInvInit == Init => FlowInv /\ Record!Init
<1> SUFFICES ASSUME Init PROVE FlowInv /\ Record!Init
  OBVIOUS
<1>1. FlowTypeOK
  BY WorkflowAssumption DEF Init, FlowInit, FlowTypeOK, Absent, Running, Finished, Approvers
<1>2. RowFollowsExecution /\ GateFollowsAlert /\ ResolverSettled
  BY DEF Init, FlowInit, RowFollowsExecution, GateFollowsAlert, ResolverSettled, Absent
<1>3. Record!Init
  BY DEF Init, FlowInit, Record!Init, Absent, Stage
<1> QED BY <1>1, <1>2, <1>3 DEF FlowInv

(* Steps that write no row make no step of the record. *)
LEMMA NoRowNoStep == ASSUME UNCHANGED row PROVE TableStep
  BY DEF TableStep, TableStage

(* A row written at its stage, or one stage further, is a step of the record. *)
LEMMA RowWritten ==
  ASSUME FlowTypeOK, NEW n \in Executions, NEW to,
         row' = [row EXCEPT ![n] = to],
         \/ Stage(to.status) = Stage(row[n].status)
         \/ Stage(row[n].status) = "absent" /\ Stage(to.status) = "diagnosed"
         \/ Stage(row[n].status) = "diagnosed" /\ Stage(to.status) = "resolved"
  PROVE  TableStep
<1>1. TableStage' = [TableStage EXCEPT ![n] = Stage(to.status)]
  BY DEF TableStage, FlowTypeOK
<1>2. TableStage[n] = Stage(row[n].status)
  BY DEF TableStage
<1>3. CASE Stage(to.status) = Stage(row[n].status)
  BY <1>1, <1>2, <1>3 DEF TableStep, TableStage
<1> QED BY <1>1, <1>2, <1>3
     DEF TableStep, TableStage, Record!Next, Record!Open, Record!Resolve, Record!Move

-----------------------------------------------------------------------------
(* The diagnosis machine *)

(* The count of the failures stays within its bound. *)
LEMMA FaultBounded ==
  ASSUME FlowTypeOK, Fault \/ UNCHANGED errors PROVE errors' \in 0 .. MaxErrors
<1>1. MaxErrors \in Nat /\ errors \in 0 .. MaxErrors
  BY WorkflowAssumption DEF FlowTypeOK
<1> QED BY <1>1 DEF Fault

(* An execution begins with nothing on record. *)
LEMMA BeginInv == ASSUME FlowInv, NEW n \in Nat, Begin(n) PROVE FlowInv' /\ TableStep
<1>1. FlowTypeOK'
  <2>1. exec' \in [Executions -> [pc : {"none"} \cup Running \cup Finished, tries : 0 .. DiagnoseRetries]]
    <3>1. CASE n \in Executions
      BY <3>1 DEF FlowInv, FlowTypeOK, Begin, Running
    <3>2. CASE n \notin Executions
      BY <3>2 DEF FlowInv, FlowTypeOK, Begin
    <3> QED BY <3>1, <3>2
  <2> QED BY <2>1 DEF FlowInv, FlowTypeOK, Begin
<1>2. RowFollowsExecution'
  BY DEF FlowInv, FlowTypeOK, RowFollowsExecution, Begin
<1>3. GateFollowsAlert' /\ ResolverSettled'
  BY DEF FlowInv, GateFollowsAlert, ResolverSettled, Begin
<1>4. TableStep
  BY NoRowNoStep DEF Begin
<1> QED BY <1>1, <1>2, <1>3, <1>4 DEF FlowInv

(* What the tasks leave alone keeps the remediations' part. *)
LEMMA RemediationsApart ==
  ASSUME FlowInv, UNCHANGED rem, alerted \subseteq alerted',
         \A n \in Executions : row'[n].status = "RESOLVED" => row'[n] = row[n]
  PROVE  GateFollowsAlert' /\ ResolverSettled'
<1>1. GateFollowsAlert'
  BY DEF FlowInv, GateFollowsAlert
<1>2. ResolverSettled'
  BY DEF FlowInv, ResolverSettled
<1> QED BY <1>1, <1>2

(* A task that writes nothing. *)
LEMMA QuietTaskInv ==
  ASSUME FlowInv, NEW n \in Executions, NEW reply,
         GatherContext(n) \/ Diagnose(n, reply) \/ DiagnoseRaises(n, reply)
  PROVE  FlowInv' /\ TableStep
<1>1. UNCHANGED <<row, alerted, rem>> /\ exec[n].pc \in {"gather", "diagnose"}
  BY DEF GatherContext, Diagnose, DiagnoseRaises, Done
<1>2. errors' \in 0 .. MaxErrors
  BY FaultBounded DEF FlowInv, GatherContext, Diagnose, DiagnoseRaises, Done
<1> DEFINE Standing == [pc : {"none"} \cup Running \cup Finished, tries : 0 .. DiagnoseRetries]
<1>3. /\ exec' \in [Executions -> Standing]
      /\ exec'[n].pc \in {"diagnose", "persist", "failed"}
      /\ \A m \in Executions : m # n => exec'[m] = exec[m]
  <2>1. exec \in [Executions -> Standing]
    BY DEF FlowInv, FlowTypeOK
  <2>2. CASE GatherContext(n)
    BY <2>1, <2>2 DEF GatherContext, Done, After, Running
  <2>3. CASE Diagnose(n, reply)
    BY <2>1, <2>3 DEF Diagnose, Done, After, Running
  <2>4. CASE DiagnoseRaises(n, reply)
    <3>1. DiagnoseRetries \in Nat
      BY WorkflowAssumption
    <3>2. exec[n].pc = "diagnose" /\ exec[n].tries \in 0 .. DiagnoseRetries
      BY <2>1, <2>4 DEF DiagnoseRaises
    <3>3. CASE exec[n].tries < DiagnoseRetries
      <4>1. exec' = [exec EXCEPT ![n].tries = exec[n].tries + 1]
        BY <2>4, <3>3 DEF DiagnoseRaises
      <4>2. exec[n].tries + 1 \in 0 .. DiagnoseRetries
        BY <3>1, <3>2, <3>3
      <4> QED BY <2>1, <3>2, <4>1, <4>2
    <3>4. CASE ~(exec[n].tries < DiagnoseRetries)
      BY <2>1, <2>4, <3>4 DEF DiagnoseRaises, Finished
    <3> QED BY <3>3, <3>4
  <2> QED BY <2>2, <2>3, <2>4
<1>4. FlowTypeOK'
  BY <1>1, <1>2, <1>3 DEF FlowInv, FlowTypeOK
<1>5. RowFollowsExecution'
  BY <1>1, <1>3 DEF FlowInv, FlowTypeOK, RowFollowsExecution
<1>6. GateFollowsAlert' /\ ResolverSettled'
  BY <1>1, RemediationsApart
<1>7. TableStep
  BY <1>1, NoRowNoStep
<1> QED BY <1>4, <1>5, <1>6, <1>7 DEF FlowInv

(* PersistTask, whatever becomes of its answer, writes before anybody is
   alerted, so it finds no resolved row. *)
LEMMA PersistInv ==
  ASSUME FlowInv, NEW n \in Executions, exec[n].pc = "persist", Write(n),
         UNCHANGED <<alerted, rem>>, errors' \in 0 .. MaxErrors,
         NEW pc \in {"persist", "notify", "failed", "timed_out"}, exec' = [exec EXCEPT ![n].pc = pc]
  PROVE  FlowInv' /\ TableStep
<1>1. row[n].status \in {"ABSENT", "DIAGNOSED"}
  BY DEF FlowInv, FlowTypeOK, RowFollowsExecution
<1>2. FlowTypeOK'
  BY DEF FlowInv, FlowTypeOK, Write, Running, Finished
<1>3. RowFollowsExecution'
  BY <1>1 DEF FlowInv, FlowTypeOK, RowFollowsExecution, Write
<1>4. \A m \in Executions : row'[m].status = "RESOLVED" => row'[m] = row[m]
  BY DEF FlowInv, FlowTypeOK, Write
<1>5. GateFollowsAlert' /\ ResolverSettled'
  BY <1>4, RemediationsApart
<1>6. TableStep
  BY <1>1, RowWritten DEF FlowInv, Write, Stage
<1> QED BY <1>2, <1>3, <1>5, <1>6 DEF FlowInv

(* The alert goes out after PersistTask. *)
LEMMA NotifyInv == ASSUME FlowInv, NEW n \in Executions, Notify(n) PROVE FlowInv' /\ TableStep
<1>1. FlowTypeOK'
  BY DEF FlowInv, FlowTypeOK, Notify, Done, After, Running, Finished
<1>2. RowFollowsExecution'
  BY DEF FlowInv, FlowTypeOK, RowFollowsExecution, Notify, Done, After
<1>3. GateFollowsAlert' /\ ResolverSettled'
  BY RemediationsApart DEF Notify, Done
<1>4. TableStep
  BY NoRowNoStep DEF Notify
<1> QED BY <1>1, <1>2, <1>3, <1>4 DEF FlowInv

(* An execution that ends early writes nothing, or what PersistTask writes. *)
LEMMA GiveUpInv == ASSUME FlowInv, NEW n \in Executions, GiveUp(n) PROVE FlowInv' /\ TableStep
<1>1. PICK pc \in {"failed", "timed_out"} : exec' = [exec EXCEPT ![n].pc = pc]
  BY DEF GiveUp
<1>2. UNCHANGED <<alerted, rem>> /\ errors' \in 0 .. MaxErrors
  BY WorkflowAssumption DEF FlowInv, FlowTypeOK, GiveUp, Fault
<1>3. CASE exec[n].pc = "persist" /\ Write(n)
  BY <1>1, <1>2, <1>3, PersistInv
<1>4. CASE UNCHANGED row
  <2>1. exec[n].pc \in Running
    BY DEF GiveUp
  <2>2. FlowTypeOK'
    BY <1>1, <1>2, <1>4 DEF FlowInv, FlowTypeOK, Finished
  <2>3. RowFollowsExecution'
    BY <1>1, <1>2, <1>4, <2>1 DEF FlowInv, FlowTypeOK, RowFollowsExecution, Running
  <2>4. GateFollowsAlert' /\ ResolverSettled'
    BY <1>2, <1>4, RemediationsApart
  <2> QED BY <1>4, <2>2, <2>3, <2>4, NoRowNoStep DEF FlowInv
<1> QED BY <1>3, <1>4 DEF GiveUp

(* Every step of an execution. *)
LEMMA ExecutionInv ==
  ASSUME FlowInv, NEW n \in Executions, ExecutionStep(n) PROVE FlowInv' /\ TableStep
<1>1. CASE \E reply \in Replies : GatherContext(n) \/ Diagnose(n, reply) \/ DiagnoseRaises(n, reply)
  BY <1>1, QuietTaskInv
<1>2. CASE GatherContext(n)
  BY <1>2, QuietTaskInv
<1>3. CASE Persist(n)
  <2>1. exec' = [exec EXCEPT ![n].pc = "notify"]
    BY <1>3 DEF Persist, Done, After
  <2>2. exec[n].pc = "persist" /\ Write(n) /\ UNCHANGED <<alerted, rem>> /\ errors' \in 0 .. MaxErrors
    BY <1>3 DEF Persist, Done, FlowInv, FlowTypeOK
  <2> QED BY <2>1, <2>2, PersistInv
<1>4. CASE PersistUnanswered(n)
  <2>1. exec[n].pc = "persist" /\ Write(n) /\ UNCHANGED <<exec, alerted, rem>>
    BY <1>4 DEF PersistUnanswered
  <2>2. errors' \in 0 .. MaxErrors
    BY <1>4, WorkflowAssumption DEF PersistUnanswered, Fault, FlowInv, FlowTypeOK
  <2>3. exec' = [exec EXCEPT ![n].pc = "persist"]
    BY <2>1 DEF FlowInv, FlowTypeOK
  <2> QED BY <2>1, <2>2, <2>3, PersistInv
<1>5. CASE Notify(n)
  BY <1>5, NotifyInv
<1>6. CASE GiveUp(n)
  BY <1>6, GiveUpInv
<1> QED BY <1>1, <1>2, <1>3, <1>4, <1>5, <1>6 DEF ExecutionStep, Task

-----------------------------------------------------------------------------
(* The remediation machine *)

(* A remediation that writes no row keeps the invariant if it enters "apply"
   only through the gate and has no approver to settle any more. *)
LEMMA QuietRemediationInv ==
  ASSUME FlowInv, NEW r \in Remediations, NEW to, rem' = [rem EXCEPT ![r] = to],
         UNCHANGED <<exec, row, alerted>>, errors' \in 0 .. MaxErrors,
         to \in [pc : {"new", "waiting", "apply", "done", "failed", "timed_out"},
                 of : Executions \cup {0}, gated : BOOLEAN, approved : BOOLEAN,
                 proposal : BOOLEAN, by : Approvers \cup {"nobody"}],
         to.of \in alerted,
         to.pc = "apply" => (to.gated => to.approved),
         rem[r].pc \notin {"new", "waiting"} =>
           to.pc \notin {"new", "waiting"} /\ to.of = rem[r].of /\ to.by = rem[r].by
             /\ to.gated = rem[r].gated /\ to.approved = rem[r].approved
  PROVE  FlowInv' /\ TableStep
<1>1. FlowTypeOK'
  BY DEF FlowInv, FlowTypeOK
<1>2. RowFollowsExecution'
  BY DEF FlowInv, RowFollowsExecution
<1>3. GateFollowsAlert'
  BY DEF FlowInv, FlowTypeOK, GateFollowsAlert
<1>4. ResolverSettled'
  <2> SUFFICES ASSUME NEW n \in Executions, row[n].status = "RESOLVED"
               PROVE  \E s \in Remediations :
                        /\ rem'[s].pc \notin {"new", "waiting"}
                        /\ rem'[s].of = n
                        /\ rem'[s].by = row[n].by
                        /\ rem'[s].gated => rem'[s].approved
    BY DEF ResolverSettled
  <2>1. PICK s \in Remediations :
           /\ rem[s].pc \notin {"new", "waiting"}
           /\ rem[s].of = n
           /\ rem[s].by = row[n].by
           /\ rem[s].gated => rem[s].approved
    BY DEF FlowInv, ResolverSettled
  <2>2. CASE s = r
    BY <2>1, <2>2 DEF FlowInv, FlowTypeOK
  <2>3. CASE s # r
    BY <2>1, <2>3 DEF FlowInv, FlowTypeOK
  <2> QED BY <2>2, <2>3
<1> QED BY <1>1, <1>2, <1>3, <1>4, NoRowNoStep DEF FlowInv

(* The steps before and beside the write. *)
LEMMA GateInv ==
  ASSUME FlowInv, NEW r \in Remediations,
         \/ \E n \in Executions, gated \in BOOLEAN : StartRemediation(r, n, gated)
         \/ \E by \in Approvers, proposal \in BOOLEAN : Approve(r, by, proposal)
         \/ ApprovalTimesOut(r) \/ ApplyRaises(r) \/ ApplyGivesUp(r)
  PROVE  FlowInv' /\ TableStep
<1> DEFINE Standing == [pc : {"new", "waiting", "apply", "done", "failed", "timed_out"},
                        of : Executions \cup {0}, gated : BOOLEAN, approved : BOOLEAN,
                        proposal : BOOLEAN, by : Approvers \cup {"nobody"}]
<1>1. rem[r] \in Standing /\ (rem[r].pc # "new" => rem[r].of \in alerted)
  BY DEF FlowInv, FlowTypeOK, GateFollowsAlert
<1>2. UNCHANGED <<exec, row, alerted>> /\ errors' \in 0 .. MaxErrors
  <2>1. UNCHANGED <<exec, row, alerted>> /\ (Fault \/ UNCHANGED errors)
    BY DEF StartRemediation, Approve, ApprovalTimesOut, ApplyRaises, ApplyGivesUp, Move
  <2> QED BY <2>1, FaultBounded DEF FlowInv
<1>3. ASSUME NEW n \in Executions, NEW gated \in BOOLEAN, StartRemediation(r, n, gated)
      PROVE  FlowInv' /\ TableStep
  <2> DEFINE to == [rem[r] EXCEPT !.pc = IF gated THEN "waiting" ELSE "apply",
                                  !.of = n, !.gated = gated,
                                  !.by = IF gated THEN "nobody" ELSE "auto-policy"]
  <2>1. rem' = [rem EXCEPT ![r] = to] /\ rem[r].pc = "new" /\ n \in alerted
    BY <1>3 DEF StartRemediation, Move
  <2>2. /\ to \in Standing /\ to.of \in alerted
        /\ to.pc = "apply" => (to.gated => to.approved)
    BY <1>1, <2>1 DEF Approvers
  <2> HIDE DEF to
  <2> QED BY <1>2, <2>1, <2>2, QuietRemediationInv
<1>4. ASSUME NEW by \in Approvers, NEW proposal \in BOOLEAN, Approve(r, by, proposal)
      PROVE  FlowInv' /\ TableStep
  <2> DEFINE to == [rem[r] EXCEPT !.pc = "apply", !.approved = TRUE, !.by = by, !.proposal = proposal]
  <2>1. rem' = [rem EXCEPT ![r] = to] /\ rem[r].pc = "waiting"
    BY <1>4 DEF Approve, Move
  <2>2. to \in Standing /\ to.of \in alerted /\ to.approved
    BY <1>1, <2>1
  <2> HIDE DEF to
  <2> QED BY <1>2, <2>1, <2>2, QuietRemediationInv
<1>5. ASSUME ApprovalTimesOut(r) \/ ApplyRaises(r) \/ ApplyGivesUp(r) PROVE FlowInv' /\ TableStep
  <2>1. PICK pc \in {"failed", "timed_out"} : rem' = [rem EXCEPT ![r] = [rem[r] EXCEPT !.pc = pc]]
    BY <1>5 DEF ApprovalTimesOut, ApplyRaises, ApplyGivesUp, Move
  <2> DEFINE to == [rem[r] EXCEPT !.pc = pc]
  <2>2. rem[r].pc # "new"
    BY <1>5 DEF ApprovalTimesOut, ApplyRaises, ApplyGivesUp, Move
  <2>3. /\ to \in Standing /\ to.of = rem[r].of /\ to.pc = pc /\ to.by = rem[r].by
        /\ to.gated = rem[r].gated /\ to.approved = rem[r].approved
    BY <1>1
  <2> HIDE DEF to
  <2>4. rem' = [rem EXCEPT ![r] = to]
    BY <2>1 DEF to
  <2> QED BY <1>1, <1>2, <2>2, <2>3, <2>4, QuietRemediationInv
<1> QED BY <1>3, <1>4, <1>5

(* The write itself: the remediation is past its gate, and of an incident that
   was persisted before it was alerted. *)
LEMMA ApplyInv ==
  ASSUME FlowInv, NEW r \in Remediations, ApplyRemediation(r) \/ ApplyUnanswered(r)
  PROVE  FlowInv' /\ TableStep
<1> DEFINE n == rem[r].of
<1>1. /\ rem[r].pc = "apply" /\ Resolve(r) /\ UNCHANGED <<exec, alerted>>
      /\ rem' = [rem EXCEPT ![r].pc = "done"] \/ UNCHANGED rem
      /\ errors' \in 0 .. MaxErrors
  BY WorkflowAssumption
  DEF ApplyRemediation, ApplyUnanswered, Move, Fault, FlowInv, FlowTypeOK
<1>2. n \in alerted /\ n \in Executions /\ exec[n].pc = "succeeded"
      /\ row[n].status \in {"DIAGNOSED", "RESOLVED"}
  BY <1>1 DEF FlowInv, FlowTypeOK, GateFollowsAlert, RowFollowsExecution
<1>3. row' = [row EXCEPT ![n] = [status |-> "RESOLVED", by |-> rem[r].by]]
  BY <1>1 DEF Resolve
<1>4. /\ rem[r].by \in Approvers \cup {"nobody"}
      /\ rem[r].gated => rem[r].approved
  BY <1>1 DEF FlowInv, FlowTypeOK, GateFollowsAlert
<1>5. \A s \in Remediations :
        /\ rem'[s].of = rem[s].of /\ rem'[s].by = rem[s].by
        /\ rem'[s].gated = rem[s].gated /\ rem'[s].approved = rem[s].approved
        /\ rem'[s].pc \in {rem[s].pc, "done"}
        /\ rem'[s].pc # rem[s].pc => s = r
  BY <1>1 DEF FlowInv, FlowTypeOK
<1> HIDE DEF n
<1>6. FlowTypeOK'
  BY <1>1, <1>2, <1>3, <1>4, SMTT(30) DEF FlowInv, FlowTypeOK
<1>7. RowFollowsExecution'
  BY <1>1, <1>2, <1>3 DEF FlowInv, FlowTypeOK, RowFollowsExecution
<1>8. GateFollowsAlert'
  BY <1>1, <1>5 DEF FlowInv, GateFollowsAlert
<1>9. ResolverSettled'
  <2> SUFFICES ASSUME NEW m \in Executions, row'[m].status = "RESOLVED"
               PROVE  \E s \in Remediations :
                        /\ rem'[s].pc \notin {"new", "waiting"}
                        /\ rem'[s].of = m
                        /\ rem'[s].by = row'[m].by
                        /\ rem'[s].gated => rem'[s].approved
    BY DEF ResolverSettled
  <2>1. CASE m = n
    BY <1>1, <1>2, <1>3, <1>4, <1>5, <2>1 DEF n, FlowInv, FlowTypeOK
  <2>2. CASE m # n
    <3>1. row'[m] = row[m]
      BY <1>3, <2>2 DEF FlowInv, FlowTypeOK
    <3>2. PICK s \in Remediations :
             /\ rem[s].pc \notin {"new", "waiting"}
             /\ rem[s].of = m
             /\ rem[s].by = row[m].by
             /\ rem[s].gated => rem[s].approved
      BY <3>1 DEF FlowInv, ResolverSettled
    <3> QED BY <1>5, <3>1, <3>2
  <2> QED BY <2>1, <2>2
<1>10. TableStep
  BY <1>2, <1>3, RowWritten DEF FlowInv, Stage
<1> QED BY <1>6, <1>7, <1>8, <1>9, <1>10 DEF FlowInv

-----------------------------------------------------------------------------
(* Every step of the pipeline keeps the invariant and is a step of the record:
   the stream processor only begins executions. *)
LEMMA FlowInvNext == ASSUME FlowInv, [Next]_vars PROVE FlowInv' /\ TableStep
<1>1. CASE UNCHANGED flowVars
  <2>1. FlowInv'
    BY <1>1 DEF flowVars, FlowInv, FlowTypeOK, RowFollowsExecution, GateFollowsAlert, ResolverSettled
  <2> QED BY <1>1, <2>1, NoRowNoStep DEF flowVars
<1>2. ASSUME NEW l \in Lanes, Begin(Len(started) + 1) PROVE FlowInv' /\ TableStep
  BY <1>2, BeginInv
<1>3. ASSUME NEW n \in Executions, ExecutionStep(n) PROVE FlowInv' /\ TableStep
  BY <1>3, ExecutionInv
<1>4. ASSUME NEW r \in Remediations, RemediationStep(r) PROVE FlowInv' /\ TableStep
  BY <1>4, GateInv, ApplyInv DEF RemediationStep
<1> QED BY <1>1, <1>2, <1>3, <1>4 DEF Next, Post, Replace, LaneStep, WorkflowStep, FlowNext, vars

(* Nobody is alerted to an incident that is not in the table. *)
THEOREM AlertsAreOnRecord == Spec => []AlertedIsOnRecord
<1>1. FlowInv => AlertedIsOnRecord
  BY DEF FlowInv, FlowTypeOK, RowFollowsExecution, AlertedIsOnRecord
<1> QED BY <1>1, FlowInvInit, FlowInvNext, PTL DEF Spec

(* A row is resolved by a remediation of its own that was let through its gate. *)
THEOREM GateHolds == Spec => []ResolvedThroughGate
<1>1. FlowInv => ResolvedThroughGate
  BY DEF FlowInv, ResolverSettled, ResolvedThroughGate
<1> QED BY <1>1, FlowInvInit, FlowInvNext, PTL DEF Spec

(* The table implements IncidentRecord. *)
THEOREM TableMovesForward == Spec => TableForward
<1>1. Init => FlowInv /\ Record!Init
  BY FlowInvInit
<1>2. FlowInv /\ [Next]_vars => FlowInv' /\ TableStep
  BY FlowInvNext
<1> QED BY <1>1, <1>2, PTL DEF Spec, TableForward, Record!Spec, TableStep, TableStage

-----------------------------------------------------------------------------
(* The two halves together *)

(* The n-th StartExecution that took effect began execution n, and nothing else
   begins one. *)
BegunAsStarted == \A n \in Executions : exec[n].pc # "none" <=> n \in DOMAIN started

LEMMA BegunStays ==
  ASSUME BegunAsStarted, UNCHANGED started,
         \A n \in Executions : exec'[n].pc # "none" <=> exec[n].pc # "none"
  PROVE  BegunAsStarted'
BY DEF BegunAsStarted

LEMMA BegunByStart ==
  ASSUME StreamTyped, FlowTypeOK, BegunAsStarted, NEW l \in Lanes, Start(l), Begin(Len(started) + 1)
  PROVE  BegunAsStarted'
<1> DEFINE n == Len(started) + 1
<1>1. todo[l] # <<>> /\ started' = Started(l) /\ Len(started) < MaxExecutions
  BY DEF Start, StartExecution, StartUnanswered
<1>2. /\ started \in Seq(Order) /\ Started(l) = Append(started, Execution(l)) /\ Execution(l) \in Order
      /\ Len(started) \in Nat
  BY <1>1, StartsOne, SMTT(30) DEF StreamTyped, Kept
<1>3. DOMAIN started' = DOMAIN started \cup {n} /\ n \notin DOMAIN started
  BY <1>1, <1>2
<1>4. exec' = [exec EXCEPT ![n].pc = "gather"]
  BY DEF Begin
<1>5. exec \in [Executions -> [pc : {"none"} \cup Running \cup Finished, tries : 0 .. DiagnoseRetries]]
  BY DEF FlowTypeOK
<1> HIDE DEF n
<1>6. ASSUME NEW m \in Executions PROVE exec'[m].pc # "none" <=> m \in DOMAIN started'
  <2>1. CASE m = n
    BY <1>3, <1>4, <1>5, <2>1
  <2>2. CASE m # n
    BY <1>3, <1>4, <1>5, <2>2 DEF BegunAsStarted
  <2> QED BY <2>1, <2>2
<1> QED BY <1>6 DEF BegunAsStarted

(* An execution that runs has begun, and does not go back. *)
LEMMA BegunRuns ==
  ASSUME FlowTypeOK, BegunAsStarted, UNCHANGED started, NEW n \in Executions, ExecutionStep(n)
  PROVE  BegunAsStarted'
<1>1. exec[n].pc \in Running
  BY DEF ExecutionStep, Task, GatherContext, Persist, Notify, Diagnose, PersistUnanswered, GiveUp,
         DiagnoseRaises, Done, Running
<1>2. exec \in [Executions -> [pc : {"none"} \cup Running \cup Finished, tries : 0 .. DiagnoseRetries]]
  BY DEF FlowTypeOK
<1>3. \/ exec' = [exec EXCEPT ![n].pc = After(exec[n].pc)]
      \/ exec' = [exec EXCEPT ![n].tries = exec[n].tries + 1]
      \/ \E pc \in Finished : exec' = [exec EXCEPT ![n].pc = pc]
      \/ exec' = exec
  BY DEF ExecutionStep, Task, GatherContext, Persist, Notify, Diagnose, PersistUnanswered, GiveUp,
         DiagnoseRaises, Done, Finished
<1>4. After(exec[n].pc) # "none"
  BY <1>1 DEF After, Running
<1>5. exec'[n].pc # "none" /\ exec[n].pc # "none" /\ \A m \in Executions : m # n => exec'[m] = exec[m]
  BY <1>1, <1>2, <1>3, <1>4 DEF Running, Finished
<1> QED BY <1>5, BegunStays

LEMMA BegunStep ==
  ASSUME StreamTyped, FlowTypeOK, BegunAsStarted, [Next]_vars PROVE BegunAsStarted'
<1>1. CASE UNCHANGED <<started, exec>>
  BY <1>1, BegunStays
<1>2. ASSUME NEW l \in Lanes, Deliver(l), UNCHANGED flowVars PROVE BegunAsStarted'
  BY <1>1, <1>2 DEF Deliver, Invoke, StartFails, Die, flowVars
<1>3. ASSUME NEW n \in Executions, ExecutionStep(n), UNCHANGED deliveryVars PROVE BegunAsStarted'
  BY <1>3, BegunRuns DEF deliveryVars
<1>4. ASSUME NEW r \in Remediations, RemediationStep(r), UNCHANGED deliveryVars PROVE BegunAsStarted'
  BY <1>1, <1>4 DEF RemediationStep, StartRemediation, Approve, ApprovalTimesOut, ApplyRemediation,
                    ApplyUnanswered, ApplyRaises, ApplyGivesUp, Move, deliveryVars
<1>5. CASE \E report \in Reports : Post(report)
  BY <1>1, <1>5 DEF Post, Ingest, flowVars
<1>6. CASE \E c \in Containers : Replace(c)
  BY <1>1, <1>6 DEF Replace, Recycle, flowVars
<1>7. CASE UNCHANGED vars
  BY <1>1, <1>7 DEF vars, deliveryVars, flowVars
<1> QED BY <1>2, <1>3, <1>4, <1>5, <1>6, <1>7, BegunByStart DEF Next, LaneStep, WorkflowStep, FlowNext

LEMMA DeliveryTyped == ASSUME StreamTyped PROVE DeliveryTypeOK
<1>1. ASSUME NEW l \in Lanes
      PROVE  /\ done[l] <= last[l] /\ last[l] <= Len(log[l])
             /\ DOMAIN delivered[l] = DOMAIN log[l]
             /\ dropped[l] \subseteq 1 .. done[l]
             /\ host[l] \in Containers \cup {None}
             /\ todo[l] # <<>> <=> host[l] # None
             /\ tries[l] \in 0 .. RetryAttempts
  <2>1. delivered[l] \in Seq(Nat) /\ log[l] \in Seq(Reports) /\ Len(delivered[l]) = Len(log[l])
    BY DEF StreamTyped, Kept, LaneKept
  <2>2. DOMAIN delivered[l] = DOMAIN log[l]
    BY <2>1
  <2> QED BY <2>2 DEF StreamTyped, Kept, LaneKept
<1>2. ASSUME NEW c \in Containers, NEW g \in Gpus PROVE Len(memory[c][g]) <= WindowLength
  <2>1. memory[c][g] \in Windows
    BY DEF StreamTyped, Kept
  <2> QED BY <2>1 DEF Windows
<1> QED BY <1>1, <1>2 DEF DeliveryTypeOK, StreamTyped, Kept

(* TypeOK: the bookkeeping of both halves, and that an execution has begun just
   when StartExecution took effect for it. *)
THEOREM TypesHold == Spec => []TypeOK
<1>1. Init => StreamTyped /\ FlowInv /\ BegunAsStarted
  <2> SUFFICES ASSUME Init PROVE BegunAsStarted
    BY StreamTypedInit, FlowInvInit
  <2>1. started = <<>> /\ \A n \in Executions : exec[n].pc = "none"
    BY DEF Init, DeliveryInit, FlowInit
  <2>2. DOMAIN <<>> = {}
    OBVIOUS
  <2> QED BY <2>1, <2>2 DEF BegunAsStarted
<1>2. StreamTyped /\ FlowInv /\ BegunAsStarted /\ [Next]_vars => StreamTyped' /\ FlowInv' /\ BegunAsStarted'
  BY PipelineDelivers, StreamTypedStep, FlowInvNext, BegunStep DEF FlowInv
<1>3. StreamTyped /\ FlowInv /\ BegunAsStarted => TypeOK
  BY DeliveryTyped DEF TypeOK, FlowInv, BegunAsStarted
<1> QED BY <1>1, <1>2, <1>3, PTL DEF Spec

=============================================================================
