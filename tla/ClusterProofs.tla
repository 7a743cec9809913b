---------------------------- MODULE ClusterProofs ----------------------------
(***************************************************************************)
(* Theorems about Cluster, for every fleet, every noise within the         *)
(* simulator's bounds, every statistical layer, and any number and length  *)
(* of faults and of ticks the consumer lags behind: a slow rank is found,  *)
(* false alarms pass, and the plan fits the fault.                         *)
(*                                                                         *)
(* First the median of a set of paces and the straggler rule; then the     *)
(* timeline of the ticks that the events are of; then what the faults      *)
(* injected so far explain.                                                *)
(***************************************************************************)
EXTENDS Cluster, Counting

-----------------------------------------------------------------------------
(* The k-th smallest pace *)

(* A finite set that is not empty has a member of the greatest key. *)
LEMMA Greatest ==
  ASSUME NEW S, IsFiniteSet(S), S # {}, NEW key, \A x \in S : key[x] \in Nat
  PROVE  \E x \in S : \A y \in S : key[y] <= key[x]
<1> DEFINE Above(x) == {y \in S : key[y] > key[x]}
           Sizes    == {n \in Nat : \E x \in S : n = Cardinality(Above(x))}
<1>1. \A x \in S : IsFiniteSet(Above(x)) /\ Cardinality(Above(x)) \in Nat
  <2> SUFFICES ASSUME NEW x \in S PROVE IsFiniteSet(Above(x)) /\ Cardinality(Above(x)) \in Nat
    OBVIOUS
  <2>1. IsFiniteSet(Above(x))
    <3>1. Above(x) \in SUBSET S
      OBVIOUS
    <3> HIDE DEF Above
    <3> QED BY <3>1, FS_Subset
  <2> HIDE DEF Above
  <2> QED BY <2>1, FS_CardinalityType
<1>2. Sizes \in SUBSET Nat /\ Sizes # {}
  BY <1>1
<1>3. PICK n \in Sizes : \A m \in Sizes : n <= m
  <2> HIDE DEF Sizes
  <2> QED BY <1>2, LeastOf
<1>4. PICK x \in S : n = Cardinality(Above(x))
  BY <1>3
<1>5. ASSUME NEW y \in S, key[y] > key[x] PROVE FALSE
  <2>1. Above(y) \in SUBSET Above(x) /\ y \in Above(x) /\ y \notin Above(y)
    BY <1>5
  <2>2. Cardinality(Above(y)) < Cardinality(Above(x))
    <3> HIDE DEF Above
    <3>1. Cardinality(Above(y)) <= Cardinality(Above(x))
          /\ (Cardinality(Above(x)) = Cardinality(Above(y)) => Above(x) = Above(y))
      BY <1>1, <2>1, FS_Subset
    <3> QED BY <1>1, <2>1, <3>1
  <2>3. Cardinality(Above(y)) \in Sizes
    BY <1>1
  <2>4. n <= Cardinality(Above(y)) /\ n = Cardinality(Above(x))
    BY <1>3, <1>4, <2>3
  <2>5. Cardinality(Above(y)) \in Nat /\ Cardinality(Above(x)) \in Nat
    BY <1>1
  <2> HIDE DEF Above
  <2> QED BY <2>2, <2>4, <2>5
<1> QED BY <1>5

(* How many of the GPUs have a pace of p at most, and below p. *)
AtMost(p, of, gpus) == {g \in gpus : of[g] <= p}
Below(p, of, gpus) == {g \in gpus : of[g] < p}

(* Parts of a finite set have no more members than the whole. *)
LEMMA Subsets ==
  ASSUME NEW gpus, IsFiniteSet(gpus), NEW T \in SUBSET gpus
  PROVE  /\ IsFiniteSet(T) /\ Cardinality(T) \in Nat /\ Cardinality(T) <= Cardinality(gpus)
         /\ \A U \in SUBSET T : Cardinality(U) \in Nat /\ Cardinality(U) <= Cardinality(T)
<1>1. IsFiniteSet(T) /\ Cardinality(T) <= Cardinality(gpus)
  BY FS_Subset
<1>2. \A U \in SUBSET T : IsFiniteSet(U) /\ Cardinality(U) <= Cardinality(T)
  BY <1>1, FS_Subset
<1> QED BY <1>1, <1>2, FS_CardinalityType

(* The k-th smallest pace exists, and is what it is chosen to be. *)
LEMMA SmallestIs ==
  ASSUME NEW gpus, IsFiniteSet(gpus), NEW of, \A g \in gpus : of[g] \in Nat,
         NEW k \in 1 .. Cardinality(gpus)
  PROVE  /\ \E g \in gpus : Smallest(k, of, gpus) = of[g]
         /\ Cardinality(Below(Smallest(k, of, gpus), of, gpus)) < k
         /\ Cardinality(AtMost(Smallest(k, of, gpus), of, gpus)) >= k
<1> DEFINE Ranked == {g \in gpus : Cardinality(AtMost(of[g], of, gpus)) >= k}
           Keys   == {p \in Nat : \E g \in Ranked : p = of[g]}
<1>a. Cardinality(gpus) \in Nat
  BY FS_CardinalityType
<1>b. \A p \in Nat : Below(p, of, gpus) \in SUBSET gpus /\ AtMost(p, of, gpus) \in SUBSET gpus
  BY DEF Below, AtMost
<1>c. \A p \in Nat : /\ Cardinality(Below(p, of, gpus)) \in Nat
                     /\ Cardinality(AtMost(p, of, gpus)) \in Nat
  BY <1>b, Subsets
<1>1. gpus # {}
  BY <1>a, FS_EmptySet
<1>2. PICK top \in gpus : \A g \in gpus : of[g] <= of[top]
  BY <1>1, Greatest
<1>3. top \in Ranked
  <2>1. AtMost(of[top], of, gpus) = gpus
    BY <1>2 DEF AtMost
  <2> QED BY <1>a, <2>1
<1>4. PICK p \in Keys : \A q \in Keys : p <= q
  <2>1. Keys \in SUBSET Nat /\ Keys # {}
    BY <1>3
  <2> HIDE DEF Keys
  <2> QED BY <2>1, LeastOf
<1>5. PICK g \in Ranked : p = of[g]
  BY <1>4
<1>6. Cardinality(AtMost(p, of, gpus)) >= k
  BY <1>5
<1>7. Cardinality(Below(p, of, gpus)) < k
  <2> SUFFICES ASSUME Cardinality(Below(p, of, gpus)) >= k PROVE FALSE
    BY <1>c, <1>4
  <2>0. p \in Nat
    BY <1>4
  <2>1. IsFiniteSet(Below(p, of, gpus)) /\ Below(p, of, gpus) # {}
    BY <1>a, <1>b, <2>0, Subsets, FS_EmptySet
  <2>2. \A h \in Below(p, of, gpus) : h \in gpus /\ of[h] \in Nat /\ of[h] < p
    BY DEF Below
  <2>3. PICK h \in Below(p, of, gpus) : \A x \in Below(p, of, gpus) : of[x] <= of[h]
    BY <2>1, <2>2, Greatest
  <2>4. Below(p, of, gpus) \in SUBSET AtMost(of[h], of, gpus)
    BY <2>2, <2>3 DEF AtMost
  <2>5. Cardinality(AtMost(of[h], of, gpus)) >= k
    <3>1. Cardinality(Below(p, of, gpus)) <= Cardinality(AtMost(of[h], of, gpus))
      BY <1>b, <2>2, <2>3, <2>4, Subsets
    <3> QED BY <1>c, <2>0, <2>2, <3>1
  <2>6. of[h] \in Keys
    BY <2>2, <2>5
  <2> QED BY <1>4, <2>0, <2>2, <2>6
<1> DEFINE Fits(q) == /\ Cardinality({x \in gpus : of[x] < q}) < k
                      /\ Cardinality({x \in gpus : of[x] <= q}) >= k
<1>8. \E q \in {of[x] : x \in gpus} : Fits(q)
  BY <1>5, <1>6, <1>7 DEF Below, AtMost
<1>9. Smallest(k, of, gpus) = CHOOSE q \in {of[x] : x \in gpus} : Fits(q)
  BY DEF Smallest
<1>10. Smallest(k, of, gpus) \in {of[x] : x \in gpus} /\ Fits(Smallest(k, of, gpus))
  <2> HIDE DEF Fits
  <2> QED BY <1>8, <1>9
<1> QED BY <1>10 DEF Below, AtMost

(* Bounds on it: enough paces that are no more than b, or too few below b. *)
LEMMA SmallestAtMost ==
  ASSUME NEW gpus, IsFiniteSet(gpus), NEW of, \A g \in gpus : of[g] \in Nat,
         NEW k \in 1 .. Cardinality(gpus), NEW b \in Nat,
         Cardinality(AtMost(b, of, gpus)) >= k
  PROVE  Smallest(k, of, gpus) \in Nat /\ Smallest(k, of, gpus) <= b
<1> DEFINE p == Smallest(k, of, gpus)
<1>1. p \in Nat /\ Cardinality(Below(p, of, gpus)) < k
  BY SmallestIs
<1> SUFFICES ASSUME b < p PROVE FALSE
  BY <1>1
<1>2. AtMost(b, of, gpus) \in SUBSET Below(p, of, gpus) /\ Below(p, of, gpus) \in SUBSET gpus
  <2> HIDE DEF p
  <2> QED BY <1>1 DEF AtMost, Below
<1>3. /\ Cardinality(AtMost(b, of, gpus)) \in Nat /\ Cardinality(Below(p, of, gpus)) \in Nat
      /\ Cardinality(AtMost(b, of, gpus)) <= Cardinality(Below(p, of, gpus))
  BY <1>2, Subsets
<1> HIDE DEF p
<1> QED BY <1>1, <1>3

(* If fewer than k GPUs have a pace below b, the k-th smallest pace is not. *)
LEMMA SmallestAtLeast ==
  ASSUME NEW gpus, IsFiniteSet(gpus), NEW of, \A g \in gpus : of[g] \in Nat,
         NEW k \in 1 .. Cardinality(gpus), NEW b \in Nat,
         Cardinality(Below(b, of, gpus)) < k
  PROVE  Smallest(k, of, gpus) \in Nat /\ Smallest(k, of, gpus) >= b
<1> DEFINE p == Smallest(k, of, gpus)
<1>1. p \in Nat /\ Cardinality(AtMost(p, of, gpus)) >= k
  BY SmallestIs
<1> SUFFICES ASSUME p < b PROVE FALSE
  BY <1>1
<1>2. AtMost(p, of, gpus) \in SUBSET Below(b, of, gpus) /\ Below(b, of, gpus) \in SUBSET gpus
  <2> HIDE DEF p
  <2> QED BY <1>1 DEF AtMost, Below
<1>3. /\ Cardinality(AtMost(p, of, gpus)) \in Nat /\ Cardinality(Below(b, of, gpus)) \in Nat
      /\ Cardinality(AtMost(p, of, gpus)) <= Cardinality(Below(b, of, gpus))
  BY <1>2, Subsets
<1> HIDE DEF p
<1> QED BY <1>1, <1>3

-----------------------------------------------------------------------------
(* The straggler rule *)

(* The paces that a fault makes, whatever the noise. *)
Band(felt) ==
  CASE felt = "straggler"  -> 20160 .. 27040
    [] felt = "thermal"    -> 11040 .. 11960
    [] felt = "nccl"       -> 13440 .. 14560
    [] felt = "throughput" -> 17280 .. 18720
    [] OTHER               -> 9600 .. 10400

(* What the simulator draws for a GPU is in the band of what the GPU feels. *)
LEMMA PaceInBand ==
  ASSUME NEW noise \in 96 .. 104, NEW felt, NEW slowdown \in Slowdown(felt)
  PROVE  noise * slowdown \in Band(felt)
<1>1. CASE felt = "straggler"
  <2>0. slowdown \in 210 .. 260
    BY <1>1, RatesAssumption DEF Slowdown
  <2>1. PICK b \in 210 .. 260 : b = slowdown
    BY <2>0
  <2>2. \A x, y \in Nat : x * y \in Nat
    OBVIOUS
  <2>3. (noise - 96) * (b - 210) \in Nat /\ (104 - noise) * b \in Nat
    BY <2>2
  <2>4. (noise - 96) * (b - 210) = noise * b - 210 * noise - 96 * b + 20160
    OBVIOUS
  <2>5. (104 - noise) * b = 104 * b - noise * b
    OBVIOUS
  <2>6. noise * b \in Int
    OBVIOUS
  <2> DEFINE pace == noise * b
  <2> HIDE DEF pace
  <2>7. pace \in 20160 .. 27040
    BY <2>3, <2>4, <2>5, <2>6 DEF pace
  <2>8. noise * slowdown = pace
    BY <2>1 DEF pace
  <2>9. pace \in Band(felt)
    BY <1>1, <2>7 DEF Band
  <2> QED BY <2>8, <2>9
<1>2. CASE felt # "straggler"
  BY <1>2 DEF Band, Slowdown
<1> QED BY <1>1, <1>2

(* How far the bands are apart. *)
LEMMA BandBounds ==
  ASSUME NEW felt, NEW p, p \in Band(felt)
  PROVE  /\ p \in Nat /\ p >= 9600 /\ p <= 27040
         /\ felt = "straggler" => p >= 20160
         /\ felt # "straggler" => p <= 18720
         /\ felt = "nccl" => p >= 13440 /\ p <= 14560
         /\ felt = "throughput" => p >= 17280
         /\ felt \notin {"straggler", "nccl", "throughput"} => p <= 11960
         /\ felt \notin {"straggler", "thermal", "nccl", "throughput"} => p <= 10400
<1>1. CASE felt = "straggler"
  <2>1. Band(felt) = 20160 .. 27040
    BY <1>1 DEF Band
  <2>2. p \in 20160 .. 27040
    BY <2>1
  <2> QED BY <1>1, <2>2
<1>2. CASE felt = "thermal"
  <2>1. Band(felt) = 11040 .. 11960
    BY <1>2 DEF Band
  <2>2. p \in 11040 .. 11960
    BY <2>1
  <2> QED BY <1>2, <2>2
<1>3. CASE felt = "nccl"
  <2>1. Band(felt) = 13440 .. 14560
    BY <1>3 DEF Band
  <2>2. p \in 13440 .. 14560
    BY <2>1
  <2> QED BY <1>3, <2>2
<1>4. CASE felt = "throughput"
  <2>1. Band(felt) = 17280 .. 18720
    BY <1>4 DEF Band
  <2>2. p \in 17280 .. 18720
    BY <2>1
  <2> QED BY <1>4, <2>2
<1>5. CASE felt \notin {"straggler", "thermal", "nccl", "throughput"}
  <2>1. Band(felt) = 9600 .. 10400
    BY <1>5 DEF Band
  <2>2. p \in 9600 .. 10400
    BY <2>1
  <2> QED BY <1>5, <2>2
<1> QED BY <1>1, <1>2, <1>3, <1>4, <1>5

(* All GPUs report a pace of what they feel. *)
Paced(of, feels) == of \in [Gpus -> Nat] /\ \A g \in Gpus : of[g] \in Band(feels[g])

(* A straggler is alone, and only GPUs in the set given are spared what slows
   down the job. *)
Coherent(feels, spared) ==
  \A g, h \in Gpus :
    /\ feels[g] = "straggler" /\ h # g => feels[h] = "none"
    /\ feels[g] \in {"nccl", "throughput"} => feels[h] = feels[g] \/ h \in spared

(* A job has as many GPUs as report. *)
LEMMA FleetIsFinite == IsFiniteSet(Gpus) /\ Cardinality(Gpus) = Len(Fleet) /\ Len(Fleet) \in Nat
<1>1. Len(Fleet) \in Nat /\ DOMAIN Fleet = 1 .. Len(Fleet) /\ \A j \in 1 .. Len(Fleet) : Fleet[j] \in Gpus
  BY FleetAssumption
<1>2. Fleet \in Surjection(1 .. Len(Fleet), Gpus) /\ Fleet \in Injection(1 .. Len(Fleet), Gpus)
  <2>1. Fleet \in [1 .. Len(Fleet) -> Gpus]
    BY <1>1, FleetAssumption
  <2>2. \A g \in Gpus : \E j \in 1 .. Len(Fleet) : Fleet[j] = g
    BY <1>1 DEF Gpus, Range
  <2>3. \A j, k \in 1 .. Len(Fleet) : Fleet[j] = Fleet[k] => j = k
    BY <1>1, FleetAssumption
  <2> QED BY <2>1, <2>2, <2>3 DEF Surjection, Injection, IsInjective
<1>3. IsFiniteSet(1 .. Len(Fleet)) /\ Cardinality(1 .. Len(Fleet)) = Len(Fleet)
  <2> DEFINE n == Len(Fleet)
  <2>1. n \in Nat /\ n \in Int /\ 1 \in Int
    BY <1>1
  <2> HIDE DEF n
  <2>2. IsFiniteSet(1 .. n) /\ Cardinality(1 .. n) = IF 1 > n THEN 0 ELSE n - 1 + 1
    BY <2>1, FS_Interval
  <2>3. Cardinality(1 .. n) = n
    BY <2>1, <2>2
  <2> QED BY <2>2, <2>3 DEF n
<1> QED BY <1>1, <1>2, <1>3, FS_Surjection

(* The two middle paces of n, and how many there are on either side. *)
LEMMA Middle ==
  ASSUME NEW n \in Nat, n >= 4
  PROVE  /\ (n + 1) \div 2 \in 1 .. n /\ n \div 2 + 1 \in 1 .. n
         /\ (n + 1) \div 2 <= n - 1 /\ n \div 2 + 1 <= n - 1
         /\ \A m \in Nat : 2 * m <= n => m < n \div 2 + 1
  OBVIOUS

(* What the rule compares with when all GPUs have reported. *)
LEMMA RuleOverFleet ==
  ASSUME NEW of, NEW feels, Paced(of, feels), NEW g \in Gpus
  PROVE  IsStraggler(g, of) <=>
           /\ Len(Fleet) >= 4
           /\ 4 * of[g] >= 3 * (Smallest((Len(Fleet) + 1) \div 2, of, Gpus)
                                + Smallest(Len(Fleet) \div 2 + 1, of, Gpus))
<1>1. Peers(of) = Gpus
  <2>1. \A h \in Gpus : of[h] \in Nat /\ of[h] >= 9600
    BY BandBounds DEF Paced
  <2> QED BY <2>1 DEF Peers, Paced
<1>2. Cardinality(Peers(of)) = Len(Fleet)
  BY <1>1, FleetIsFinite
<1> QED BY <1>1, <1>2 DEF IsStraggler, TwiceMedian

(* A straggler among at least four GPUs that report their own pace is found:
   the others are at 10400 at most. *)
LEMMA StragglerIsFound ==
  ASSUME NEW of, NEW feels, Paced(of, feels), NEW spared, Coherent(feels, spared),
         NEW g \in Gpus, feels[g] = "straggler", Len(Fleet) >= 4
  PROVE  IsStraggler(g, of)
<1> DEFINE n == Len(Fleet)
<1>1. n \in Nat /\ IsFiniteSet(Gpus) /\ Cardinality(Gpus) = n
  BY FleetIsFinite
<1>2. \A h \in Gpus : of[h] \in Nat
  BY DEF Paced
<1>3. of[g] >= 20160
  BY BandBounds DEF Paced
<1>4. Gpus \ {g} \in SUBSET AtMost(10400, of, Gpus)
  <2> SUFFICES ASSUME NEW h \in Gpus \ {g} PROVE of[h] <= 10400
    BY DEF AtMost
  <2>1. feels[h] = "none"
    BY DEF Coherent
  <2> QED BY <2>1, BandBounds DEF Paced
<1>5. Cardinality(AtMost(10400, of, Gpus)) \in Nat /\ Cardinality(AtMost(10400, of, Gpus)) >= n - 1
  <2>1. AtMost(10400, of, Gpus) \in SUBSET Gpus
    BY DEF AtMost
  <2>2. Cardinality(Gpus \ {g}) = n - 1
    BY <1>1, FS_RemoveElement
  <2> QED BY <1>1, <1>4, <2>1, <2>2, Subsets
<1>6. \A k \in 1 .. n : k <= n - 1 => Smallest(k, of, Gpus) \in Nat /\ Smallest(k, of, Gpus) <= 10400
  <2> SUFFICES ASSUME NEW k \in 1 .. n, k <= n - 1
               PROVE  Smallest(k, of, Gpus) \in Nat /\ Smallest(k, of, Gpus) <= 10400
    OBVIOUS
  <2>1. k \in 1 .. Cardinality(Gpus) /\ Cardinality(AtMost(10400, of, Gpus)) >= k
    BY <1>1, <1>5
  <2> QED BY <1>1, <1>2, <2>1, SmallestAtMost
<1>7. /\ (n + 1) \div 2 \in 1 .. n /\ n \div 2 + 1 \in 1 .. n
      /\ (n + 1) \div 2 <= n - 1 /\ n \div 2 + 1 <= n - 1
  BY <1>1, Middle
<1>8. of[g] \in Nat
  BY <1>2
<1> DEFINE low == Smallest((n + 1) \div 2, of, Gpus)
           high == Smallest(n \div 2 + 1, of, Gpus)
<1>9. low \in Nat /\ high \in Nat /\ low <= 10400 /\ high <= 10400
  BY <1>6, <1>7
<1>10. 4 * of[g] >= 3 * (low + high)
  <2> HIDE DEF low, high
  <2> QED BY <1>3, <1>8, <1>9
<1> QED BY <1>10, RuleOverFleet

(* A GPU with the pace of a job without faults is not taken for a straggler,
   whichever peers have reported. *)
LEMMA NormalPacePasses ==
  ASSUME NEW of, of \in [Gpus -> Nat], \A h \in Gpus : of[h] = 0 \/ of[h] >= 9600,
         NEW g \in Gpus, of[g] \in 9600 .. 10400
  PROVE  ~IsStraggler(g, of)
<1> DEFINE peers == Peers(of)
           n     == Cardinality(peers)
<1> SUFFICES ASSUME n >= 4 PROVE ~(4 * of[g] >= 3 * TwiceMedian(of, peers))
  BY DEF IsStraggler
<1>1. IsFiniteSet(peers) /\ n \in Nat
  <2>1. peers \in SUBSET Gpus
    BY DEF Peers
  <2> QED BY <2>1, FleetIsFinite, Subsets
<1>2. \A h \in peers : of[h] \in Nat /\ of[h] >= 9600
  BY DEF Peers
<1> HIDE DEF peers
<1>3. \A k \in 1 .. n : Smallest(k, of, peers) \in Nat /\ Smallest(k, of, peers) >= 9600
  BY <1>1, <1>2, SmallestIs
<1>4. (n + 1) \div 2 \in 1 .. n /\ n \div 2 + 1 \in 1 .. n
  BY <1>1, Middle
<1> DEFINE low == Smallest((n + 1) \div 2, of, peers)
           high == Smallest(n \div 2 + 1, of, peers)
<1>5. low \in Nat /\ high \in Nat /\ low >= 9600 /\ high >= 9600
  BY <1>3, <1>4
<1>6. TwiceMedian(of, peers) = low + high
  BY DEF TwiceMedian
<1> HIDE DEF low, high
<1> QED BY <1>5, <1>6

(* Nor is a GPU that feels a fault of the job, unless most GPUs are spared it:
   the median is then that of the fault. *)
LEMMA NoFalseStraggler ==
  ASSUME NEW of, NEW feels, Paced(of, feels), NEW spared, Coherent(feels, spared),
         IsFiniteSet(spared), 2 * Cardinality(spared) <= Len(Fleet),
         NEW g \in Gpus, feels[g] # "straggler"
  PROVE  ~IsStraggler(g, of)
<1> DEFINE n == Len(Fleet)
           low == Smallest((n + 1) \div 2, of, Gpus)
           high == Smallest(n \div 2 + 1, of, Gpus)
<1> SUFFICES ASSUME n >= 4 PROVE ~(4 * of[g] >= 3 * (low + high))
  BY RuleOverFleet
<1>1. n \in Nat /\ IsFiniteSet(Gpus) /\ Cardinality(Gpus) = n
  BY FleetIsFinite
<1>2. \A h \in Gpus : of[h] \in Nat /\ of[h] >= 9600
  BY BandBounds DEF Paced
<1>3. (n + 1) \div 2 \in 1 .. n /\ n \div 2 + 1 \in 1 .. n
  BY <1>1, Middle
<1>4. low \in Nat /\ high \in Nat /\ low >= 9600 /\ high >= 9600
  <2>1. \A k \in 1 .. n : Smallest(k, of, Gpus) \in Nat /\ Smallest(k, of, Gpus) >= 9600
    BY <1>1, <1>2, SmallestIs
  <2> QED BY <1>3, <2>1
<1>5. of[g] \in Nat
  BY <1>2
<1>6. CASE feels[g] \notin {"nccl", "throughput"}
  <2>1. of[g] <= 11960
    BY <1>6, BandBounds DEF Paced
  <2> HIDE DEF low, high
  <2> QED BY <1>4, <1>5, <2>1
<1>7. CASE feels[g] \in {"nccl", "throughput"}
  <2> DEFINE b == IF feels[g] = "nccl" THEN 13440 ELSE 17280
  <2>1. of[g] <= 18720 /\ (feels[g] = "nccl" => of[g] <= 14560)
    BY <1>7, BandBounds DEF Paced
  <2>2. Below(b, of, Gpus) \in SUBSET spared
    <3> SUFFICES ASSUME NEW h \in Gpus, of[h] < b PROVE h \in spared
      BY DEF Below
    <3>1. feels[h] = feels[g] \/ h \in spared
      BY <1>7 DEF Coherent
    <3>2. CASE feels[h] = feels[g]
      BY <1>7, <3>2, BandBounds DEF Paced
    <3> QED BY <3>1, <3>2
  <2>3. /\ Cardinality(Below(b, of, Gpus)) \in Nat /\ Cardinality(spared) \in Nat
        /\ Cardinality(Below(b, of, Gpus)) <= Cardinality(spared)
    BY <2>2, FS_Subset, FS_CardinalityType
  <2>4. Cardinality(Below(b, of, Gpus)) < n \div 2 + 1
    BY <1>1, <2>3, Middle
  <2>5. high >= b
    <3>1. b \in Nat /\ n \div 2 + 1 \in 1 .. Cardinality(Gpus)
      BY <1>1, <1>3
    <3> HIDE DEF b
    <3> QED BY <1>1, <1>2, <2>4, <3>1, SmallestAtLeast
  <2> HIDE DEF low, high
  <2> QED BY <1>4, <1>5, <1>7, <2>1, <2>5
<1> QED BY <1>6, <1>7

-----------------------------------------------------------------------------
(* What is found in an event, and which signals the incident takes *)

(* Two lists one after the other have the members of both. *)
LEMMA RangeOfTwo ==
  ASSUME NEW S, NEW s \in Seq(S), NEW t \in Seq(S)
  PROVE  s \o t \in Seq(S) /\ Range(s \o t) = Range(s) \cup Range(t)
<1> DEFINE u == s \o t
<1>1. u \in Seq(S) /\ Len(u) = Len(s) + Len(t)
  OBVIOUS
<1>2. /\ DOMAIN s = 1 .. Len(s) /\ DOMAIN t = 1 .. Len(t) /\ DOMAIN u = 1 .. Len(u)
      /\ Len(s) \in Nat /\ Len(t) \in Nat
  BY <1>1
<1>3. \A k \in 1 .. Len(s) : u[k] = s[k]
  OBVIOUS
<1>4. \A k \in 1 .. Len(t) : u[Len(s) + k] = t[k]
  OBVIOUS
<1> HIDE DEF u
<1>5. \A x \in Range(u) : x \in Range(s) \cup Range(t)
  <2> SUFFICES ASSUME NEW k \in 1 .. Len(u) PROVE u[k] \in Range(s) \cup Range(t)
    BY <1>2 DEF Range
  <2>1. CASE k <= Len(s)
    <3>1. k \in DOMAIN s /\ u[k] = s[k]
      BY <1>1, <1>2, <1>3, <2>1
    <3> QED BY <3>1 DEF Range
  <2>2. CASE k > Len(s)
    <3>1. k - Len(s) \in DOMAIN t /\ u[Len(s) + (k - Len(s))] = t[k - Len(s)] /\ Len(s) + (k - Len(s)) = k
      BY <1>1, <1>2, <1>4, <2>2
    <3> QED BY <3>1 DEF Range
  <2> QED BY <1>1, <1>2, <2>1, <2>2
<1>6. \A x \in Range(s) : x \in Range(u)
  <2> SUFFICES ASSUME NEW k \in 1 .. Len(s) PROVE s[k] \in Range(u)
    BY <1>2 DEF Range
  <2>1. k \in DOMAIN u
    BY <1>1, <1>2
  <2> QED BY <1>3, <2>1 DEF Range
<1>7. \A x \in Range(t) : x \in Range(u)
  <2> SUFFICES ASSUME NEW k \in 1 .. Len(t) PROVE t[k] \in Range(u)
    BY <1>2 DEF Range
  <2>1. Len(s) + k \in DOMAIN u
    BY <1>1, <1>2
  <2> QED BY <1>4, <2>1 DEF Range
<1> QED BY <1>1, <1>5, <1>6, <1>7 DEF u

LEMMA RangeOfRule ==
  ASSUME NEW kind \in Kinds
  PROVE  /\ <<kind>> \in Seq(Kinds) /\ Range(<<kind>>) = {kind}
         /\ <<>> \in Seq(Kinds) /\ Range(<<>>) = {}
<1>1. Range(<<kind>>) = {kind}
  BY DEF Range
<1>2. Range(<<>>) = {}
  BY DEF Range
<1> QED BY <1>1, <1>2

(* A rule's kind is found when the rule fires, and not otherwise. *)
LEMMA FoundByRules ==
  ASSUME NEW report, NEW baseline, NEW histories, NEW of
  PROVE  LET found == Found(report, baseline, histories, of)
         IN  /\ found \in Seq(Kinds)
             /\ "ecc" \in Range(found) <=> EccAlarm(histories[report.at])
             /\ "xid" \in Range(found) <=> report.xid
             /\ "oom" \in Range(found) <=> report.full
             /\ "straggler" \in Range(found) <=> IsStraggler(report.at, of)
<1> DEFINE rule(kind, fires) == IF fires THEN <<kind>> ELSE <<>>
           r1 == rule("slowdown", "slowdown" \in baseline)
           r2 == rule("collective_stall", "collective_stall" \in baseline)
           r3 == rule("thermal", "thermal" \in baseline)
           r4 == rule("throughput_drop", "throughput_drop" \in baseline)
           r5 == rule("fabric", "fabric" \in baseline)
           r6 == rule("ecc", EccAlarm(histories[report.at]))
           r7 == rule("xid", report.xid)
           r8 == rule("thermal", report.hot)
           r9 == rule("oom", report.full)
           r10 == rule("straggler", IsStraggler(report.at, of))
           s2 == r1 \o r2
           s3 == s2 \o r3
           s4 == s3 \o r4
           s5 == s4 \o r5
           s6 == s5 \o r6
           s7 == s6 \o r7
           s8 == s7 \o r8
           s9 == s8 \o r9
           s10 == s9 \o r10
           found == Found(report, baseline, histories, of)
<1>0. found = s10
  BY DEF Found
<1>k. {"slowdown", "collective_stall", "thermal", "throughput_drop", "fabric", "ecc", "xid",
       "oom", "straggler"} \subseteq Kinds
  BY DEF Kinds
<1>1. r1 \in Seq(Kinds) /\ (\A x \in Range(r1) : x = "slowdown")
  BY <1>k, RangeOfRule
<1>2. r2 \in Seq(Kinds) /\ (\A x \in Range(r2) : x = "collective_stall")
  BY <1>k, RangeOfRule
<1>3. r3 \in Seq(Kinds) /\ (\A x \in Range(r3) : x = "thermal")
  BY <1>k, RangeOfRule
<1>4. r4 \in Seq(Kinds) /\ (\A x \in Range(r4) : x = "throughput_drop")
  BY <1>k, RangeOfRule
<1>5. r5 \in Seq(Kinds) /\ (\A x \in Range(r5) : x = "fabric")
  BY <1>k, RangeOfRule
<1>6. r6 \in Seq(Kinds) /\ (\A x \in Range(r6) : x = "ecc") /\ ("ecc" \in Range(r6) <=> EccAlarm(histories[report.at]))
  BY <1>k, RangeOfRule
<1>7. r7 \in Seq(Kinds) /\ (\A x \in Range(r7) : x = "xid") /\ ("xid" \in Range(r7) <=> report.xid)
  BY <1>k, RangeOfRule
<1>8. r8 \in Seq(Kinds) /\ (\A x \in Range(r8) : x = "thermal")
  BY <1>k, RangeOfRule
<1>9. r9 \in Seq(Kinds) /\ (\A x \in Range(r9) : x = "oom") /\ ("oom" \in Range(r9) <=> report.full)
  BY <1>k, RangeOfRule
<1>10. r10 \in Seq(Kinds) /\ (\A x \in Range(r10) : x = "straggler") /\ ("straggler" \in Range(r10) <=> IsStraggler(report.at, of))
  BY <1>k, RangeOfRule
<1> HIDE DEF r1, r2, r3, r4, r5, r6, r7, r8, r9, r10
<1>11. s2 \in Seq(Kinds) /\ Range(s2) = Range(r1) \cup Range(r2)
  BY <1>1, <1>2, RangeOfTwo
<1> HIDE DEF s2
<1>12. s3 \in Seq(Kinds) /\ Range(s3) = Range(s2) \cup Range(r3)
  BY <1>11, <1>3, RangeOfTwo
<1> HIDE DEF s3
<1>13. s4 \in Seq(Kinds) /\ Range(s4) = Range(s3) \cup Range(r4)
  BY <1>12, <1>4, RangeOfTwo
<1> HIDE DEF s4
<1>14. s5 \in Seq(Kinds) /\ Range(s5) = Range(s4) \cup Range(r5)
  BY <1>13, <1>5, RangeOfTwo
<1> HIDE DEF s5
<1>15. s6 \in Seq(Kinds) /\ Range(s6) = Range(s5) \cup Range(r6)
  BY <1>14, <1>6, RangeOfTwo
<1> HIDE DEF s6
<1>16. s7 \in Seq(Kinds) /\ Range(s7) = Range(s6) \cup Range(r7)
  BY <1>15, <1>7, RangeOfTwo
<1> HIDE DEF s7
<1>17. s8 \in Seq(Kinds) /\ Range(s8) = Range(s7) \cup Range(r8)
  BY <1>16, <1>8, RangeOfTwo
<1> HIDE DEF s8
<1>18. s9 \in Seq(Kinds) /\ Range(s9) = Range(s8) \cup Range(r9)
  BY <1>17, <1>9, RangeOfTwo
<1> HIDE DEF s9
<1>19. s10 \in Seq(Kinds) /\ Range(s10) = Range(s9) \cup Range(r10)
  BY <1>18, <1>10, RangeOfTwo
<1> HIDE DEF s10
<1>20. \A x : x \in Range(s5) =>
         x \in {"slowdown", "collective_stall", "thermal", "throughput_drop", "fabric"}
  BY <1>1, <1>2, <1>3, <1>4, <1>5, <1>11, <1>12, <1>13, <1>14
<1>21. \A x : x \in Range(s10) <=>
         \/ x \in Range(s5) \/ x \in Range(r6) \/ x \in Range(r7)
         \/ x \in Range(r8) \/ x \in Range(r9) \/ x \in Range(r10)
  BY <1>15, <1>16, <1>17, <1>18, <1>19
<1>22. "ecc" \in Range(s10) <=> EccAlarm(histories[report.at])
  <2>1. "ecc" \in Range(s10) <=> "ecc" \in Range(r6)
    <3>1. "ecc" \notin Range(s5)
      BY <1>20
    <3>2. "ecc" \notin Range(r7)
      BY <1>7
    <3>3. "ecc" \notin Range(r8)
      BY <1>8
    <3>4. "ecc" \notin Range(r9)
      BY <1>9
    <3>5. "ecc" \notin Range(r10)
      BY <1>10
    <3> QED BY <1>21, <3>1, <3>2, <3>3, <3>4, <3>5
  <2> QED BY <1>6, <2>1, Zenon
<1>23. "xid" \in Range(s10) <=> report.xid
  <2>1. "xid" \in Range(s10) <=> "xid" \in Range(r7)
    <3>1. "xid" \notin Range(s5)
      BY <1>20
    <3>2. "xid" \notin Range(r6)
      BY <1>6
    <3>3. "xid" \notin Range(r8)
      BY <1>8
    <3>4. "xid" \notin Range(r9)
      BY <1>9
    <3>5. "xid" \notin Range(r10)
      BY <1>10
    <3> QED BY <1>21, <3>1, <3>2, <3>3, <3>4, <3>5
  <2> QED BY <1>7, <2>1, Zenon
<1>24. "oom" \in Range(s10) <=> report.full
  <2>1. "oom" \in Range(s10) <=> "oom" \in Range(r9)
    <3>1. "oom" \notin Range(s5)
      BY <1>20
    <3>2. "oom" \notin Range(r6)
      BY <1>6
    <3>3. "oom" \notin Range(r7)
      BY <1>7
    <3>4. "oom" \notin Range(r8)
      BY <1>8
    <3>5. "oom" \notin Range(r10)
      BY <1>10
    <3> QED BY <1>21, <3>1, <3>2, <3>3, <3>4, <3>5
  <2> QED BY <1>9, <2>1, Zenon
<1>25. "straggler" \in Range(s10) <=> IsStraggler(report.at, of)
  <2>1. "straggler" \in Range(s10) <=> "straggler" \in Range(r10)
    <3>1. "straggler" \notin Range(s5)
      BY <1>20
    <3>2. "straggler" \notin Range(r6)
      BY <1>6
    <3>3. "straggler" \notin Range(r7)
      BY <1>7
    <3>4. "straggler" \notin Range(r8)
      BY <1>8
    <3>5. "straggler" \notin Range(r9)
      BY <1>9
    <3> QED BY <1>21, <3>1, <3>2, <3>3, <3>4, <3>5
  <2> QED BY <1>10, <2>1, Zenon
<1> QED BY <1>0, <1>19, <1>22, <1>23, <1>24, <1>25

Signal == [kind : Kinds, at : Gpus]

(* How Process enriches the incident. *)
Enriches(old, found, g, new) ==
  LET batch == [k \in DOMAIN found |-> [kind |-> found[k], at |-> g]]
  IN  IF found = <<>> THEN new = old
      ELSE \E pos \in InOrder(Unseen(batch, old)) : new = old \o [k \in DOMAIN pos |-> batch[pos[k]]]

(* What it is enriched with are signals of the event. *)
LEMMA Enriched ==
  ASSUME NEW old \in Seq(Signal), NEW found \in Seq(Kinds), NEW g \in Gpus, NEW new,
         Enriches(old, found, g, new)
  PROVE  /\ new \in Seq(Signal)
         /\ \A s \in Range(new) : s \in Range(old) \/ (s.kind \in Range(found) /\ s.at = g)
<1> SUFFICES ASSUME found # <<>>
             PROVE  /\ new \in Seq(Signal)
                    /\ \A s \in Range(new) :
                         s \in Range(old) \/ (s.kind \in Range(found) /\ s.at = g)
  BY DEF Enriches
<1> DEFINE batch == [k \in DOMAIN found |-> [kind |-> found[k], at |-> g]]
<1>0. PICK pos \in InOrder(Unseen(batch, old)) : new = old \o [k \in DOMAIN pos |-> batch[pos[k]]]
  BY Zenon DEF Enriches
<1> DEFINE fresh == Unseen(batch, old)
           added == [k \in DOMAIN pos |-> batch[pos[k]]]
<1>1. DOMAIN found = 1 .. Len(found) /\ Len(found) \in Nat /\ \A k \in DOMAIN found : found[k] \in Kinds
  OBVIOUS
<1>2. fresh \in SUBSET (1 .. Len(found))
  BY <1>1 DEF Unseen
<1>3. IsFiniteSet(fresh) /\ Cardinality(fresh) \in Nat
  <2>1. IsFiniteSet(1 .. Len(found))
    BY <1>1, FS_Interval
  <2> HIDE DEF fresh
  <2> QED BY <1>2, <2>1, FS_Subset, FS_CardinalityType
<1>4. pos \in [1 .. Cardinality(fresh) -> fresh]
  BY DEF InOrder
<1>5. \A k \in 1 .. Cardinality(fresh) : /\ added[k] \in Signal /\ added[k].at = g
                                        /\ added[k].kind \in Range(found)
  <2> SUFFICES ASSUME NEW k \in 1 .. Cardinality(fresh)
               PROVE  added[k] \in Signal /\ added[k].at = g /\ added[k].kind \in Range(found)
    OBVIOUS
  <2>1. pos[k] \in 1 .. Len(found) /\ k \in DOMAIN pos
    BY <1>2, <1>4
  <2>2. added[k] = [kind |-> found[pos[k]], at |-> g]
    BY <1>1, <2>1
  <2> HIDE DEF added
  <2> QED BY <1>1, <2>1, <2>2 DEF Signal, Range
<1>6. added \in Seq(Signal) /\ Len(added) = Cardinality(fresh) /\ DOMAIN added = 1 .. Cardinality(fresh)
  <2>1. DOMAIN added = 1 .. Cardinality(fresh)
    BY <1>4
  <2>2. added \in [1 .. Cardinality(fresh) -> Signal]
    BY <1>5, <2>1
  <2> HIDE DEF added, fresh
  <2> QED BY <1>3, <2>1, <2>2, IsSequence
<1> HIDE DEF added, fresh
<1>7. new = old \o added
  BY <1>0 DEF added
<1>8. new \in Seq(Signal) /\ Range(new) = Range(old) \cup Range(added)
  <2>1. old \o added \in Seq(Signal) /\ Range(old \o added) = Range(old) \cup Range(added)
    BY <1>6, RangeOfTwo
  <2> QED BY <1>7, <2>1
<1>9. \A s \in Range(added) : \E k \in 1 .. Cardinality(Unseen(batch, old)) : s = added[k]
  BY <1>6 DEF Range, fresh
<1> HIDE DEF batch
<1> QED BY <1>5, <1>8, <1>9 DEF fresh

-----------------------------------------------------------------------------
(* The plan for a list of signals *)

(* The dominant signal is one of the incident's, and of the best ranked kind. *)
LEMMA DominantIs ==
  ASSUME NEW anomalies \in Seq(Signal), anomalies # <<>>
  PROVE  /\ Dominant(anomalies) \in Range(anomalies)
         /\ \A p \in 1 .. 7 :
              /\ \E s \in Range(anomalies) : s.kind = Priority[p]
              /\ \A q \in 1 .. 7 : q < p => \A s \in Range(anomalies) : s.kind # Priority[q]
              => Dominant(anomalies).kind = Priority[p]
<1> DEFINE Of(kind) == {k \in DOMAIN anomalies : anomalies[k].kind = kind}
           ranked   == {p \in DOMAIN Priority : Of(Priority[p]) # {}}
           first    == CHOOSE p \in ranked : \A q \in ranked : p <= q
           best     == Priority[first]
           latest   == CHOOSE k \in Of(best) : \A m \in Of(best) : m <= k
           positions == [k \in DOMAIN anomalies |-> k]
<1>1. /\ DOMAIN anomalies = 1 .. Len(anomalies) /\ Len(anomalies) \in Nat /\ Len(anomalies) >= 1
      /\ DOMAIN Priority = 1 .. 7
  BY DEF Priority
<1>2. \A kind : Of(kind) # {} <=> \E s \in Range(anomalies) : s.kind = kind
  BY DEF Range
<1>3. CASE ranked = {}
  <2>1. Dominant(anomalies) = anomalies[1]
    BY <1>3 DEF Dominant
  <2>2. \A p \in 1 .. 7 : ~(\E s \in Range(anomalies) : s.kind = Priority[p])
    <3> HIDE DEF Of
    <3> QED BY <1>1, <1>2, <1>3
  <2>3. anomalies[1] \in Range(anomalies)
    BY <1>1 DEF Range
  <2> QED BY <2>1, <2>2, <2>3
<1>4. CASE ranked # {}
  <2>1. first \in ranked /\ \A q \in ranked : first <= q
    <3>1. \E p \in ranked : \A q \in ranked : p <= q
      <4>1. ranked \in SUBSET Nat
        BY <1>1
      <4> HIDE DEF ranked
      <4> QED BY <1>4, <4>1, LeastOf
    <3> HIDE DEF ranked
    <3> QED BY <3>1
  <2>2. Of(best) # {}
    <3> HIDE DEF Of, first
    <3> QED BY <2>1
  <2>3. \A k \in Of(best) : positions[k] = k /\ k \in Nat
    <3> HIDE DEF best
    <3> QED BY <1>1
  <2>4. IsFiniteSet(Of(best))
    <3>1. Of(best) \in SUBSET (1 .. Len(anomalies))
      <4> HIDE DEF best
      <4> QED BY <1>1
    <3>2. IsFiniteSet(1 .. Len(anomalies))
      BY <1>1, FS_Interval
    <3> HIDE DEF Of, best
    <3> QED BY <3>1, <3>2, FS_Subset
  <2>5. \E k \in Of(best) : \A m \in Of(best) : m <= k
    <3> HIDE DEF Of, best, positions
    <3>1. \E k \in Of(best) : \A m \in Of(best) : positions[m] <= positions[k]
      BY <2>2, <2>3, <2>4, Greatest
    <3> QED BY <2>3, <3>1
  <2>6. latest \in Of(best)
    <3> HIDE DEF Of, best
    <3> QED BY <2>5
  <2>7. latest \in DOMAIN anomalies /\ anomalies[latest].kind = best
    <3> HIDE DEF best, latest
    <3> QED BY <2>6
  <2>8. Dominant(anomalies) = anomalies[latest]
    BY <1>4 DEF Dominant
  <2>9. Dominant(anomalies) \in Range(anomalies)
    <3> HIDE DEF latest
    <3> QED BY <2>7, <2>8 DEF Range
  <2>10. ASSUME NEW p \in 1 .. 7, \E s \in Range(anomalies) : s.kind = Priority[p],
                \A q \in 1 .. 7 : q < p => \A s \in Range(anomalies) : s.kind # Priority[q]
         PROVE  first = p
    <3> HIDE DEF Of
    <3>1. p \in ranked
      BY <1>1, <1>2, <2>10
    <3>2. \A q \in 1 .. 7 : q < p => q \notin ranked
      BY <1>1, <1>2, <2>10
    <3>3. first \in 1 .. 7
      BY <1>1, <2>1
    <3> HIDE DEF first, ranked
    <3> QED BY <2>1, <3>1, <3>2, <3>3
  <2> HIDE DEF first, latest
  <2> QED BY <2>7, <2>8, <2>9, <2>10
<1> QED BY <1>3, <1>4

(* What is proposed is a plan for a GPU of the job. *)
LEMMA ProposeTyped ==
  ASSUME NEW anomalies \in Seq(Signal), anomalies # <<>>
  PROVE  Propose(anomalies) \in Plans(Gpus)
<1> DEFINE lead  == Dominant(anomalies)
           play  == IF lead.kind \in DOMAIN Playbook THEN Playbook[lead.kind] ELSE InspectNode
           plays == {Playbook[k] : k \in DOMAIN Playbook} \cup {InspectNode}
<1>1. lead.at \in Gpus
  <2>1. lead \in Range(anomalies)
    BY DominantIs
  <2>2. \A s \in Range(anomalies) : s \in Signal
    BY DEF Range
  <2> QED BY <2>1, <2>2 DEF Signal
<1>2. play \in plays
  BY Zenon
<1>3. play.action \in {p.action : p \in plays} /\ play.steps \in {p.steps : p \in plays}
  <2> HIDE DEF play, plays
  <2> QED BY <1>2, Zenon
<1>4. Propose(anomalies) = [action |-> play.action, requiresApproval |-> play.risk # "low",
                            target |-> lead.at, steps |-> play.steps]
  BY Zenon DEF Propose
<1>5. Plans(Gpus) = [action : {p.action : p \in plays}, requiresApproval : BOOLEAN,
                     target : Gpus, steps : {p.steps : p \in plays}]
  BY Zenon DEF Plans
<1> HIDE DEF play, plays, lead
<1> QED BY <1>1, <1>3, <1>4, <1>5

-----------------------------------------------------------------------------
(* One event, and the types *)

(* What the consumer does with an event. *)
Consumes(event, pace, errors, found) ==
  /\ todo # <<>> /\ event = Head(todo) /\ todo' = Tail(todo)
  /\ pace \in Nat /\ pace \in Band(event.felt)
  /\ paces' = [paces EXCEPT ![event.at] = pace]
  /\ errors \in 0 .. 3 /\ (errors # 0 => event.felt = "ecc")
  /\ windows' = [windows EXCEPT ![event.at] = Slide(@, errors)]
  /\ samples' = [samples EXCEPT ![event.at] = IF @ < MinSamples THEN @ + 1 ELSE @]
  /\ last' = [event |-> event, found |-> found]
  /\ found \in Seq(Kinds)
  /\ "ecc" \in Range(found) <=> EccAlarm(windows'[event.at])
  /\ "xid" \in Range(found) <=> event.felt = "xid"
  /\ "oom" \in Range(found) <=> event.felt = "oom"
  /\ "straggler" \in Range(found) <=> IsStraggler(event.at, paces')
  /\ incident' \in Seq(Signal)
  /\ \A s \in Range(incident') :
       s \in Range(incident) \/ (s.kind \in Range(found) /\ s.at = event.at)
  /\ UNCHANGED <<fault, injected, cordoned, regime, plan>>

(* Consuming an event is the step described by Consumes, for the head of the queue. *)
LEMMA ConsumeIs ==
  ASSUME TypeOK, Consume
  PROVE  /\ todo # <<>> /\ Head(todo) \in Reports
         /\ \E event \in Reports, pace \in Nat, errors \in 0 .. 3, found \in Seq(Kinds) :
              Consumes(event, pace, errors, found)
<1> DEFINE event == Head(todo)
           g     == event.at
<1>1. todo # <<>> /\ event \in Reports
  BY DEF Consume, TypeOK
<1>2. g \in Gpus
  BY <1>1 DEF Reports
<1>3. PICK noise \in Noise[g], slowdown \in Slowdown(event.felt),
           errors \in IF event.felt = "ecc" THEN EccErrors ELSE {0},
           baseline \in SUBSET Kinds :
        Process(event, noise, slowdown, errors, baseline)
  BY DEF Consume
<1>4. noise \in 96 .. 104
  BY <1>2, RatesAssumption
<1>5. noise * slowdown \in Nat /\ noise * slowdown \in Band(event.felt)
  <2> HIDE DEF event
  <2>1. noise * slowdown \in Band(event.felt)
    BY <1>4, PaceInBand
  <2> QED BY <2>1, BandBounds
<1>6. errors \in 0 .. 3 /\ (errors # 0 => event.felt = "ecc")
  BY RatesAssumption
<1> DEFINE report == [at |-> g, xid |-> event.felt = "xid", hot |-> event.felt = "thermal",
                      full |-> event.felt = "oom"]
           found  == Found(report, baseline, windows', paces')
<1>7. report.at = g /\ (report.xid <=> event.felt = "xid") /\ (report.full <=> event.felt = "oom")
  BY Zenon
<1>8. /\ found \in Seq(Kinds)
      /\ "ecc" \in Range(found) <=> EccAlarm(windows'[g])
      /\ "xid" \in Range(found) <=> event.felt = "xid"
      /\ "oom" \in Range(found) <=> event.felt = "oom"
      /\ "straggler" \in Range(found) <=> IsStraggler(g, paces')
  <2> HIDE DEF report, event
  <2>1. /\ found \in Seq(Kinds)
        /\ "ecc" \in Range(found) <=> EccAlarm(windows'[report.at])
        /\ "xid" \in Range(found) <=> report.xid
        /\ "oom" \in Range(found) <=> report.full
        /\ "straggler" \in Range(found) <=> IsStraggler(report.at, paces')
    BY FoundByRules
  <2> HIDE DEF found
  <2> QED BY <1>7, <2>1, Zenon
<1>9. /\ todo' = Tail(todo)
      /\ paces' = [paces EXCEPT ![g] = noise * slowdown]
      /\ windows' = [windows EXCEPT ![g] = Slide(@, errors)]
      /\ samples' = [samples EXCEPT ![g] = IF @ < MinSamples THEN @ + 1 ELSE @]
      /\ last' = [event |-> event, found |-> found]
      /\ UNCHANGED <<fault, injected, cordoned, regime, plan>>
      /\ Enriches(incident, last'.found, g, incident')
  BY <1>3, Zenon DEF Process, Enriches
<1>10. incident \in Seq(Signal)
  BY DEF TypeOK, Signals, Signal
<1>11. /\ incident' \in Seq(Signal)
       /\ \A s \in Range(incident') :
            s \in Range(incident) \/ (s.kind \in Range(found) /\ s.at = g)
  <2> HIDE DEF found, event
  <2>1. last'.found = found
    BY <1>9
  <2> QED BY <1>2, <1>8, <1>9, <1>10, <2>1, Enriched
<1> DEFINE pace == noise * slowdown
<1>12. Consumes(event, pace, errors, found)
  <2> HIDE DEF pace, event, found, report
  <2>1. event = Head(todo)
    BY DEF event
  <2>2. pace = noise * slowdown
    BY DEF pace
  <2>3. pace \in Nat /\ pace \in Band(event.felt) /\ paces' = [paces EXCEPT ![event.at] = pace]
    BY <1>5, <1>9, <2>2
  <2> QED BY <1>1, <1>6, <1>8, <1>9, <1>11, <2>1, <2>3 DEF Consumes
<1> HIDE DEF event, pace, found
<1>13. pace \in Nat /\ found \in Seq(Kinds) /\ errors \in 0 .. 3 /\ event \in Reports
  BY <1>1, <1>5, <1>6, <1>8 DEF pace
<1>14. Head(todo) \in Reports
  BY <1>1 DEF event
<1> QED BY <1>1, <1>12, <1>13, <1>14

(* The initial state is typed, and each step keeps the types. *)
LEMMA TypeInit == ASSUME Init PROVE TypeOK
<1>1. paces \in [Gpus -> Nat] /\ windows \in [Gpus -> Seq(1 .. 3)] /\ samples \in [Gpus -> 0 .. MinSamples]
  BY SamplesAssumption DEF Init
<1>2. \A g \in Gpus : Len(windows[g]) <= WindowLength
  BY WindowAssumption DEF Init
<1>3. last \in [event : Reports \cup {None}, found : Seq(Kinds)]
  BY DEF Init
<1> QED BY <1>1, <1>2, <1>3 DEF Init, TypeOK, Signals

LEMMA SlideTyped ==
  ASSUME NEW window \in Seq(1 .. 3), Len(window) <= WindowLength, NEW errors \in 0 .. 3
  PROVE  Slide(window, errors) \in Seq(1 .. 3) /\ Len(Slide(window, errors)) <= WindowLength
<1>1. CASE errors = 0
  BY <1>1 DEF Slide
<1>2. CASE errors # 0 /\ Len(window) = WindowLength
  <2>1. window # <<>>
    BY <1>2, WindowAssumption
  <2>2. Tail(window) \in Seq(1 .. 3) /\ Len(Tail(window)) = Len(window) - 1
    BY <2>1
  <2>3. Slide(window, errors) = Append(Tail(window), errors)
    BY <1>2 DEF Slide
  <2> QED BY <1>2, <2>2, <2>3, WindowAssumption
<1>3. CASE errors # 0 /\ Len(window) # WindowLength
  <2>1. Slide(window, errors) = Append(window, errors)
    BY <1>3 DEF Slide
  <2> QED BY <1>3, <2>1, WindowAssumption
<1> QED BY <1>1, <1>2, <1>3

LEMMA InjectTyped ==
  ASSUME TypeOK, NEW kind \in Scenarios, NEW g \in Targets, NEW steps \in Durations, Inject(kind, g, steps)
  PROVE  TypeOK'
<1>1. fault' \in [kind : Scenarios, at : Targets, left : Nat \ {0}]
  BY RatesAssumption DEF Inject
<1>2. injected' \in Seq([kind : Scenarios, at : Targets])
  <2>1. [kind |-> kind, at |-> g] \in [kind : Scenarios, at : Targets]
    OBVIOUS
  <2> QED BY <2>1 DEF Inject, TypeOK
<1> QED BY <1>1, <1>2 DEF Inject, TypeOK, Signals, Plans

(* What the GPUs feel now. *)
Feels == [g \in Gpus |-> Felt(g)]

Regimes == [Gpus -> Scenarios \cup {"none"}]

LEMMA FeelsTyped == ASSUME TypeOK PROVE Feels \in Regimes /\ \A g \in Gpus : Feels[g] = Felt(g)
<1>1. \A g \in Gpus : Felt(g) \in Scenarios \cup {"none"}
  BY DEF Felt, TypeOK
<1> QED BY <1>1 DEF Feels, Regimes

(* The events of a tick. *)
Events == [r \in DOMAIN Fleet |->
             [at |-> Fleet[r], felt |-> Feels[Fleet[r]], steady |-> regime = Feels]]

LEMMA EventsTyped ==
  ASSUME TypeOK
  PROVE  Events \in Seq(Reports) /\ Len(Events) = Len(Fleet) /\ Len(Fleet) \in Nat
<1>1. DOMAIN Fleet = 1 .. Len(Fleet) /\ Len(Fleet) \in Nat
  BY FleetAssumption
<1>2. \A r \in 1 .. Len(Fleet) : Fleet[r] \in Gpus
  BY <1>1, FleetAssumption
<1>3. \A r \in 1 .. Len(Fleet) :
        [at |-> Fleet[r], felt |-> Feels[Fleet[r]], steady |-> regime = Feels] \in Reports
  BY <1>2, FeelsTyped DEF Reports, Regimes
<1>4. Events \in [1 .. Len(Fleet) -> Reports]
  BY <1>1, <1>3 DEF Events
<1> QED BY <1>1, <1>4, IsSequence

LEMMA TickTyped == ASSUME TypeOK, Tick PROVE TypeOK'
<1>1. todo' = todo \o Events /\ regime' = Feels
  BY DEF Tick, Events, Feels
<1>2. todo' \in Seq(Reports)
  BY <1>1, EventsTyped DEF TypeOK
<1>3. regime' \in Regimes
  BY <1>1, FeelsTyped
<1>4. fault' \in [kind : Scenarios, at : Targets, left : Nat \ {0}] \cup {None}
  <2>1. fault' = IF fault # None /\ fault.left > 1 THEN [fault EXCEPT !.left = @ - 1] ELSE None
    BY DEF Tick
  <2>2. CASE fault # None /\ fault.left > 1
    <3>1. fault \in [kind : Scenarios, at : Targets, left : Nat \ {0}]
      BY <2>2 DEF TypeOK
    <3> QED BY <2>1, <2>2, <3>1
  <2> QED BY <2>1, <2>2
<1>5. UNCHANGED <<injected, cordoned, paces, windows, samples, last, incident, plan>>
  BY DEF Tick
<1>6. /\ injected' \in Seq([kind : Scenarios, at : Targets]) /\ cordoned' \in SUBSET Gpus
      /\ paces' \in [Gpus -> Nat] /\ windows' \in [Gpus -> Seq(1 .. 3)]
      /\ \A g \in Gpus : Len(windows'[g]) <= WindowLength
      /\ samples' \in [Gpus -> 0 .. MinSamples]
      /\ last' \in [event : Reports \cup {None}, found : Seq(Kinds)]
      /\ incident' \in Signals /\ plan' \in Plans(Gpus) \cup {None}
  BY <1>5 DEF TypeOK
<1> QED BY <1>2, <1>3, <1>4, <1>6 DEF TypeOK, Regimes

LEMMA ConsumeTyped == ASSUME TypeOK, Consume PROVE TypeOK'
<1>1. PICK event \in Reports, pace \in Nat, errors \in 0 .. 3, found \in Seq(Kinds) :
        Consumes(event, pace, errors, found)
  BY ConsumeIs
<1>2. event.at \in Gpus
  BY DEF Reports
<1>3. todo' \in Seq(Reports)
  BY <1>1 DEF Consumes, TypeOK
<1>4. paces' \in [Gpus -> Nat]
  BY <1>1, <1>2 DEF Consumes, TypeOK
<1>5. /\ windows' \in [Gpus -> Seq(1 .. 3)]
      /\ \A g \in Gpus : Len(windows'[g]) <= WindowLength
  <2>1. /\ windows \in [Gpus -> Seq(1 .. 3)] /\ \A g \in Gpus : Len(windows[g]) <= WindowLength
        /\ windows' = [windows EXCEPT ![event.at] = Slide(@, errors)]
    BY <1>1 DEF Consumes, TypeOK
  <2>2. \A g \in Gpus : windows'[g] = IF g = event.at THEN Slide(windows[g], errors) ELSE windows[g]
    BY <1>2, <2>1
  <2>3. \A g \in Gpus : windows'[g] \in Seq(1 .. 3) /\ Len(windows'[g]) <= WindowLength
    BY <2>1, <2>2, SlideTyped
  <2>4. DOMAIN windows' = Gpus /\ windows' = [g \in Gpus |-> windows'[g]]
    BY <2>1
  <2> QED BY <2>3, <2>4
<1>6. samples' \in [Gpus -> 0 .. MinSamples]
  <2>1. /\ samples \in [Gpus -> 0 .. MinSamples]
        /\ samples' = [samples EXCEPT ![event.at] = IF @ < MinSamples THEN @ + 1 ELSE @]
    BY <1>1 DEF Consumes, TypeOK
  <2>2. (IF samples[event.at] < MinSamples THEN samples[event.at] + 1 ELSE samples[event.at])
          \in 0 .. MinSamples
    BY <1>2, <2>1, SamplesAssumption
  <2> QED BY <1>2, <2>1, <2>2
<1>7. last' \in [event : Reports \cup {None}, found : Seq(Kinds)]
  BY <1>1 DEF Consumes
<1>8. incident' \in Signals
  BY <1>1 DEF Consumes, Signals, Signal
<1>9. UNCHANGED <<fault, injected, cordoned, regime, plan>>
  BY <1>1 DEF Consumes
<1>10. /\ fault' \in [kind : Scenarios, at : Targets, left : Nat \ {0}] \cup {None}
       /\ injected' \in Seq([kind : Scenarios, at : Targets]) /\ cordoned' \in SUBSET Gpus
       /\ regime' \in [Gpus -> Scenarios \cup {"none"}] \cup {None}
       /\ plan' \in Plans(Gpus) \cup {None}
  BY <1>9 DEF TypeOK
<1> QED BY <1>3, <1>4, <1>5, <1>6, <1>7, <1>8, <1>10 DEF TypeOK

LEMMA DiagnoseTyped == ASSUME TypeOK, Diagnose PROVE TypeOK'
<1>1. Propose(incident) \in Plans(Gpus)
  BY ProposeTyped DEF Diagnose, TypeOK, Signals, Signal
<1> HIDE DEF Plans
<1> QED BY <1>1 DEF Diagnose, TypeOK

LEMMA ActuateTyped == ASSUME TypeOK, Actuate PROVE TypeOK'
<1>1. plan.target \in Gpus
  BY DEF Actuate, TypeOK, Plans
<1> QED BY <1>1 DEF Actuate, TypeOK, Signals

LEMMA CloseTyped == ASSUME TypeOK, Close PROVE TypeOK'
  BY DEF Close, TypeOK, Signals

LEMMA TypeStep == ASSUME TypeOK, [Next]_vars PROVE TypeOK'
<1>1. CASE UNCHANGED vars
  BY <1>1 DEF vars, TypeOK
<1>2. CASE Next
  BY <1>2, InjectTyped, TickTyped, ConsumeTyped, DiagnoseTyped, ActuateTyped, CloseTyped DEF Next
<1> QED BY <1>1, <1>2

(* The variables of the simulated job keep their types, for every fleet. *)
THEOREM ClusterTyped == Spec => []TypeOK
<1>1. Init => TypeOK
  BY TypeInit
<1>2. TypeOK /\ [Next]_vars => TypeOK'
  BY TypeStep
<1> QED BY <1>1, <1>2, PTL DEF Spec

-----------------------------------------------------------------------------
(* The timeline of the ticks *)

(* Every tick published as many events as there are GPUs.  When t ticks are
   processed and j events of the next one, the event of GPU m of tick u is at
   position Place(u, m, t, j) of todo, which has Left(T, t, j) events when T
   ticks were published. *)
Place(u, m, t, j) == Len(Fleet) * (u - t - 1) + m - j
Left(T, t, j) == Len(Fleet) * (T - t) - j

(* The GPUs of the fleet are numbered. *)
LEMMA FleetSize ==
  /\ Len(Fleet) \in Nat /\ Len(Fleet) >= 1 /\ DOMAIN Fleet = 1 .. Len(Fleet)
  /\ \A m \in 1 .. Len(Fleet) : Fleet[m] \in Gpus
  /\ \A g \in Gpus : \E m \in 1 .. Len(Fleet) : Fleet[m] = g
  /\ \A l, m \in 1 .. Len(Fleet) : Fleet[l] = Fleet[m] => l = m
<1>1. Len(Fleet) \in Nat /\ Len(Fleet) >= 1 /\ DOMAIN Fleet = 1 .. Len(Fleet)
      /\ \A m \in 1 .. Len(Fleet) : Fleet[m] \in Gpus
  BY FleetAssumption
<1>2. \A g \in Gpus : \E m \in 1 .. Len(Fleet) : Fleet[m] = g
  BY <1>1 DEF Gpus, Range
<1> QED BY <1>1, <1>2, FleetAssumption

(* Multiplication by a natural number keeps the order. *)
LEMMA Multiples ==
  ASSUME NEW n \in Nat, NEW a \in Int, NEW b \in Int, a <= b PROVE n * a <= n * b /\ n * a \in Int /\ n * b \in Int
<1>1. \A x, y \in Nat : x * y \in Nat
  OBVIOUS
<1>2. n * (b - a) \in Nat
  BY <1>1
<1>3. n * (b - a) = n * b - n * a
  OBVIOUS
<1>4. n * a \in Int /\ n * b \in Int
  OBVIOUS
<1> DEFINE x == n * a
           y == n * b
           z == n * (b - a)
<1> HIDE DEF x, y, z
<1>5. z \in Nat /\ z = y - x /\ x \in Int /\ y \in Int
  BY <1>2, <1>3, <1>4 DEF x, y, z
<1>6. x <= y
  BY <1>5
<1> QED BY <1>4, <1>6 DEF x, y

(* An event that is not processed has its place in the queue. *)
LEMMA PlaceInTodo ==
  ASSUME NEW T \in Nat, NEW t \in Nat, NEW u \in t + 1 .. T, NEW m \in 1 .. Len(Fleet), NEW j \in Nat,
         j < Len(Fleet), u = t + 1 => m > j
  PROVE  Place(u, m, t, j) \in 1 .. Left(T, t, j)
<1> DEFINE n == Len(Fleet)
           x == n * (u - t - 1)
           y == n * (T - t)
<1>1. n \in Nat /\ n >= 1
  BY FleetSize
<1>2. x \in Int /\ y \in Int
  BY <1>1
<1>3. x + n <= y
  <2>1. n * (u - t) <= n * (T - t)
    BY <1>1, Multiples
  <2>2. n * (u - t) = x + n
    BY <1>1
  <2> QED BY <2>1, <2>2
<1>4. x >= 0 /\ (u > t + 1 => x >= n)
  <2>1. n * 0 <= n * (u - t - 1) /\ (u > t + 1 => n * 1 <= n * (u - t - 1))
    BY <1>1, Multiples
  <2> QED BY <1>1, <2>1
<1>5. Place(u, m, t, j) = x + m - j /\ Left(T, t, j) = y - j
  BY DEF Place, Left
<1> HIDE DEF x, y
<1> QED BY <1>1, <1>2, <1>3, <1>4, <1>5

(* How the length of the queue follows ticks and events. *)
LEMMA LeftMoves ==
  ASSUME NEW T \in Nat, NEW t \in Nat, NEW j \in Nat
  PROVE  /\ Left(T, t, j + 1) = Left(T, t, j) - 1
         /\ j + 1 = Len(Fleet) => Left(T, t + 1, 0) = Left(T, t, j) - 1
         /\ Left(T + 1, t, j) = Left(T, t, j) + Len(Fleet)
         /\ Left(t, t, 0) = 0
         /\ Left(T, t, j) \in Int
<1> DEFINE n == Len(Fleet)
           y == n * (T - t)
<1>1. n \in Nat
  BY FleetSize
<1>2. /\ y \in Int /\ n * (T - (t + 1)) = y - n /\ n * (T + 1 - t) = y + n /\ n * (t - t) = 0
  <2> HIDE DEF n
  <2> QED BY <1>1
<1>3. /\ Left(T, t, j) = y - j /\ Left(T, t, j + 1) = y - (j + 1) /\ Left(T, t + 1, 0) = y - n - 0
      /\ Left(T + 1, t, j) = y + n - j /\ Left(t, t, 0) = 0 - 0
  BY <1>2 DEF Left
<1>4. y \in Int /\ n \in Nat
  BY <1>1, <1>2
<1> HIDE DEF y, n
<1>5. /\ Left(T, t, j + 1) = Left(T, t, j) - 1 /\ Left(T + 1, t, j) = Left(T, t, j) + n
      /\ Left(t, t, 0) = 0 /\ Left(T, t, j) \in Int
  BY <1>3, <1>4
<1>6. j + 1 = n => Left(T, t + 1, 0) = Left(T, t, j) - 1
  BY <1>3, <1>4
<1> QED BY <1>5, <1>6 DEF n

(* How the places move when an event is processed; the next one is at the head. *)
LEMMA PlaceMoves ==
  ASSUME NEW u \in Nat, NEW m \in Nat, NEW t \in Nat, NEW j \in Nat
  PROVE  /\ Place(u, m, t, j + 1) = Place(u, m, t, j) - 1
         /\ j + 1 = Len(Fleet) => Place(u, m, t + 1, 0) = Place(u, m, t, j) - 1
         /\ Place(t + 1, j + 1, t, j) = 1
         /\ Place(u, m, t, j) \in Int
<1> DEFINE n == Len(Fleet)
           x == n * (u - t - 1)
<1>1. n \in Nat
  BY FleetSize
<1>2. x \in Int /\ n * (u - (t + 1) - 1) = x - n /\ n * (t + 1 - t - 1) = 0
  <2> HIDE DEF n
  <2> QED BY <1>1
<1>3. /\ Place(u, m, t, j) = x + m - j /\ Place(u, m, t, j + 1) = x + m - (j + 1)
      /\ Place(u, m, t + 1, 0) = x - n + m - 0 /\ Place(t + 1, j + 1, t, j) = 0 + (j + 1) - j
  BY <1>2 DEF Place
<1>4. x \in Int /\ n \in Nat
  BY <1>1, <1>2
<1> HIDE DEF x, n
<1>5. /\ Place(u, m, t, j + 1) = Place(u, m, t, j) - 1 /\ Place(t + 1, j + 1, t, j) = 1
      /\ Place(u, m, t, j) \in Int
  BY <1>3, <1>4
<1>6. j + 1 = n => Place(u, m, t + 1, 0) = Place(u, m, t, j) - 1
  BY <1>3, <1>4
<1> QED BY <1>5, <1>6 DEF n

(* The events of a new tick are behind the others. *)
LEMMA PlaceEnds ==
  ASSUME NEW T \in Nat, NEW t \in Nat, NEW m \in Nat, NEW j \in Nat
  PROVE  Place(T + 1, m, t, j) = Left(T, t, j) + m
<1> DEFINE n == Len(Fleet)
           y == n * (T - t)
<1>1. n \in Nat
  BY FleetSize
<1>2. y \in Int /\ n * (T + 1 - t - 1) = y
  <2> HIDE DEF n
  <2> QED BY <1>1
<1>3. Place(T + 1, m, t, j) = y + m - j /\ Left(T, t, j) = y - j
  BY <1>2 DEF Place, Left
<1> HIDE DEF y
<1> QED BY <1>2, <1>3

(* The event of GPU m in tick u. *)
EventOf(ticks, u, m) ==
  [at |-> Fleet[m], felt |-> ticks[u][Fleet[m]], steady |-> u > 1 /\ ticks[u - 1] = ticks[u]]

(* The tick of the last event processed of GPU m, 0 for none. *)
LastTick(m, t, j) == IF m <= j THEN t + 1 ELSE t

(* Faults that were injected account for what is felt; some are felt by their
   own GPU only. *)
Explained(feels) ==
  \A g \in Gpus : feels[g] # "none" =>
    \E f \in Range(injected) :
      f.kind = feels[g] /\ (f.kind \notin {"thermal", "nccl", "throughput"} => f.at = g)

Timeline(ticks, t, j) ==
  /\ t <= Len(ticks) /\ j < Len(Fleet) /\ (t = Len(ticks) => j = 0)
  /\ Len(todo) = Left(Len(ticks), t, j)
  /\ \A u \in t + 1 .. Len(ticks), m \in 1 .. Len(Fleet) :
       (u = t + 1 => m > j) => todo[Place(u, m, t, j)] = EventOf(ticks, u, m)
  /\ regime = IF ticks = <<>> THEN None ELSE ticks[Len(ticks)]
  /\ \A m \in 1 .. Len(Fleet) :
       IF LastTick(m, t, j) = 0 THEN paces[Fleet[m]] = 0
       ELSE paces[Fleet[m]] \in Band(ticks[LastTick(m, t, j)][Fleet[m]])
  /\ \A u \in 1 .. Len(ticks) : Coherent(ticks[u], cordoned) /\ Explained(ticks[u])

TimeInv ==
  /\ TypeOK
  /\ fault # None => \E f \in Range(injected) : f.kind = fault.kind /\ f.at = fault.at
  /\ \E ticks \in Seq(Regimes), t, j \in Nat : Timeline(ticks, t, j)

(* Before the first tick the timeline is empty. *)
LEMMA TimeInit == ASSUME Init PROVE TimeInv
<1>1. TypeOK /\ fault = None
  BY TypeInit DEF Init
<1> DEFINE ticks == <<>>
<1>2. ticks \in Seq(Regimes) /\ Len(ticks) = 0 /\ ticks = <<>>
  OBVIOUS
<1>3. Len(todo) = 0 /\ Left(0, 0, 0) = 0
  BY LeftMoves DEF Init
<1>4. \A m \in 1 .. Len(Fleet) : paces[Fleet[m]] = 0 /\ LastTick(m, 0, 0) = 0
  BY FleetSize DEF Init, LastTick
<1>5. regime = None
  BY DEF Init
<1> HIDE DEF ticks
<1>6. Timeline(ticks, 0, 0)
  <2>1. 0 <= Len(ticks) /\ 0 < Len(Fleet) /\ Len(todo) = Left(Len(ticks), 0, 0)
    BY <1>2, <1>3, FleetSize
  <2>2. 0 + 1 .. Len(ticks) = {} /\ 1 .. Len(ticks) = {}
    BY <1>2
  <2> QED BY <1>2, <1>4, <1>5, <2>1, <2>2 DEF Timeline
<1> QED BY <1>1, <1>2, <1>6 DEF TimeInv

(* What is felt now is the doing of one fault. *)
LEMMA FeelsNow ==
  ASSUME TimeInv PROVE Coherent(Feels, cordoned) /\ Explained(Feels) /\ Feels \in Regimes
<1>1. TypeOK
  BY DEF TimeInv
<1>2. Feels \in Regimes /\ \A g \in Gpus : Feels[g] = Felt(g)
  BY <1>1, FeelsTyped
<1>3. Coherent(Feels, cordoned)
  BY <1>2 DEF Coherent, Felt
<1>4. ASSUME NEW g \in Gpus, Feels[g] # "none"
      PROVE  \E f \in Range(injected) :
               f.kind = Feels[g] /\ (f.kind \notin {"thermal", "nccl", "throughput"} => f.at = g)
  <2>1. /\ fault # None /\ Felt(g) = fault.kind
        /\ fault.kind \notin {"thermal", "nccl", "throughput"} => fault.at = g
    BY <1>2, <1>4 DEF Felt
  <2>2. PICK f \in Range(injected) : f.kind = fault.kind /\ f.at = fault.at
    BY <2>1 DEF TimeInv
  <2> QED BY <1>2, <2>1, <2>2
<1> QED BY <1>2, <1>3, <1>4 DEF Explained

(* Steps that publish and process nothing. *)
LEMMA TimeStays ==
  ASSUME TimeInv, TypeOK', UNCHANGED <<todo, regime, paces>>,
         cordoned \subseteq cordoned', Range(injected) \subseteq Range(injected'),
         fault' # None => \E f \in Range(injected') : f.kind = fault'.kind /\ f.at = fault'.at
  PROVE  TimeInv'
<1>1. PICK ticks \in Seq(Regimes), t \in Nat, j \in Nat : Timeline(ticks, t, j)
  BY DEF TimeInv
<1>2. \A u \in 1 .. Len(ticks) : Coherent(ticks[u], cordoned)' /\ Explained(ticks[u])'
  BY <1>1 DEF Timeline, Coherent, Explained
<1>3. Timeline(ticks, t, j)'
  BY <1>1, <1>2 DEF Timeline
<1> QED BY <1>3 DEF TimeInv

(* A fault that is injected may be felt from then on. *)
LEMMA InjectTime ==
  ASSUME TimeInv, TypeOK', NEW kind \in Scenarios, NEW g \in Targets, NEW steps \in Durations,
         Inject(kind, g, steps)
  PROVE  TimeInv'
<1> DEFINE f == [kind |-> kind, at |-> g]
<1>1. injected \in Seq([kind : Scenarios, at : Targets]) /\ injected' = Append(injected, f)
  BY DEF Inject, TimeInv, TypeOK
<1>2. Range(injected) \subseteq Range(injected') /\ f \in Range(injected')
  <2> HIDE DEF f
  <2>1. /\ DOMAIN injected = 1 .. Len(injected) /\ DOMAIN injected' = 1 .. Len(injected) + 1
        /\ Len(injected) \in Nat /\ injected'[Len(injected) + 1] = f
        /\ \A k \in 1 .. Len(injected) : injected'[k] = injected[k]
    BY <1>1
  <2> QED BY <2>1 DEF Range
<1>3. fault' = [kind |-> kind, at |-> g, left |-> steps]
  BY DEF Inject
<1>4. fault'.kind = f.kind /\ fault'.at = f.at
  BY <1>3
<1>5. UNCHANGED <<todo, regime, paces, cordoned>>
  BY DEF Inject
<1> HIDE DEF f
<1> QED BY <1>2, <1>4, <1>5, TimeStays

(* The members of two lists one after the other. *)
LEMMA Joined ==
  ASSUME NEW S, NEW a \in Seq(S), NEW b \in Seq(S)
  PROVE  /\ Len(a \o b) = Len(a) + Len(b)
         /\ \A k \in 1 .. Len(a) : (a \o b)[k] = a[k]
         /\ \A k \in 1 .. Len(b) : (a \o b)[Len(a) + k] = b[k]
OBVIOUS

(* A tick is put behind the others. *)
LEMMA TickTime == ASSUME TimeInv, TypeOK', Tick PROVE TimeInv'
<1>1. PICK old \in Seq(Regimes), t \in Nat, j \in Nat : Timeline(old, t, j)
  BY DEF TimeInv
<1> DEFINE T     == Len(old)
<1>3. PICK feels \in Regimes : /\ feels = Feels
                                /\ Coherent(feels, cordoned) /\ Explained(feels)
  BY FeelsNow
<1> DEFINE ticks == Append(old, feels)
<1>2. /\ todo' = todo \o Events /\ regime' = feels
      /\ UNCHANGED <<injected, cordoned, paces>>
  BY <1>3 DEF Tick, Events, Feels
<1>4. /\ ticks \in Seq(Regimes) /\ Len(ticks) = T + 1 /\ ticks[T + 1] = feels /\ T \in Nat
      /\ \A u \in 1 .. T : ticks[u] = old[u]
      /\ ticks # <<>>
  OBVIOUS
<1>5. TypeOK /\ todo \in Seq(Reports) /\ Events \in Seq(Reports) /\ Len(Events) = Len(Fleet)
  BY EventsTyped DEF TimeInv, TypeOK
<1>6. Len(Fleet) \in Nat
  BY FleetSize
<1> HIDE DEF ticks
<1>7. t <= T + 1 /\ j < Len(Fleet) /\ t # T + 1
  BY <1>1, <1>4 DEF Timeline
<1>8. Len(todo') = Left(T + 1, t, j)
  <2>1. Len(todo') = Len(todo) + Len(Fleet)
    BY <1>2, <1>5, Joined
  <2>2. Len(todo) = Left(T, t, j)
    BY <1>1 DEF Timeline
  <2>3. Left(T + 1, t, j) = Left(T, t, j) + Len(Fleet)
    BY <1>4, LeftMoves
  <2> QED BY <2>1, <2>2, <2>3
<1>9. \A u \in 1 .. T, m \in 1 .. Len(Fleet) : EventOf(ticks, u, m) = EventOf(old, u, m)
  <2> SUFFICES ASSUME NEW u \in 1 .. T, NEW m \in 1 .. Len(Fleet)
               PROVE  EventOf(ticks, u, m) = EventOf(old, u, m)
    OBVIOUS
  <2>1. ticks[u] = old[u] /\ (u > 1 => ticks[u - 1] = old[u - 1])
    <3>1. u \in Nat /\ (u > 1 => u - 1 \in 1 .. T)
      BY <1>4
    <3> QED BY <1>4, <3>1
  <2>2. (u > 1 /\ ticks[u - 1] = ticks[u]) = (u > 1 /\ old[u - 1] = old[u])
    BY <2>1
  <2> QED BY <2>1, <2>2, Zenon DEF EventOf
<1>10. \A m \in 1 .. Len(Fleet) : Events[m] = EventOf(ticks, T + 1, m)
  <2> SUFFICES ASSUME NEW m \in 1 .. Len(Fleet) PROVE Events[m] = EventOf(ticks, T + 1, m)
    OBVIOUS
  <2>1. Events[m] = [at |-> Fleet[m], felt |-> feels[Fleet[m]], steady |-> regime = feels]
    BY <1>3, FleetSize DEF Events
  <2>2. (regime = feels) <=> (T + 1 > 1 /\ ticks[T + 1 - 1] = ticks[T + 1])
    <3>1. CASE T = 0
      <4>1. regime = None
        BY <1>1, <3>1 DEF Timeline
      <4>2. regime # feels
        BY <4>1, NoneAssumption DEF Regimes
      <4> QED BY <3>1, <4>2
    <3>2. CASE T > 0
      <4>1. regime = old[T] /\ T \in 1 .. T /\ T + 1 - 1 = T
        BY <1>1, <1>4, <3>2 DEF Timeline
      <4> QED BY <1>4, <3>2, <4>1
    <3> QED BY <1>4, <3>1, <3>2
  <2>3. EventOf(ticks, T + 1, m) =
          [at |-> Fleet[m], felt |-> ticks[T + 1][Fleet[m]],
           steady |-> (T + 1 > 1 /\ ticks[T + 1 - 1] = ticks[T + 1])]
    BY DEF EventOf
  <2> QED BY <1>4, <2>1, <2>2, <2>3
<1>11. \A u \in t + 1 .. T + 1, m \in 1 .. Len(Fleet) :
         (u = t + 1 => m > j) => todo'[Place(u, m, t, j)] = EventOf(ticks, u, m)
  <2> SUFFICES ASSUME NEW u \in t + 1 .. T + 1, NEW m \in 1 .. Len(Fleet), u = t + 1 => m > j
               PROVE  todo'[Place(u, m, t, j)] = EventOf(ticks, u, m)
    OBVIOUS
  <2>1. Len(todo) = Left(T, t, j) /\ Len(todo) \in Nat
    BY <1>1, <1>5 DEF Timeline
  <2>2. CASE u <= T
    <3>1. Place(u, m, t, j) \in 1 .. Left(T, t, j)
      BY <1>4, <1>7, <2>2, PlaceInTodo
    <3>2. todo'[Place(u, m, t, j)] = todo[Place(u, m, t, j)]
      BY <1>2, <1>5, <2>1, <3>1
    <3>3. todo[Place(u, m, t, j)] = EventOf(old, u, m)
      BY <1>1, <1>4, <2>2 DEF Timeline
    <3> QED BY <1>4, <1>9, <2>2, <3>2, <3>3
  <2>3. CASE u = T + 1
    <3>1. Place(T + 1, m, t, j) = Left(T, t, j) + m
      BY <1>4, PlaceEnds
    <3>2. m \in 1 .. Len(Events)
      BY <1>5
    <3>3. todo'[Len(todo) + m] = Events[m]
      BY <1>2, <1>5, <3>2, Joined
    <3> QED BY <1>10, <2>1, <2>3, <3>1, <3>3
  <2> QED BY <1>4, <2>2, <2>3
<1>12. \A m \in 1 .. Len(Fleet) :
         IF LastTick(m, t, j) = 0 THEN paces'[Fleet[m]] = 0
         ELSE paces'[Fleet[m]] \in Band(ticks[LastTick(m, t, j)][Fleet[m]])
  <2> SUFFICES ASSUME NEW m \in 1 .. Len(Fleet), LastTick(m, t, j) # 0
               PROVE  paces[Fleet[m]] \in Band(ticks[LastTick(m, t, j)][Fleet[m]])
    BY <1>1, <1>2 DEF Timeline
  <2>1. LastTick(m, t, j) \in 1 .. T
    BY <1>1, <1>4 DEF LastTick, Timeline
  <2>2. paces[Fleet[m]] \in Band(old[LastTick(m, t, j)][Fleet[m]])
    BY <1>1 DEF Timeline
  <2> QED BY <1>4, <2>1, <2>2
<1>13. \A u \in 1 .. T + 1 : Coherent(ticks[u], cordoned)' /\ Explained(ticks[u])'
  <2> SUFFICES ASSUME NEW u \in 1 .. T + 1 PROVE Coherent(ticks[u], cordoned) /\ Explained(ticks[u])
    BY <1>2 DEF Coherent, Explained
  <2>1. CASE u \in 1 .. T
    BY <1>1, <1>4, <2>1 DEF Timeline
  <2>2. CASE u = T + 1
    BY <1>3, <1>4, <2>2
  <2> QED BY <1>4, <2>1, <2>2
<1>14. Timeline(ticks, t, j)'
  BY <1>2, <1>4, <1>7, <1>8, <1>11, <1>12, <1>13 DEF Timeline
<1>15. fault' # None => \E f \in Range(injected') : f.kind = fault'.kind /\ f.at = fault'.at
  <2> SUFFICES ASSUME fault' # None
               PROVE  \E f \in Range(injected) : f.kind = fault'.kind /\ f.at = fault'.at
    BY <1>2
  <2>1. fault # None /\ fault' = [fault EXCEPT !.left = @ - 1]
    BY DEF Tick
  <2>2. fault \in [kind : Scenarios, at : Targets, left : Nat \ {0}]
    BY <1>5, <2>1 DEF TypeOK
  <2>3. fault'.kind = fault.kind /\ fault'.at = fault.at
    BY <2>1, <2>2
  <2>4. PICK f \in Range(injected) : f.kind = fault.kind /\ f.at = fault.at
    BY <2>1 DEF TimeInv
  <2> QED BY <2>3, <2>4
<1> QED BY <1>4, <1>14, <1>15 DEF TimeInv

(* The event at the head is that of the GPU whose turn it is. *)
LEMMA HeadIs ==
  ASSUME TypeOK, NEW ticks \in Seq(Regimes), NEW t \in Nat, NEW j \in Nat, Timeline(ticks, t, j), todo # <<>>
  PROVE  /\ t < Len(ticks) /\ t + 1 \in 1 .. Len(ticks) /\ j + 1 \in 1 .. Len(Fleet)
         /\ Head(todo) = EventOf(ticks, t + 1, j + 1)
<1> DEFINE T == Len(ticks)
<1>1. T \in Nat /\ t <= T /\ j < Len(Fleet) /\ (t = T => j = 0) /\ Len(todo) = Left(T, t, j)
  BY DEF Timeline
<1>2. Len(todo) \in Nat /\ Len(todo) >= 1 /\ Head(todo) = todo[1]
  BY DEF TypeOK
<1>3. t # T
  <2>1. Left(t, t, 0) = 0
    BY LeftMoves
  <2> QED BY <1>1, <1>2, <2>1
<1>4. t < T /\ t + 1 \in t + 1 .. T /\ t + 1 \in 1 .. T /\ j + 1 \in 1 .. Len(Fleet)
  <2> HIDE DEF T
  <2> QED BY <1>1, <1>3, FleetSize
<1>5. Place(t + 1, j + 1, t, j) = 1
  BY PlaceMoves
<1>6. todo[Place(t + 1, j + 1, t, j)] = EventOf(ticks, t + 1, j + 1)
  BY <1>4 DEF Timeline
<1> QED BY <1>2, <1>4, <1>5, <1>6

(* Whose turn it is next. *)
TickAfter(t, j) == IF j + 1 < Len(Fleet) THEN t ELSE t + 1
TurnAfter(j) == IF j + 1 < Len(Fleet) THEN j + 1 ELSE 0

(* The turn moves by one event, into the next tick after the last GPU. *)
LEMMA TurnMoves ==
  ASSUME NEW ticks \in Seq(Regimes), NEW t \in Nat, NEW j \in Nat, t < Len(ticks), j + 1 \in 1 .. Len(Fleet),
         NEW t2, NEW j2, t2 = TickAfter(t, j), j2 = TurnAfter(j)
  PROVE  /\ t2 \in Nat /\ j2 \in Nat
         /\ t2 <= Len(ticks) /\ j2 < Len(Fleet) /\ (t2 = Len(ticks) => j2 = 0)
         /\ Left(Len(ticks), t2, j2) = Left(Len(ticks), t, j) - 1
         /\ \A u \in t2 + 1 .. Len(ticks), m \in 1 .. Len(Fleet) :
              (u = t2 + 1 => m > j2) =>
                /\ u \in t + 1 .. Len(ticks) /\ (u = t + 1 => m > j)
                /\ Place(u, m, t2, j2) = Place(u, m, t, j) - 1
         /\ \A m \in 1 .. Len(Fleet) :
              LastTick(m, t2, j2) = IF m = j + 1 THEN t + 1 ELSE LastTick(m, t, j)
<1> DEFINE T == Len(ticks)
<1>1. T \in Nat /\ Len(Fleet) \in Nat /\ Len(Fleet) >= 1
  BY FleetSize
<1> HIDE DEF T
<1>2. CASE j + 1 < Len(Fleet)
  <2>1. t2 = t /\ j2 = j + 1
    BY <1>2 DEF TickAfter, TurnAfter
  <2>2. Left(T, t, j + 1) = Left(T, t, j) - 1
    BY <1>1, LeftMoves
  <2>3. \A u, m \in Nat : Place(u, m, t, j + 1) = Place(u, m, t, j) - 1
    BY PlaceMoves
  <2>4. \A u \in t2 + 1 .. T, m \in 1 .. Len(Fleet) :
          /\ u \in Nat /\ m \in Nat
          /\ (u = t2 + 1 => m > j2) => u \in t + 1 .. T /\ (u = t + 1 => m > j)
    BY <1>1, <2>1
  <2>5. \A m \in 1 .. Len(Fleet) :
          LastTick(m, t2, j2) = IF m = j + 1 THEN t + 1 ELSE LastTick(m, t, j)
    BY <1>1, <2>1 DEF LastTick
  <2> QED BY <1>1, <1>2, <2>1, <2>2, <2>3, <2>4, <2>5 DEF T
<1>3. CASE j + 1 = Len(Fleet)
  <2>1. t2 = t + 1 /\ j2 = 0
    BY <1>3 DEF TickAfter, TurnAfter
  <2>2. Left(T, t + 1, 0) = Left(T, t, j) - 1
    BY <1>1, <1>3, LeftMoves
  <2>3. \A u, m \in Nat : Place(u, m, t + 1, 0) = Place(u, m, t, j) - 1
    BY <1>3, PlaceMoves
  <2>4. \A u \in t2 + 1 .. T, m \in 1 .. Len(Fleet) :
          u \in Nat /\ m \in Nat /\ u \in t + 1 .. T /\ (u = t + 1 => m > j)
    BY <1>1, <2>1
  <2>5. \A m \in 1 .. Len(Fleet) :
          LastTick(m, t2, j2) = IF m = j + 1 THEN t + 1 ELSE LastTick(m, t, j)
    BY <1>1, <1>3, <2>1 DEF LastTick
  <2> QED BY <1>1, <1>3, <2>1, <2>2, <2>3, <2>4, <2>5 DEF T
<1> QED BY <1>1, <1>2, <1>3

(* The timeline after an event is processed. *)
LEMMA ConsumeTimeline ==
  ASSUME TypeOK, TypeOK', NEW ticks \in Seq(Regimes), NEW t \in Nat, NEW j \in Nat, Timeline(ticks, t, j),
         NEW event, NEW pace, NEW errors, NEW found, Consumes(event, pace, errors, found),
         NEW t2, NEW j2, t2 = TickAfter(t, j), j2 = TurnAfter(j)
  PROVE  Timeline(ticks, t2, j2)' /\ t2 \in Nat /\ j2 \in Nat
<1> DEFINE T == Len(ticks)
<1>1. /\ t < T /\ j + 1 \in 1 .. Len(Fleet) /\ T \in Nat
      /\ event = EventOf(ticks, t + 1, j + 1)
  BY HeadIs DEF Consumes
<1>2. /\ t2 \in Nat /\ j2 \in Nat
      /\ t2 <= T /\ j2 < Len(Fleet) /\ (t2 = T => j2 = 0)
      /\ Left(T, t2, j2) = Left(T, t, j) - 1
  BY <1>1, TurnMoves
<1>3. \A u \in t2 + 1 .. T, m \in 1 .. Len(Fleet) :
        (u = t2 + 1 => m > j2) =>
          /\ u \in t + 1 .. T /\ (u = t + 1 => m > j)
          /\ Place(u, m, t2, j2) = Place(u, m, t, j) - 1
  BY <1>1, TurnMoves
<1>4. \A m \in 1 .. Len(Fleet) :
        LastTick(m, t2, j2) = IF m = j + 1 THEN t + 1 ELSE LastTick(m, t, j)
  BY <1>1, TurnMoves
<1>5. /\ todo \in Seq(Reports) /\ todo # <<>> /\ todo' = Tail(todo)
      /\ paces \in [Gpus -> Nat] /\ paces' = [paces EXCEPT ![event.at] = pace]
      /\ pace \in Band(event.felt)
      /\ UNCHANGED <<regime, injected, cordoned>>
  BY DEF Consumes, TypeOK
<1>6. Len(todo) = Left(T, t, j)
  BY DEF Timeline
<1> HIDE DEF T
<1>7. Len(todo') = Left(T, t2, j2) /\ \A k \in 1 .. Len(todo') : todo'[k] = todo[k + 1]
  BY <1>2, <1>5, <1>6
<1>8. \A u \in t2 + 1 .. T, m \in 1 .. Len(Fleet) :
        (u = t2 + 1 => m > j2) => todo'[Place(u, m, t2, j2)] = EventOf(ticks, u, m)
  <2> SUFFICES ASSUME NEW u \in t2 + 1 .. T, NEW m \in 1 .. Len(Fleet), u = t2 + 1 => m > j2
               PROVE  todo'[Place(u, m, t2, j2)] = EventOf(ticks, u, m)
    OBVIOUS
  <2>1. Place(u, m, t2, j2) \in 1 .. Len(todo')
    BY <1>1, <1>2, <1>7, PlaceInTodo
  <2>2. u \in t + 1 .. T /\ (u = t + 1 => m > j) /\ Place(u, m, t2, j2) = Place(u, m, t, j) - 1
    BY <1>3
  <2>3. Place(u, m, t, j) \in Int
    BY <1>1, <2>2, PlaceMoves
  <2>4. Place(u, m, t2, j2) + 1 = Place(u, m, t, j)
    BY <2>2, <2>3
  <2>5. todo[Place(u, m, t, j)] = EventOf(ticks, u, m)
    BY <2>2 DEF Timeline, T
  <2> QED BY <1>7, <2>1, <2>4, <2>5
<1>9. event.at = Fleet[j + 1] /\ event.felt = ticks[t + 1][Fleet[j + 1]]
  BY <1>1 DEF EventOf
<1>10. \A m \in 1 .. Len(Fleet) :
         IF LastTick(m, t2, j2) = 0 THEN paces'[Fleet[m]] = 0
         ELSE paces'[Fleet[m]] \in Band(ticks[LastTick(m, t2, j2)][Fleet[m]])
  <2> SUFFICES ASSUME NEW m \in 1 .. Len(Fleet)
               PROVE  IF LastTick(m, t2, j2) = 0 THEN paces'[Fleet[m]] = 0
                      ELSE paces'[Fleet[m]] \in Band(ticks[LastTick(m, t2, j2)][Fleet[m]])
    OBVIOUS
  <2>1. CASE m = j + 1
    <3>1. LastTick(m, t2, j2) = t + 1 /\ t + 1 # 0
      BY <1>4, <2>1
    <3>2. paces'[Fleet[m]] = pace
      BY <1>5, <1>9, <2>1, FleetSize
    <3> QED BY <1>5, <1>9, <2>1, <3>1, <3>2
  <2>2. CASE m # j + 1
    <3>1. LastTick(m, t2, j2) = LastTick(m, t, j)
      BY <1>4, <2>2
    <3>2. paces'[Fleet[m]] = paces[Fleet[m]]
      BY <1>1, <1>5, <1>9, <2>2, FleetSize
    <3>3. IF LastTick(m, t, j) = 0 THEN paces[Fleet[m]] = 0
          ELSE paces[Fleet[m]] \in Band(ticks[LastTick(m, t, j)][Fleet[m]])
      BY DEF Timeline
    <3> QED BY <3>1, <3>2, <3>3
  <2> QED BY <2>1, <2>2
<1>11. regime' = IF ticks = <<>> THEN None ELSE ticks[Len(ticks)]
  BY <1>5 DEF Timeline
<1>12. \A u \in 1 .. Len(ticks) : Coherent(ticks[u], cordoned)' /\ Explained(ticks[u])'
  BY <1>5 DEF Timeline, Coherent, Explained
<1> QED BY <1>2, <1>7, <1>8, <1>10, <1>11, <1>12 DEF Timeline, T

(* Processing an event keeps the timeline. *)
LEMMA ConsumeTime ==
  ASSUME TimeInv, TypeOK', NEW event, NEW pace, NEW errors, NEW found, Consumes(event, pace, errors, found)
  PROVE  TimeInv'
<1>1. PICK ticks \in Seq(Regimes), t \in Nat, j \in Nat : Timeline(ticks, t, j)
  BY DEF TimeInv
<1>2. PICK t2, j2 : t2 = TickAfter(t, j) /\ j2 = TurnAfter(j)
  OBVIOUS
<1>3. Timeline(ticks, t2, j2)' /\ t2 \in Nat /\ j2 \in Nat
  BY <1>1, <1>2, ConsumeTimeline DEF TimeInv
<1>4. UNCHANGED <<fault, injected>>
  BY DEF Consumes
<1> QED BY <1>1, <1>3, <1>4 DEF TimeInv

(* A steady event is one of a tick that feels as the tick before it. *)
LEMMA EventSteady ==
  ASSUME NEW ticks, NEW u, NEW m, NEW event, event = EventOf(ticks, u, m), event.steady
  PROVE  u > 1 /\ ticks[u - 1] = ticks[u]
<1>1. EventOf(ticks, u, m).steady = (u > 1 /\ ticks[u - 1] = ticks[u])
  BY DEF EventOf
<1>2. EventOf(ticks, u, m).steady
  OBVIOUS
<1> QED BY <1>1, <1>2

(* In a steady step every GPU has the pace of what all feel. *)
LEMMA SteadyPaces ==
  ASSUME TimeInv, TypeOK', NEW event, NEW pace, NEW errors, NEW found, Consumes(event, pace, errors, found),
         event.steady
  PROVE  \E feels \in Regimes :
           /\ Paced(paces', feels) /\ Coherent(feels, cordoned)
           /\ event.felt = feels[event.at]
<1>1. PICK ticks \in Seq(Regimes), t \in Nat, j \in Nat : Timeline(ticks, t, j)
  BY DEF TimeInv
<1>2. PICK t2, j2 : t2 = TickAfter(t, j) /\ j2 = TurnAfter(j)
  OBVIOUS
<1>3. Timeline(ticks, t2, j2)' /\ t2 \in Nat /\ j2 \in Nat
  BY <1>1, <1>2, ConsumeTimeline DEF TimeInv
<1>4. /\ t + 1 \in 1 .. Len(ticks) /\ j + 1 \in 1 .. Len(Fleet) /\ t < Len(ticks)
      /\ event = EventOf(ticks, t + 1, j + 1)
  BY <1>1, HeadIs DEF Consumes, TimeInv
<1>5. t >= 1 /\ ticks[t] = ticks[t + 1]
  <2>1. t + 1 > 1 /\ ticks[t + 1 - 1] = ticks[t + 1]
    BY <1>4, EventSteady
  <2>2. t + 1 - 1 = t
    OBVIOUS
  <2> QED BY <2>1, <2>2
<1> DEFINE feels == ticks[t + 1]
<1>6. feels \in Regimes /\ Coherent(feels, cordoned) /\ event.felt = feels[event.at]
  BY <1>1, <1>4 DEF EventOf, Timeline
<1>7. paces' \in [Gpus -> Nat]
  BY DEF TypeOK
<1>8. ASSUME NEW g \in Gpus PROVE paces'[g] \in Band(feels[g])
  <2>1. PICK m \in 1 .. Len(Fleet) : Fleet[m] = g
    BY FleetSize
  <2>2. LastTick(m, t2, j2) \in {t, t + 1}
    <3>1. m \in Nat /\ Len(Fleet) \in Nat /\ m <= Len(Fleet)
      BY FleetSize
    <3> QED BY <1>2, <1>4, <3>1 DEF LastTick, TickAfter, TurnAfter
  <2>3. IF LastTick(m, t2, j2) = 0 THEN paces'[Fleet[m]] = 0
        ELSE paces'[Fleet[m]] \in Band(ticks[LastTick(m, t2, j2)][Fleet[m]])
    BY <1>3 DEF Timeline
  <2>4. LastTick(m, t2, j2) # 0 /\ ticks[LastTick(m, t2, j2)] = feels
    BY <1>5, <2>2
  <2> QED BY <2>1, <2>3, <2>4
<1> HIDE DEF feels
<1> QED BY <1>6, <1>7, <1>8 DEF Paced

(* Every step keeps the timeline. *)
LEMMA TimeStep == ASSUME TimeInv, [Next]_vars PROVE TimeInv'
<1>1. TypeOK /\ TypeOK'
  BY TypeStep DEF TimeInv
<1>2. CASE UNCHANGED vars
  BY <1>1, <1>2, TimeStays DEF vars, TimeInv
<1>3. ASSUME NEW kind \in Scenarios, NEW g \in Targets, NEW steps \in Durations, Inject(kind, g, steps)
      PROVE  TimeInv'
  BY <1>1, <1>3, InjectTime
<1>4. CASE Tick
  BY <1>1, <1>4, TickTime
<1>5. CASE Consume
  BY <1>1, <1>5, ConsumeIs, ConsumeTime
<1>6. CASE Diagnose
  BY <1>1, <1>6, TimeStays DEF Diagnose, TimeInv
<1>7. CASE Actuate
  BY <1>1, <1>7, TimeStays DEF Actuate
<1>8. CASE Close
  BY <1>1, <1>8, TimeStays DEF Close, TimeInv
<1> QED BY <1>2, <1>3, <1>4, <1>5, <1>6, <1>7, <1>8 DEF Next

(* A steady step shows who is slow. *)
LEMMA SteadyFinds ==
  ASSUME TimeInv, TypeOK', NEW event \in Reports, NEW pace, NEW errors, NEW found, Consumes(event, pace, errors, found),
         event.steady
  PROVE  /\ Len(Fleet) >= 4 /\ event.felt = "straggler" => "straggler" \in Range(found)
         /\ 2 * Cardinality(cordoned) <= Len(Fleet) /\ "straggler" \in Range(found) =>
              event.felt = "straggler"
<1>1. event.at \in Gpus /\ ("straggler" \in Range(found) <=> IsStraggler(event.at, paces'))
  BY DEF Consumes, Reports
<1>2. PICK feels \in Regimes : /\ Paced(paces', feels) /\ Coherent(feels, cordoned)
                               /\ event.felt = feels[event.at]
  BY SteadyPaces
<1>3. IsFiniteSet(cordoned)
  <2>1. cordoned \in SUBSET Gpus
    BY DEF TimeInv, TypeOK
  <2> QED BY <2>1, FleetIsFinite, FS_Subset
<1>4. PICK of : of = paces'
  OBVIOUS
<1>5. ASSUME Len(Fleet) >= 4, event.felt = "straggler" PROVE IsStraggler(event.at, of)
  BY <1>1, <1>2, <1>4, <1>5, StragglerIsFound
<1>6. ASSUME 2 * Cardinality(cordoned) <= Len(Fleet), event.felt # "straggler"
      PROVE  ~IsStraggler(event.at, of)
  BY <1>1, <1>2, <1>3, <1>4, <1>6, NoFalseStraggler
<1> QED BY <1>1, <1>4, <1>5, <1>6

(* The verdicts on the event processed last, and the cluster they are about. *)
StragglerInv ==
  /\ TimeInv
  /\ last.event # None /\ last.event.steady =>
       /\ Len(Fleet) >= 4 /\ last.event.felt = "straggler" => "straggler" \in Range(last.found)
       /\ 2 * Cardinality(cordoned) <= Len(Fleet) /\ "straggler" \in Range(last.found) =>
            last.event.felt = "straggler"

(* Every step keeps the verdict on the event processed last. *)
LEMMA StragglerStep == ASSUME StragglerInv, [Next]_vars PROVE StragglerInv'
<1>1. TimeInv /\ TimeInv' /\ TypeOK /\ TypeOK'
  BY TimeStep, TypeStep DEF StragglerInv, TimeInv
<1>2. CASE Consume
  <2>1. PICK event \in Reports, pace \in Nat, errors \in 0 .. 3, found \in Seq(Kinds) :
          Consumes(event, pace, errors, found)
    BY <1>1, <1>2, ConsumeIs
  <2>2. last'.event = event /\ last'.found = found /\ cordoned' = cordoned
    BY <2>1 DEF Consumes
  <2>3. event.steady =>
          /\ Len(Fleet) >= 4 /\ event.felt = "straggler" => "straggler" \in Range(found)
          /\ 2 * Cardinality(cordoned) <= Len(Fleet) /\ "straggler" \in Range(found) =>
               event.felt = "straggler"
    BY <1>1, <2>1, SteadyFinds
  <2> QED BY <1>1, <2>2, <2>3 DEF StragglerInv
<1>3. ASSUME last' = last, cordoned \subseteq cordoned' PROVE StragglerInv'
  <2>1. cordoned' \in SUBSET Gpus /\ cordoned \in SUBSET cordoned'
    BY <1>1, <1>3 DEF TypeOK
  <2>2. IsFiniteSet(cordoned')
    BY <2>1, FleetIsFinite, FS_Subset
  <2>3. /\ Cardinality(cordoned) \in Nat /\ Cardinality(cordoned') \in Nat
        /\ Cardinality(cordoned) <= Cardinality(cordoned')
    BY <2>1, <2>2, FS_Subset, FS_CardinalityType
  <2>4. 2 * Cardinality(cordoned') <= Len(Fleet) => 2 * Cardinality(cordoned) <= Len(Fleet)
    BY <2>3, FleetSize
  <2> QED BY <1>1, <1>3, <2>4 DEF StragglerInv
<1>4. CASE UNCHANGED vars
  BY <1>3, <1>4 DEF vars
<1>5. ASSUME NEW kind \in Scenarios, NEW g \in Targets, NEW steps \in Durations, Inject(kind, g, steps)
      PROVE  StragglerInv'
  BY <1>3, <1>5 DEF Inject
<1>6. CASE Tick
  BY <1>3, <1>6 DEF Tick
<1>7. CASE Diagnose
  BY <1>3, <1>7 DEF Diagnose
<1>8. CASE Actuate
  BY <1>3, <1>8 DEF Actuate
<1>9. CASE Close
  BY <1>3, <1>9 DEF Close
<1> QED BY <1>2, <1>4, <1>5, <1>6, <1>7, <1>8, <1>9 DEF Next

(* Hence it holds of each state. *)
LEMMA StragglerHolds == Spec => []StragglerInv
<1>1. Init => StragglerInv
  <2> SUFFICES ASSUME Init PROVE StragglerInv
    OBVIOUS
  <2>1. TimeInv
    BY TimeInit
  <2>2. last.event = None
    BY DEF Init
  <2> QED BY <2>1, <2>2 DEF StragglerInv
<1>2. StragglerInv /\ [Next]_vars => StragglerInv'
  BY StragglerStep
<1> QED BY <1>1, <1>2, PTL DEF Spec

(* A rank that falls behind is found from its second slow step on, whatever the
   noise, the backlog and the faults before: in a job of four ranks or more,
   since with fewer the rule of detectors.py:219-221 says nothing. *)
THEOREM SlowRanksAreFound == Spec => [](Len(Fleet) >= 4 => SlowRankFound)
<1>1. StragglerInv => (Len(Fleet) >= 4 => SlowRankFound)
  BY DEF StragglerInv, SlowRankFound
<1> QED BY <1>1, StragglerHolds, PTL

(* In a steady step no rank is taken for a straggler that is not one, while no
   more than half of the GPUs are cordoned. *)
THEOREM NoRankIsBlamed == Spec => []FalseAlarmsPass
<1>1. StragglerInv => FalseAlarmsPass
  BY DEF StragglerInv, FalseAlarmsPass
<1> QED BY <1>1, StragglerHolds, PTL

-----------------------------------------------------------------------------
(* What the signals are of *)

(* An event tells of a fault that was injected. *)
LEMMA EventExplained ==
  ASSUME TimeInv, NEW event, NEW pace, NEW errors, NEW found, Consumes(event, pace, errors, found),
         event.felt # "none"
  PROVE  \E f \in Range(injected) :
           /\ f.kind = event.felt
           /\ f.kind \notin {"thermal", "nccl", "throughput"} => f.at = event.at
<1>1. PICK ticks \in Seq(Regimes), t \in Nat, j \in Nat : Timeline(ticks, t, j)
  BY DEF TimeInv
<1>2. /\ t + 1 \in 1 .. Len(ticks) /\ j + 1 \in 1 .. Len(Fleet)
      /\ event = EventOf(ticks, t + 1, j + 1)
  BY <1>1, HeadIs DEF Consumes, TimeInv
<1>3. event.at = Fleet[j + 1] /\ event.felt = ticks[t + 1][Fleet[j + 1]]
  BY <1>2 DEF EventOf
<1>4. Fleet[j + 1] \in Gpus /\ Explained(ticks[t + 1])
  BY <1>1, <1>2, FleetSize DEF Timeline
<1> QED BY <1>3, <1>4 DEF Explained

(* Whatever has reported has at least the pace of a job without faults. *)
LEMMA PacesAtLeast ==
  ASSUME TimeInv' PROVE \A g \in Gpus : paces'[g] = 0 \/ paces'[g] >= 9600
<1>1. PICK ticks \in Seq(Regimes), t \in Nat, j \in Nat : Timeline(ticks, t, j)'
  BY DEF TimeInv
<1> SUFFICES ASSUME NEW g \in Gpus PROVE paces'[g] = 0 \/ paces'[g] >= 9600
  OBVIOUS
<1>2. PICK m \in 1 .. Len(Fleet) : Fleet[m] = g
  BY FleetSize
<1>3. IF LastTick(m, t, j) = 0 THEN paces'[g] = 0
      ELSE paces'[g] \in Band(ticks[LastTick(m, t, j)][g])
  BY <1>1, <1>2 DEF Timeline
<1> QED BY <1>3, BandBounds

(* The fault was injected on that GPU. *)
Happened(kind, g) == \E f \in Range(injected) : f.kind = kind /\ f.at = g

OfOneGpu == {"straggler", "ecc", "xid", "oom"}

PastInv ==
  /\ TimeInv
  /\ \A g \in Gpus : windows[g] # <<>> => Happened("ecc", g)
  /\ \A s \in Range(incident) : s.kind \in {"ecc", "xid", "oom"} => Happened(s.kind, s.at)
  /\ (\A f \in Range(injected) : f.kind \in OfOneGpu) =>
       \A s \in Range(incident) : s.kind = "straggler" => Happened("straggler", s.at)

(* Steps that process nothing add no errors and no signals. *)
LEMMA PastStays ==
  ASSUME PastInv, TimeInv', UNCHANGED windows, incident' \in {incident, <<>>},
         Range(injected) \subseteq Range(injected')
  PROVE  PastInv'
<1>1. Range(incident') \subseteq Range(incident)
  BY DEF Range
<1>2. \A kind, g : Happened(kind, g) => Happened(kind, g)'
  BY DEF Happened
<1> QED BY <1>1, <1>2 DEF PastInv

(* An empty window raises no alarm. *)
LEMMA NoErrorsNoAlarm == ~EccAlarm(<<>>)
<1>1. SumFunction(<<>>) = SumFunctionOnSet(<<>>, DOMAIN <<>>)
  BY DEF SumFunction
<1>2. DOMAIN <<>> = {}
  OBVIOUS
<1> QED BY <1>1, <1>2, SumEmpty DEF EccAlarm

(* A straggler alarm while only GPUs are at fault is of a straggler. *)
LEMMA StragglerHappened ==
  ASSUME TimeInv, TimeInv', NEW event \in Reports, NEW pace, NEW errors, NEW found,
         Consumes(event, pace, errors, found),
         \A f \in Range(injected) : f.kind \in OfOneGpu, IsStraggler(event.at, paces')
  PROVE  Happened("straggler", event.at)
<1>1. event.felt = "none" \/ event.felt \in OfOneGpu
  BY EventExplained
<1>2. event.felt = "straggler"
  <2> SUFFICES ASSUME event.felt # "straggler" PROVE FALSE
    OBVIOUS
  <2>1. event.felt \notin {"straggler", "thermal", "nccl", "throughput"}
    BY <1>1 DEF OfOneGpu
  <2>2. event.at \in Gpus /\ paces \in [Gpus -> Nat] /\ paces' \in [Gpus -> Nat]
    BY DEF Reports, TimeInv, TypeOK
  <2>3. pace \in Band(event.felt) /\ paces' = [paces EXCEPT ![event.at] = pace]
    BY DEF Consumes
  <2>4. paces'[event.at] \in 9600 .. 10400
    <3>1. pace \in Nat /\ pace >= 9600 /\ pace <= 10400
      BY <2>1, <2>3, BandBounds
    <3> QED BY <2>2, <2>3, <3>1
  <2>5. PICK of : of = paces'
    OBVIOUS
  <2>6. \A h \in Gpus : of[h] = 0 \/ of[h] >= 9600
    <3>1. \A h \in Gpus : paces'[h] = 0 \/ paces'[h] >= 9600
      BY PacesAtLeast
    <3> QED BY <2>5, <3>1
  <2>7. ~IsStraggler(event.at, of)
    BY <2>2, <2>4, <2>5, <2>6, NormalPacePasses
  <2> QED BY <2>5, <2>7
<1> QED BY <1>2, EventExplained DEF Happened

(* The signals of an event are of faults that happened on its GPU. *)
LEMMA ConsumePast ==
  ASSUME PastInv, TimeInv', NEW event \in Reports, NEW pace, NEW errors, NEW found,
         Consumes(event, pace, errors, found)
  PROVE  PastInv'
<1> DEFINE g == event.at
<1>1. g \in Gpus /\ windows \in [Gpus -> Seq(1 .. 3)] /\ TimeInv /\ injected' = injected
  BY DEF Reports, PastInv, TimeInv, TypeOK, Consumes
<1>2. \A kind, h : Happened(kind, h)' <=> Happened(kind, h)
  BY <1>1 DEF Happened
<1>3. event.felt \in {"ecc", "xid", "oom"} => Happened(event.felt, g)
  BY <1>1, EventExplained DEF Happened
<1>4. \A h \in Gpus : windows'[h] # <<>> => Happened("ecc", h)
  <2> SUFFICES ASSUME NEW h \in Gpus, windows'[h] # <<>> PROVE Happened("ecc", h)
    OBVIOUS
  <2>1. windows' = [windows EXCEPT ![g] = Slide(@, errors)] /\ (errors # 0 => event.felt = "ecc")
    BY DEF Consumes
  <2>2. CASE h = g /\ errors # 0
    BY <1>3, <2>1, <2>2
  <2>3. CASE h # g \/ errors = 0
    <3>1. windows'[h] = windows[h]
      BY <1>1, <2>1, <2>3 DEF Slide
    <3> QED BY <3>1 DEF PastInv
  <2> QED BY <2>2, <2>3
<1>5. /\ "ecc" \in Range(found) <=> EccAlarm(windows'[g])
      /\ "xid" \in Range(found) <=> event.felt = "xid"
      /\ "oom" \in Range(found) <=> event.felt = "oom"
      /\ "straggler" \in Range(found) <=> IsStraggler(g, paces')
      /\ \A s \in Range(incident') : s \in Range(incident) \/ (s.kind \in Range(found) /\ s.at = g)
  BY DEF Consumes
<1>6. \A kind \in {"ecc", "xid", "oom"} : kind \in Range(found) => Happened(kind, g)
  <2>1. "ecc" \in Range(found) => Happened("ecc", g)
    <3> SUFFICES ASSUME EccAlarm(windows'[g]) PROVE Happened("ecc", g)
      BY <1>5
    <3>1. windows'[g] # <<>>
      BY NoErrorsNoAlarm
    <3> QED BY <1>1, <1>4, <3>1
  <2> QED BY <1>3, <1>5, <2>1
<1>7. \A s \in Range(incident') : s.kind \in {"ecc", "xid", "oom"} => Happened(s.kind, s.at)
  BY <1>5, <1>6 DEF PastInv
<1>8. (\A f \in Range(injected) : f.kind \in OfOneGpu) =>
        \A s \in Range(incident') : s.kind = "straggler" => Happened("straggler", s.at)
  <2> SUFFICES ASSUME \A f \in Range(injected) : f.kind \in OfOneGpu,
                      NEW s \in Range(incident'), s.kind = "straggler"
               PROVE  Happened("straggler", s.at)
    OBVIOUS
  <2>1. CASE s \in Range(incident)
    BY <2>1 DEF PastInv
  <2>2. CASE s.kind \in Range(found) /\ s.at = g
    BY <1>1, <1>5, <2>2, StragglerHappened
  <2> QED BY <1>5, <2>1, <2>2
<1> QED BY <1>1, <1>2, <1>4, <1>7, <1>8 DEF PastInv

(* Every step keeps errors and signals to what happened. *)
LEMMA PastStep == ASSUME PastInv, [Next]_vars PROVE PastInv'
<1>1. TimeInv /\ TimeInv' /\ TypeOK
  BY TimeStep DEF PastInv, TimeInv
<1>2. CASE UNCHANGED vars
  BY <1>1, <1>2, PastStays DEF vars
<1>3. ASSUME NEW kind \in Scenarios, NEW g \in Targets, NEW steps \in Durations, Inject(kind, g, steps)
      PROVE  PastInv'
  <2> DEFINE f == [kind |-> kind, at |-> g]
  <2>1. injected \in Seq([kind : Scenarios, at : Targets]) /\ injected' = Append(injected, f)
    BY <1>1, <1>3 DEF Inject, TypeOK
  <2> HIDE DEF f
  <2>2. Range(injected) \subseteq Range(injected')
    BY <2>1 DEF Range
  <2> QED BY <1>1, <1>3, <2>2, PastStays DEF Inject
<1>4. CASE Tick
  BY <1>1, <1>4, PastStays DEF Tick
<1>5. CASE Consume
  <2>1. PICK event \in Reports, pace \in Nat, errors \in 0 .. 3, found \in Seq(Kinds) :
          Consumes(event, pace, errors, found)
    BY <1>1, <1>5, ConsumeIs
  <2> QED BY <1>1, <2>1, ConsumePast
<1>6. CASE Diagnose
  BY <1>1, <1>6, PastStays DEF Diagnose
<1>7. CASE Actuate
  BY <1>1, <1>7, PastStays DEF Actuate
<1>8. CASE Close
  BY <1>1, <1>8, PastStays DEF Close
<1> QED BY <1>2, <1>3, <1>4, <1>5, <1>6, <1>7, <1>8 DEF Next

(* The playbook's plan for the one fault there was, at its GPU. *)
LEMMA FaultFits == ASSUME PastInv PROVE PlanFitsFault
<1> SUFFICES ASSUME Len(injected) = 1, injected[1].kind \in OfOneGpu, injected[1] \in Range(incident)
             PROVE  /\ Propose(incident).target = injected[1].at
                    /\ Propose(incident).action = Playbook[injected[1].kind].action
  BY DEF PlanFitsFault, OfOneGpu
<1> DEFINE f    == injected[1]
           lead == Dominant(incident)
<1>1. Range(injected) = {f}
  <2>1. injected \in Seq([kind : Scenarios, at : Targets])
    BY DEF PastInv, TimeInv, TypeOK
  <2>2. DOMAIN injected = {1}
    BY <2>1
  <2> QED BY <2>2 DEF Range
<1>2. \A s \in Range(incident) : s.kind \in OfOneGpu => s.kind = f.kind /\ s.at = f.at
  <2>1. \A s \in Range(incident) : s.kind \in OfOneGpu => Happened(s.kind, s.at)
    <3>1. \A h \in Range(injected) : h.kind \in OfOneGpu
      BY <1>1
    <3> QED BY <3>1 DEF PastInv, OfOneGpu
  <2> HIDE DEF f
  <2> QED BY <1>1, <2>1 DEF Happened
<1>3. incident \in Seq(Signal) /\ incident # <<>>
  <2>1. incident \in Seq(Signal)
    BY DEF PastInv, TimeInv, TypeOK, Signals, Signal
  <2>2. incident # <<>>
    BY DEF Range
  <2> QED BY <2>1, <2>2
<1>4. \E p \in 1 .. 4 : f.kind = Priority[p]
  <2>1. Priority[1] = "xid" /\ Priority[2] = "ecc" /\ Priority[3] = "oom" /\ Priority[4] = "straggler"
    BY DEF Priority
  <2> QED BY <2>1 DEF OfOneGpu
<1>5. PICK p \in 1 .. 4 : f.kind = Priority[p]
  BY <1>4
<1>6. \A q \in 1 .. 7 : q < p => Priority[q] \in OfOneGpu /\ Priority[q] # Priority[p]
  <2>1. Priority[1] = "xid" /\ Priority[2] = "ecc" /\ Priority[3] = "oom" /\ Priority[4] = "straggler"
    BY DEF Priority
  <2> QED BY <2>1 DEF OfOneGpu
<1> HIDE DEF f, lead
<1>7. lead \in Range(incident) /\ lead.kind = f.kind
  <2>1. f \in Range(incident)
    BY DEF f
  <2>2. \A q \in 1 .. 7 : q < p => \A s \in Range(incident) : s.kind # Priority[q]
    BY <1>2, <1>5, <1>6
  <2> QED BY <1>3, <1>5, <2>1, <2>2, DominantIs DEF lead
<1>8. lead.at = f.at /\ f.kind \in OfOneGpu
  BY <1>2, <1>7 DEF f
<1>9. f.kind \in DOMAIN Playbook
  BY <1>8 DEF OfOneGpu, Playbook
<1>10. Propose(incident) = [action           |-> Playbook[f.kind].action,
                            requiresApproval |-> Playbook[f.kind].risk # "low",
                            target           |-> f.at,
                            steps            |-> Playbook[f.kind].steps]
  BY <1>7, <1>8, <1>9 DEF Propose, lead
<1> QED BY <1>10 DEF f

(* "Hardware first" (remediation.py:95): whatever else fires, the plan for the
   first fault of a GPU is the playbook's for it, at that GPU. *)
THEOREM PlansFitFaults == Spec => []PlanFitsFault
<1>1. Init => PastInv
  <2> SUFFICES ASSUME Init PROVE PastInv
    OBVIOUS
  <2>1. TimeInv
    BY TimeInit
  <2>2. incident = <<>> /\ \A g \in Gpus : windows[g] = <<>>
    BY DEF Init
  <2>3. Range(incident) = {}
    BY <2>2 DEF Range
  <2> QED BY <2>1, <2>2, <2>3 DEF PastInv
<1>2. PastInv /\ [Next]_vars => PastInv'
  BY PastStep
<1>3. PastInv => PlanFitsFault
  BY FaultFits
<1> QED BY <1>1, <1>2, <1>3, PTL DEF Spec

=============================================================================
