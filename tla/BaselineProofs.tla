--------------------------- MODULE BaselineProofs ---------------------------
(***************************************************************************)
(* The statistical layer notices changes, not states: with the threshold   *)
(* and the weights the program uses, a value that went off does not go     *)
(* off again, whatever the history of the series.                          *)
(***************************************************************************)
EXTENDS Baseline, Counting, TLAPS

(* A positive factor cancels. *)
LEMMA Cancel ==
  ASSUME NEW a \in Nat, NEW b \in Int, NEW c \in Int, a > 0, a * b >= a * c
  PROVE  b >= c
  BY SMT

(* Products of numbers that are not negative, or positive, are so too. *)
LEMMA ProductNat == ASSUME NEW a \in Nat, NEW b \in Nat PROVE a * b \in Nat
  BY SMT

LEMMA ProductPositive ==
  ASSUME NEW a \in Nat, NEW b \in Nat, a > 0, b > 0
  PROVE  a * b > 0
  BY SMT

(* A square is not negative. *)
LEMMA SquareNat == ASSUME NEW a \in Int PROVE a * a \in Nat
  <1>1. CASE a >= 0
    BY <1>1, SMT
  <1>2. CASE a < 0
    <2>1. (-a) * (-a) \in Nat  BY <1>2, SMT
    <2>2. a * a = (-a) * (-a)  BY SMT
    <2> QED  BY <2>1, <2>2
  <1> QED  BY <1>1, <1>2

(* The update takes the mean a fixed part of the way to the sample: what is
   left of the distance is the rest of it. *)
LEMMA DeltaShrinks ==
  ASSUME NEW s \in Stats, NEW x \in Int
  PROVE  /\ Delta(s, x) \in Int
         /\ Delta(Update(s, x), x) = (Den - Num) * Delta(s, x)
  <1> DEFINE m == s.mean
             u == s.unit
             d == x * u - m
  <1>1. m \in Int /\ u \in Int /\ Num \in Int /\ Den \in Int
    BY AlphaAssumption DEF Stats
  <1>2. d \in Int /\ Delta(s, x) = d
    BY <1>1, SMT DEF Delta
  <1>3. Delta(Update(s, x), x) = x * (Den * u) - (Den * m + Num * d)
    BY <1>2 DEF Delta, Update
  <1>4. x * (Den * u) - Den * m = Den * d
    BY <1>1, SMT
  <1>5. Den * d - Num * d = (Den - Num) * d
    BY <1>1, <1>2, SMT
  <1>6. x * (Den * u) \in Int /\ Den * m \in Int /\ Num * d \in Int
    BY <1>1, <1>2, SMT
  <1> QED
    <2> HIDE DEF d
    <2> QED  BY <1>2, <1>3, <1>4, <1>5, <1>6, SMT

(* Once a sample is in the baseline, its own value does not reach the
   threshold, however far it is from what came before. *)
LEMMA ChangeIsSwallowed ==
  ASSUME NEW s \in Stats, NEW x \in Int, Den - Num < Threshold * Threshold * Num
  PROVE  ~Fires(Update(s, x), x)
  <1> DEFINE d == Delta(s, x)
             q == d * d
             v == s.var
             c == Den - Num
             z == Threshold * Threshold
             w == Den * v + Num * q
  <1>1. d \in Int /\ Delta(Update(s, x), x) = c * d
    BY DeltaShrinks
  <1>2. /\ v \in Nat /\ c \in Nat /\ c > 0 /\ z \in Nat
        /\ Num \in Nat /\ Num > 0 /\ Den \in Nat /\ Den > 0
    BY AlphaAssumption, ThresholdAssumption, ProductNat DEF Stats
  <1>3. q \in Nat
    BY <1>1, SquareNat
  <1>4. Update(s, x).var = c * w
    BY DEF Update
  <1>5. c < z * Num
    OBVIOUS
  <1> HIDE DEF d, q, v, c, z, w
  <1>6. w \in Nat /\ w = Den * v + Num * q
    <2>1. Den * v \in Nat /\ Num * q \in Nat  BY <1>2, <1>3, ProductNat
    <2> QED  BY <2>1 DEF w
  <1>7. SUFFICES ASSUME c * w > 0, (c * d) * (c * d) >= z * (c * w)
                 PROVE  FALSE
    BY <1>1, <1>4 DEF Fires, z
  <1>8. c * q >= z * w
    <2>1. (c * d) * (c * d) = c * (c * q)  BY <1>1, <1>2, SMT DEF q
    <2>2. z * (c * w) = c * (z * w)  BY <1>2, <1>6, SMT
    <2>3. c * q \in Int /\ z * w \in Int  BY <1>2, <1>3, <1>6, SMT
    <2> QED  BY <1>2, <1>7, <2>1, <2>2, <2>3, Cancel
  <1>9. z * w = z * (Den * v) + (z * Num) * q
    BY <1>2, <1>3, <1>6, SMT
  <1>10. z * (Den * v) \in Nat /\ (z * Num) * q >= c * q + q
    <2>1. z * (Den * v) \in Nat  BY <1>2, ProductNat
    <2>2. z * Num \in Nat /\ z * Num - (c + 1) \in Nat  BY <1>2, <1>5, ProductNat, SMT
    <2>3. (z * Num - (c + 1)) * q \in Nat  BY <2>2, <1>3, ProductNat
    <2>4. (z * Num - (c + 1)) * q = (z * Num) * q - (c * q + q)  BY <1>2, <1>3, <2>2, SMT
    <2>5. (z * Num) * q \in Int /\ c * q \in Int  BY <1>2, <1>3, <2>2, SMT
    <2> QED  BY <2>1, <2>3, <2>4, <2>5, <1>3, SMT
  <1>11. q = 0 /\ z * (Den * v) = 0
    <2>1. c * q \in Nat /\ (z * Num) * q \in Int  BY <1>2, <1>3, ProductNat, SMT
    <2> QED  BY <1>3, <1>8, <1>9, <1>10, <2>1, SMT
  <1>12. v = 0
    <2>1. z > 0  BY <1>2, <1>5, SMT
    <2>2. SUFFICES ASSUME v > 0 PROVE FALSE  BY <1>2
    <2>3. Den * v > 0 /\ Den * v \in Nat  BY <1>2, <2>2, ProductPositive, ProductNat
    <2> QED  BY <1>2, <1>11, <2>1, <2>3, ProductPositive
  <1>13. w = 0
    BY <1>2, <1>6, <1>11, <1>12, SMT
  <1> QED
    BY <1>2, <1>7, <1>13, SMT

-----------------------------------------------------------------------------
(* The statistics of a series keep their type. *)
LEMMA UpdateType == ASSUME NEW s \in Stats, NEW x \in Int PROVE Update(s, x) \in Stats
  <1> DEFINE d == Delta(s, x)
             q == d * d
  <1>1. d \in Int /\ q \in Nat
    BY DeltaShrinks, SquareNat
  <1>2. /\ s.mean \in Int /\ s.var \in Nat /\ s.unit \in Nat /\ s.unit > 0
        /\ Num \in Nat /\ Den \in Nat /\ Den > 0 /\ Den - Num \in Nat
    BY AlphaAssumption DEF Stats
  <1>3. Update(s, x) = [mean |-> Den * s.mean + Num * d,
                        var |-> (Den - Num) * (Den * s.var + Num * q), unit |-> Den * s.unit]
    BY DEF Update
  <1> HIDE DEF d, q
  <1>4. Den * s.mean + Num * d \in Int
    BY <1>1, <1>2, SMT
  <1>5. Den * s.var \in Nat /\ Num * q \in Nat
    BY <1>1, <1>2, ProductNat
  <1>6. Den * s.var + Num * q \in Nat
    BY <1>5
  <1>7. (Den - Num) * (Den * s.var + Num * q) \in Nat
    BY <1>2, <1>6, ProductNat
  <1>8. Den * s.unit \in Nat \ {0}
    BY <1>2, ProductNat, ProductPositive
  <1> QED
    BY <1>3, <1>4, <1>7, <1>8 DEF Stats

(* What is above a sample that goes off goes off as well. *)
LEMMA FiresAbove ==
  ASSUME NEW s \in Stats, NEW x \in Int, NEW y \in Int, x <= y, Fires(s, x)
  PROVE  Fires(s, y)
  <1> DEFINE d == Delta(s, x)
             e == Delta(s, y)
             t == Threshold * Threshold * s.var
  <1>1. d \in Int /\ e \in Int
    BY DeltaShrinks
  <1>2. s.mean \in Int /\ s.unit \in Nat /\ s.var \in Nat
    BY DEF Stats
  <1>3. d >= 0 /\ d * d >= t /\ s.var > 0
    BY DEF Fires
  <1>4. e - d = (y - x) * s.unit /\ y - x \in Nat
    BY <1>2, SMT DEF Delta
  <1>5. e - d \in Nat
    BY <1>2, <1>4, ProductNat
  <1>6. t \in Int
    BY <1>2, ThresholdAssumption, SMT
  <1>7. e >= 0 /\ e * e >= t
    <2> HIDE DEF d, e, t
    <2>1. d \in Nat /\ e \in Nat  BY <1>1, <1>3, <1>5
    <2>2. (e - d) * (e + d) \in Nat  BY <2>1, <1>5, ProductNat
    <2>3. (e - d) * (e + d) = e * e - d * d  BY <2>1, SMT
    <2>4. e * e \in Int /\ d * d \in Int  BY <2>1, SMT
    <2> QED  BY <2>1, <2>2, <2>3, <2>4, <1>3, <1>6
  <1> QED
    BY <1>3, <1>7 DEF Fires

-----------------------------------------------------------------------------
(* The weights *)

(* What a power is, without its definition. *)
LEMMA Powers ==
  ASSUME NEW b \in Int, NEW n \in Nat
  PROVE  /\ Power(b, 0) = 1
         /\ Power(b, n) \in Int
         /\ Power(b, n + 1) = b * Power(b, n)
<1> DEFINE Law(p) == p = [k \in Nat |-> IF k = 0 THEN 1 ELSE b * p[k - 1]]
           step == [x \in Nat \X Int |-> b * x[2]]
           power == CHOOSE p : Law(p)
<1>1. PICK f \in [Nat -> Int] : Follows(f, 1, step)
  <2>1. step \in [Nat \X Int -> Int] /\ 1 \in Int
    OBVIOUS
  <2> HIDE DEF step
  <2> QED BY <2>1, Recursion, Zenon
<1>2. \A k \in Nat : f[k] = IF k = 0 THEN 1 ELSE b * f[k - 1]
  <2> SUFFICES ASSUME NEW k \in Nat, k # 0 PROVE f[k] = b * f[k - 1]
    BY <1>1 DEF Follows
  <2>1. f[k - 1] \in Int
    BY <1>1
  <2>2. step[<<k, f[k - 1]>>] = b * f[k - 1]
    BY <2>1
  <2> HIDE DEF step
  <2> QED BY <1>1, <2>2 DEF Follows
<1>3. Law(f)
  <2>1. f = [k \in Nat |-> f[k]]
    BY <1>1
  <2> QED BY <1>2, <2>1
<1>4. Law(power)
  <2> HIDE DEF Law
  <2> QED BY <1>3
<1>5. \A k \in Nat : Power(b, k) = power[k]
  BY DEF Power
<1> HIDE DEF power
<1>6. power[0] = 1 /\ \A k \in Nat : power[k + 1] = b * power[k]
  <2>1. \A k \in Nat : k + 1 \in Nat /\ k + 1 # 0 /\ (k + 1) - 1 = k
    OBVIOUS
  <2> QED BY <1>4, <2>1
<1> DEFINE Whole == {k \in Nat : power[k] \in Int}
<1>7. 0 \in Whole /\ \A k \in Nat : k \in Whole => k + 1 \in Whole
  BY <1>6
<1>8. Nat \subseteq Whole
  <2> HIDE DEF Whole
  <2> QED BY <1>7, Induction
<1> QED BY <1>5, <1>6, <1>8

(* When a sample comes, the weight of every earlier one shrinks by 1 - alpha,
   and its own is alpha; in units of Den ^ n. *)
LEMMA WeightsShrink ==
  ASSUME NEW n \in Nat \ {0}
  PROVE  /\ \A k \in 1 .. n : Weight(k, n) \in Int /\ Weight(k, n + 1) = (Den - Num) * Weight(k, n)
         /\ Weight(n + 1, n + 1) = Num * Power(Den, n - 1)
         /\ Power(Den, n - 1) \in Int
<1>1. Den - Num \in Int /\ Den \in Int /\ Num \in Int
  BY AlphaAssumption
<1>2. \A k \in Nat : /\ Power(Den - Num, k) \in Int /\ Power(Den, k) \in Int
                     /\ Power(Den - Num, 0) = 1
                     /\ Power(Den - Num, k + 1) = (Den - Num) * Power(Den - Num, k)
  BY <1>1, Powers
<1>3. ASSUME NEW k \in 1 .. n
      PROVE  Weight(k, n) \in Int /\ Weight(k, n + 1) = (Den - Num) * Weight(k, n)
  <2>1. n - k \in Nat /\ n - 1 \in Nat /\ (n + 1) - k = (n - k) + 1 /\ (n + 1) - 1 = (n - 1) + 1
    OBVIOUS
  <2>2. CASE k = 1
    BY <1>2, <2>1, <2>2 DEF Weight
  <2>3. CASE k # 1
    <3>1. k - 2 \in Nat
      BY <2>3
    <3> DEFINE p == Power(Den - Num, n - k)
               q == Power(Den, k - 2)
    <3>2. p \in Int /\ q \in Int /\ Power(Den - Num, (n + 1) - k) = (Den - Num) * p
      BY <1>2, <2>1, <3>1
    <3>3. Weight(k, n) = Num * p * q /\ Weight(k, n + 1) = Num * ((Den - Num) * p) * q
      BY <2>3, <3>2 DEF Weight
    <3> HIDE DEF p, q
    <3>4. Num * ((Den - Num) * p) * q = (Den - Num) * (Num * p * q) /\ Num * p * q \in Int
      BY <1>1, <3>2
    <3> QED BY <3>3, <3>4
  <2> QED BY <2>2, <2>3
<1>4. Weight(n + 1, n + 1) = Num * Power(Den, n - 1) /\ Power(Den, n - 1) \in Int
  <2>1. n + 1 # 1 /\ (n + 1) - (n + 1) = 0 /\ (n + 1) - 2 = n - 1 /\ n - 1 \in Nat
    OBVIOUS
  <2>2. Weight(n + 1, n + 1) = Num * 1 * Power(Den, n - 1)
    BY <1>2, <2>1 DEF Weight
  <2> QED BY <1>1, <1>2, <2>1, <2>2
<1> QED BY <1>3, <1>4

(* A weighted sum with one term more. *)
LEMMA WeightedAppend ==
  ASSUME NEW xs \in Seq(Int), xs # <<>>, NEW x \in Int
  PROVE  /\ Weighted(Append(xs, x)) =
              (Den - Num) * Weighted(xs) + Num * Power(Den, Len(xs) - 1) * x
         /\ Weighted(xs) \in Int /\ Power(Den, Len(xs) - 1) \in Int
<1> DEFINE n == Len(xs)
           ys == Append(xs, x)
           f == [k \in DOMAIN xs |-> Weight(k, n) * xs[k]]
           g == [k \in DOMAIN ys |-> Weight(k, n + 1) * ys[k]]
           c == Den - Num
<1>1. n \in Nat \ {0} /\ DOMAIN xs = 1 .. n /\ \A k \in 1 .. n : xs[k] \in Int
  BY EmptySeq
<1>2. DOMAIN ys = 1 .. n + 1 /\ ys[n + 1] = x /\ \A k \in 1 .. n : ys[k] = xs[k]
  BY <1>1
<1>3. /\ \A k \in 1 .. n : Weight(k, n) \in Int /\ Weight(k, n + 1) = c * Weight(k, n)
      /\ Weight(n + 1, n + 1) = Num * Power(Den, n - 1)
      /\ Power(Den, n - 1) \in Int /\ c \in Int /\ Num \in Int
  BY <1>1, WeightsShrink, AlphaAssumption
<1>4. Weighted(xs) = SumFunctionOnSet(f, 1 .. n) /\ Weighted(ys) = SumFunctionOnSet(g, 1 .. n + 1)
  <2>1. Len(ys) = n + 1
    BY <1>1
  <2> QED BY <1>1, <1>2, <2>1 DEF Weighted, SumFunction
<1> HIDE DEF n, ys, c
<1>5. \A k \in 1 .. n : f[k] \in Int /\ g[k] = c * f[k] /\ g[k] \in Int
  <2> SUFFICES ASSUME NEW k \in 1 .. n PROVE f[k] \in Int /\ g[k] = c * f[k] /\ g[k] \in Int
    OBVIOUS
  <2> DEFINE w == Weight(k, n)
             y == xs[k]
  <2>1. f[k] = w * y /\ g[k] = (c * w) * y /\ w \in Int /\ y \in Int /\ c \in Int
    BY <1>1, <1>2, <1>3
  <2> HIDE DEF w, y, f, g
  <2> QED BY <2>1
<1>6. g[n + 1] = Num * Power(Den, n - 1) * x /\ g[n + 1] \in Int
  <2>1. n + 1 \in DOMAIN ys
    BY <1>1, <1>2
  <2> QED BY <1>2, <1>3, <2>1
<1> HIDE DEF f, g
<1>7. IsFiniteSet(1 .. n) /\ 1 .. n + 1 = (1 .. n) \cup {n + 1} /\ n + 1 \notin 1 .. n
  <2>1. IsFiniteSet(1 .. n)
    BY <1>1, FS_Interval
  <2>2. 1 .. n + 1 = (1 .. n) \cup {n + 1} /\ n + 1 \notin 1 .. n
    BY <1>1
  <2> QED BY <2>1, <2>2
<1>8. SumFunctionOnSet(g, (1 .. n) \cup {n + 1}) = SumFunctionOnSet(g, 1 .. n) + g[n + 1]
  <2>1. \A k \in (1 .. n) \cup {n + 1} : g[k] \in Int
    BY <1>5, <1>6
  <2> DEFINE S == 1 .. n
             e == n + 1
  <2>2. IsFiniteSet(S) /\ e \notin S /\ \A k \in S \cup {e} : g[k] \in Int
    BY <1>7, <2>1
  <2> HIDE DEF S, e
  <2>3. SumFunctionOnSet(g, S \cup {e}) = SumFunctionOnSet(g, S) + g[e]
    BY <2>2, SumAdds
  <2> QED BY <2>3 DEF S, e
<1>9. SumFunctionOnSet(g, 1 .. n) = c * SumFunctionOnSet(f, 1 .. n)
  <2> DEFINE h == [k \in 1 .. n |-> c * f[k]]
  <2>1. SumFunctionOnSet(h, 1 .. n) = c * SumFunctionOnSet(f, 1 .. n)
    BY <1>3, <1>5, <1>7, SumScales
  <2>2. \A k \in 1 .. n : g[k] = h[k]
    BY <1>5
  <2> HIDE DEF h
  <2>3. SumFunctionOnSet(g, 1 .. n) = SumFunctionOnSet(h, 1 .. n)
    BY <1>7, <2>2, SumSame
  <2> QED BY <2>1, <2>3
<1>10. SumFunctionOnSet(f, 1 .. n) \in Int
  BY <1>5, <1>7, SumTakes
<1> QED BY <1>3, <1>4, <1>6, <1>7, <1>8, <1>9, <1>10 DEF n, ys, c

SeriesInv == TypeOK /\ ChangeSwallowed

(* The invariant holds of the empty series. *)
LEMMA SeriesInvInit == Init => SeriesInv
  <1> SUFFICES ASSUME Init PROVE SeriesInv
    OBVIOUS
  <1>1. samples \in Seq(Int)
    BY SMT DEF Init
  <1>2. stat \in Stats /\ stat.var = 0
    BY SMT DEF Init, Stats
  <1>3. fired \in BOOLEAN
    BY DEF Init
  <1>4. samples = <<>>
    BY DEF Init
  <1> QED
    BY <1>1, <1>2, <1>3, <1>4 DEF SeriesInv, TypeOK, ChangeSwallowed

(* One more sample keeps the invariant, and goes off only if it is above the
   sample before it. *)
LEMMA ObserveStep ==
  ASSUME Den - Num < Threshold * Threshold * Num,
         SeriesInv, NEW x \in Values, Observe(x)
  PROVE  /\ SeriesInv'
         /\ fired' => samples # <<>> /\ Last(samples') > Last(samples)
  <1>1. x \in Int /\ samples \in Seq(Int) /\ stat \in Stats
    BY SeriesAssumption DEF SeriesInv, TypeOK
  <1>2. samples' = Append(samples, x) /\ samples' # <<>> /\ Last(samples') = x
    BY <1>1 DEF Observe, Last
  <1>3. samples # <<>> => Last(samples) \in Int
    BY <1>1 DEF Last
  <1>4. First(x) \in Stats /\ ~Fires(First(x), x)
    BY <1>1 DEF First, Stats, Fires
  <1>5. Update(stat, x) \in Stats /\ ~Fires(Update(stat, x), x)
    BY <1>1, UpdateType, ChangeIsSwallowed
  <1>6. stat' \in Stats /\ ~Fires(stat', x)
    BY <1>4, <1>5 DEF Observe
  <1>7. SeriesInv'
    <2>1. TypeOK'
      BY <1>1, <1>2, <1>6 DEF Observe, TypeOK
    <2>2. ChangeSwallowed'
      BY <1>2, <1>6 DEF ChangeSwallowed
    <2> QED  BY <2>1, <2>2 DEF SeriesInv
  <1>8. ASSUME fired' PROVE samples # <<>> /\ x > Last(samples)
    <2>1. Fires(stat, x)
      BY <1>8 DEF Observe
    <2>2. samples # <<>>
      BY <2>1 DEF SeriesInv, ChangeSwallowed, Fires
    <2>3. ~Fires(stat, Last(samples))
      BY <2>2 DEF SeriesInv, ChangeSwallowed
    <2> QED
      BY <1>1, <1>3, <2>1, <2>2, <2>3, FiresAbove
  <1> QED
    BY <1>2, <1>7, <1>8

(* AlarmNeedsRise for every series, weight and threshold, as long as
   (1 - alpha) / alpha is below the square of the threshold: 7 / 3 against 9. *)
THEOREM AlarmsNeedRises ==
  ASSUME Den - Num < Threshold * Threshold * Num
  PROVE  Spec => AlarmNeedsRise
  <1>1. SeriesInv /\ [Next]_vars =>
          SeriesInv' /\ [fired' => samples # <<>> /\ Last(samples') > Last(samples)]_vars
    <2> SUFFICES ASSUME SeriesInv, [Next]_vars
                 PROVE  SeriesInv' /\ [fired' => samples # <<>> /\ Last(samples') > Last(samples)]_vars
      OBVIOUS
    <2>1. CASE Next
      BY <2>1, ObserveStep DEF Next
    <2>2. CASE UNCHANGED vars
      BY <2>2 DEF vars, SeriesInv, TypeOK, ChangeSwallowed
    <2> QED  BY <2>1, <2>2
  <1> QED
    BY SeriesInvInit, <1>1, PTL DEF Spec, AlarmNeedsRise

(* The statistics of any series have their type: the variance is never
   negative, the unit never 0. *)
LEMMA TypeStep == ASSUME TypeOK, [Next]_vars PROVE TypeOK'
<1>1. ASSUME NEW x \in Values, Observe(x) PROVE TypeOK'
  <2>1. x \in Int /\ samples \in Seq(Int) /\ stat \in Stats
    BY SeriesAssumption DEF TypeOK
  <2>2. First(x) \in Stats /\ Update(stat, x) \in Stats
    BY <2>1, UpdateType DEF First, Stats
  <2>3. samples' \in Seq(Int) /\ stat' \in Stats
    BY <1>1, <2>1, <2>2 DEF Observe
  <2>4. fired' \in BOOLEAN
    BY <1>1 DEF Observe
  <2> QED BY <2>3, <2>4 DEF TypeOK
<1>2. CASE UNCHANGED vars
  BY <1>2 DEF vars, TypeOK
<1> QED BY <1>1, <1>2 DEF Next

(* RollingStat keeps a rational mean and a variance that is not negative
   (detectors.py:43-50), for every series. *)
THEOREM StatisticsTyped == Spec => []TypeOK
<1>1. Init => TypeOK
  BY SeriesInvInit DEF SeriesInv
<1> QED BY <1>1, TypeStep, PTL DEF Spec

-----------------------------------------------------------------------------
(* The statistics of a series are its weighted mean and variance. *)

Squares(xs) == [k \in DOMAIN xs |-> xs[k] * xs[k]]

(* StatIsWeighted is inductive with the unit it is stated in. *)
WeightedInv ==
  /\ TypeOK
  /\ StatIsWeighted
  /\ samples # <<>> => stat.unit = Power(Den, Len(samples) - 1)

(* The sum of one sample is that sample. *)
LEMMA WeightedFirst == ASSUME NEW x \in Int PROVE Weighted(<<x>>) = x
<1> DEFINE f == [k \in DOMAIN <<x>> |-> Weight(k, Len(<<x>>)) * <<x>>[k]]
           S == {1}
<1>1. DOMAIN f = S
  OBVIOUS
<1>2. Weight(1, 1) = 1
  <2>1. Power(Den - Num, 0) = 1
    BY AlphaAssumption, Powers
  <2> QED BY <2>1 DEF Weight
<1>3. f[1] = x
  BY <1>2
<1> HIDE DEF f
<1>4. SumFunctionOnSet(f, {1}) = f[1] + SumFunctionOnSet(f, {1} \ {1})
  <2>1. IsFiniteSet(S) /\ 1 \in S /\ \A k \in S : f[k] \in Int
    BY <1>3, FS_Singleton
  <2> HIDE DEF S
  <2>2. SumFunctionOnSet(f, S) = f[1] + SumFunctionOnSet(f, S \ {1})
    BY <2>1, SumTakes
  <2> QED BY <2>2 DEF S
<1>5. {1} \ {1} = {}
  OBVIOUS
<1>6. SumFunctionOnSet(f, {1}) = x
  BY <1>3, <1>4, <1>5, SumEmpty
<1> QED BY <1>1, <1>6 DEF Weighted, SumFunction, f

(* The squares of a longer series. *)
LEMMA SquaresAppend ==
  ASSUME NEW xs \in Seq(Int), NEW x \in Int
  PROVE  Squares(xs) \in Seq(Int) /\ Len(Squares(xs)) = Len(xs)
         /\ Squares(Append(xs, x)) = Append(Squares(xs), x * x)
<1>1. ASSUME NEW ys \in Seq(Int)
      PROVE  /\ Squares(ys) \in Seq(Int) /\ Len(Squares(ys)) = Len(ys)
             /\ \A k \in 1 .. Len(ys) : Squares(ys)[k] = ys[k] * ys[k]
  <2>1. Len(ys) \in Nat /\ DOMAIN ys = 1 .. Len(ys)
    OBVIOUS
  <2>2. ASSUME NEW k \in 1 .. Len(ys) PROVE ys[k] * ys[k] \in Int /\ Squares(ys)[k] = ys[k] * ys[k]
    <3>1. ys[k] \in Int
      OBVIOUS
    <3>2. Squares(ys)[k] = ys[k] * ys[k]
      BY <2>1 DEF Squares
    <3> QED BY <3>1, <3>2
  <2>3. Squares(ys) = [k \in 1 .. Len(ys) |-> Squares(ys)[k]]
    BY <2>1 DEF Squares
  <2> DEFINE f == Squares(ys)
  <2>4. f \in [1 .. Len(ys) -> Int]
    BY <2>2, <2>3, Zenon
  <2> HIDE DEF f
  <2>5. f \in Seq(Int) /\ Len(f) = Len(ys)
    BY <2>1, <2>4, IsSequence
  <2> QED BY <2>2, <2>5 DEF f
<1> DEFINE ys == Append(xs, x)
           q == Squares(xs)
           y == x * x
<1>2. ys \in Seq(Int) /\ Len(ys) = Len(xs) + 1 /\ ys[Len(xs) + 1] = x
      /\ \A k \in 1 .. Len(xs) : ys[k] = xs[k]
  OBVIOUS
<1>3. /\ q \in Seq(Int) /\ Len(q) = Len(xs) /\ y \in Int
      /\ \A k \in 1 .. Len(xs) : q[k] = xs[k] * xs[k]
      /\ Squares(ys) \in Seq(Int) /\ Len(Squares(ys)) = Len(xs) + 1
      /\ \A k \in 1 .. Len(xs) + 1 : Squares(ys)[k] = ys[k] * ys[k]
  <2>1. y \in Int
    OBVIOUS
  <2> HIDE DEF ys, y
  <2>2. /\ q \in Seq(Int) /\ Len(q) = Len(xs) /\ \A k \in 1 .. Len(xs) : q[k] = xs[k] * xs[k]
    BY <1>1
  <2>3. /\ Squares(ys) \in Seq(Int) /\ Len(Squares(ys)) = Len(ys)
        /\ \A k \in 1 .. Len(ys) : Squares(ys)[k] = ys[k] * ys[k]
    BY <1>1, <1>2
  <2> QED BY <1>2, <2>1, <2>2, <2>3, Zenon
<1>4. ys[Len(xs) + 1] * ys[Len(xs) + 1] = y
  BY <1>2
<1> HIDE DEF ys, q, y
<1>5. Append(q, y) \in Seq(Int) /\ Len(Append(q, y)) = Len(xs) + 1
      /\ \A k \in 1 .. Len(xs) : Append(q, y)[k] = q[k]
      /\ Append(q, y)[Len(xs) + 1] = y
  <2>1. q \in Seq(Int) /\ Len(q) = Len(xs) /\ y \in Int
    BY <1>3
  <2> QED BY <2>1, AppendProperties
<1>6. ASSUME NEW k \in 1 .. Len(xs) + 1 PROVE Squares(ys)[k] = Append(q, y)[k]
  <2>1. CASE k \in 1 .. Len(xs)
    BY <1>2, <1>3, <1>5, <2>1
  <2>2. CASE k = Len(xs) + 1
    BY <1>3, <1>4, <1>5, <2>2
  <2>3. k \in 1 .. Len(xs) \/ k = Len(xs) + 1
    OBVIOUS
  <2> QED BY <2>1, <2>2, <2>3
<1>7. Squares(ys) = Append(q, y)
  BY <1>3, <1>5, <1>6, SeqEqual
<1> QED BY <1>3, <1>7 DEF ys, q, y

(* The identity behind the incremental variance. *)
LEMMA Incremental ==
  ASSUME NEW num \in Int, NEW den \in Int, NEW m \in Int, NEW u \in Int, NEW q \in Int, NEW x \in Int
  PROVE  /\ den * m + num * (x * u - m) = (den - num) * m + num * u * x
         /\ (den - num) * (den * (u * q - m * m) + num * ((x * u - m) * (x * u - m)))
            = (den * u) * ((den - num) * q + num * u * (x * x))
              - ((den - num) * m + num * u * x) * ((den - num) * m + num * u * x)
BY SMT

LEMMA WeightedStep ==
  ASSUME WeightedInv, NEW x \in Values, Observe(x), TypeOK'
  PROVE  WeightedInv'
<1>1. x \in Int /\ samples \in Seq(Int) /\ samples' = Append(samples, x) /\ samples' # <<>>
  BY SeriesAssumption DEF WeightedInv, TypeOK, Observe
<1>2. CASE samples = <<>>
  <2>1. samples' = <<x>> /\ stat' = First(x)
    BY <1>1, <1>2 DEF Observe
  <2>2. Squares(<<x>>) = <<x * x>>
    BY <1>1 DEF Squares
  <2>3. Weighted(<<x>>) = x /\ Weighted(<<x * x>>) = x * x
    BY <1>1, WeightedFirst
  <2>4. Power(Den, 0) = 1
    BY AlphaAssumption, Powers
  <2>5. StatIsWeighted'
    BY <1>1, <2>1, <2>2, <2>3 DEF StatIsWeighted, First, Squares
  <2>6. stat'.unit = Power(Den, Len(samples') - 1)
    BY <2>1, <2>4 DEF First
  <2> QED BY <2>5, <2>6 DEF WeightedInv
<1>3. CASE samples # <<>>
  <2> DEFINE m == stat.mean
             u == stat.unit
             q == Weighted(Squares(samples))
             c == Den - Num
  <2>1. m = Weighted(samples) /\ stat.var = u * q - m * m /\ u = Power(Den, Len(samples) - 1)
    BY <1>3 DEF WeightedInv, StatIsWeighted, Squares
  <2>2. /\ Weighted(samples') = c * m + Num * u * x
        /\ m \in Int /\ u \in Int
    BY <1>1, <1>3, <2>1, WeightedAppend
  <2>3. /\ Weighted(Squares(samples')) = c * q + Num * u * (x * x)
        /\ q \in Int
    <3>1. /\ Squares(samples) \in Seq(Int) /\ Len(Squares(samples)) = Len(samples)
          /\ Squares(samples') = Append(Squares(samples), x * x)
      BY <1>1, SquaresAppend
    <3>2. Squares(samples) # <<>> /\ x * x \in Int
      BY <1>1, <1>3, <3>1, EmptySeq
    <3> QED BY <2>1, <3>1, <3>2, WeightedAppend
  <2>4. /\ stat'.mean = Den * m + Num * (x * u - m)
        /\ stat'.var = c * (Den * stat.var + Num * ((x * u - m) * (x * u - m)))
        /\ stat'.unit = Den * u
    BY <1>3 DEF Observe, Update, Delta
  <2>5. Num \in Int /\ Den \in Int
    BY AlphaAssumption
  <2> HIDE DEF m, u, q
  <2>6. /\ stat'.mean = c * m + Num * u * x
        /\ stat'.var = (Den * u) * (c * q + Num * u * (x * x))
                       - (c * m + Num * u * x) * (c * m + Num * u * x)
    <3> HIDE DEF c
    <3>1. /\ Den * m + Num * (x * u - m) = c * m + Num * u * x
          /\ c * (Den * (u * q - m * m) + Num * ((x * u - m) * (x * u - m)))
             = (Den * u) * (c * q + Num * u * (x * x)) - (c * m + Num * u * x) * (c * m + Num * u * x)
      BY <1>1, <2>2, <2>3, <2>5, Incremental DEF c
    <3>2. stat.var = u * q - m * m
      BY <2>1
    <3> QED BY <2>4, <3>1, <3>2, Zenon
  <2>7. /\ stat'.mean = Weighted(samples')
        /\ stat'.var = stat'.unit * Weighted(Squares(samples')) - stat'.mean * stat'.mean
    BY <2>2, <2>3, <2>4, <2>6
  <2>8. stat'.unit = Power(Den, Len(samples') - 1)
    <3>1. Len(samples') - 1 = (Len(samples) - 1) + 1 /\ Len(samples) - 1 \in Nat
      BY <1>1, <1>3, EmptySeq
    <3> QED BY <2>1, <2>4, <2>5, <3>1, Powers
  <2> QED BY <2>7, <2>8 DEF WeightedInv, StatIsWeighted, Squares
<1> QED BY <1>2, <1>3

(* RollingStat computes, sample by sample, the weighted mean and variance of
   the whole series, whatever the series and its weights. *)
THEOREM StatisticsAreWeighted == Spec => []StatIsWeighted
<1>1. Init => WeightedInv
  BY SeriesInvInit DEF SeriesInv, WeightedInv, StatIsWeighted, Init
<1>2. WeightedInv /\ [Next]_vars => WeightedInv'
  <2> SUFFICES ASSUME WeightedInv, [Next]_vars PROVE WeightedInv'
    OBVIOUS
  <2>1. TypeOK'
    BY TypeStep DEF WeightedInv
  <2>2. CASE Next
    BY <2>1, <2>2, WeightedStep DEF Next
  <2>3. CASE UNCHANGED vars
    BY <2>1, <2>3 DEF vars, WeightedInv, StatIsWeighted
  <2> QED BY <2>2, <2>3
<1>3. WeightedInv => StatIsWeighted
  BY DEF WeightedInv
<1> QED BY <1>1, <1>2, <1>3, PTL DEF Spec
=============================================================================
