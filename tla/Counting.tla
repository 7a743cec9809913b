------------------------------- MODULE Counting -------------------------------
(***************************************************************************)
(* Induction over the naturals in a form the provers can use, and what it  *)
(* gives of sums: SumFunction folds a set in an order it chooses, and the  *)
(* order does not matter.                                                  *)
(***************************************************************************)
EXTENDS Integers, Sequences, Functions, TLAPS, FiniteSetTheorems, SequenceTheorems,
        WellFoundedInduction

(* A set of naturals that is not empty has a least member. *)
LEMMA LeastOf == ASSUME NEW T \in SUBSET Nat, T # {} PROVE \E n \in T : \A m \in T : n <= m
<1> DEFINE R == {p \in Nat \X Nat : p[1] < p[2]}
<1>1. IsWellFoundedOn(R, Nat)
  BY NatLessThanWellFounded DEF OpToRel
<1>2. PICK n \in T : \A m \in T : <<m, n>> \notin R
  <2> HIDE DEF R
  <2> QED BY <1>1, WFMin
<1>3. \A m \in T : ~(m < n)
  BY <1>2
<1> QED BY <1>3

(* A set with 0 and with the successor of each of its members has every natural. *)
LEMMA Induction == ASSUME NEW S, 0 \in S, \A n \in Nat : n \in S => n + 1 \in S PROVE Nat \subseteq S
<1> SUFFICES ASSUME Nat \ S # {} PROVE FALSE
  OBVIOUS
<1>1. PICK n \in Nat \ S : \A m \in Nat \ S : n <= m
  BY LeastOf
<1>2. n # 0 /\ n - 1 \in Nat
  BY <1>1
<1> QED BY <1>1, <1>2

(* A function of the naturals may be defined by what it is at 0 and by how each
   of its values follows from the one before. *)
Follows(f, base, step) == f[0] = base /\ \A k \in Nat : k # 0 => f[k] = step[<<k, f[k - 1]>>]

(* There is a function for each such definition. *)
LEMMA Recursion ==
  ASSUME NEW S, NEW base \in S, NEW step \in [Nat \X S -> S]
  PROVE  \E f \in [Nat -> S] : Follows(f, base, step)
<1> DEFINE Good(n, g) == g[0] = base /\ \A k \in 1 .. n : g[k] = step[<<k, g[k - 1]>>]
           Reached == {n \in Nat : \E g \in [0 .. n -> S] : Good(n, g)}
<1>1. 0 \in Reached
  <2> DEFINE g == [k \in 0 .. 0 |-> base]
  <2>1. g \in [0 .. 0 -> S] /\ Good(0, g)
    OBVIOUS
  <2> HIDE DEF g, Good
  <2> QED BY <2>1
<1>2. ASSUME NEW n \in Nat, n \in Reached PROVE n + 1 \in Reached
  <2>1. PICK g \in [0 .. n -> S] : Good(n, g)
    BY <1>2
  <2> DEFINE h == [k \in 0 .. n + 1 |-> IF k <= n THEN g[k] ELSE step[<<k, g[k - 1]>>]]
  <2>2. h \in [0 .. n + 1 -> S]
    <3> SUFFICES ASSUME NEW k \in 0 .. n + 1 PROVE h[k] \in S
      OBVIOUS
    <3>1. CASE k <= n
      BY <3>1
    <3>2. CASE k = n + 1
      BY <3>2
    <3> QED BY <3>1, <3>2
  <2>3. Good(n + 1, h)
    <3>1. h[0] = base
      BY <2>1
    <3>2. ASSUME NEW k \in 1 .. n + 1 PROVE h[k] = step[<<k, h[k - 1]>>]
      <4>1. h[k - 1] = g[k - 1]
        OBVIOUS
      <4>2. h[k] = IF k <= n THEN g[k] ELSE step[<<k, g[k - 1]>>]
        OBVIOUS
      <4>3. CASE k <= n
        BY <2>1, <4>1, <4>2, <4>3
      <4>4. CASE ~(k <= n)
        BY <4>1, <4>2, <4>4
      <4> QED BY <4>3, <4>4
    <3> QED BY <3>1, <3>2
  <2> HIDE DEF h, Good
  <2> QED BY <2>2, <2>3
<1>3. \A n \in Nat : \E g \in [0 .. n -> S] : Good(n, g)
  <2> HIDE DEF Reached
  <2>1. Nat \subseteq Reached
    BY <1>1, <1>2, Induction
  <2> QED BY <2>1 DEF Reached
<1>4. ASSUME NEW n \in Nat, NEW m \in Nat, NEW g, NEW h, Good(n, g), Good(m, h), n <= m
      PROVE  g[n] = h[n]
  <2> DEFINE Same == {k \in Nat : k <= n => g[k] = h[k]}
  <2>1. 0 \in Same
    BY <1>4
  <2>2. ASSUME NEW k \in Nat, k \in Same PROVE k + 1 \in Same
    <3> SUFFICES ASSUME k + 1 <= n PROVE g[k + 1] = h[k + 1]
      OBVIOUS
    <3>1. g[k] = h[k]
      BY <2>2
    <3>2. k + 1 \in 1 .. n /\ k + 1 \in 1 .. m /\ (k + 1) - 1 = k
      BY <1>4
    <3>3. g[k + 1] = step[<<k + 1, g[k]>>]
      BY <1>4, <3>2
    <3>4. h[k + 1] = step[<<k + 1, h[k]>>]
      BY <1>4, <3>2
    <3> QED BY <3>1, <3>3, <3>4
  <2> HIDE DEF Same
  <2>3. n \in Same
    BY <2>1, <2>2, Induction
  <2> QED BY <2>3 DEF Same
<1> DEFINE part(n) == CHOOSE g \in [0 .. n -> S] : Good(n, g)
           f == [n \in Nat |-> part(n)[n]]
<1>5. \A n \in Nat : part(n) \in [0 .. n -> S] /\ Good(n, part(n))
  <2> HIDE DEF Good
  <2> QED BY <1>3
<1> HIDE DEF part
<1>6. f \in [Nat -> S]
  BY <1>5
<1>7. f[0] = base
  BY <1>5
<1>8. ASSUME NEW n \in Nat, n # 0 PROVE f[n] = step[<<n, f[n - 1]>>]
  <2>1. n - 1 \in Nat /\ n - 1 <= n /\ n \in 1 .. n
    BY <1>8
  <2>2. f[n] = part(n)[n] /\ f[n - 1] = part(n - 1)[n - 1]
    BY <2>1
  <2>3. part(n)[n] = step[<<n, part(n)[n - 1]>>]
    BY <1>5, <2>1
  <2>4. part(n)[n - 1] = part(n - 1)[n - 1]
    <3>1. Good(n, part(n)) /\ Good(n - 1, part(n - 1))
      BY <1>5, <2>1
    <3> HIDE DEF Good
    <3> QED BY <1>4, <2>1, <3>1
  <2> QED BY <2>2, <2>3, <2>4
<1> HIDE DEF f
<1> QED BY <1>6, <1>7, <1>8 DEF Follows

-----------------------------------------------------------------------------
(* Orders *)

(* The image of a finite set is finite. *)
LEMMA ImageIsFinite == ASSUME NEW S, IsFiniteSet(S), NEW f PROVE IsFiniteSet({f[x] : x \in S})
<1> DEFINE T == {f[x] : x \in S}
           g == [x \in S |-> f[x]]
<1>1. g \in Surjection(S, T)
  BY DEF Surjection
<1> HIDE DEF g, T
<1>2. IsFiniteSet(T)
  BY <1>1, FS_Surjection
<1> QED BY <1>2 DEF T

(* A member taken from a finite set leaves one with one member less. *)
LEMMA OneLess ==
  ASSUME NEW S, IsFiniteSet(S), S # {}, NEW x \in S
  PROVE  /\ IsFiniteSet(S \ {x}) /\ Cardinality(S \ {x}) = Cardinality(S) - 1
         /\ Cardinality(S) \in Nat \ {0} /\ Cardinality(S \ {x}) \in Nat
<1>1. IsFiniteSet(S \ {x}) /\ Cardinality(S \ {x}) = Cardinality(S) - 1
  BY FS_RemoveElement
<1>2. Cardinality(S) \in Nat /\ Cardinality(S \ {x}) \in Nat
  BY <1>1, FS_CardinalityType
<1> QED BY <1>1, <1>2

(* A finite set whose members have different keys can be listed by them. *)
InOrderOf(key, s) == \A j, k \in DOMAIN s : j < k => key[s[j]] < key[s[k]]

(* Such a list: the smallest key is put first, and the rest listed. *)
LEMMA ListedByKey ==
  ASSUME NEW S, IsFiniteSet(S), NEW key \in [S -> Nat], \A x, y \in S : key[x] = key[y] => x = y
  PROVE  \E s \in [1 .. Cardinality(S) -> S] : Range(s) = S /\ InOrderOf(key, s)
<1> DEFINE Lists(s, T) == s \in [1 .. Cardinality(T) -> T] /\ Range(s) = T /\ InOrderOf(key, s)
           Listable == {n \in Nat : \A T \in SUBSET S : Cardinality(T) = n => \E s : Lists(s, T)}
<1>1. \A T \in SUBSET S : IsFiniteSet(T) /\ Cardinality(T) \in Nat
  BY FS_Subset, FS_CardinalityType
<1>2. 0 \in Listable
  <2> SUFFICES ASSUME NEW T \in SUBSET S, Cardinality(T) = 0 PROVE \E s : Lists(s, T)
    OBVIOUS
  <2> DEFINE s == [k \in 1 .. 0 |-> key]
  <2>1. T = {} /\ 1 .. 0 = {}
    BY <1>1, FS_EmptySet
  <2>2. s \in [1 .. Cardinality(T) -> T] /\ Range(s) = T
    BY <2>1 DEF Range
  <2>3. InOrderOf(key, s)
    BY DEF InOrderOf
  <2> HIDE DEF s
  <2> QED BY <2>2, <2>3
<1>3. ASSUME NEW n \in Nat, n \in Listable PROVE n + 1 \in Listable
  <2> SUFFICES ASSUME NEW T \in SUBSET S, Cardinality(T) = n + 1 PROVE \E s : Lists(s, T)
    OBVIOUS
  <2>1. PICK m \in T : \A x \in T : key[m] <= key[x]
    <3> DEFINE keys == {key[x] : x \in T}
    <3>1. keys \in SUBSET Nat /\ keys # {}
      BY FS_EmptySet
    <3> HIDE DEF keys
    <3>2. PICK k \in keys : \A j \in keys : k <= j
      BY <3>1, LeastOf
    <3> QED BY <3>2 DEF keys
  <2> DEFINE R == T \ {m}
  <2>2. R \in SUBSET S /\ Cardinality(R) = n /\ T # {}
    <3>1. IsFiniteSet(T) /\ T # {}
      BY <1>1, FS_EmptySet
    <3>2. Cardinality(R) = Cardinality(T) - 1
      BY <2>1, <3>1, OneLess
    <3> QED BY <3>1, <3>2
  <2>3. PICK t : Lists(t, R)
    <3> HIDE DEF Lists, R
    <3> QED BY <1>3, <2>2
  <2> DEFINE s == [k \in 1 .. n + 1 |-> IF k = 1 THEN m ELSE t[k - 1]]
  <2>4. t \in [1 .. n -> R] /\ Range(t) = R /\ InOrderOf(key, t)
    BY <2>2, <2>3
  <2>5. s[1] = m /\ \A k \in 2 .. n + 1 : s[k] = t[k - 1] /\ k - 1 \in 1 .. n
    OBVIOUS
  <2>6. DOMAIN s = 1 .. n + 1 /\ \A k \in 1 .. n + 1 : k = 1 \/ k \in 2 .. n + 1
    OBVIOUS
  <2> HIDE DEF s
  <2>7. \A k \in 1 .. n + 1 : s[k] \in T
    BY <2>4, <2>5, <2>6
  <2>8. s \in [1 .. Cardinality(T) -> T]
    <3>1. s = [k \in 1 .. n + 1 |-> s[k]]
      BY DEF s
    <3> QED BY <2>7, <3>1
  <2>9. \A x \in T : \E k \in 1 .. n + 1 : s[k] = x
    <3> SUFFICES ASSUME NEW x \in T, x # m PROVE \E k \in 1 .. n + 1 : s[k] = x
      BY <2>5
    <3>1. PICK k \in 1 .. n : t[k] = x
      BY <2>4 DEF Range
    <3>2. k + 1 \in 2 .. n + 1 /\ (k + 1) - 1 = k
      OBVIOUS
    <3> QED BY <2>5, <3>1, <3>2
  <2>10. Range(s) = T
    BY <2>6, <2>7, <2>9 DEF Range
  <2>11. InOrderOf(key, s)
    <3> SUFFICES ASSUME NEW j \in 1 .. n + 1, NEW k \in 1 .. n + 1, j < k PROVE key[s[j]] < key[s[k]]
      BY <2>6 DEF InOrderOf
    <3>1. k \in 2 .. n + 1 /\ s[k] = t[k - 1] /\ k - 1 \in 1 .. n
      BY <2>5
    <3>2. CASE j = 1
      <4>1. t[k - 1] \in R /\ key[m] \in Nat /\ key[t[k - 1]] \in Nat
        BY <2>4, <3>1
      <4>2. key[m] # key[t[k - 1]]
        BY <4>1
      <4> QED BY <2>1, <2>5, <3>1, <3>2, <4>1, <4>2
    <3>3. CASE j # 1
      <4>1. j \in 2 .. n + 1
        BY <3>3
      <4>2. s[j] = t[j - 1] /\ j - 1 \in 1 .. n /\ j - 1 < k - 1 /\ DOMAIN t = 1 .. n
        BY <2>4, <2>5, <4>1
      <4> QED BY <2>4, <3>1, <4>2 DEF InOrderOf
    <3> QED BY <3>2, <3>3
  <2> QED BY <2>8, <2>10, <2>11
<1> HIDE DEF Listable
<1>4. Cardinality(S) \in Listable
  BY <1>1, <1>2, <1>3, Induction
<1>5. \E s : Lists(s, S)
  <2> HIDE DEF Lists
  <2> QED BY <1>4 DEF Listable
<1> QED BY <1>5

-----------------------------------------------------------------------------
(* Sums *)

(* The member a fold takes first, and the recursion by which it goes through
   the subsets of S. *)
Pick(s) == CHOOSE x \in s : TRUE

FoldsOver(f, S, iter) ==
  iter = [s \in SUBSET S |-> IF s = {} THEN 0 ELSE f[Pick(s)] + iter[s \ {Pick(s)}]]

(* A sum is the value at the set of the recursion CHOOSE picks. *)
LEMMA SumIsFold ==
  ASSUME NEW f, NEW S PROVE SumFunctionOnSet(f, S) = (CHOOSE iter : FoldsOver(f, S, iter))[S]
BY DEF SumFunctionOnSet, FoldFunctionOnSet, MapThenFoldSet, FoldsOver, Pick

(* What is picked is of the set. *)
LEMMA PickIn == ASSUME NEW s, s # {} PROVE Pick(s) \in s
BY DEF Pick

(* There is such a recursion. *)
LEMMA FoldExists == ASSUME NEW f, NEW S, IsFiniteSet(S) PROVE \E iter : FoldsOver(f, S, iter)
<1> DEFINE Small(n) == {s \in SUBSET S : Cardinality(s) <= n}
           Unfolded(it, s) == IF s = {} THEN 0 ELSE f[Pick(s)] + it[s \ {Pick(s)}]
           Partial == {n \in Nat : \E it : it = [s \in Small(n) |-> Unfolded(it, s)]}
<1>1. \A s \in SUBSET S : IsFiniteSet(s) /\ Cardinality(s) \in Nat /\ Cardinality(s) <= Cardinality(S)
  BY FS_Subset, FS_CardinalityType
<1>2. \A s \in SUBSET S : s # {} =>
        /\ s \ {Pick(s)} \in SUBSET S
        /\ Cardinality(s \ {Pick(s)}) = Cardinality(s) - 1
  BY <1>1, PickIn, OneLess
<1>3. 0 \in Partial
  <2> DEFINE it == [s \in Small(0) |-> 0]
  <2>1. \A s \in Small(0) : s = {}
    BY <1>1, FS_EmptySet
  <2>2. it = [s \in Small(0) |-> Unfolded(it, s)]
    BY <2>1
  <2> QED BY <2>2
<1>4. ASSUME NEW n \in Nat, n \in Partial PROVE n + 1 \in Partial
  <2>1. PICK it : it = [s \in Small(n) |-> Unfolded(it, s)]
    BY <1>4
  <2> DEFINE more == [s \in Small(n + 1) |-> Unfolded(it, s)]
  <2>2. \A s \in Small(n) : s \in Small(n + 1) /\ more[s] = it[s]
    <3> SUFFICES ASSUME NEW s \in Small(n) PROVE s \in Small(n + 1) /\ more[s] = it[s]
      OBVIOUS
    <3>1. s \in Small(n + 1)
      BY <1>1
    <3>2. it[s] = Unfolded(it, s)
      <4> HIDE DEF Unfolded, Small
      <4> QED BY <2>1
    <3>3. more[s] = Unfolded(it, s)
      <4> HIDE DEF Unfolded, Small
      <4> QED BY <3>1
    <3> QED BY <3>1, <3>2, <3>3
  <2>3. \A s \in Small(n + 1) : s # {} => s \ {Pick(s)} \in Small(n)
    <3> SUFFICES ASSUME NEW s \in Small(n + 1), s # {} PROVE s \ {Pick(s)} \in Small(n)
      OBVIOUS
    <3>1. Cardinality(s) \in Nat /\ Cardinality(s) <= n + 1
      BY <1>1
    <3>2. s \ {Pick(s)} \in SUBSET S /\ Cardinality(s \ {Pick(s)}) = Cardinality(s) - 1
      BY <1>2
    <3> QED BY <3>1, <3>2
  <2>4. \A s \in Small(n + 1) : Unfolded(it, s) = Unfolded(more, s)
    BY <2>2, <2>3
  <2>5. more = [s \in Small(n + 1) |-> Unfolded(more, s)]
    <3> HIDE DEF Unfolded
    <3> QED BY <2>4
  <2> HIDE DEF more, Unfolded, Small
  <2> QED BY <2>5
<1>5. Cardinality(S) \in Partial
  <2> HIDE DEF Partial
  <2>1. Nat \subseteq Partial
    BY <1>3, <1>4, Induction
  <2>2. Cardinality(S) \in Nat
    BY <1>1
  <2> QED BY <2>1, <2>2
<1>6. Small(Cardinality(S)) = SUBSET S
  BY <1>1
<1> QED BY <1>5, <1>6 DEF FoldsOver

(* It looks at the members of the set only. *)
LEMMA FoldsAgree ==
  ASSUME NEW f, NEW g, NEW S, NEW R, NEW i, NEW j, FoldsOver(f, S, i), FoldsOver(g, R, j),
         NEW s \in SUBSET S, s \subseteq R, IsFiniteSet(s), \A x \in s : f[x] = g[x]
  PROVE  i[s] = j[s]
<1> DEFINE Agreed == {n \in Nat : \A t \in SUBSET s : Cardinality(t) = n => i[t] = j[t]}
<1>1. \A t \in SUBSET s : IsFiniteSet(t) /\ Cardinality(t) \in Nat
  BY FS_Subset, FS_CardinalityType
<1>2. 0 \in Agreed
  BY <1>1, FS_EmptySet DEF FoldsOver
<1>3. ASSUME NEW n \in Nat, n \in Agreed PROVE n + 1 \in Agreed
  <2> SUFFICES ASSUME NEW t \in SUBSET s, Cardinality(t) = n + 1 PROVE i[t] = j[t]
    OBVIOUS
  <2>1. t # {}
    BY FS_EmptySet
  <2> DEFINE c == Pick(t)
  <2>2. c \in t
    BY <2>1, PickIn
  <2>3. Cardinality(t \ {c}) = n /\ t \ {c} \in SUBSET s
    BY <1>1, <2>1, <2>2, OneLess
  <2>4. i[t] = f[c] + i[t \ {c}] /\ j[t] = g[c] + j[t \ {c}]
    <3>1. t \in SUBSET S /\ t \in SUBSET R
      OBVIOUS
    <3> QED BY <2>1, <3>1 DEF FoldsOver
  <2> QED BY <1>3, <2>2, <2>3, <2>4
<1> HIDE DEF Agreed
<1>4. Nat \subseteq Agreed
  BY <1>2, <1>3, Induction
<1>5. Cardinality(s) \in Agreed
  BY <1>1, <1>4
<1> QED BY <1>5 DEF Agreed

(* The sum over a finite set starts with any of its members, and looks at the
   function there only. *)
LEMMA SumSame ==
  ASSUME NEW S, IsFiniteSet(S), NEW f, NEW g, \A x \in S : f[x] = g[x]
  PROVE  SumFunctionOnSet(f, S) = SumFunctionOnSet(g, S)
<1> DEFINE i == CHOOSE iter : FoldsOver(f, S, iter)
           j == CHOOSE iter : FoldsOver(g, S, iter)
<1>1. FoldsOver(f, S, i) /\ FoldsOver(g, S, j)
  BY FoldExists
<1> HIDE DEF i, j
<1>2. i[S] = j[S]
  BY <1>1, FoldsAgree
<1> QED BY <1>2, SumIsFold DEF i, j

(* A sum is the term picked first and the sum of the others. *)
LEMMA SumPicks ==
  ASSUME NEW S, IsFiniteSet(S), NEW f
  PROVE  /\ S = {} => SumFunctionOnSet(f, S) = 0
         /\ S # {} => SumFunctionOnSet(f, S) = f[Pick(S)] + SumFunctionOnSet(f, S \ {Pick(S)})
<1> DEFINE less == S \ {Pick(S)}
           i == CHOOSE iter : FoldsOver(f, S, iter)
           j == CHOOSE iter : FoldsOver(f, less, iter)
<1>1. FoldsOver(f, S, i) /\ FoldsOver(f, less, j) /\ IsFiniteSet(less)
  BY FoldExists, FS_Subset
<1>2. i[S] = SumFunctionOnSet(f, S) /\ j[less] = SumFunctionOnSet(f, less)
  BY SumIsFold
<1> HIDE DEF i, j
<1>3. i[less] = j[less]
  BY <1>1, FoldsAgree
<1>4. i[S] = IF S = {} THEN 0 ELSE f[Pick(S)] + i[less]
  BY <1>1 DEF FoldsOver
<1> QED BY <1>2, <1>3, <1>4

(* An empty sum is 0. *)
LEMMA SumEmpty == ASSUME NEW f PROVE SumFunctionOnSet(f, {}) = 0
BY SumPicks, FS_EmptySet

(* Any term may be taken out of a sum, not only the one picked first. *)
LEMMA SumTakes ==
  ASSUME NEW S, IsFiniteSet(S), NEW f, \A x \in S : f[x] \in Int
  PROVE  /\ SumFunctionOnSet(f, S) \in Int
         /\ \A x \in S : SumFunctionOnSet(f, S) = f[x] + SumFunctionOnSet(f, S \ {x})
<1> DEFINE Sum(s) == SumFunctionOnSet(f, s)
           Whole(s) == /\ Sum(s) \in Int
                       /\ \A x \in s : Sum(s \ {x}) \in Int /\ Sum(s) = f[x] + Sum(s \ {x})
           Known == {n \in Nat : \A s \in SUBSET S : Cardinality(s) = n => Whole(s)}
<1>1. \A s \in SUBSET S : IsFiniteSet(s) /\ Cardinality(s) \in Nat
  BY FS_Subset, FS_CardinalityType
<1>2. 0 \in Known
  <2>1. \A s \in SUBSET S : Cardinality(s) = 0 => s = {}
    BY <1>1, FS_EmptySet
  <2>2. Whole({})
    BY SumEmpty
  <2> HIDE DEF Whole
  <2> QED BY <2>1, <2>2
<1>3. ASSUME NEW n \in Nat, n \in Known PROVE n + 1 \in Known
  <2> SUFFICES ASSUME NEW s \in SUBSET S, Cardinality(s) = n + 1 PROVE Whole(s)
    OBVIOUS
  <2> DEFINE c == Pick(s)
  <2>1. s # {} /\ c \in s /\ f[c] \in Int
    BY FS_EmptySet, PickIn
  <2>2. Sum(s) = f[c] + Sum(s \ {c})
    BY <1>1, <2>1, SumPicks
  <2>3. \A x \in s : s \ {x} \in SUBSET S /\ Cardinality(s \ {x}) = n
    BY <1>1, <2>1, OneLess
  <2>4. \A x \in s : Whole(s \ {x})
    BY <1>3, <2>3
  <2>5. \A x \in s : f[x] \in Int
    OBVIOUS
  <2> HIDE DEF c
  <2>6. ASSUME NEW x \in s PROVE Sum(s) = f[x] + Sum(s \ {x})
    <3>1. CASE x = c
      BY <2>2, <3>1
    <3>2. CASE x # c
      <4>1. Sum(s \ {c}) = f[x] + Sum((s \ {c}) \ {x})
        BY <2>1, <2>4, <3>2
      <4>2. Sum(s \ {x}) = f[c] + Sum((s \ {x}) \ {c})
        BY <2>1, <2>4, <3>2
      <4>3. (s \ {c}) \ {x} = (s \ {x}) \ {c}
        OBVIOUS
      <4>4. Sum(s \ {c}) \in Int /\ Sum(s \ {x}) \in Int
        BY <2>1, <2>4
      <4>5. f[x] \in Int /\ f[c] \in Int
        BY <2>1, <2>5
      <4> DEFINE rest == Sum((s \ {c}) \ {x})
      <4>6. Sum(s) = f[c] + (f[x] + rest) /\ Sum(s \ {x}) = f[c] + rest
        BY <2>2, <4>1, <4>2, <4>3
      <4>7. rest \in Int
        BY <2>1, <2>4, <3>2
      <4> HIDE DEF rest, Sum
      <4> QED BY <4>5, <4>6, <4>7
    <3> QED BY <3>1, <3>2
  <2>7. Sum(s) \in Int
    BY <2>1, <2>2, <2>4
  <2> QED BY <2>4, <2>6, <2>7
<1> HIDE DEF Known
<1>4. Cardinality(S) \in Known
  BY <1>1, <1>2, <1>3, Induction
<1> QED BY <1>4 DEF Known

(* A sum over one more member has one more term. *)
LEMMA SumAdds ==
  ASSUME NEW S, IsFiniteSet(S), NEW f, NEW x, x \notin S, \A y \in S \cup {x} : f[y] \in Int
  PROVE  SumFunctionOnSet(f, S \cup {x}) = SumFunctionOnSet(f, S) + f[x]
<1> DEFINE more == S \cup {x}
<1>1. IsFiniteSet(more) /\ x \in more /\ \A y \in more : f[y] \in Int
  BY FS_AddElement
<1>2. more \ {x} = S
  OBVIOUS
<1> HIDE DEF more
<1>3. SumFunctionOnSet(f, more) = f[x] + SumFunctionOnSet(f, S)
  BY <1>1, <1>2, SumTakes
<1>4. SumFunctionOnSet(f, S) \in Int
  BY SumTakes
<1>5. f[x] \in Int
  OBVIOUS
<1> QED BY <1>3, <1>4, <1>5 DEF more

(* A sum grows with its terms. *)
LEMMA SumGrows ==
  ASSUME NEW S, IsFiniteSet(S), NEW f, NEW g,
         \A x \in S : f[x] \in Int /\ g[x] \in Int /\ f[x] <= g[x]
  PROVE  SumFunctionOnSet(f, S) <= SumFunctionOnSet(g, S)
<1> DEFINE Below == {n \in Nat : \A s \in SUBSET S : Cardinality(s) = n =>
                                   SumFunctionOnSet(f, s) <= SumFunctionOnSet(g, s)}
<1>1. \A s \in SUBSET S : IsFiniteSet(s) /\ Cardinality(s) \in Nat
  BY FS_Subset, FS_CardinalityType
<1>2. 0 \in Below
  <2>1. \A s \in SUBSET S : Cardinality(s) = 0 => s = {}
    BY <1>1, FS_EmptySet
  <2> QED BY <2>1, SumEmpty
<1>3. ASSUME NEW n \in Nat, n \in Below PROVE n + 1 \in Below
  <2> SUFFICES ASSUME NEW s \in SUBSET S, Cardinality(s) = n + 1
               PROVE  SumFunctionOnSet(f, s) <= SumFunctionOnSet(g, s)
    OBVIOUS
  <2>1. PICK x \in s : TRUE
    BY FS_EmptySet
  <2> DEFINE rest == s \ {x}
  <2>2. rest \in SUBSET S /\ Cardinality(rest) = n
    BY <1>1, <2>1, OneLess
  <2>3. SumFunctionOnSet(f, s) = f[x] + SumFunctionOnSet(f, rest)
    BY <1>1, SumTakes
  <2>4. SumFunctionOnSet(g, s) = g[x] + SumFunctionOnSet(g, rest)
    BY <1>1, SumTakes
  <2>5. SumFunctionOnSet(f, rest) \in Int /\ SumFunctionOnSet(g, rest) \in Int
    BY <1>1, <2>2, SumTakes
  <2>6. SumFunctionOnSet(f, rest) <= SumFunctionOnSet(g, rest)
    BY <1>3, <2>2
  <2> HIDE DEF rest
  <2> QED BY <2>3, <2>4, <2>5, <2>6
<1> HIDE DEF Below
<1>4. Cardinality(S) \in Below
  BY <1>1, <1>2, <1>3, Induction
<1> QED BY <1>4 DEF Below

(* A common factor may be taken out of a sum. *)
LEMMA SumScales ==
  ASSUME NEW S, IsFiniteSet(S), NEW f, NEW c \in Int, \A x \in S : f[x] \in Int
  PROVE  SumFunctionOnSet([x \in S |-> c * f[x]], S) = c * SumFunctionOnSet(f, S)
<1> DEFINE g == [x \in S |-> c * f[x]]
           Scaled == {n \in Nat : \A s \in SUBSET S : Cardinality(s) = n =>
                                    SumFunctionOnSet(g, s) = c * SumFunctionOnSet(f, s)}
<1>5. \A x \in S : g[x] \in Int /\ g[x] = c * f[x]
  OBVIOUS
<1> HIDE DEF g
<1>1. \A s \in SUBSET S : IsFiniteSet(s) /\ Cardinality(s) \in Nat
  BY FS_Subset, FS_CardinalityType
<1>2. 0 \in Scaled
  <2>1. \A s \in SUBSET S : Cardinality(s) = 0 => s = {}
    BY <1>1, FS_EmptySet
  <2>2. c * 0 = 0
    OBVIOUS
  <2> QED BY <2>1, <2>2, SumEmpty
<1>3. ASSUME NEW n \in Nat, n \in Scaled PROVE n + 1 \in Scaled
  <2> SUFFICES ASSUME NEW s \in SUBSET S, Cardinality(s) = n + 1
               PROVE  SumFunctionOnSet(g, s) = c * SumFunctionOnSet(f, s)
    OBVIOUS
  <2>1. PICK x \in s : TRUE
    BY FS_EmptySet
  <2> DEFINE rest == s \ {x}
  <2>2. rest \in SUBSET S /\ Cardinality(rest) = n
    BY <1>1, <2>1, OneLess
  <2>3. SumFunctionOnSet(f, s) = f[x] + SumFunctionOnSet(f, rest)
    BY <1>1, SumTakes
  <2>4. SumFunctionOnSet(g, s) = g[x] + SumFunctionOnSet(g, rest)
    <3>1. \A y \in s : g[y] \in Int
      BY <1>5
    <3> QED BY <1>1, <3>1, SumTakes
  <2>5. SumFunctionOnSet(f, rest) \in Int
    BY <1>1, <2>2, SumTakes
  <2>6. SumFunctionOnSet(g, rest) = c * SumFunctionOnSet(f, rest)
    BY <1>3, <2>2
  <2>7. f[x] \in Int /\ g[x] = c * f[x]
    BY <1>5
  <2> HIDE DEF rest
  <2> QED BY <2>3, <2>4, <2>5, <2>6, <2>7
<1> HIDE DEF Scaled
<1>4. Cardinality(S) \in Scaled
  BY <1>1, <1>2, <1>3, Induction
<1> QED BY <1>4 DEF Scaled, g

-----------------------------------------------------------------------------
(* Sums of sequences *)

(* A function over the first naturals is a sequence. *)
LEMMA IsSequence ==
  ASSUME NEW S, NEW n \in Nat, NEW f \in [1 .. n -> S]
  PROVE  f \in Seq(S) /\ Len(f) = n
<1>1. f \in Seq(S)
  BY SeqDef
<1>2. DOMAIN f = 1 .. n /\ DOMAIN f = 1 .. Len(f) /\ Len(f) \in Nat
  BY <1>1, LenProperties
<1> QED BY <1>1, <1>2

(* The sum of a sequence with one more element. *)
LEMMA SumAppend ==
  ASSUME NEW s \in Seq(Int), NEW e \in Int
  PROVE  SumFunction(Append(s, e)) = SumFunction(s) + e /\ SumFunction(s) \in Int
<1> DEFINE t == Append(s, e)
           n == Len(s) + 1
<1>1. DOMAIN t = DOMAIN s \cup {n} /\ n \notin DOMAIN s /\ t[n] = e
  OBVIOUS
<1>2. \A k \in DOMAIN s : s[k] \in Int /\ t[k] = s[k]
  OBVIOUS
<1>3. IsFiniteSet(DOMAIN s)
  BY FS_Interval
<1> HIDE DEF t, n
<1>4. SumFunctionOnSet(t, DOMAIN s \cup {n}) = SumFunctionOnSet(t, DOMAIN s) + t[n]
  BY <1>1, <1>2, <1>3, SumAdds
<1>5. SumFunctionOnSet(t, DOMAIN s) = SumFunctionOnSet(s, DOMAIN s)
  BY <1>2, <1>3, SumSame
<1>6. SumFunctionOnSet(s, DOMAIN s) \in Int
  BY <1>2, <1>3, SumTakes
<1> QED BY <1>1, <1>4, <1>5, <1>6 DEF SumFunction, t

(* The tail of a sequence with one more element has that element too. *)
LEMMA TailOfAppend ==
  ASSUME NEW S, NEW s \in Seq(S), s # <<>>, NEW e \in S
  PROVE  Tail(Append(s, e)) = Append(Tail(s), e)
<1> DEFINE t == Append(s, e)
           v == Tail(s)
           u == Append(v, e)
<1>1. /\ t \in Seq(S) /\ Len(t) = Len(s) + 1 /\ t[Len(s) + 1] = e
      /\ \A k \in 1 .. Len(s) : t[k] = s[k]
      /\ Len(s) \in Nat \ {0}
  BY EmptySeq
<1>2. v \in Seq(S) /\ Len(v) = Len(s) - 1 /\ \A k \in 1 .. Len(s) - 1 : v[k] = s[k + 1]
  BY <1>1, HeadTailProperties
<1> HIDE DEF t, v
<1>3. t # <<>>
  BY <1>1, EmptySeq
<1>4. Tail(t) \in Seq(S) /\ Len(Tail(t)) = Len(s) /\ \A k \in 1 .. Len(s) : Tail(t)[k] = t[k + 1]
  BY <1>1, <1>3, HeadTailProperties
<1>5. u \in Seq(S) /\ Len(u) = Len(s) /\ \A k \in 1 .. Len(s) : u[k] = t[k + 1]
  <2>1. /\ u \in Seq(S) /\ Len(u) = Len(v) + 1 /\ u[Len(v) + 1] = e
        /\ \A k \in 1 .. Len(v) : u[k] = v[k]
    BY <1>2
  <2>2. \A k \in 1 .. Len(s) - 1 : v[k] = t[k + 1]
    BY <1>1, <1>2
  <2> HIDE DEF u
  <2> QED BY <1>1, <1>2, <2>1, <2>2
<1> HIDE DEF u
<1>6. Tail(t) = u
  BY <1>4, <1>5, SeqEqual
<1> QED BY <1>6 DEF t, u, v

(* The sum of a sequence is its head and the sum of its tail. *)
LEMMA SumTail ==
  ASSUME NEW s \in Seq(Int), s # <<>>
  PROVE  SumFunction(s) = s[1] + SumFunction(Tail(s)) /\ SumFunction(Tail(s)) \in Int
<1> DEFINE Whole(t) == SumFunction(t) = t[1] + SumFunction(Tail(t))
           Known == {n \in Nat : \A t \in Seq(Int) : Len(t) = n + 1 => Whole(t)}
<1>1. \A t \in Seq(Int) : SumFunction(t) \in Int /\ (t # <<>> => Tail(t) \in Seq(Int) /\ t[1] \in Int)
  BY SumAppend, HeadTailProperties, EmptySeq
<1>2. ASSUME NEW t \in Seq(Int), NEW e \in Int, t = <<>> \/ Whole(t) PROVE Whole(Append(t, e))
  <2>1. SumFunction(Append(t, e)) = SumFunction(t) + e /\ SumFunction(t) \in Int
    BY SumAppend
  <2>2. CASE t = <<>>
    <3>1. Append(t, e)[1] = e /\ Tail(Append(t, e)) = <<>>
      BY <2>2
    <3>2. SumFunction(<<>>) \in Int
      BY <1>1, EmptySeq
    <3> QED BY <2>1, <2>2, <3>1, <3>2
  <2>3. CASE t # <<>>
    <3>1. Append(t, e)[1] = t[1]
      BY <2>3, EmptySeq
    <3>2. SumFunction(Tail(Append(t, e))) = SumFunction(Tail(t)) + e
      <4>1. Tail(Append(t, e)) = Append(Tail(t), e)
        BY <2>3, TailOfAppend
      <4> QED BY <1>1, <2>3, <4>1, SumAppend
    <3>3. SumFunction(Tail(t)) \in Int /\ t[1] \in Int
      BY <1>1, <2>3
    <3>4. SumFunction(t) = t[1] + SumFunction(Tail(t))
      BY <1>2, <2>3
    <3> QED BY <2>1, <3>1, <3>2, <3>3, <3>4
  <2> QED BY <2>2, <2>3
<1>3. ASSUME NEW n \in Nat, n = 0 \/ n - 1 \in Known PROVE n \in Known
  <2> SUFFICES ASSUME NEW t \in Seq(Int), Len(t) = n + 1 PROVE Whole(t)
    OBVIOUS
  <2>1. PICK front \in Seq(Int), e \in Int : t = Append(front, e)
    <3>1. t # <<>>
      BY EmptySeq
    <3> QED BY <3>1, SequenceEmptyOrAppend
  <2>2. Len(front) = n
    BY <2>1
  <2>3. front = <<>> \/ Whole(front)
    <3>1. CASE n = 0
      BY <2>2, <3>1, EmptySeq
    <3>2. CASE n # 0
      BY <1>3, <2>2, <3>2
    <3> QED BY <3>1, <3>2
  <2> HIDE DEF Whole
  <2> QED BY <1>2, <2>1, <2>3
<1> HIDE DEF Known
<1>4. Nat \subseteq Known
  <2>1. 0 \in Known /\ \A n \in Nat : n \in Known => n + 1 \in Known
    BY <1>3
  <2> QED BY <2>1, Induction
<1>5. Len(s) - 1 \in Nat /\ Len(s) = (Len(s) - 1) + 1
  BY EmptySeq
<1>6. Whole(s)
  BY <1>4, <1>5 DEF Known
<1> QED BY <1>1, <1>6
=============================================================================
