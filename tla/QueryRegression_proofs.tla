------------------------ MODULE QueryRegression_proofs ------------------------
(***************************************************************************)
(* Proofs about QueryRegression, for every workload, every size of the     *)
(* baseline and of the history, and every number and kind of upsets,       *)
(* periods and shifts.                                                     *)
(***************************************************************************)
EXTENDS QueryRegression, FiniteSetTheorems, SequenceTheorems, NaturalsInduction,
        WellFoundedInduction, TLAPS

(***************************************************************************)
(* The median of a sequence in which one value has the majority is that    *)
(* value, and the median absolute deviation is then zero.                  *)
(***************************************************************************)
Places(s, u) == {i \in DOMAIN s : s[i] = u}

LEMMA PlacesFinite ==
  ASSUME NEW s \in Seq(Nat), NEW S, S \subseteq DOMAIN s
  PROVE  IsFiniteSet(S) /\ Cardinality(S) \in Nat /\ Cardinality(S) <= Len(s)
<1>1. DOMAIN s = 1..Len(s) /\ Len(s) \in Nat
  OBVIOUS
<1>2. IsFiniteSet(1..Len(s)) /\ Cardinality(1..Len(s)) = Len(s)
  <2>1. Cardinality(1..Len(s)) = IF 1 > Len(s) THEN 0 ELSE Len(s) - 1 + 1
    BY <1>1, FS_Interval
  <2>2. IsFiniteSet(1..Len(s))
    BY <1>1, FS_Interval
  <2>3. Len(s) = IF 1 > Len(s) THEN 0 ELSE Len(s) - 1 + 1
    BY <1>1
  <2> QED BY <2>1, <2>2, <2>3
<1> QED BY <1>1, <1>2, FS_Subset, FS_CardinalityType

LEMMA KthOfMajority ==
  ASSUME NEW s \in Seq(Nat), NEW u \in Nat, NEW k \in Nat,
         Len(s) - Cardinality(Places(s, u)) < k, k <= Cardinality(Places(s, u))
  PROVE  Kth(s, k) = u
<1> DEFINE Less(x) == {i \in DOMAIN s : s[i] < x}
           Most(x) == {i \in DOMAIN s : s[i] <= x}
<1>1. \A i \in DOMAIN s : s[i] \in Nat
  OBVIOUS
<1>2. \A S \in SUBSET DOMAIN s :
         IsFiniteSet(S) /\ Cardinality(S) \in Nat /\ Cardinality(S) <= Len(s)
  BY PlacesFinite
<1>3. Places(s, u) \in SUBSET DOMAIN s
  BY DEF Places
<1>4. Cardinality(Less(u)) < k
  <2>1. Less(u) \in SUBSET DOMAIN s
    OBVIOUS
  <2>2. Less(u) \cap Places(s, u) = {}
    BY <1>1 DEF Places
  <2>3. Cardinality(Less(u) \cup Places(s, u)) = Cardinality(Less(u)) + Cardinality(Places(s, u))
    <3>1. Cardinality(Less(u) \cup Places(s, u))
            = Cardinality(Less(u)) + Cardinality(Places(s, u))
              - Cardinality(Less(u) \cap Places(s, u))
      BY <1>2, <1>3, <2>1, FS_Union
    <3>2. Cardinality(Less(u) \cap Places(s, u)) = 0
      BY <2>2, FS_EmptySet
    <3> HIDE DEF Less
    <3> QED BY <1>2, <1>3, <2>1, <3>1, <3>2
  <2>4. Less(u) \cup Places(s, u) \in SUBSET DOMAIN s
    BY <1>3
  <2> HIDE DEF Less
  <2> QED BY <1>2, <1>3, <2>1, <2>3, <2>4
<1>5. Cardinality(Most(u)) >= k
  <2>1. Places(s, u) \in SUBSET Most(u) /\ Most(u) \in SUBSET DOMAIN s
    BY DEF Places
  <2>2. Cardinality(Places(s, u)) <= Cardinality(Most(u))
    BY <1>2, <2>1, FS_Subset
  <2> HIDE DEF Most
  <2> QED BY <1>2, <1>3, <2>1, <2>2
<1>6. u \in Range(s)
  <2>1. Places(s, u) # {}
    <3>1. Cardinality(Places(s, u)) # 0
      BY <1>2, <1>3
    <3> QED BY <3>1, FS_EmptySet
  <2> QED BY <2>1 DEF Places, Range
<1>7. ASSUME NEW x \in Range(s), Cardinality(Less(x)) < k, Cardinality(Most(x)) >= k
      PROVE  x = u
  <2>1. x \in Nat
    BY <1>1 DEF Range
  <2>2. ~(x < u)
    <3> SUFFICES ASSUME x < u PROVE FALSE
      OBVIOUS
    <3>1. Most(x) \in SUBSET Less(u) /\ Less(u) \in SUBSET DOMAIN s
      BY <1>1, <2>1
    <3>2. Cardinality(Most(x)) <= Cardinality(Less(u))
      BY <1>2, <3>1, FS_Subset
    <3>3. Most(x) \in SUBSET DOMAIN s
      OBVIOUS
    <3> HIDE DEF Most, Less
    <3> QED BY <1>2, <1>4, <1>7, <3>1, <3>2, <3>3
  <2>3. ~(u < x)
    <3> SUFFICES ASSUME u < x PROVE FALSE
      OBVIOUS
    <3>1. Most(u) \in SUBSET Less(x) /\ Less(x) \in SUBSET DOMAIN s
      BY <1>1, <2>1
    <3>2. Cardinality(Most(u)) <= Cardinality(Less(x))
      BY <1>2, <3>1, FS_Subset
    <3>3. Most(u) \in SUBSET DOMAIN s
      OBVIOUS
    <3> HIDE DEF Most, Less
    <3> QED BY <1>2, <1>5, <1>7, <3>1, <3>2, <3>3
  <2> QED BY <2>1, <2>2, <2>3
<1> QED BY <1>4, <1>5, <1>6, <1>7 DEF Kth

LEMMA MedianOfMajority ==
  ASSUME NEW s \in Seq(Nat), NEW u \in Nat, 2 * Cardinality(Places(s, u)) > Len(s)
  PROVE  median(s) = u
<1> DEFINE m == Len(s) \div 2
           c == Cardinality(Places(s, u))
<1>1. Len(s) \in Nat /\ c \in Nat /\ c <= Len(s) /\ 2 * c > Len(s)
  BY PlacesFinite DEF Places
<1> HIDE DEF c
<1>2. CASE Len(s) % 2 = 0
  <2>1. m \in Nat /\ Len(s) = 2 * m
    BY <1>1, <1>2
  <2> HIDE DEF m
  <2>2. Len(s) - c < m /\ m <= c /\ Len(s) - c < m + 1 /\ m + 1 <= c
    BY <1>1, <2>1
  <2>3. Kth(s, m) = u /\ Kth(s, m + 1) = u
    BY <2>1, <2>2, KthOfMajority DEF c
  <2>4. (u + u) \div 2 = u
    OBVIOUS
  <2> QED BY <1>2, <2>3, <2>4 DEF median, m
<1>3. CASE Len(s) % 2 # 0
  <2>1. m \in Nat /\ Len(s) = 2 * m + 1
    BY <1>1, <1>3
  <2> HIDE DEF m
  <2>2. Len(s) - c < m + 1 /\ m + 1 <= c
    BY <1>1, <2>1
  <2>3. Kth(s, m + 1) = u
    BY <2>1, <2>2, KthOfMajority DEF c
  <2> QED BY <1>3, <2>3 DEF median, m
<1> QED BY <1>2, <1>3

LEMMA DeviationOfMajority ==
  ASSUME NEW s \in Seq(Nat), NEW u \in Nat, 2 * Cardinality(Places(s, u)) > Len(s)
  PROVE  Deviation(s) = Max({u \div 20, 1})
<1> DEFINE d == [i \in DOMAIN s |-> AbsoluteDifference(s[i], u)]
<1>1. \A i \in DOMAIN s : s[i] \in Nat
  OBVIOUS
<1>2. d \in Seq(Nat) /\ Len(d) = Len(s) /\ DOMAIN d = DOMAIN s
  BY <1>1 DEF AbsoluteDifference
<1>3. Places(d, 0) = Places(s, u)
  BY <1>1 DEF Places, AbsoluteDifference
<1> HIDE DEF d
<1>4. median(d) = 0
  BY <1>2, <1>3, MedianOfMajority
<1>5. median(s) = u
  BY MedianOfMajority
<1> QED BY <1>4, <1>5 DEF Deviation, d

-----------------------------------------------------------------------------
(* Intervals between observations *)

DoneType == [means : SUBSET Nat, calls : Nat, runtime : Nat]

Observations ==
    [calls : Nat, runtime : Nat, resetAt : Nat \cup {NoTime}, startedAt : Nat \cup {NoTime},
     done : DoneType, crossed : SUBSET {"boundary", "loss"}, measured : BOOLEAN]

(* The runtime lies between the calls at the least and at the greatest mean. *)
Priced(d) ==
    \A t \in Nat : /\ (\A m \in d.means : m >= t) => d.calls * t <= d.runtime
                   /\ (\A m \in d.means : m <= t) => d.runtime <= d.calls * t

(* The counters grew by what was executed. *)
Exact(before, after) ==
    /\ Compatible(before, after)
    /\ after.calls = before.calls + after.done.calls
    /\ after.runtime = before.runtime + after.done.runtime

MeanOf(before, after) == (after.runtime - before.runtime) \div (after.calls - before.calls)

LEMMA Division ==
  ASSUME NEW r \in Nat, NEW c \in Nat \ {0}, NEW t \in Nat
  PROVE  /\ r \div c \in Nat
         /\ c * t <= r => r \div c >= t
         /\ r = c * t => r \div c = t
<1>1. PICK q \in Nat, e \in 0..(c - 1) : q = r \div c /\ r = c * q + e
  <2>1. r \div c \in Nat /\ r % c \in 0..(c - 1) /\ r = c * (r \div c) + (r % c)
    OBVIOUS
  <2> QED BY <2>1
<1>2. c * t <= r => q >= t
  <2> SUFFICES ASSUME c * t <= r, q < t PROVE FALSE
    OBVIOUS
  <2>1. c * (q + 1) <= c * t
    OBVIOUS
  <2>2. c * (q + 1) = c * q + c
    OBVIOUS
  <2>3. c * q \in Nat /\ c * t \in Nat /\ c * (q + 1) \in Nat
    OBVIOUS
  <2> QED BY <1>1, <2>1, <2>2, <2>3
<1>3. r = c * t => q = t
  <2> SUFFICES ASSUME r = c * t PROVE q = t
    OBVIOUS
  <2>1. q >= t
    BY <1>2
  <2>2. c * q <= c * t
    <3>1. c * q \in Nat /\ c * t \in Nat
      OBVIOUS
    <3> QED BY <1>1, <3>1
  <2>3. ~(q >= t + 1)
    <3> SUFFICES ASSUME q >= t + 1 PROVE FALSE
      OBVIOUS
    <3>1. c * (t + 1) <= c * q
      OBVIOUS
    <3>2. c * (t + 1) = c * t + c
      OBVIOUS
    <3>3. c * q \in Nat /\ c * t \in Nat /\ c * (t + 1) \in Nat
      OBVIOUS
    <3> QED BY <2>2, <3>1, <3>2, <3>3
  <2> QED BY <2>1, <2>3
<1> QED BY <1>1, <1>2, <1>3

LEMMA ExactMean ==
  ASSUME NEW b \in Observations, NEW a \in Observations, Exact(b, a), Priced(a.done), NEW t \in Nat
  PROVE  /\ (\A m \in a.done.means : m >= t) => MeanOf(b, a) >= t
         /\ a.done.means = {t} => MeanOf(b, a) = t
<1>1. PICK c \in Nat, r \in Nat : c = a.done.calls /\ r = a.done.runtime
  BY DEF Observations, DoneType
<1>2. a.calls - b.calls = c /\ a.runtime - b.runtime = r
  <2>1. b.calls \in Nat /\ b.runtime \in Nat
    BY DEF Observations
  <2> QED BY <1>1, <2>1 DEF Exact
<1>3. c \in Nat \ {0}
  BY <1>1, <1>2 DEF Exact, Compatible, MinCalls
<1>4. MeanOf(b, a) = r \div c
  BY <1>2 DEF MeanOf
<1>5. /\ (\A m \in a.done.means : m >= t) => c * t <= r
      /\ (\A m \in a.done.means : m <= t) => r <= c * t
  BY <1>1 DEF Priced
<1>6. a.done.means = {t} => r = c * t
  <2>1. c * t \in Nat
    OBVIOUS
  <2> QED BY <1>5, <2>1
<1> QED BY <1>3, <1>4, <1>5, <1>6, Division

LEMMA LeastNatural ==
  ASSUME NEW S, S \subseteq Nat, S # {}
  PROVE  \E m \in S : \A n \in S : m <= n
<1>1. PICK m \in S : \A n \in S : ~(<<n, m>> \in OpToRel(<, Nat))
  BY NatLessThanWellFounded, WFMin
<1>2. \A n \in S : ~(n < m)
  BY <1>1 DEF OpToRel
<1> QED BY <1>2

LEMMA MaxBounded ==
  ASSUME NEW B \in Nat, NEW S, S \subseteq 0..B, S # {}
  PROVE  Max(S) \in S /\ \A n \in S : n <= Max(S)
<1> DEFINE U == {u \in Nat : \A n \in S : n <= u}
<1>1. B \in U
  OBVIOUS
<1>2. PICK u \in U : \A v \in U : u <= v
  BY <1>1, LeastNatural
<1>3. u \in Nat /\ \A n \in S : n \in Nat /\ n <= u
  BY <1>2
<1>4. u \in S
  <2> SUFFICES ASSUME u \notin S PROVE FALSE
    OBVIOUS
  <2>1. PICK n \in S : TRUE
    OBVIOUS
  <2>2. \A k \in S : k \in Nat /\ k < u
    BY <1>3
  <2>3. u - 1 \in Nat
    BY <1>3, <2>1, <2>2
  <2>4. \A k \in S : k <= u - 1
    BY <1>3, <2>2
  <2>5. u - 1 \in U
    BY <2>3, <2>4
  <2> QED BY <1>2, <1>3, <2>5
<1>5. \E x \in S : \A y \in S : x >= y
  BY <1>3, <1>4
<1>6. Max(S) \in S /\ \A y \in S : Max(S) >= y
  BY <1>5 DEF Max
<1> QED BY <1>3, <1>6

(* Where the list of intervals was emptied last. *)
Start(os) == Max({1} \cup {i \in 2..Len(os) : ~Compatible(os[i - 1], os[i])})

LEMMA StartOfIntervals ==
  ASSUME NEW os \in Seq(Observations), os # <<>>
  PROVE  /\ Start(os) \in 1..Len(os)
         /\ \A i \in 2..Len(os) : i > Start(os) => Compatible(os[i - 1], os[i])
         /\ Start(os) # 1 => ~Compatible(os[Start(os) - 1], os[Start(os)])
<1> DEFINE S == {1} \cup {i \in 2..Len(os) : ~Compatible(os[i - 1], os[i])}
<1>1. Len(os) \in Nat /\ Len(os) >= 1
  OBVIOUS
<1>2. S \subseteq 0..Len(os) /\ S # {} /\ S \subseteq 1..Len(os)
  BY <1>1
<1>3. Max(S) \in S /\ \A n \in S : n <= Max(S)
  <2> HIDE DEF S
  <2> QED BY <1>1, <1>2, MaxBounded
<1>4. PICK x \in S : x = Max(S) /\ \A n \in S : n <= x
  BY <1>3
<1>5. x = Start(os)
  BY <1>4 DEF Start
<1>6. \A i \in 2..Len(os) : i > x => Compatible(os[i - 1], os[i])
  <2> SUFFICES ASSUME NEW i \in 2..Len(os), i > x, ~Compatible(os[i - 1], os[i]) PROVE FALSE
    OBVIOUS
  <2>1. i \in S
    OBVIOUS
  <2>2. i <= x /\ x \in Nat
    BY <1>2, <1>4, <2>1
  <2> QED BY <2>2
<1>7. x # 1 => ~Compatible(os[x - 1], os[x])
  BY <1>4
<1> QED BY <1>2, <1>5, <1>6, <1>7

LEMMA SuffixIndex ==
  ASSUME NEW n \in Nat, NEW x \in Nat, x >= 1, NEW j \in 1..n
  PROVE  x + j \in 2..(n + x) /\ x + j > x /\ x + j - 1 \in 1..(n + x)
OBVIOUS

LEMMA IntervalList ==
  ASSUME NEW os \in Seq(Observations), os # <<>>
  PROVE  /\ compatibleQueryIntervals(os) \in Seq(Nat)
         /\ Len(compatibleQueryIntervals(os)) = Len(os) - Start(os)
         /\ \A j \in 1..(Len(os) - Start(os)) :
                compatibleQueryIntervals(os)[j] = MeanOf(os[Start(os) + j - 1], os[Start(os) + j])
<1>1. PICK x \in Nat : x = Start(os) /\ x \in 1..Len(os)
  BY StartOfIntervals
<1>2. PICK n \in Nat : n = Len(os) - x /\ Len(os) = n + x /\ x >= 1
  BY <1>1
<1> DEFINE iv == [j \in 1..n |-> MeanOf(os[x + j - 1], os[x + j])]
<1>3. compatibleQueryIntervals(os) = iv
  BY <1>1, <1>2, Zenon DEF compatibleQueryIntervals, Start, MeanOf
<1>4. ASSUME NEW j \in 1..n PROVE MeanOf(os[x + j - 1], os[x + j]) \in Nat
  <2>1. x + j \in 2..Len(os) /\ x + j > x /\ x + j - 1 \in 1..Len(os)
    <3> HIDE DEF iv
    <3>1. x + j \in 2..(n + x) /\ x + j > x /\ x + j - 1 \in 1..(n + x)
      BY <1>2, SuffixIndex
    <3> QED BY <1>2, <3>1
  <2>2. Compatible(os[x + j - 1], os[x + j])
    BY <1>1, <2>1, StartOfIntervals
  <2>3. PICK b \in Observations, a \in Observations : b = os[x + j - 1] /\ a = os[x + j]
    BY <2>1
  <2>4. /\ a.runtime \in Nat /\ b.runtime \in Nat /\ a.calls \in Nat /\ b.calls \in Nat
        /\ a.calls - b.calls >= 20 /\ a.runtime - b.runtime >= 1000000
    BY <2>2, <2>3 DEF Compatible, Observations, MinCalls, MinRuntime
  <2>5. a.calls - b.calls \in Nat \ {0} /\ a.runtime - b.runtime \in Nat
    BY <2>4
  <2>6. (a.runtime - b.runtime) \div (a.calls - b.calls) \in Nat
    BY <2>5, Division
  <2> QED BY <2>3, <2>6 DEF MeanOf
<1>5. iv \in Seq(Nat) /\ Len(iv) = n /\ \A j \in 1..n : iv[j] = MeanOf(os[x + j - 1], os[x + j])
  BY <1>4
<1> HIDE DEF iv
<1> QED BY <1>1, <1>2, <1>3, <1>5

-----------------------------------------------------------------------------
(* The verdict on a list of observations *)

LEMMA RecentTail ==
  ASSUME NEW os \in Seq(Observations), os # <<>>, Len(os) <= HistoryLimit + 1
  PROVE  \E d \in {0, 1} :
            /\ d = 1 <=> Len(os) = HistoryLimit + 1
            /\ RecentQueryObservations(os) \in Seq(Observations)
            /\ Len(RecentQueryObservations(os)) = Len(os) - d
            /\ \A i \in 1..(Len(os) - d) : RecentQueryObservations(os)[i] = os[i + d]
<1>1. PICK L \in Nat : L = Len(os) /\ L >= 1
  OBVIOUS
<1>2. PICK H \in Nat : H = HistoryLimit /\ H >= 3 /\ L <= H + 1
  BY <1>1, QueryRegressionAssumption
<1> DEFINE x == L - H + 1
<1>3. CASE L = H + 1
  <2>1. Max({1, 2}) = 2
    BY DEF Max
  <2>2. RecentQueryObservations(os) = SubSeq(os, 2, L)
    BY <1>1, <1>2, <1>3, <2>1 DEF RecentQueryObservations
  <2>3. /\ SubSeq(os, 2, L) \in Seq(Observations)
        /\ Len(SubSeq(os, 2, L)) = L - 1
        /\ \A i \in 1..(L - 1) : SubSeq(os, 2, L)[i] = os[i + 1]
    <3>1. \A i \in 2..L : os[i] \in Observations
      BY <1>1
    <3>2. /\ SubSeq(os, 2, L) \in Seq(Observations)
          /\ Len(SubSeq(os, 2, L)) = IF 2 <= L THEN L - 2 + 1 ELSE 0
          /\ \A i \in 1..(L - 2 + 1) : SubSeq(os, 2, L)[i] = os[2 + i - 1]
      BY <1>1, <3>1, SubSeqProperties
    <3>3. 2 <= L /\ L - 2 + 1 = L - 1 /\ \A i \in 1..(L - 1) : 2 + i - 1 = i + 1
      BY <1>1, <1>2, <1>3
    <3> QED BY <3>2, <3>3
  <2> QED BY <1>1, <1>2, <1>3, <2>2, <2>3
<1>4. CASE L # H + 1
  <2>1. Max({1, x}) = 1
    BY <1>1, <1>2, <1>4 DEF Max
  <2>2. RecentQueryObservations(os) = SubSeq(os, 1, L)
    BY <1>1, <1>2, <2>1 DEF RecentQueryObservations
  <2>3. /\ SubSeq(os, 1, L) \in Seq(Observations)
        /\ Len(SubSeq(os, 1, L)) = L - 0
        /\ \A i \in 1..(L - 0) : SubSeq(os, 1, L)[i] = os[i + 0]
    BY <1>1
  <2> QED BY <1>1, <1>2, <1>4, <2>2, <2>3
<1> QED BY <1>3, <1>4

(***************************************************************************)
(* What is true of the observations of a comparison: sound and intact      *)
(* intervals are exact, and the first observation has one only if an       *)
(* earlier one was dropped.                                                *)
(***************************************************************************)
Sure(o) == Sound(o) /\ Intact(o)

Traced(os) ==
    /\ os \in Seq(Observations) /\ os # <<>> /\ Len(os) <= HistoryLimit + 1
    /\ \A i \in DOMAIN os : Priced(os[i].done)
    /\ \A i \in 2..Len(os) : Sure(os[i]) => Exact(os[i - 1], os[i])
    /\ Len(os) <= HistoryLimit => ~os[1].measured

LEMMA StoredTail ==
  ASSUME NEW os, Traced(os), NEW L, L = Len(os)
  PROVE  \E d \in {0, 1}, rec \in Seq(Observations), n \in Nat :
            /\ d = 1 <=> Len(os) = HistoryLimit + 1
            /\ rec = RecentQueryObservations(os)
            /\ n = Len(rec)
            /\ n = L - d
            /\ \A i \in 1..n : rec[i] = os[i + d]
<1>1. os \in Seq(Observations) /\ os # <<>> /\ Len(os) <= HistoryLimit + 1
  BY DEF Traced
<1>2. PICK d \in {0, 1} :
         /\ d = 1 <=> Len(os) = HistoryLimit + 1
         /\ RecentQueryObservations(os) \in Seq(Observations)
         /\ Len(RecentQueryObservations(os)) = Len(os) - d
         /\ \A i \in 1..(Len(os) - d) : RecentQueryObservations(os)[i] = os[i + d]
  BY <1>1, RecentTail
<1>3. Len(RecentQueryObservations(os)) \in Nat
  BY <1>2
<1> QED BY <1>2, <1>3, Zenon

(* From a sure suffix on, every observation has its interval in the list. *)
LEMMA SureSuffix ==
  ASSUME NEW os, Traced(os), NEW d \in {0, 1}, d = 1 <=> Len(os) = HistoryLimit + 1,
         NEW i \in 1..(Len(os) - d), \A j \in i..(Len(os) - d) : Sure(os[j + d])
  PROVE  /\ i + d - Start(os) \in 1..(Len(os) - Start(os))
         /\ Exact(os[i + d - 1], os[i + d])
         /\ compatibleQueryIntervals(os)[i + d - Start(os)] = MeanOf(os[i + d - 1], os[i + d])
<1>1. PICK L \in Nat : L = Len(os) /\ L >= 1 /\ os \in Seq(Observations) /\ os # <<>>
  BY DEF Traced
<1>2. PICK x \in Nat : x = Start(os) /\ x \in 1..L
  BY <1>1, StartOfIntervals
<1>3. PICK q \in Nat : q = i + d /\ q \in 1..L
  BY <1>1
<1>4. \A r \in q..L : Sure(os[r])
  <2> SUFFICES ASSUME NEW r \in q..L PROVE Sure(os[r])
    OBVIOUS
  <2>1. r - d \in i..(L - d) /\ (r - d) + d = r
    BY <1>3
  <2> QED BY <1>1, <2>1
<1>5. q >= 2
  <2> SUFFICES ASSUME q = 1 PROVE FALSE
    BY <1>3
  <2>1. d = 0
    BY <1>3
  <2>2. Len(os) <= HistoryLimit
    BY <2>1, QueryRegressionAssumption DEF Traced
  <2>3. ~os[1].measured
    BY <2>2 DEF Traced
  <2>4. Sure(os[1])
    BY <1>3, <1>4
  <2> QED BY <2>3, <2>4 DEF Sure, Sound
<1>6. \A r \in q..L : Exact(os[r - 1], os[r])
  BY <1>1, <1>4, <1>5 DEF Traced
<1>7. x < q
  <2> SUFFICES ASSUME x >= q PROVE FALSE
    BY <1>2, <1>3
  <2>1. x # 1 /\ x \in q..L
    BY <1>2, <1>3, <1>5
  <2>2. ~Compatible(os[x - 1], os[x])
    BY <1>1, <1>2, <2>1, StartOfIntervals
  <2> QED BY <1>6, <2>1, <2>2 DEF Exact
<1>8. q - x \in 1..(L - x)
  BY <1>2, <1>3, <1>7
<1>9. compatibleQueryIntervals(os)[q - x] = MeanOf(os[x + (q - x) - 1], os[x + (q - x)])
  BY <1>1, <1>2, <1>8, IntervalList
<1>10. x + (q - x) - 1 = q - 1 /\ x + (q - x) = q
  BY <1>2, <1>3
<1>11. Exact(os[q - 1], os[q])
  BY <1>3, <1>6
<1>12. i + d - Start(os) = q - x /\ i + d - 1 = q - 1 /\ i + d = q /\ Len(os) - Start(os) = L - x
  BY <1>1, <1>2, <1>3
<1> QED BY <1>8, <1>9, <1>10, <1>11, <1>12

(* The mean of that interval is the one the clients saw. *)
LEMMA SureMean ==
  ASSUME NEW os, Traced(os), NEW d \in {0, 1}, d = 1 <=> Len(os) = HistoryLimit + 1,
         NEW i \in 1..(Len(os) - d), \A j \in i..(Len(os) - d) : Sure(os[j + d])
  PROVE  LET j == i + d - Start(os) IN
         /\ j \in 1..(Len(os) - Start(os))
         /\ \A t \in Nat :
                /\ os[i + d].done.means = {t} => compatibleQueryIntervals(os)[j] = t
                /\ (\A m \in os[i + d].done.means : m >= t) => compatibleQueryIntervals(os)[j] >= t
<1>1. PICK L \in Nat : L = Len(os) /\ L >= 1 /\ os \in Seq(Observations) /\ os # <<>>
  BY DEF Traced
<1>2. PICK x \in Nat : x = Start(os) /\ x \in 1..L
  BY <1>1, StartOfIntervals
<1>3. /\ i + d - x \in 1..(L - x)
      /\ Exact(os[i + d - 1], os[i + d])
      /\ compatibleQueryIntervals(os)[i + d - x] = MeanOf(os[i + d - 1], os[i + d])
  BY <1>1, <1>2, SureSuffix
<1>4. i + d - 1 \in 1..L /\ i + d \in 1..L
  <2>1. i \in 1..(L - d) /\ i + d - x >= 1
    BY <1>1, <1>3
  <2> QED BY <1>2, <2>1
<1>5. /\ os[i + d - 1] \in Observations /\ os[i + d] \in Observations
      /\ Priced(os[i + d].done)
  BY <1>1, <1>4 DEF Traced
<1>6. \A t \in Nat :
         /\ os[i + d].done.means = {t} => MeanOf(os[i + d - 1], os[i + d]) = t
         /\ (\A m \in os[i + d].done.means : m >= t) => MeanOf(os[i + d - 1], os[i + d]) >= t
  BY <1>3, <1>5, ExactMean
<1> QED BY <1>1, <1>2, <1>3, <1>6

LEMMA ShiftedInto ==
  ASSUME NEW S, NEW T, NEW k \in Int, S \subseteq Int, IsFiniteSet(T), \A i \in S : k + i \in T
  PROVE  IsFiniteSet(S) /\ Cardinality(S) <= Cardinality(T)
<1> DEFINE f == [i \in S |-> k + i]
<1>1. f \in Injection(S, T)
  BY DEF Injection, IsInjective
<1> QED BY <1>1, FS_Injection

(* Half slower, and by more than three deviations of a calm baseline. *)
LEMMA SlowIsAnomalous ==
  ASSUME NEW base \in Seq(Nat), NEW u \in Nat, NEW x \in Nat,
         2 * Cardinality(Places(base, u)) > Len(base), Len(base) >= MinBaseline,
         u >= MinMean, (x - u) * 100 >= MinChangePercent * u, x - u >= MinMean
  PROVE  Anomalous(base, x)
<1>1. median(base) = u /\ Deviation(base) = Max({u \div 20, 1})
  BY MedianOfMajority, DeviationOfMajority
<1>2. PICK e \in Nat : e = u \div 20 /\ 20 * e <= u
  OBVIOUS
<1>3. Max({e, 1}) = e
  <2>1. e >= 1
    BY <1>2 DEF MinMean
  <2> QED BY <1>2, <2>1 DEF Max
<1>4. x > u + 3 * e
  BY <1>2 DEF MinMean, MinChangePercent
<1> QED BY <1>1, <1>2, <1>3, <1>4 DEF Anomalous

(***************************************************************************)
(* A regression behind spikes, as in SpikesDoNotHide, is caught: what      *)
(* the stored observations rec tell is what the comparison of os found.    *)
(***************************************************************************)
SureBaseline(rec) ==
    {i \in 1..Len(rec) : i <= Len(rec) - 2 /\ \A j \in i..Len(rec) : Sure(rec[j])}

Regressing(rec, u) ==
    /\ Cardinality(SureBaseline(rec)) >= MinBaseline
    /\ u >= MinMean
    /\ 2 * Cardinality({i \in SureBaseline(rec) : rec[i].done.means = {u}}) > HistoryLimit - 2
    /\ \A i \in {Len(rec) - 1, Len(rec)} : \A now \in rec[i].done.means :
            (now - u) * 100 >= MinChangePercent * u /\ now - u >= MinMean

LEMMA SpikesCaught ==
  ASSUME NEW os, Traced(os), NEW u \in Nat, Regressing(RecentQueryObservations(os), u)
  PROVE  QueryRegressionFindings(os)
<1>1. PICK L \in Nat : L = Len(os) /\ L >= 1 /\ os \in Seq(Observations) /\ os # <<>>
  BY DEF Traced
<1>2. PICK d \in {0, 1}, rec \in Seq(Observations), n \in Nat :
         /\ d = 1 <=> Len(os) = HistoryLimit + 1
         /\ rec = RecentQueryObservations(os)
         /\ n = Len(rec)
         /\ n = L - d
         /\ \A i \in 1..n : rec[i] = os[i + d]
  BY <1>1, StoredTail, SMTT(30)
<1>3. PICK H \in Nat, MB \in Nat \ {0} : H = HistoryLimit /\ MB = MinBaseline /\ L <= H + 1
  BY <1>1, QueryRegressionAssumption DEF Traced
<1>4. PICK x \in Nat : x = Start(os) /\ x \in 1..L
  BY <1>1, StartOfIntervals
<1> DEFINE baseline == SureBaseline(rec)
<1> DEFINE iv == compatibleQueryIntervals(os)
<1>5. PICK N \in Nat : N = L - x /\ iv \in Seq(Nat) /\ Len(iv) = N
  BY <1>1, <1>4, IntervalList
<1> HIDE DEF iv
<1> DEFINE k == N - n
<1>6. k \in Int /\ k = d - x
  BY <1>2, <1>4, <1>5
(* The interval that ends in a stored observation of a sure suffix. *)
<1>7. ASSUME NEW i \in 1..n, \A j \in i..n : Sure(rec[j])
      PROVE  /\ k + i \in 1..N
             /\ \A t \in Nat : /\ rec[i].done.means = {t} => iv[k + i] = t
                               /\ (\A m \in rec[i].done.means : m >= t) => iv[k + i] >= t
  <2>1. \A j \in i..(Len(os) - d) : Sure(os[j + d])
    <3> SUFFICES ASSUME NEW j \in i..(Len(os) - d) PROVE Sure(os[j + d])
      OBVIOUS
    <3>1. j \in i..n /\ j \in 1..n
      BY <1>1, <1>2
    <3>2. Sure(rec[j])
      BY <1>7, <3>1
    <3> QED BY <1>2, <3>1, <3>2
  <2>2. i \in 1..(Len(os) - d)
    BY <1>1, <1>2
  <2>3. /\ i + d - Start(os) \in 1..(Len(os) - Start(os))
        /\ \A t \in Nat :
              /\ os[i + d].done.means = {t} => iv[i + d - Start(os)] = t
              /\ (\A m \in os[i + d].done.means : m >= t) => iv[i + d - Start(os)] >= t
    <3>1. d = 1 <=> Len(os) = HistoryLimit + 1
      BY <1>2
    <3> QED BY <2>1, <2>2, <3>1, SureMean, ZenonT(60) DEF iv
  <2>4. i + d - Start(os) = k + i /\ Len(os) - Start(os) = N
    BY <1>1, <1>4, <1>5, <1>6
  <2>5. rec[i] = os[i + d]
    BY <1>2
  <2> QED BY <2>3, <2>4, <2>5
<1> HIDE DEF k
<1> DEFINE base == SubSeq(iv, 1, N - 2)
<1>8. baseline \subseteq 1..n /\ \A i \in baseline : i <= n - 2 /\ \A j \in i..n : Sure(rec[j])
  BY <1>2 DEF SureBaseline
<1> HIDE DEF baseline
<1>9. PICK i0 \in baseline : TRUE
  <2>1. baseline # {}
    <3>1. Cardinality(baseline) >= MinBaseline
      BY <1>2 DEF Regressing, baseline
    <3>2. Cardinality(baseline) # 0
      BY <1>3, <3>1
    <3> QED BY <3>2, FS_EmptySet
  <2> QED BY <2>1
<1>10. k + i0 >= 1 /\ N >= 3 /\ n >= 3
  <2>1. k + i0 \in 1..N /\ i0 \in 1..n /\ i0 <= n - 2
    BY <1>7, <1>8, <1>9
  <2> QED BY <1>5, <1>6, <2>1 DEF k
<1>11. base \in Seq(Nat) /\ Len(base) = N - 2 /\ \A j \in 1..(N - 2) : base[j] = iv[j]
  <2>1. \A j \in 1..(N - 2) : iv[j] \in Nat
    BY <1>5, <1>10
  <2>2. /\ base \in Seq(Nat)
        /\ Len(base) = IF 1 <= N - 2 THEN N - 2 - 1 + 1 ELSE 0
        /\ \A j \in 1..(N - 2 - 1 + 1) : base[j] = iv[1 + j - 1]
    BY <1>5, <2>1, SubSeqProperties
  <2>3. 1 <= N - 2 /\ N - 2 - 1 + 1 = N - 2 /\ \A j \in 1..(N - 2) : 1 + j - 1 = j
    BY <1>10
  <2> HIDE DEF base
  <2> QED BY <2>2, <2>3
<1> HIDE DEF base
<1>12. \A i \in baseline : k + i \in 1..(N - 2) /\ k + i \in DOMAIN base
  <2> SUFFICES ASSUME NEW i \in baseline PROVE k + i \in 1..(N - 2)
    BY <1>10, <1>11
  <2>1. k + i \in 1..N /\ i <= n - 2 /\ i \in 1..n
    BY <1>7, <1>8
  <2>2. k = N - n /\ k \in Int
    BY <1>6 DEF k
  <2> QED BY <1>5, <1>6, <2>1, <2>2
<1>13. IsFiniteSet(1..(N - 2)) /\ Cardinality(1..(N - 2)) = N - 2
  <2>1. IsFiniteSet(1..(N - 2)) /\ Cardinality(1..(N - 2)) = IF 1 > N - 2 THEN 0 ELSE N - 2 - 1 + 1
    BY <1>10, FS_Interval
  <2>2. N - 2 = IF 1 > N - 2 THEN 0 ELSE N - 2 - 1 + 1
    BY <1>10
  <2> QED BY <2>1, <2>2
<1>14. baseline \subseteq Int
  BY <1>8
<1>15. N - 2 >= MinBaseline
  <2>1. IsFiniteSet(baseline) /\ Cardinality(baseline) <= Cardinality(1..(N - 2))
    BY <1>6, <1>12, <1>13, <1>14, ShiftedInto
  <2>2. Cardinality(baseline) \in Nat
    BY <2>1, FS_CardinalityType
  <2>3. Cardinality(baseline) >= MinBaseline
    BY <1>2 DEF Regressing, baseline
  <2> QED BY <1>3, <1>10, <1>13, <2>1, <2>2, <2>3
<1>16. 2 * Cardinality(Places(base, u)) > Len(base)
  <2> DEFINE usual == {i \in baseline : rec[i].done.means = {u}}
  <2>1. \A i \in usual : k + i \in Places(base, u)
    <3> SUFFICES ASSUME NEW i \in baseline, rec[i].done.means = {u}
                 PROVE  k + i \in Places(base, u)
      OBVIOUS
    <3>1. iv[k + i] = u
      BY <1>7, <1>8
    <3> QED BY <1>11, <1>12, <3>1 DEF Places
  <2>2. IsFiniteSet(Places(base, u)) /\ Cardinality(Places(base, u)) \in Nat
    BY <1>11, PlacesFinite DEF Places
  <2>3. usual \subseteq Int
    BY <1>14
  <2> HIDE DEF usual
  <2>4. IsFiniteSet(usual) /\ Cardinality(usual) <= Cardinality(Places(base, u))
    BY <1>6, <2>1, <2>2, <2>3, ShiftedInto
  <2>5. Cardinality(usual) \in Nat
    BY <2>4, FS_CardinalityType
  <2>6. 2 * Cardinality(usual) > H - 2
    BY <1>2, <1>3 DEF usual, Regressing, baseline
  <2>7. N - 2 <= H - 2
    BY <1>3, <1>4, <1>5
  <2> QED BY <1>3, <1>10, <1>11, <2>2, <2>4, <2>5, <2>6, <2>7
<1>17. ASSUME NEW i \in {n - 1, n}
       PROVE  /\ k + i \in 1..N /\ iv[k + i] \in Nat
              /\ (iv[k + i] - u) * 100 >= MinChangePercent * u /\ iv[k + i] - u >= MinMean
  <2>1. i \in 1..n /\ \A j \in i..n : j \in i0..n
    BY <1>6, <1>8, <1>9, <1>10
  <2>2. \A j \in i..n : Sure(rec[j])
    BY <1>8, <1>9, <2>1
  <2>3. k + i \in 1..N /\ \A t \in Nat : (\A m \in rec[i].done.means : m >= t) => iv[k + i] >= t
    BY <1>7, <2>1, <2>2
  <2>4. iv[k + i] \in Nat
    BY <1>5, <2>3
  <2>5. PICK h \in Nat : h = (u + 1) \div 2 /\ u <= 2 * h /\ 2 * h <= u + 1
    OBVIOUS
  <2>6. rec[i].done.means \subseteq Nat
    <3>1. n = Len(rec)
      BY <1>2
    <3>2. rec[i] \in Observations
      BY <2>1, <3>1
    <3> QED BY <3>2 DEF Observations, DoneType
  <2>7. \A m \in rec[i].done.means : m >= u + 5000 /\ m >= u + h
    <3> SUFFICES ASSUME NEW m \in rec[i].done.means PROVE m >= u + 5000 /\ m >= u + h
      OBVIOUS
    <3>1. (m - u) * 100 >= MinChangePercent * u /\ m - u >= MinMean
      BY <1>2, Zenon DEF Regressing
    <3>2. m \in Nat /\ (m - u) * 100 >= 50 * u /\ m - u >= 5000
      BY <2>6, <3>1 DEF MinChangePercent, MinMean
    <3> QED BY <2>5, <3>2
  <2>8. iv[k + i] >= u + 5000 /\ iv[k + i] >= u + h
    BY <2>3, <2>5, <2>7
  <2> QED BY <2>3, <2>4, <2>5, <2>8 DEF MinChangePercent, MinMean
<1>18. k + n = N /\ k + (n - 1) = N - 1
  BY <1>5, <1>6 DEF k
<1>19. /\ iv[N] \in Nat /\ (iv[N] - u) * 100 >= MinChangePercent * u /\ iv[N] - u >= MinMean
       /\ iv[N - 1] \in Nat /\ (iv[N - 1] - u) * 100 >= MinChangePercent * u
       /\ iv[N - 1] - u >= MinMean
  BY <1>17, <1>18
<1>20. u >= MinMean
  BY <1>2 DEF Regressing
<1>21. Anomalous(base, iv[N]) /\ Anomalous(base, iv[N - 1])
  BY <1>11, <1>15, <1>16, <1>19, <1>20, SlowIsAnomalous
<1>22. median(base) = u
  BY <1>11, <1>16, MedianOfMajority
<1>23. N >= MinBaseline + 2
  BY <1>3, <1>15
<1> QED BY <1>5, <1>19, <1>20, <1>21, <1>22, <1>23 DEF QueryRegressionFindings, iv, base

(* A steady workload is judged, and judged normal. *)
Steady(rec, u) ==
    /\ Len(rec) = HistoryLimit
    /\ \A i \in DOMAIN rec : Sure(rec[i]) /\ rec[i].done.means = {u}

LEMMA SteadyQuiet ==
  ASSUME NEW os, Traced(os), NEW u \in Nat, Steady(RecentQueryObservations(os), u)
  PROVE  QueryRegressionFindingReady(os) /\ ~QueryRegressionFindings(os)
<1>1. PICK L \in Nat : L = Len(os) /\ L >= 1 /\ os \in Seq(Observations) /\ os # <<>>
  BY DEF Traced
<1>2. PICK d \in {0, 1}, rec \in Seq(Observations), n \in Nat :
         /\ d = 1 <=> Len(os) = HistoryLimit + 1
         /\ rec = RecentQueryObservations(os)
         /\ n = Len(rec)
         /\ n = L - d
         /\ \A i \in 1..n : rec[i] = os[i + d]
  BY <1>1, StoredTail, SMTT(30)
<1>3. PICK H \in Nat, MB \in Nat \ {0} : H = HistoryLimit /\ MB = MinBaseline /\ H >= MB + 2
  BY QueryRegressionAssumption
<1>4. n = H /\ \A i \in 1..n : Sure(rec[i]) /\ rec[i].done.means = {u}
  <2>1. Steady(rec, u) /\ n = Len(rec)
    BY <1>2
  <2>2. DOMAIN rec = 1..n
    BY <2>1
  <2> QED BY <1>3, <2>1, <2>2 DEF Steady
<1>5. PICK x \in Nat : x = Start(os) /\ x \in 1..L
  BY <1>1, StartOfIntervals
<1> DEFINE iv == compatibleQueryIntervals(os)
<1> HIDE DEF iv
<1>6. ASSUME NEW i \in 1..n
      PROVE  i + d - x \in 1..(L - x) /\ iv[i + d - x] = u
  <2>1. i \in 1..(Len(os) - d) /\ \A j \in i..(Len(os) - d) : Sure(os[j + d])
    <3>1. i \in 1..(Len(os) - d) /\ \A j \in i..(Len(os) - d) : j \in 1..n
      BY <1>1, <1>2
    <3> QED BY <1>2, <1>4, <3>1
  <2>2. os[i + d].done.means = {u}
    BY <1>2, <1>4
  <2>3. d = 1 <=> Len(os) = HistoryLimit + 1
    BY <1>2
  <2>4. /\ i + d - Start(os) \in 1..(Len(os) - Start(os))
        /\ \A t \in Nat :
              /\ os[i + d].done.means = {t} => iv[i + d - Start(os)] = t
              /\ (\A m \in os[i + d].done.means : m >= t) => iv[i + d - Start(os)] >= t
    BY <2>1, <2>3, SureMean, ZenonT(60) DEF iv
  <2> QED BY <1>1, <1>5, <2>2, <2>4
<1>7. d = 1 /\ x = 1 /\ L = H + 1
  <2>1. 1 \in 1..n
    BY <1>3, <1>4
  <2>2. 1 + d - x \in 1..(L - x)
    BY <1>6, <2>1
  <2> QED BY <1>2, <1>4, <1>5, <2>2
<1>8. iv \in Seq(Nat) /\ Len(iv) = H
  <2>1. iv \in Seq(Nat) /\ Len(iv) = Len(os) - Start(os)
    BY <1>1, IntervalList DEF iv
  <2>2. Len(os) = H + 1 /\ Start(os) = 1
    BY <1>1, <1>5, <1>7
  <2> QED BY <2>1, <2>2
<1>9. \A i \in 1..H : iv[i] = u
  <2> SUFFICES ASSUME NEW i \in 1..H PROVE iv[i] = u
    OBVIOUS
  <2>1. i + d - x = i /\ i \in 1..n
    BY <1>4, <1>7
  <2> QED BY <1>6, <2>1
<1> DEFINE base == SubSeq(iv, 1, H - 2)
<1>10. base \in Seq(Nat) /\ Len(base) = H - 2 /\ \A j \in 1..(H - 2) : base[j] = u
  <2>1. \A j \in 1..(H - 2) : iv[j] \in Nat
    BY <1>3, <1>8
  <2>2. /\ base \in Seq(Nat)
        /\ Len(base) = IF 1 <= H - 2 THEN H - 2 - 1 + 1 ELSE 0
        /\ \A j \in 1..(H - 2 - 1 + 1) : base[j] = iv[1 + j - 1]
    BY <1>8, <2>1, SubSeqProperties
  <2>3. 1 <= H - 2 /\ H - 2 - 1 + 1 = H - 2 /\ \A j \in 1..(H - 2) : 1 + j - 1 = j /\ j \in 1..H
    BY <1>3
  <2> HIDE DEF base
  <2> QED BY <1>9, <2>2, <2>3
<1> HIDE DEF base
<1>11. 2 * Cardinality(Places(base, u)) > Len(base)
  <2>1. Places(base, u) = 1..(H - 2)
    BY <1>10 DEF Places
  <2>2. Cardinality(1..(H - 2)) = IF 1 > H - 2 THEN 0 ELSE H - 2 - 1 + 1
    BY FS_Interval
  <2> QED BY <1>3, <1>10, <2>1, <2>2
<1>12. median(base) = u /\ Deviation(base) = Max({u \div 20, 1})
  BY <1>10, <1>11, MedianOfMajority, DeviationOfMajority
<1>13. Max({u \div 20, 1}) \in Nat
  <2>1. u \div 20 \in Nat
    OBVIOUS
  <2>2. PICK e \in Nat : e = u \div 20
    BY <2>1
  <2>3. Max({e, 1}) \in {e, 1}
    BY DEF Max
  <2> QED BY <2>2, <2>3
<1>14. ~Anomalous(base, u)
  BY <1>12, <1>13 DEF Anomalous
<1>15. QueryRegressionFindingReady(os)
  BY <1>3, <1>8 DEF QueryRegressionFindingReady, iv
<1>16. ~QueryRegressionFindings(os)
  <2>1. iv[H] = u
    BY <1>3, <1>9
  <2> QED BY <1>8, <1>14, <2>1 DEF QueryRegressionFindings, iv, base
<1> QED BY <1>15, <1>16

(***************************************************************************)
(* Intervals that can be compared are sound, so a window that is judged is *)
(* a full one.                                                             *)
(***************************************************************************)
Tied(os) == \A i \in 2..Len(os) : Compatible(os[i - 1], os[i]) => Sound(os[i])

FullWindow(os) ==
    /\ Len(os) >= MinBaseline + 2
    /\ \A i \in (Len(os) - MinBaseline - 1)..Len(os) : Sound(os[i])

LEMMA ReadyWindow ==
  ASSUME NEW os, Traced(os), Tied(os), QueryRegressionFindingReady(os)
  PROVE  FullWindow(RecentQueryObservations(os))
<1>1. PICK L \in Nat : L = Len(os) /\ L >= 1 /\ os \in Seq(Observations) /\ os # <<>>
  BY DEF Traced
<1>2. PICK d \in {0, 1}, rec \in Seq(Observations), n \in Nat :
         /\ d = 1 <=> Len(os) = HistoryLimit + 1
         /\ rec = RecentQueryObservations(os)
         /\ n = Len(rec)
         /\ n = L - d
         /\ \A i \in 1..n : rec[i] = os[i + d]
  BY <1>1, StoredTail, SMTT(30)
<1>3. PICK H \in Nat, MB \in Nat \ {0} :
         /\ H = HistoryLimit /\ MB = MinBaseline /\ H >= MB + 2
         /\ d = 1 => L = H + 1
  BY <1>1, <1>2, QueryRegressionAssumption
<1>4. PICK x \in Nat : x = Start(os) /\ x \in 1..L
  BY <1>1, StartOfIntervals
<1>5. L - x >= MB + 2
  <2>1. Len(compatibleQueryIntervals(os)) = Len(os) - Start(os)
    BY <1>1, IntervalList
  <2> QED BY <1>1, <1>3, <1>4, <2>1 DEF QueryRegressionFindingReady
<1>6. \A j \in 2..L : j > x => Compatible(os[j - 1], os[j])
  BY <1>1, <1>4, StartOfIntervals
<1>7. n = Len(rec) /\ n >= MB + 2
  BY <1>2, <1>4, <1>5
<1>8. ASSUME NEW i \in (n - MB - 1)..n PROVE Sound(rec[i])
  <2>1. PICK q \in Nat : q = i + d /\ q \in 2..L /\ q > x /\ i \in 1..n
    BY <1>2, <1>4, <1>5
  <2>2. Sound(os[q])
    BY <1>1, <1>6, <2>1 DEF Tied
  <2> QED BY <1>2, <2>1, <2>2
<1>9. FullWindow(rec)
  BY <1>3, <1>7, <1>8 DEF FullWindow
<1> QED BY <1>2, <1>9

-----------------------------------------------------------------------------
(***************************************************************************)
(* No false alarm: an exact mean lies between what the clients saw, at     *)
(* least half of a baseline is not above its median, and fewer than half   *)
(* of it lost counters, so some exact interval is not above the median.    *)
(***************************************************************************)
LEMMA ExactBetween ==
  ASSUME NEW b \in Observations, NEW a \in Observations, Exact(b, a), Priced(a.done)
  PROVE  /\ \E now \in a.done.means : now \in Nat /\ now >= MeanOf(b, a)
         /\ \E was \in a.done.means : was \in Nat /\ was <= MeanOf(b, a)
<1>1. PICK c \in Nat, r \in Nat : c = a.done.calls /\ r = a.done.runtime
  BY DEF Observations, DoneType
<1>2. a.calls - b.calls = c /\ a.runtime - b.runtime = r
  <2>1. b.calls \in Nat /\ b.runtime \in Nat
    BY DEF Observations
  <2> QED BY <1>1, <2>1 DEF Exact
<1>3. c \in Nat \ {0} /\ r # 0
  BY <1>1, <1>2 DEF Exact, Compatible, MinCalls, MinRuntime
<1>4. PICK q \in Nat : q = MeanOf(b, a) /\ c * q <= r
  <2>1. r \div c \in Nat /\ r % c \in 0..(c - 1) /\ r = c * (r \div c) + (r % c)
    BY <1>3
  <2>2. PICK y \in Nat, e \in Nat : y = r \div c /\ r = c * y + e
    BY <2>1
  <2>3. c * y \in Nat
    OBVIOUS
  <2>4. MeanOf(b, a) = y
    BY <1>2, <2>2 DEF MeanOf
  <2>5. \A z \in Nat : z <= z + e
    OBVIOUS
  <2>6. c * y <= r
    BY <2>2, <2>3, <2>5
  <2> QED BY <2>4, <2>6
<1>5. a.done.means \subseteq Nat
  BY DEF Observations, DoneType
<1>6. \E now \in a.done.means : now >= q
  <2> SUFFICES ASSUME \A m \in a.done.means : m < q PROVE FALSE
    BY <1>5
  <2>1. CASE q = 0
    <3>1. \A m \in a.done.means : m <= 0
      BY <1>5, <2>1
    <3>2. r <= c * 0
      BY <1>1, <3>1 DEF Priced
    <3> QED BY <1>3, <3>2
  <2>2. CASE q # 0
    <3>1. q - 1 \in Nat /\ \A m \in a.done.means : m <= q - 1
      BY <1>5, <2>2
    <3>2. r <= c * (q - 1)
      BY <1>1, <3>1 DEF Priced
    <3>3. c * (q - 1) = c * q - c /\ c * q \in Nat
      OBVIOUS
    <3> QED BY <1>3, <1>4, <3>2, <3>3
  <2> QED BY <2>1, <2>2
<1>7. \E was \in a.done.means : was <= q
  <2> SUFFICES ASSUME \A m \in a.done.means : m > q PROVE FALSE
    BY <1>5
  <2>1. q + 1 \in Nat /\ \A m \in a.done.means : m >= q + 1
    BY <1>5
  <2>2. MeanOf(b, a) >= q + 1
    BY <2>1, ExactMean
  <2> QED BY <1>4, <2>2
<1> QED BY <1>4, <1>5, <1>6, <1>7

LEMMA SequenceBounded ==
  ASSUME NEW s \in Seq(Nat)
  PROVE  \E B \in Nat : \A i \in DOMAIN s : s[i] <= B
<1> DEFINE Bounded(n) == \E B \in Nat : \A i \in DOMAIN s : i <= n => s[i] <= B
           T == {n \in 0..Len(s) : ~Bounded(n)}
<1>1. DOMAIN s = 1..Len(s) /\ Len(s) \in Nat /\ \A i \in DOMAIN s : s[i] \in Nat
  OBVIOUS
<1>2. T = {}
  <2> SUFFICES ASSUME T # {} PROVE FALSE
    OBVIOUS
  <2>1. T \subseteq Nat
    OBVIOUS
  <2>2. PICK m \in T : \A n \in T : m <= n
    <3> HIDE DEF T
    <3> QED BY <2>1, LeastNatural
  <2>3. Bounded(0)
    BY <1>1
  <2>4. m \in 1..Len(s) /\ m - 1 \in 0..Len(s) /\ ~Bounded(m)
    BY <2>2, <2>3
  <2>5. Bounded(m - 1)
    <3>1. m - 1 \notin T
      <4>1. m \in Nat
        BY <2>4
      <4> HIDE DEF T
      <4> QED BY <2>2, <4>1
    <3> QED BY <2>4, <3>1
  <2>6. PICK B \in Nat : \A i \in DOMAIN s : i <= m - 1 => s[i] <= B
    BY <2>5
  <2>7. PICK C \in Nat : C >= B /\ C >= s[m]
    <3>1. PICK y \in Nat : y = s[m]
      BY <1>1, <2>4
    <3>2. y + B \in Nat /\ y + B >= B /\ y + B >= y
      OBVIOUS
    <3> QED BY <3>1, <3>2
  <2>8. \A i \in DOMAIN s : i <= m => s[i] <= C
    <3> SUFFICES ASSUME NEW i \in DOMAIN s, i <= m PROVE s[i] <= C
      OBVIOUS
    <3>1. CASE i = m
      BY <2>7, <3>1
    <3>2. CASE i # m
      <4>1. i <= m - 1 /\ s[i] \in Nat
        BY <1>1, <2>4, <3>2
      <4> QED BY <2>6, <2>7, <4>1
    <3> QED BY <3>1, <3>2
  <2> QED BY <2>4, <2>8
<1>3. Len(s) \notin T
  BY <1>2
<1>4. Bounded(Len(s))
  BY <1>1, <1>3
<1> QED BY <1>1, <1>4

(* At least half of the values are not above the median. *)
LEMMA KthExists ==
  ASSUME NEW s \in Seq(Nat), NEW k \in 1..Len(s)
  PROVE  Kth(s, k) \in Nat /\ Cardinality({i \in DOMAIN s : s[i] <= Kth(s, k)}) >= k
<1> DEFINE Less(x) == {i \in DOMAIN s : s[i] < x}
           Most(x) == {i \in DOMAIN s : s[i] <= x}
           X == {x \in Nat : Cardinality(Most(x)) >= k}
<1>1. DOMAIN s = 1..Len(s) /\ Len(s) \in Nat /\ \A i \in DOMAIN s : s[i] \in Nat
  OBVIOUS
<1>2. X # {}
  <2>1. PICK B \in Nat : \A i \in DOMAIN s : s[i] <= B
    BY SequenceBounded
  <2>2. Most(B) = 1..Len(s)
    BY <1>1, <2>1
  <2>3. Cardinality(1..Len(s)) = IF 1 > Len(s) THEN 0 ELSE Len(s) - 1 + 1
    BY <1>1, FS_Interval
  <2>4. Cardinality(Most(B)) >= k
    <3> HIDE DEF Most
    <3> QED BY <1>1, <2>2, <2>3
  <2> QED BY <2>4
<1>3. PICK x \in X : \A y \in X : x <= y
  <2>1. X \subseteq Nat
    OBVIOUS
  <2> HIDE DEF X
  <2> QED BY <1>2, <2>1, LeastNatural
<1>4. x \in Nat /\ Cardinality(Most(x)) >= k
  BY <1>3
<1>5. Cardinality(Less(x)) < k
  <2>1. CASE x = 0
    <3>1. Less(x) = {}
      BY <1>1, <2>1
    <3>2. Cardinality(Less(x)) = 0
      BY <3>1, FS_EmptySet
    <3> HIDE DEF Less
    <3> QED BY <3>2
  <2>2. CASE x # 0
    <3>1. x - 1 \in Nat /\ x - 1 \notin X
      BY <1>3, <1>4, <2>2
    <3>2. Less(x) = Most(x - 1)
      BY <1>1, <1>4
    <3>3. Cardinality(Most(x - 1)) \in Nat
      BY PlacesFinite
    <3>4. ~(Cardinality(Most(x - 1)) >= k)
      BY <3>1
    <3> HIDE DEF Less, Most, X
    <3> QED BY <3>2, <3>3, <3>4
  <2> QED BY <2>1, <2>2
<1>6. x \in Range(s)
  <2>1. Less(x) # Most(x)
    <3>1. Cardinality(Less(x)) \in Nat
      BY PlacesFinite
    <3> HIDE DEF Less, Most
    <3> QED BY <1>4, <1>5, <3>1
  <2>2. PICK i \in DOMAIN s : s[i] <= x /\ ~(s[i] < x)
    BY <1>1, <1>4, <2>1
  <2>3. s[i] = x
    BY <1>1, <1>4, <2>2
  <2> QED BY <2>3 DEF Range
<1>7. Kth(s, k) \in Range(s) /\ Cardinality({i \in DOMAIN s : s[i] <= Kth(s, k)}) >= k
  BY <1>4, <1>5, <1>6 DEF Kth
<1> QED BY <1>1, <1>7 DEF Range

LEMMA MedianAbove ==
  ASSUME NEW s \in Seq(Nat), s # <<>>
  PROVE  /\ median(s) \in Nat
         /\ 2 * Cardinality({i \in DOMAIN s : s[i] <= median(s)}) >= Len(s)
<1> DEFINE m == Len(s) \div 2
           Most(x) == {i \in DOMAIN s : s[i] <= x}
<1>1. Len(s) \in Nat /\ Len(s) >= 1 /\ \A i \in DOMAIN s : s[i] \in Nat
  OBVIOUS
<1>2. ASSUME NEW a \in Nat, NEW b \in Nat, a <= b
      PROVE  /\ Cardinality(Most(a)) \in Nat /\ Cardinality(Most(b)) \in Nat
             /\ Cardinality(Most(a)) <= Cardinality(Most(b))
  <2>1. Most(a) \subseteq Most(b) /\ Most(a) \subseteq DOMAIN s /\ Most(b) \subseteq DOMAIN s
    BY <1>1, <1>2
  <2> HIDE DEF Most
  <2> QED BY <2>1, PlacesFinite, FS_Subset
<1>3. CASE Len(s) % 2 = 0
  <2>1. m \in 1..Len(s) /\ m + 1 \in 1..Len(s) /\ 2 * m = Len(s)
    BY <1>1, <1>3
  <2> HIDE DEF m
  <2>2. PICK a \in Nat, b \in Nat :
           /\ a = Kth(s, m) /\ b = Kth(s, m + 1)
           /\ Cardinality(Most(a)) >= m /\ Cardinality(Most(b)) >= m + 1
    BY <2>1, KthExists
  <2>3. PICK y \in Nat : y = (a + b) \div 2 /\ (a <= y \/ b <= y)
    OBVIOUS
  <2>4. median(s) = y
    BY <1>3, <2>2, <2>3 DEF median, m
  <2>5. Cardinality(Most(y)) \in Nat /\ Cardinality(Most(y)) >= m
    <3> HIDE DEF Most
    <3>1. CASE a <= y
      <4>1. /\ Cardinality(Most(a)) \in Nat /\ Cardinality(Most(y)) \in Nat
            /\ Cardinality(Most(a)) <= Cardinality(Most(y))
        BY <1>2, <3>1
      <4> QED BY <1>1, <2>1, <2>2, <4>1
    <3>2. CASE b <= y
      <4>1. /\ Cardinality(Most(b)) \in Nat /\ Cardinality(Most(y)) \in Nat
            /\ Cardinality(Most(b)) <= Cardinality(Most(y))
        BY <1>2, <3>2
      <4> QED BY <1>1, <2>1, <2>2, <4>1
    <3> QED BY <2>3, <3>1, <3>2
  <2>6. 2 * Cardinality(Most(y)) >= Len(s)
    <3> HIDE DEF Most
    <3> QED BY <1>1, <2>1, <2>5
  <2> QED BY <2>4, <2>6
<1>4. CASE Len(s) % 2 # 0
  <2>1. m + 1 \in 1..Len(s) /\ 2 * m + 1 = Len(s) /\ m \in Nat
    BY <1>1, <1>4
  <2> HIDE DEF m
  <2>2. PICK y \in Nat : y = Kth(s, m + 1) /\ Cardinality(Most(y)) >= m + 1
    BY <2>1, KthExists
  <2>3. median(s) = y
    BY <1>4, <2>2 DEF median, m
  <2>4. 2 * Cardinality(Most(y)) >= Len(s)
    <3>1. y <= y
      BY <2>2
    <3>2. Cardinality(Most(y)) \in Nat
      BY <1>2, <3>1
    <3> HIDE DEF Most
    <3> QED BY <1>1, <2>1, <2>2, <3>2
  <2> QED BY <2>3, <2>4
<1> QED BY <1>3, <1>4

(* The clients saw what the comparison reports. *)
FewLost(rec) == 2 * Cardinality({j \in 1..(Len(rec) - 2) : ~Intact(rec[j])}) < MinBaseline

Experienced(rec) ==
    \A i \in {Len(rec) - 1, Len(rec)} : Intact(rec[i]) =>
        \E j \in 1..(Len(rec) - 2) :
            \E now \in rec[i].done.means, was \in rec[j].done.means :
                (now - was) * 100 >= MinChangePercent * was

LEMMA RegressedIsReal ==
  ASSUME NEW os, Traced(os), Tied(os), QueryRegressionFindings(os),
         FewLost(RecentQueryObservations(os))
  PROVE  Experienced(RecentQueryObservations(os))
<1>1. PICK L \in Nat : L = Len(os) /\ L >= 1 /\ os \in Seq(Observations) /\ os # <<>>
  BY DEF Traced
<1>2. PICK d \in {0, 1}, rec \in Seq(Observations), n \in Nat :
         /\ d = 1 <=> Len(os) = HistoryLimit + 1
         /\ rec = RecentQueryObservations(os)
         /\ n = Len(rec)
         /\ n = L - d
         /\ \A i \in 1..n : rec[i] = os[i + d]
  BY <1>1, StoredTail, SMTT(30)
<1>3. PICK MB \in Nat \ {0} : MB = MinBaseline
  BY QueryRegressionAssumption
<1>4. PICK x \in Nat : x = Start(os) /\ x \in 1..L
  BY <1>1, StartOfIntervals
<1> DEFINE iv == compatibleQueryIntervals(os)
<1>5. PICK N \in Nat : N = L - x /\ iv \in Seq(Nat) /\ Len(iv) = N
  BY <1>1, <1>4, IntervalList
<1> HIDE DEF iv
<1> DEFINE base == SubSeq(iv, 1, N - 2)
<1>6. N >= MB + 2 /\ Anomalous(base, iv[N - 1]) /\ Anomalous(base, iv[N])
  BY <1>3, <1>5 DEF QueryRegressionFindings, iv, base
<1>7. PICK k \in Int : k = x - d /\ k >= 0 /\ n = N + k
  <2>1. n = L - d /\ N = L - x /\ x >= 1
    BY <1>2, <1>4, <1>5
  <2>2. x - d \in Int /\ x - d >= 0 /\ n = N + (x - d)
    BY <2>1
  <2> QED BY <2>2
(* An interval that lost no counters lies between what the clients saw. *)
<1>8. ASSUME NEW j \in 1..N
      PROVE  /\ iv[j] \in Nat
             /\ k + j \in 1..n
             /\ Intact(rec[k + j]) =>
                   /\ \E now \in rec[k + j].done.means : now \in Nat /\ now >= iv[j]
                   /\ \E was \in rec[k + j].done.means : was \in Nat /\ was <= iv[j]
  <2>1. PICK q \in Nat : q = x + j /\ q \in 2..L /\ q > x /\ q - 1 \in 1..L /\ q \in 1..L
    BY <1>4, <1>5
  <2>2. Compatible(os[q - 1], os[q])
    BY <1>1, <1>4, <2>1, StartOfIntervals
  <2>3. Sound(os[q])
    BY <1>1, <2>1, <2>2 DEF Tied
  <2>4. os[q - 1] \in Observations /\ os[q] \in Observations /\ Priced(os[q].done)
    BY <1>1, <2>1 DEF Traced
  <2>5. iv[j] = MeanOf(os[q - 1], os[q])
    <3>1. j \in 1..(Len(os) - Start(os)) /\ Start(os) + j - 1 = q - 1 /\ Start(os) + j = q
      BY <1>1, <1>4, <1>5, <2>1
    <3> QED BY <1>1, <3>1, IntervalList DEF iv
  <2>6. k + j \in 1..n /\ (k + j) + d = q
    BY <1>2, <1>7, <2>1
  <2>7. rec[k + j] = os[q]
    BY <1>2, <2>6
  <2>8. iv[j] \in Nat
    BY <1>5
  <2>9. Intact(os[q]) => Exact(os[q - 1], os[q])
    BY <1>1, <2>1, <2>3 DEF Traced, Sure
  <2>10. Intact(os[q]) =>
            /\ \E now \in os[q].done.means : now \in Nat /\ now >= iv[j]
            /\ \E was \in os[q].done.means : was \in Nat /\ was <= iv[j]
    BY <2>4, <2>5, <2>9, ExactBetween
  <2> QED BY <2>6, <2>7, <2>8, <2>10
<1>9. /\ base \in Seq(Nat) /\ base # <<>> /\ Len(base) = N - 2 /\ DOMAIN base = 1..(N - 2)
      /\ \A j \in 1..(N - 2) : base[j] = iv[j]
  <2>1. \A j \in 1..(N - 2) : iv[j] \in Nat
    BY <1>5
  <2>2. /\ base \in Seq(Nat)
        /\ Len(base) = IF 1 <= N - 2 THEN N - 2 - 1 + 1 ELSE 0
        /\ \A j \in 1..(N - 2 - 1 + 1) : base[j] = iv[1 + j - 1]
    BY <1>5, <2>1, SubSeqProperties
  <2>3. 1 <= N - 2 /\ N - 2 - 1 + 1 = N - 2 /\ \A j \in 1..(N - 2) : 1 + j - 1 = j
    BY <1>3, <1>6
  <2> HIDE DEF base
  <2>4. Len(base) = N - 2 /\ \A j \in 1..(N - 2) : base[j] = iv[j]
    BY <2>2, <2>3
  <2> QED BY <2>2, <2>3, <2>4
<1> HIDE DEF base
<1>10. PICK mid \in Nat :
          mid = median(base) /\ 2 * Cardinality({j \in DOMAIN base : base[j] <= mid}) >= N - 2
  BY <1>9, MedianAbove
<1>11. PICK y \in 1..(N - 2) : iv[y] <= mid /\ Intact(rec[k + y])
  <2> DEFINE low == {j \in DOMAIN base : base[j] <= mid}
             gone == {j \in 1..(N - 2) : ~Intact(rec[k + j])}
             lost == {j \in 1..(n - 2) : ~Intact(rec[j])}
  <2>1. 2 * Cardinality(lost) < MB
    BY <1>2, <1>3 DEF FewLost
  <2>2. IsFiniteSet(lost) /\ Cardinality(lost) \in Nat
    <3>1. IsFiniteSet(1..(n - 2))
      BY <1>2, FS_Interval
    <3>2. lost \subseteq 1..(n - 2)
      OBVIOUS
    <3> HIDE DEF lost
    <3> QED BY <3>1, <3>2, FS_Subset, FS_CardinalityType
  <2>3. \A j \in gone : k + j \in lost
    BY <1>7
  <2>4. gone \subseteq Int /\ gone \subseteq 1..(N - 2) /\ low \subseteq DOMAIN base
    OBVIOUS
  <2>5. \A j \in 1..(N - 2) : j \in low <=> iv[j] <= mid
    BY <1>9
  <2>6. \A j \in 1..(N - 2) : j \in gone <=> ~Intact(rec[k + j])
    OBVIOUS
  <2>7. 2 * Cardinality(low) >= N - 2
    BY <1>10
  <2> HIDE DEF low, gone, lost
  <2>8. IsFiniteSet(gone) /\ Cardinality(gone) \in Nat /\ Cardinality(gone) <= Cardinality(lost)
    BY <1>7, <2>2, <2>3, <2>4, ShiftedInto, FS_CardinalityType
  <2>9. Cardinality(low) \in Nat
    BY <1>9, <2>4, PlacesFinite
  <2>10. ~(low \subseteq gone)
    <3> SUFFICES ASSUME low \subseteq gone PROVE FALSE
      OBVIOUS
    <3>1. Cardinality(low) <= Cardinality(gone)
      BY <2>8, FS_Subset
    <3> QED BY <1>6, <2>1, <2>2, <2>7, <2>8, <2>9, <3>1
  <2> QED BY <1>9, <2>4, <2>5, <2>6, <2>10
<1>12. \A j \in {N - 1, N} : (iv[j] - mid) * 100 >= 50 * mid
  BY <1>6, <1>10 DEF Anomalous, MinChangePercent
<1>13. y \in 1..N /\ k + y \in 1..(n - 2) /\ iv[y] \in Nat
  <2>1. y \in 1..N /\ k + y \in 1..(n - 2)
    BY <1>7
  <2> QED BY <1>8, <2>1
<1>14. PICK was \in rec[k + y].done.means : was \in Nat /\ was <= iv[y]
  BY <1>8, <1>11, <1>13
<1>15. ASSUME NEW i \in {n - 1, n}, Intact(rec[i])
       PROVE  \E j \in 1..(n - 2) :
                 \E now \in rec[i].done.means, w \in rec[j].done.means :
                    (now - w) * 100 >= MinChangePercent * w
  <2>1. PICK z \in 1..N : z \in {N - 1, N} /\ k + z = i
    <3>1. CASE i = n
      <4>1. N \in 1..N /\ k + N = i
        BY <1>3, <1>6, <1>7, <3>1
      <4> QED BY <4>1
    <3>2. CASE i = n - 1
      <4>1. N - 1 \in 1..N /\ k + (N - 1) = i
        BY <1>3, <1>6, <1>7, <3>2
      <4> QED BY <4>1
    <3> QED BY <3>1, <3>2
  <2>2. PICK now \in rec[i].done.means : now \in Nat /\ now >= iv[z]
    BY <1>8, <1>15, <2>1
  <2>3. PICK a \in Nat, b \in Nat : a = iv[z] /\ b = iv[y]
    BY <1>8, <1>13
  <2>4. (a - mid) * 100 >= 50 * mid /\ now >= a /\ b <= mid /\ was <= b
    BY <1>11, <1>12, <1>14, <2>1, <2>2, <2>3
  <2>5. (now - was) * 100 >= 50 * was
    BY <1>14, <2>2, <2>4
  <2>6. (now - was) * 100 >= MinChangePercent * was
    BY <2>5 DEF MinChangePercent
  <2> QED BY <1>13, <1>14, <2>2, <2>6, Zenon
<1>16. Experienced(rec)
  <2>1. n = Len(rec)
    BY <1>2
  <2> QED BY <1>15, <2>1 DEF Experienced
<1> QED BY <1>2, <1>16

-----------------------------------------------------------------------------
(* The inductive invariant *)

Shape ==
    /\ observed \in Seq(Observations)
    /\ done \in DoneType
    /\ Priced(done)
    /\ crossed \subseteq {"boundary", "loss"}

(* The last observation, against what the server says and what was executed. *)
Counted(o) ==
    /\ Listed(o) /\ "loss" \notin crossed =>
          /\ counters.calls = o.calls + done.calls
          /\ counters.runtime = o.runtime + done.runtime
    /\ Listed(o) => /\ counters.calls <= o.calls + done.calls
                    /\ counters.runtime <= o.runtime + done.runtime

Dated(o) ==
    /\ o.resetAt = NoTime <=> o.startedAt = NoTime
    /\ o.resetAt # NoTime =>
          /\ hasInfo
          /\ o.resetAt <= resetAt /\ o.startedAt <= startedAt
          /\ IF "boundary" \in crossed
             THEN o.resetAt < resetAt \/ o.startedAt < startedAt
             ELSE o.resetAt = resetAt /\ o.startedAt = startedAt

Accounts ==
    observed # <<>> => Counted(observed[Len(observed)]) /\ Dated(observed[Len(observed)])

History ==
    /\ \A i \in DOMAIN observed : Priced(observed[i].done)
    /\ \A i \in 2..Len(observed) : Sure(observed[i]) => Exact(observed[i - 1], observed[i])
    /\ observed # <<>> /\ Len(observed) < HistoryLimit => ~observed[1].measured
    /\ Tied(observed)

(* What the comparison left for the end of the cycle. *)
NoSteadyReport ==
    phase = "analyze" /\ complete /\ report => \A w \in Workload : ~Steady(observed, w.mean)

JudgedWindow ==
    phase = "analyze" /\ complete /\ open /\ ~report => FullWindow(observed)

IInv ==
    /\ TypeOK /\ Shape /\ Accounts /\ History
    /\ NoSteadyReport /\ JudgedWindow
    /\ SpikesDoNotHide /\ SteadyMeansResolved /\ NoFalseAlarm

-----------------------------------------------------------------------------
(* The observation of a standard cycle *)

LEMMA ObservationFacts ==
  ASSUME TypeOK, Shape, NEW kind \in ObservationKinds, NEW o, o = Observation(kind)
  PROVE  /\ o \in Observations
         /\ o.done = done
         /\ o.crossed = crossed
         /\ Listed(o) => o.calls = counters.calls /\ o.runtime = counters.runtime
         /\ o.resetAt = NoTime <=> o.startedAt = NoTime
         /\ o.resetAt # NoTime => hasInfo /\ o.resetAt = resetAt /\ o.startedAt = startedAt
         /\ o.measured <=> /\ observed # <<>>
                           /\ Listed(o)
                           /\ Listed(observed[Len(observed)])
                           /\ o.resetAt = NoTime <=> observed[Len(observed)].resetAt = NoTime
                           /\ done.calls >= MinCalls
                           /\ done.runtime >= MinRuntime
<1> DEFINE row == IF kind \in {"hidden", "dropped"} THEN Gone ELSE counters
           info == hasInfo /\ kind \notin {"dropped", "unknown"}
           measured == /\ observed # <<>>
                       /\ row.calls > 0
                       /\ Listed(Last(observed))
                       /\ info = (Last(observed).resetAt # NoTime)
                       /\ done.calls >= MinCalls
                       /\ done.runtime >= MinRuntime
           reset == IF info THEN resetAt ELSE NoTime
           started == IF info THEN startedAt ELSE NoTime
<1>1. /\ row \in [calls : Nat, runtime : Nat] /\ info \in BOOLEAN /\ measured \in BOOLEAN
      /\ reset \in Nat \cup {NoTime} /\ started \in Nat \cup {NoTime}
  BY DEF TypeOK, Gone
<1>2. o = [calls |-> row.calls, runtime |-> row.runtime, resetAt |-> reset, startedAt |-> started,
           done |-> done, crossed |-> crossed, measured |-> measured]
  BY Zenon DEF Observation, CollectQueries
<1>3. /\ row.calls > 0 => row = counters
      /\ reset = NoTime <=> ~info
      /\ started = NoTime <=> ~info
      /\ info => hasInfo /\ reset = resetAt /\ started = startedAt
  BY DEF TypeOK, NoTime, Gone
<1> HIDE DEF row, info, reset, started
<1>4. Last(observed) = observed[Len(observed)]
  BY DEF Last
<1> HIDE DEF measured
<1>5. /\ o.calls = row.calls /\ o.runtime = row.runtime /\ o.resetAt = reset
      /\ o.startedAt = started /\ o.done = done /\ o.crossed = crossed /\ o.measured = measured
  BY <1>2
<1>6. o \in Observations
  BY <1>1, <1>2 DEF Observations, Shape
<1>7. Listed(o) <=> row.calls > 0
  BY <1>5 DEF Listed
<1>8. o.measured <=> /\ observed # <<>>
                     /\ Listed(o)
                     /\ Listed(observed[Len(observed)])
                     /\ o.resetAt = NoTime <=> observed[Len(observed)].resetAt = NoTime
                     /\ done.calls >= MinCalls
                     /\ done.runtime >= MinRuntime
  BY <1>1, <1>3, <1>4, <1>5, <1>7 DEF measured
<1> QED BY <1>3, <1>5, <1>6, <1>7, <1>8

LEMMA LastInterval ==
  ASSUME IInv, observed # <<>>, NEW kind \in ObservationKinds, NEW o, o = Observation(kind),
         NEW p, p = observed[Len(observed)]
  PROVE  /\ Sure(o) => Exact(p, o)
         /\ Compatible(p, o) => Sound(o)
<1>1. /\ o \in Observations
      /\ o.done = done
      /\ o.crossed = crossed
      /\ Listed(o) => o.calls = counters.calls /\ o.runtime = counters.runtime
      /\ o.resetAt = NoTime <=> o.startedAt = NoTime
      /\ o.resetAt # NoTime => hasInfo /\ o.resetAt = resetAt /\ o.startedAt = startedAt
      /\ o.measured <=> /\ Listed(o) /\ Listed(p)
                        /\ o.resetAt = NoTime <=> p.resetAt = NoTime
                        /\ done.calls >= MinCalls /\ done.runtime >= MinRuntime
  BY ObservationFacts DEF IInv
<1>2. p \in Observations
  BY DEF IInv, Shape
<1>3. Counted(p) /\ Dated(p)
  BY DEF IInv, Accounts
<1>4. PICK c \in Nat, r \in Nat : c = done.calls /\ r = done.runtime
  BY DEF IInv, Shape, DoneType
<1>5. PICK pc \in Nat, pr \in Nat : pc = p.calls /\ pr = p.runtime
  BY <1>2 DEF Observations
<1>6. counters.calls \in Nat /\ counters.runtime \in Nat /\ resetAt \in Nat /\ startedAt \in Nat
  BY DEF IInv, TypeOK
<1>7. ASSUME Sure(o) PROVE Exact(p, o)
  <2>1. /\ o.measured /\ "loss" \notin crossed
        /\ "boundary" \in crossed => o.resetAt = NoTime
    BY <1>1, <1>7 DEF Sure, Sound, Intact
  <2>2. o.calls = pc + c /\ o.runtime = pr + r
    BY <1>1, <1>3, <1>4, <1>5, <2>1 DEF Counted
  <2>3. o.resetAt = p.resetAt /\ o.startedAt = p.startedAt
    <3>1. CASE o.resetAt = NoTime
      BY <1>1, <1>3, <2>1, <3>1 DEF Dated
    <3>2. CASE o.resetAt # NoTime
      BY <1>1, <1>3, <2>1, <3>2 DEF Dated
    <3> QED BY <3>1, <3>2
  <2>4. c >= MinCalls /\ r >= MinRuntime /\ Listed(o) /\ Listed(p)
    BY <1>1, <1>4, <2>1
  <2>5. o.calls - pc = c /\ o.runtime - pr = r
    BY <2>2
  <2>6. Compatible(p, o)
    BY <1>5, <2>3, <2>4, <2>5 DEF Compatible, sameBoundary
  <2> QED BY <1>1, <1>4, <1>5, <2>2, <2>6 DEF Exact
<1>8. ASSUME Compatible(p, o) PROVE Sound(o)
  <2>1. /\ Listed(o) /\ Listed(p) /\ o.resetAt = p.resetAt /\ o.startedAt = p.startedAt
        /\ o.calls - pc >= MinCalls /\ o.runtime - pr >= MinRuntime
    BY <1>5, <1>8 DEF Compatible, sameBoundary
  <2>2. PICK oc \in Nat, r2 \in Nat : oc = o.calls /\ r2 = o.runtime /\ oc <= pc + c /\ r2 <= pr + r
    BY <1>1, <1>3, <1>4, <1>5, <1>6, <2>1 DEF Counted
  <2>3. c >= MinCalls /\ r >= MinRuntime
    BY <2>1, <2>2, SMTT(30) DEF MinCalls, MinRuntime
  <2>4. o.measured
    BY <1>1, <1>4, <2>1, <2>3
  <2>5. ASSUME "boundary" \in crossed, o.resetAt # NoTime PROVE FALSE
    <3>1. p.resetAt = resetAt /\ p.startedAt = startedAt /\ p.resetAt # NoTime
      BY <1>1, <2>1, <2>5
    <3>2. p.resetAt < resetAt \/ p.startedAt < startedAt
      BY <1>3, <2>5, <3>1 DEF Dated
    <3> QED BY <1>6, <3>1, <3>2
  <2> QED BY <1>1, <2>4, <2>5 DEF Sound
<1> QED BY <1>7, <1>8

LEMMA Appended ==
  ASSUME IInv, NEW kind \in ObservationKinds, NEW os, os = Append(observed, Observation(kind))
  PROVE  Traced(os) /\ Tied(os)
<1>1. PICK o \in Observations :
         /\ o = Observation(kind)
         /\ o.done = done
         /\ observed = <<>> => ~o.measured
  BY ObservationFacts DEF IInv
<1>2. PICK n \in Nat, H \in Nat :
         n = Len(observed) /\ n <= H /\ H = HistoryLimit /\ H >= 1 /\ observed \in Seq(Observations)
  BY QueryRegressionAssumption DEF IInv, Shape, TypeOK
<1>3. /\ os \in Seq(Observations) /\ os # <<>> /\ Len(os) = n + 1 /\ os[n + 1] = o
      /\ \A i \in 1..n : os[i] = observed[i]
  BY <1>1, <1>2
<1>4. n # 0 => /\ observed # <<>>
               /\ Sure(o) => Exact(observed[n], o)
               /\ Compatible(observed[n], o) => Sound(o)
  <2>1. n # 0 => observed # <<>>
    BY <1>2
  <2> QED BY <1>1, <1>2, <2>1, LastInterval
<1>5. \A i \in DOMAIN os : Priced(os[i].done)
  <2> SUFFICES ASSUME NEW i \in DOMAIN os PROVE Priced(os[i].done)
    OBVIOUS
  <2>1. CASE i = n + 1
    BY <1>1, <1>3, <2>1 DEF IInv, Shape
  <2>2. CASE i # n + 1
    <3>1. i \in 1..n /\ i \in DOMAIN observed
      BY <1>2, <1>3, <2>2
    <3> QED BY <1>3, <3>1 DEF IInv, History
  <2> QED BY <2>1, <2>2
<1>6. ASSUME NEW i \in 2..Len(os)
      PROVE  /\ Sure(os[i]) => Exact(os[i - 1], os[i])
             /\ Compatible(os[i - 1], os[i]) => Sound(os[i])
  <2>1. CASE i = n + 1
    <3>1. n # 0 /\ i - 1 = n /\ n \in 1..n
      BY <1>3, <2>1
    <3> QED BY <1>3, <1>4, <2>1, <3>1
  <2>2. CASE i # n + 1
    <3>1. i \in 1..n /\ i - 1 \in 1..n /\ i \in 2..Len(observed)
      BY <1>2, <1>3, <2>2
    <3> QED BY <1>3, <3>1 DEF IInv, History, Tied
  <2> QED BY <2>1, <2>2
<1>7. Len(os) <= HistoryLimit => ~os[1].measured
  <2>1. CASE n = 0
    <3>1. observed = <<>> /\ os[1] = o
      BY <1>2, <1>3, <2>1
    <3> QED BY <1>1, <3>1
  <2>2. CASE n # 0
    <3>1. os[1] = observed[1] /\ observed # <<>> /\ n \in Nat /\ n = Len(observed)
      BY <1>2, <1>3, <2>2
    <3>2. Len(observed) < HistoryLimit => ~observed[1].measured
      BY <3>1 DEF IInv, History
    <3>3. Len(os) <= HistoryLimit => n < HistoryLimit
      BY <1>2, <1>3
    <3> QED BY <3>1, <3>2, <3>3
  <2> QED BY <2>1, <2>2
<1>8. Len(os) <= HistoryLimit + 1
  BY <1>2, <1>3
<1> QED BY <1>3, <1>5, <1>6, <1>7, <1>8 DEF Traced, Tied

LEMMA Stored ==
  ASSUME IInv, NEW kind \in ObservationKinds, Store(Observation(kind)), UNCHANGED serverVars
  PROVE  Shape' /\ Accounts' /\ History' /\ Len(observed') <= HistoryLimit
<1> DEFINE os == Append(observed, Observation(kind))
<1>1. Traced(os) /\ Tied(os)
  BY Appended
<1>2. /\ observed' = RecentQueryObservations(os) /\ done' = Idle /\ crossed' = {}
      /\ counters' = counters /\ resetAt' = resetAt /\ startedAt' = startedAt
      /\ hasInfo' = hasInfo
  BY DEF Store, serverVars
<1>3. PICK o \in Observations :
         /\ o = Observation(kind)
         /\ Listed(o) => o.calls = counters.calls /\ o.runtime = counters.runtime
         /\ o.resetAt = NoTime <=> o.startedAt = NoTime
         /\ o.resetAt # NoTime => hasInfo /\ o.resetAt = resetAt /\ o.startedAt = startedAt
  BY ObservationFacts DEF IInv
<1>4. PICK L \in Nat : L = Len(os) /\ L >= 1 /\ os \in Seq(Observations) /\ os[L] = o
  BY <1>3 DEF IInv, Shape
<1> HIDE DEF os
<1>5. PICK d \in {0, 1}, n \in Nat :
         /\ d = 1 <=> L = HistoryLimit + 1
         /\ observed' \in Seq(Observations)
         /\ n = Len(observed')
         /\ n = L - d
         /\ \A i \in 1..n : observed'[i] = os[i + d]
  <2>1. PICK d \in {0, 1}, rec \in Seq(Observations), n \in Nat :
           /\ d = 1 <=> Len(os) = HistoryLimit + 1
           /\ rec = RecentQueryObservations(os)
           /\ n = Len(rec)
           /\ n = L - d
           /\ \A i \in 1..n : rec[i] = os[i + d]
    BY <1>1, <1>4, StoredTail, SMTT(30)
  <2>2. rec = observed' /\ Len(os) = L
    BY <1>2, <1>4, <2>1
  <2> QED BY <2>1, <2>2
<1>6. PICK H \in Nat : H = HistoryLimit /\ H >= 3 /\ L <= H + 1
  BY <1>1, <1>4, QueryRegressionAssumption DEF Traced
<1>7. n >= 1 /\ observed'[n] = o
  BY <1>4, <1>5, <1>6
<1>8. n = Len(observed') /\ DOMAIN observed' = 1..n
  <2>1. n = Len(observed') /\ observed' \in Seq(Observations)
    BY <1>5
  <2> QED BY <2>1
<1>9. Shape'
  <2>1. Priced(Idle)
    BY DEF Priced, Idle
  <2>2. Idle \in DoneType
    BY DEF Idle, DoneType
  <2> QED BY <1>2, <1>5, <2>1, <2>2 DEF Shape
<1>10. Accounts'
  <2>1. counters.calls \in Nat /\ counters.runtime \in Nat /\ resetAt \in Nat /\ startedAt \in Nat
    BY DEF IInv, TypeOK
  <2>2. Counted(o)'
    BY <1>2, <1>3, <2>1 DEF Counted, Idle, Listed
  <2>3. Dated(o)'
    BY <1>2, <1>3, <2>1 DEF Dated
  <2>4. observed'[Len(observed')] = o
    BY <1>5, <1>7
  <2> QED BY <1>2, <2>2, <2>3, <2>4 DEF Accounts
<1>11. History'
  <2>1. \A i \in DOMAIN observed' : Priced(observed'[i].done)
    <3> SUFFICES ASSUME NEW i \in 1..n PROVE Priced(os[i + d].done)
      BY <1>5, <1>8
    <3>1. i + d \in DOMAIN os
      BY <1>4, <1>5
    <3> QED BY <1>1, <3>1 DEF Traced
  <2>2. ASSUME NEW i \in 2..n
        PROVE  /\ Sure(observed'[i]) => Exact(observed'[i - 1], observed'[i])
               /\ Compatible(observed'[i - 1], observed'[i]) => Sound(observed'[i])
    <3>1. i + d \in 2..L /\ i \in 1..n /\ i - 1 \in 1..n /\ (i - 1) + d = (i + d) - 1
      BY <1>5
    <3>2. observed'[i] = os[i + d] /\ observed'[i - 1] = os[(i + d) - 1]
      BY <1>5, <3>1
    <3> QED BY <1>1, <1>4, <3>1, <3>2 DEF Traced, Tied
  <2>3. n < H => ~observed'[1].measured
    <3> SUFFICES ASSUME n < H PROVE ~observed'[1].measured
      OBVIOUS
    <3>1. d = 0 /\ L <= HistoryLimit
      BY <1>5, <1>6
    <3>2. observed'[1] = os[1]
      BY <1>5, <1>7, <3>1
    <3> QED BY <1>1, <1>4, <3>1, <3>2 DEF Traced
  <2> QED BY <1>2, <1>6, <1>8, <2>1, <2>2, <2>3 DEF History, Tied
<1>12. Len(observed') <= HistoryLimit
  BY <1>5, <1>6, <1>8
<1> QED BY <1>9, <1>10, <1>11, <1>12

LEMMA Alarmed ==
  ASSUME IInv, NEW kind \in ObservationKinds, Compare(Observation(kind)), Store(Observation(kind))
  PROVE  NoFalseAlarm'
<1> DEFINE os == Append(observed, Observation(kind))
<1>1. Traced(os) /\ Tied(os)
  BY Appended
<1>2. observed' = RecentQueryObservations(os)
  BY DEF Store
<1>3. verdict' = "regressed" => QueryRegressionFindings(os)
  BY Zenon DEF Compare
<1> HIDE DEF os
<1>4. verdict' = "regressed" /\ FewLost(observed') => Experienced(observed')
  BY <1>1, <1>2, <1>3, RegressedIsReal
<1> QED BY <1>4, Zenon DEF NoFalseAlarm, FewLost, Experienced, Slower

LEMMA Judged ==
  ASSUME IInv, NEW kind \in ObservationKinds, Compare(Observation(kind)),
         Store(Observation(kind)), open' = open
  PROVE  NoSteadyReport' /\ JudgedWindow' /\ SpikesDoNotHide'
<1> DEFINE os == Append(observed, Observation(kind))
           regressed == QueryRegressionFindings(os)
           ready == QueryRegressionFindingReady(os)
<1>1. Traced(os) /\ Tied(os)
  BY Appended
<1>2. /\ regressed => verdict' = "regressed"
      /\ report' <=> regressed \/ (open /\ ~ready)
  BY Zenon DEF Compare
<1>3. observed' = RecentQueryObservations(os)
  BY DEF Store
<1>4. \A w \in Workload : w.mean \in Nat
  BY QueryRegressionAssumption
<1> HIDE DEF os, regressed, ready
<1>5. NoSteadyReport'
  <2> SUFFICES ASSUME report', NEW w \in Workload, Steady(observed', w.mean) PROVE FALSE
    BY DEF NoSteadyReport
  <2>1. ready /\ ~regressed
    BY <1>1, <1>3, <1>4, SteadyQuiet DEF ready, regressed
  <2> QED BY <1>2, <2>1
<1>6. JudgedWindow'
  <2> SUFFICES ASSUME open, ~report' PROVE FullWindow(observed')
    BY DEF JudgedWindow
  <2>1. ready
    BY <1>2
  <2> QED BY <1>1, <1>3, <2>1, ReadyWindow DEF ready
<1>7. SpikesDoNotHide'
  <2>1. ASSUME NEW u \in Nat, verdict' # "regressed" PROVE ~Regressing(observed', u)
    BY <1>1, <1>2, <1>3, <2>1, SpikesCaught DEF regressed
  <2> DEFINE n == Len(observed')
             sure == {i \in 1..n : \A j \in i..n : Sound(observed'[j]) /\ Intact(observed'[j])}
             baseline == {i \in sure : i <= n - 2}
  <2>2. baseline = SureBaseline(observed')
    BY DEF SureBaseline, Sure
  <2> SUFFICES ASSUME verdict' # "regressed", NEW usual \in {w.mean : w \in Workload}
               PROVE  ~ /\ Cardinality(baseline) >= MinBaseline
                        /\ usual >= MinMean
                        /\ 2 * Cardinality({i \in baseline : observed'[i].done.means = {usual}})
                              > HistoryLimit - 2
                        /\ \A i \in {n - 1, n} : \A now \in observed'[i].done.means :
                              /\ (now - usual) * 100 >= MinChangePercent * usual
                              /\ now - usual >= MinMean
    BY Zenon DEF SpikesDoNotHide
  <2>3. usual \in Nat
    BY <1>4
  <2> HIDE DEF baseline
  <2> QED BY <2>1, <2>2, <2>3, Zenon DEF Regressing
<1> QED BY <1>5, <1>6, <1>7

-----------------------------------------------------------------------------
(* What a step does to the parts of the invariant *)

LEMMA PricedMore ==
  ASSUME NEW d \in DoneType, Priced(d), NEW c \in Nat, NEW x \in Nat,
         NEW e, e = [means |-> d.means \cup {x}, calls |-> d.calls + c,
                     runtime |-> d.runtime + c * x]
  PROVE  e \in DoneType /\ Priced(e)
<1>1. PICK dc \in Nat, dr \in Nat : dc = d.calls /\ dr = d.runtime
  BY DEF DoneType
<1>2. c * x \in Nat
  OBVIOUS
<1>3. e \in DoneType
  BY <1>1, <1>2 DEF DoneType
<1>4. ASSUME NEW t \in Nat, \A m \in d.means \cup {x} : m >= t
      PROVE  (dc + c) * t <= dr + c * x
  <2>1. dc * t <= dr /\ x >= t
    BY <1>1, <1>4 DEF Priced
  <2>2. c * t <= c * x
    BY <2>1
  <2>3. dc * t \in Nat /\ c * t \in Nat /\ (dc + c) * t = dc * t + c * t
    OBVIOUS
  <2> QED BY <1>2, <2>1, <2>2, <2>3
<1>5. ASSUME NEW t \in Nat, \A m \in d.means \cup {x} : m <= t
      PROVE  dr + c * x <= (dc + c) * t
  <2>1. dr <= dc * t /\ x <= t
    BY <1>1, <1>5 DEF Priced
  <2>2. c * x <= c * t
    BY <2>1
  <2>3. dc * t \in Nat /\ c * t \in Nat /\ (dc + c) * t = dc * t + c * t
    OBVIOUS
  <2> QED BY <1>2, <2>1, <2>2, <2>3
<1>6. e.means = d.means \cup {x} /\ e.calls = dc + c /\ e.runtime = dr + c * x
  BY <1>1
<1> QED BY <1>3, <1>4, <1>5, <1>6 DEF Priced

LEMMA HistoryKept ==
  ASSUME IInv, UNCHANGED observed
  PROVE  History'
  BY DEF IInv, History, Tied

LEMMA AccountsOf ==
  ASSUME IInv, UNCHANGED observed,
         \A o \in Observations : Counted(o) /\ Dated(o) => Counted(o)' /\ Dated(o)'
  PROVE  Accounts'
<1>1. observed # <<>> => observed[Len(observed)] \in Observations
  BY DEF IInv, Shape
<1> QED BY <1>1 DEF IInv, Accounts

-----------------------------------------------------------------------------
(* Types *)

LEMMA ObservedTypes ==
  ASSUME NEW os \in Seq(Observations)
  PROVE  \A i \in DOMAIN os : /\ {os[i].calls, os[i].runtime} \subseteq Nat
                              /\ {os[i].resetAt, os[i].startedAt} \subseteq Nat \cup {NoTime}
<1> SUFFICES ASSUME NEW i \in DOMAIN os
             PROVE  /\ {os[i].calls, os[i].runtime} \subseteq Nat
                    /\ {os[i].resetAt, os[i].startedAt} \subseteq Nat \cup {NoTime}
  OBVIOUS
<1>1. os[i] \in Observations
  OBVIOUS
<1> QED BY <1>1 DEF Observations

LEMMA UpsetType ==
  ASSUME TypeOK, NEW kind, Upset(kind)
  PROVE  upsets' \in 0..MaxUpsets
  BY QueryRegressionAssumption DEF TypeOK, Upset

LEMMA SeenType ==
  ASSUME TypeOK, NEW kind \in ObservationKinds, Seen(kind)
  PROVE  upsets' \in 0..MaxUpsets
<1>1. CASE kind = "plain"
  BY <1>1 DEF Seen, TypeOK
<1>2. CASE kind # "plain"
  BY <1>2, UpsetType DEF Seen
<1> QED BY <1>1, <1>2

LEMMA VerdictType ==
  ASSUME NEW o, Compare(o)
  PROVE  verdict' \in {"regressed", "normal", "insufficient"} /\ report' \in BOOLEAN
  BY DEF Compare

(* The types after an observation that was stored. *)
LEMMA ObservedTypeOK ==
  ASSUME TypeOK, UNCHANGED <<serverVars, open, periods, shifts>>, Shape',
         Len(observed') <= HistoryLimit, NEW o, Compare(o), phase' = "analyze",
         complete' \in BOOLEAN, upsets' \in 0..MaxUpsets
  PROVE  TypeOK'
<1>1. verdict' \in {"regressed", "normal", "insufficient"} /\ report' \in BOOLEAN
  BY VerdictType
<1>2. \A i \in DOMAIN observed' :
         /\ {observed'[i].calls, observed'[i].runtime} \subseteq Nat
         /\ {observed'[i].resetAt, observed'[i].startedAt} \subseteq Nat \cup {NoTime}
  BY ObservedTypes DEF Shape
<1>3. done'.calls \in Nat /\ done'.runtime \in Nat
  BY DEF Shape, DoneType
<1> QED BY <1>1, <1>2, <1>3 DEF TypeOK, serverVars

-----------------------------------------------------------------------------
(* Every step keeps the invariant *)

LEMMA WorkStep ==
  ASSUME IInv, Work
  PROVE  IInv'
<1>1. PICK lc \in Nat \ {0}, lm \in Nat \ {0} : lc = load.calls /\ lm = load.mean
  BY QueryRegressionAssumption DEF IInv, TypeOK
<1>2. PICK cc \in Nat, cr \in Nat : cc = counters.calls /\ cr = counters.runtime
  BY DEF IInv, TypeOK
<1>3. PICK dc \in Nat, dr \in Nat : dc = done.calls /\ dr = done.runtime
  BY DEF IInv, Shape, DoneType
<1>4. PICK w \in Nat : w = lc * lm
  OBVIOUS
<1>5. counters' = [calls |-> cc + lc, runtime |-> cr + w]
  BY <1>1, <1>2, <1>4 DEF Work
<1>6. done' = [means |-> done.means \cup {lm}, calls |-> dc + lc, runtime |-> dr + w]
  BY <1>1, <1>3, <1>4 DEF Work
<1>7. done' \in DoneType /\ Priced(done')
  <2>1. done \in DoneType /\ Priced(done)
    BY DEF IInv, Shape
  <2>2. done' = [means |-> done.means \cup {lm}, calls |-> done.calls + lc,
                 runtime |-> done.runtime + lc * lm]
    BY <1>3, <1>4, <1>6
  <2> QED BY <2>1, <2>2, PricedMore
<1>8. Shape'
  BY <1>7 DEF Shape, IInv, Work
<1>9. TypeOK'
  <2>1. counters' \in [calls : Nat, runtime : Nat]
    BY <1>5
  <2>2. done'.calls \in Nat /\ done'.runtime \in Nat
    BY <1>7 DEF DoneType
  <2>3. periods' \in 0..MaxPeriods
    BY QueryRegressionAssumption DEF IInv, TypeOK, Work
  <2> QED BY <2>1, <2>2, <2>3 DEF IInv, TypeOK, Work
<1>10. Accounts'
  <2>1. \A o \in Observations : Counted(o) /\ Dated(o) => Counted(o)' /\ Dated(o)'
    <3> SUFFICES ASSUME NEW o \in Observations, Counted(o), Dated(o)
                 PROVE  Counted(o)' /\ Dated(o)'
      OBVIOUS
    <3>1. Dated(o)'
      BY DEF Dated, Work
    <3>2. PICK oc \in Nat, r2 \in Nat : oc = o.calls /\ r2 = o.runtime
      BY DEF Observations
    <3>3. counters'.calls = cc + lc /\ counters'.runtime = cr + w
      BY <1>5
    <3>4. done'.calls = dc + lc /\ done'.runtime = dr + w /\ crossed' = crossed
      BY <1>6 DEF Work
    <3>5. Counted(o)'
      BY <1>1, <1>2, <1>3, <3>2, <3>3, <3>4 DEF Counted, Listed
    <3> QED BY <3>1, <3>5
  <2> QED BY <2>1, AccountsOf DEF Work, IInv, Accounts
<1>11. History'
  BY HistoryKept DEF Work
<1>12. NoSteadyReport' /\ JudgedWindow' /\ SpikesDoNotHide' /\ SteadyMeansResolved' /\ NoFalseAlarm'
  BY DEF Work, NoSteadyReport, JudgedWindow, SpikesDoNotHide, SteadyMeansResolved, NoFalseAlarm
<1> QED BY <1>8, <1>9, <1>10, <1>11, <1>12 DEF IInv

LEMMA ShiftStep ==
  ASSUME IInv, NEW w \in Workload, Shift(w)
  PROVE  IInv'
<1> USE DEF Shift, cycleVars, historyVars
<1>1. TypeOK' /\ Shape'
  BY QueryRegressionAssumption DEF IInv, TypeOK, Shape
<1>2. Accounts'
  BY DEF IInv, Accounts, Counted, Dated
<1>3. History'
  BY HistoryKept DEF IInv, TypeOK
<1>4. NoSteadyReport' /\ JudgedWindow' /\ SpikesDoNotHide' /\ NoFalseAlarm'
  BY DEF NoSteadyReport, JudgedWindow, SpikesDoNotHide, NoFalseAlarm
<1>5. SteadyMeansResolved'
  BY DEF IInv, SteadyMeansResolved
<1> QED BY <1>1, <1>2, <1>3, <1>4, <1>5 DEF IInv

(* The verdict of the last comparison stays while no cycle is at its end. *)
LEMMA VerdictKept ==
  ASSUME IInv, phase # "analyze", UNCHANGED <<observed, open, cycleVars, verdict>>
  PROVE  /\ NoSteadyReport' /\ JudgedWindow'
         /\ SpikesDoNotHide' /\ SteadyMeansResolved' /\ NoFalseAlarm'
<1>1. NoSteadyReport' /\ JudgedWindow' /\ SpikesDoNotHide' /\ NoFalseAlarm'
  BY DEF NoSteadyReport, JudgedWindow, SpikesDoNotHide, NoFalseAlarm, cycleVars
<1>2. SteadyMeansResolved'
  BY DEF IInv, SteadyMeansResolved, cycleVars
<1> QED BY <1>1, <1>2

LEMMA EvictStep ==
  ASSUME IInv, Evict
  PROVE  IInv'
<1>1. upsets' \in 0..MaxUpsets
  BY UpsetType DEF IInv, Evict
<1>2. TypeOK' /\ Shape'
  BY <1>1 DEF IInv, TypeOK, Shape, Evict, Gone, cycleVars
<1>3. Accounts'
  <2>1. \A o \in Observations : Counted(o) /\ Dated(o) => Counted(o)' /\ Dated(o)'
    <3> SUFFICES ASSUME NEW o \in Observations, Counted(o), Dated(o)
                 PROVE  Counted(o)' /\ Dated(o)'
      OBVIOUS
    <3>1. Dated(o)'
      BY DEF Dated, Evict
    <3>2. o.calls \in Nat /\ o.runtime \in Nat /\ done.calls \in Nat /\ done.runtime \in Nat
      BY DEF Observations, IInv, Shape, DoneType
    <3>3. Counted(o)'
      BY <3>2 DEF Counted, Evict, Gone, Listed
    <3> QED BY <3>1, <3>3
  <2> QED BY <2>1, AccountsOf DEF Evict, IInv, Accounts
<1>4. History'
  BY HistoryKept DEF Evict
<1>5. NoSteadyReport' /\ JudgedWindow' /\ SpikesDoNotHide' /\ SteadyMeansResolved' /\ NoFalseAlarm'
  BY VerdictKept DEF Evict
<1> QED BY <1>2, <1>3, <1>4, <1>5 DEF IInv

LEMMA ResetStep ==
  ASSUME IInv, ResetStatistics
  PROVE  IInv'
<1>1. upsets' \in 0..MaxUpsets
  BY UpsetType DEF IInv, ResetStatistics
<1>2. TypeOK' /\ Shape'
  BY <1>1 DEF IInv, TypeOK, Shape, ResetStatistics, Gone, cycleVars
<1>3. /\ "boundary" \in crossed' /\ "loss" \in crossed'
      /\ resetAt' = resetAt + 1 /\ startedAt' = startedAt
      /\ hasInfo' = hasInfo /\ observed' = observed /\ done' = done /\ counters' = Gone
  BY DEF ResetStatistics
<1>4. Accounts'
  <2>1. \A o \in Observations : Counted(o) /\ Dated(o) => Counted(o)' /\ Dated(o)'
    <3> SUFFICES ASSUME NEW o \in Observations, Counted(o), Dated(o)
                 PROVE  Counted(o)' /\ Dated(o)'
      OBVIOUS
    <3>1. Dated(o)'
      <4>1. o.resetAt \in Int /\ resetAt \in Nat
        BY DEF Observations, NoTime, IInv, TypeOK
      <4> QED BY <1>3, <4>1 DEF Dated
    <3>2. o.calls \in Nat /\ o.runtime \in Nat /\ done.calls \in Nat /\ done.runtime \in Nat
      BY DEF Observations, IInv, Shape, DoneType
    <3>3. Counted(o)'
      BY <1>3, <3>2 DEF Counted, Gone, Listed
    <3> QED BY <3>1, <3>3
  <2> QED BY <1>3, <2>1, AccountsOf DEF IInv, Accounts
<1>5. History'
  BY <1>3, HistoryKept
<1>6. NoSteadyReport' /\ JudgedWindow' /\ SpikesDoNotHide' /\ SteadyMeansResolved' /\ NoFalseAlarm'
  BY VerdictKept DEF ResetStatistics
<1> QED BY <1>2, <1>4, <1>5, <1>6 DEF IInv

LEMMA RestartStep ==
  ASSUME IInv, RestartPostgres
  PROVE  IInv'
<1>1. upsets' \in 0..MaxUpsets
  BY UpsetType DEF IInv, RestartPostgres
<1>2. TypeOK' /\ Shape'
  BY <1>1 DEF IInv, TypeOK, Shape, RestartPostgres, cycleVars
<1>3. /\ "boundary" \in crossed'
      /\ "loss" \in crossed' <=> "loss" \in crossed
      /\ startedAt' = startedAt + 1 /\ resetAt' = resetAt /\ counters' = counters
      /\ hasInfo' = hasInfo /\ observed' = observed /\ done' = done
  BY DEF RestartPostgres
<1>4. Accounts'
  <2>1. \A o \in Observations : Counted(o) /\ Dated(o) => Counted(o)' /\ Dated(o)'
    <3> SUFFICES ASSUME NEW o \in Observations, Counted(o), Dated(o)
                 PROVE  Counted(o)' /\ Dated(o)'
      OBVIOUS
    <3>1. Dated(o)'
      <4>1. o.startedAt \in Int /\ startedAt \in Nat
        BY DEF Observations, NoTime, IInv, TypeOK
      <4> QED BY <1>3, <4>1 DEF Dated
    <3>2. Counted(o)'
      BY <1>3 DEF Counted
    <3> QED BY <3>1, <3>2
  <2> QED BY <1>3, <2>1, AccountsOf DEF IInv, Accounts
<1>5. History'
  BY <1>3, HistoryKept
<1>6. NoSteadyReport' /\ JudgedWindow' /\ SpikesDoNotHide' /\ SteadyMeansResolved' /\ NoFalseAlarm'
  BY VerdictKept DEF RestartPostgres
<1> QED BY <1>2, <1>4, <1>5, <1>6 DEF IInv

LEMMA ObserveStep ==
  ASSUME IInv, NEW kind \in ObservationKinds, Observe(kind)
  PROVE  IInv'
<1>1. upsets' \in 0..MaxUpsets
  BY SeenType DEF IInv, Observe
<1>2. Shape' /\ Accounts' /\ History' /\ Len(observed') <= HistoryLimit
  BY Stored DEF Observe
<1>3. TypeOK'
  BY <1>1, <1>2, ObservedTypeOK DEF IInv, Observe
<1>4. NoSteadyReport' /\ JudgedWindow' /\ SpikesDoNotHide'
  BY Judged DEF Observe
<1>5. SteadyMeansResolved'
  BY DEF Observe, SteadyMeansResolved
<1>6. NoFalseAlarm'
  BY Alarmed DEF Observe
<1> QED BY <1>2, <1>3, <1>4, <1>5, <1>6 DEF IInv

LEMMA ObserveIncompleteStep ==
  ASSUME IInv, ObserveIncomplete
  PROVE  IInv'
<1>1. upsets' \in 0..MaxUpsets
  BY UpsetType DEF IInv, ObserveIncomplete
<1>2. "plain" \in ObservationKinds
  BY DEF ObservationKinds
<1>3. Shape' /\ Accounts' /\ History' /\ Len(observed') <= HistoryLimit
  BY <1>2, Stored DEF ObserveIncomplete
<1>4. TypeOK'
  BY <1>1, <1>3, ObservedTypeOK DEF IInv, ObserveIncomplete
<1>5. NoSteadyReport' /\ JudgedWindow' /\ SpikesDoNotHide' /\ SteadyMeansResolved'
  BY DEF ObserveIncomplete, NoSteadyReport, JudgedWindow, SpikesDoNotHide, SteadyMeansResolved
<1>6. NoFalseAlarm'
  BY <1>2, Alarmed DEF ObserveIncomplete
<1> QED BY <1>3, <1>4, <1>5, <1>6 DEF IInv

LEMMA ObservationLostStep ==
  ASSUME IInv, ObservationLost
  PROVE  IInv'
<1>1. upsets' \in 0..MaxUpsets
  BY UpsetType DEF IInv, ObservationLost
<1>2. TypeOK' /\ Shape'
  BY <1>1 DEF IInv, TypeOK, Shape, ObservationLost, serverVars
<1>3. Accounts'
  BY DEF IInv, Accounts, Counted, Dated, ObservationLost, serverVars
<1>4. History'
  BY HistoryKept DEF ObservationLost, serverVars
<1>5. NoSteadyReport' /\ JudgedWindow' /\ SpikesDoNotHide' /\ SteadyMeansResolved' /\ NoFalseAlarm'
  BY DEF ObservationLost, NoSteadyReport, JudgedWindow, SpikesDoNotHide, SteadyMeansResolved,
         NoFalseAlarm
<1> QED BY <1>2, <1>3, <1>4, <1>5 DEF IInv

(* A complete cycle leaves the finding open only if it reports it. *)
LEMMA ReconcileStep ==
  ASSUME IInv, Reconcile
  PROVE  IInv'
<1>1. TypeOK' /\ Shape'
  BY DEF IInv, TypeOK, Shape, Reconcile, serverVars, historyVars, bounds
<1>2. Accounts'
  BY DEF IInv, Accounts, Counted, Dated, Reconcile, serverVars, historyVars
<1>3. History'
  BY HistoryKept DEF Reconcile, serverVars, historyVars, bounds, IInv, TypeOK
<1>4. NoSteadyReport' /\ JudgedWindow' /\ SpikesDoNotHide' /\ NoFalseAlarm'
  BY DEF Reconcile, NoSteadyReport, JudgedWindow, SpikesDoNotHide, NoFalseAlarm
<1>5. SteadyMeansResolved'
  BY DEF IInv, Reconcile, NoSteadyReport, SteadyMeansResolved, Steady, Sure
<1> QED BY <1>1, <1>2, <1>3, <1>4, <1>5 DEF IInv

LEMMA OtherCycleStep ==
  ASSUME IInv, OtherCycle
  PROVE  IInv'
<1> USE DEF OtherCycle, serverVars, cycleVars, historyVars, bounds
<1>1. TypeOK' /\ Shape'
  BY DEF IInv, TypeOK, Shape
<1>2. Accounts'
  BY DEF IInv, Accounts, Counted, Dated
<1>3. History'
  BY HistoryKept DEF IInv, TypeOK
<1>4. NoSteadyReport' /\ JudgedWindow' /\ SteadyMeansResolved'
  BY DEF IInv, NoSteadyReport, JudgedWindow, SteadyMeansResolved
<1>5. SpikesDoNotHide'
  BY Zenon DEF IInv, SpikesDoNotHide
<1>6. NoFalseAlarm'
  BY DEF IInv, NoFalseAlarm, Slower
<1> QED BY <1>1, <1>2, <1>3, <1>4, <1>5, <1>6 DEF IInv

-----------------------------------------------------------------------------

LEMMA InitIInv == Init => IInv
<1> SUFFICES ASSUME Init PROVE IInv
  OBVIOUS
<1> USE DEF Init
<1>1. TypeOK
  <2>1. Gone \in [calls : Nat, runtime : Nat] /\ Idle.calls \in Nat /\ Idle.runtime \in Nat
    BY DEF Gone, Idle
  <2>2. Len(<<>>) <= HistoryLimit /\ DOMAIN <<>> = {}
    BY QueryRegressionAssumption
  <2>3. 0 \in 0..MaxPeriods /\ 0 \in 0..MaxShifts /\ 0 \in 0..MaxUpsets
    BY QueryRegressionAssumption
  <2>4. {hasInfo, open, report, complete} \subseteq BOOLEAN
    OBVIOUS
  <2>5. /\ Len(observed) <= HistoryLimit
        /\ \A i \in DOMAIN observed :
            /\ {observed[i].calls, observed[i].runtime} \subseteq Nat
            /\ {observed[i].resetAt, observed[i].startedAt} \subseteq Nat \cup {NoTime}
    BY <2>2
  <2>6. {resetAt, startedAt} \subseteq Nat
    OBVIOUS
  <2> QED BY <2>1, <2>3, <2>4, <2>5, <2>6, Zenon DEF TypeOK
<1>2. Shape
  <2>1. Idle \in DoneType /\ Priced(Idle)
    BY DEF Idle, DoneType, Priced
  <2> QED BY <2>1 DEF Shape
<1>3. Accounts
  BY DEF Accounts
<1>4. History
  BY DEF History, Tied
<1>5. NoSteadyReport /\ JudgedWindow /\ SpikesDoNotHide /\ SteadyMeansResolved /\ NoFalseAlarm
  BY DEF NoSteadyReport, JudgedWindow, SpikesDoNotHide, SteadyMeansResolved, NoFalseAlarm
<1> QED BY <1>1, <1>2, <1>3, <1>4, <1>5 DEF IInv

LEMMA StutterStep ==
  ASSUME IInv, UNCHANGED vars
  PROVE  IInv'
<1> USE DEF vars, serverVars, cycleVars, historyVars, bounds
<1>1. TypeOK' /\ Shape'
  BY DEF IInv, TypeOK, Shape
<1>2. Accounts'
  BY DEF IInv, Accounts, Counted, Dated
<1>3. History'
  BY HistoryKept DEF IInv, TypeOK
<1>4. NoSteadyReport' /\ JudgedWindow' /\ SteadyMeansResolved'
  BY DEF IInv, NoSteadyReport, JudgedWindow, SteadyMeansResolved
<1>5. SpikesDoNotHide'
  BY DEF IInv, SpikesDoNotHide
<1>6. NoFalseAlarm'
  BY DEF IInv, NoFalseAlarm, Slower
<1> QED BY <1>1, <1>2, <1>3, <1>4, <1>5, <1>6 DEF IInv

LEMMA NextIInv == IInv /\ [Next]_vars => IInv'
<1> SUFFICES ASSUME IInv, [Next]_vars PROVE IInv'
  OBVIOUS
<1>1. CASE Work
  BY <1>1, WorkStep
<1>2. CASE \E w \in Workload : Shift(w)
  BY <1>2, ShiftStep
<1>3. CASE Evict
  BY <1>3, EvictStep
<1>4. CASE ResetStatistics
  BY <1>4, ResetStep
<1>5. CASE RestartPostgres
  BY <1>5, RestartStep
<1>6. CASE \E kind \in ObservationKinds : Observe(kind)
  BY <1>6, ObserveStep
<1>7. CASE ObserveIncomplete
  BY <1>7, ObserveIncompleteStep
<1>8. CASE ObservationLost
  BY <1>8, ObservationLostStep
<1>9. CASE Reconcile
  BY <1>9, ReconcileStep
<1>10. CASE OtherCycle
  BY <1>10, OtherCycleStep
<1>11. CASE UNCHANGED vars
  BY <1>11, StutterStep
<1> QED BY <1>1, <1>2, <1>3, <1>4, <1>5, <1>6, <1>7, <1>8, <1>9, <1>10, <1>11 DEF Next

LEMMA Invariance == Spec => []IInv
  BY InitIInv, NextIInv, PTL DEF Spec

(***************************************************************************)
(* The counters, the observations and the verdict keep their types, and a  *)
(* comparison never reads more than HistoryLimit stored observations.      *)
(***************************************************************************)
THEOREM TypeCorrect == Spec => []TypeOK
<1>1. IInv => TypeOK
  BY DEF IInv
<1> QED BY <1>1, Invariance, PTL

(***************************************************************************)
(* Spikes, evictions, resets, restarts and lost observations before the    *)
(* window do not hide a regression: QueryRegressionFindings reports it     *)
(* once two sound intervals are that much slower than most of a sound      *)
(* baseline.                                                               *)
(***************************************************************************)
THEOREM SpikesNeverHide == Spec => []SpikesDoNotHide
<1>1. IInv => SpikesDoNotHide
  BY DEF IInv
<1> QED BY <1>1, Invariance, PTL

(***************************************************************************)
(* After a full history of one mean no complete standard cycle leaves the  *)
(* regression finding open.                                                *)
(***************************************************************************)
THEOREM SteadyIsResolved == Spec => []SteadyMeansResolved
<1>1. IInv => SteadyMeansResolved
  BY DEF IInv
<1> QED BY <1>1, Invariance, PTL

(***************************************************************************)
(* The standard cycle resolves the finding only on a full window: in each  *)
(* of its intervals the query was listed at both ends and executed enough, *)
(* and no restart or reset happened that the boundary times can tell.      *)
(* Counters alone never make a window, however many upsets there were.     *)
(***************************************************************************)
THEOREM ResolvesOnFullWindow == Spec => StandardResolvesWhenReady
<1> DEFINE Resolves == phase = "analyze" /\ phase' = "idle" /\ open /\ ~open'
<1>1. IInv /\ [Next]_vars => [Resolves => FullWindow(observed)]_vars
  <2> SUFFICES ASSUME IInv, Next, Resolves PROVE FullWindow(observed)
    OBVIOUS
  <2>1. Reconcile
    <3>1. ~Work /\ ~\E w \in Workload : Shift(w)
      BY DEF Work, Shift
    <3>2. ~Evict /\ ~ResetStatistics /\ ~RestartPostgres
      BY DEF Evict, ResetStatistics, RestartPostgres
    <3>3. /\ ~\E kind \in ObservationKinds : Observe(kind)
          /\ ~ObserveIncomplete /\ ~ObservationLost
      BY DEF Observe, ObserveIncomplete, ObservationLost
    <3>4. ~OtherCycle
      BY DEF OtherCycle, cycleVars
    <3> QED BY <3>1, <3>2, <3>3, <3>4 DEF Next
  <2>2. complete /\ ~report
    BY <2>1 DEF Reconcile
  <2> QED BY <2>2 DEF IInv, JudgedWindow
<1>2. [Resolves => FullWindow(observed)]_vars
        => [phase = "analyze" /\ phase' = "idle" /\ open /\ ~open' =>
              LET n == Len(observed) IN
              /\ n >= MinBaseline + 2
              /\ \A i \in (n - MinBaseline - 1)..n : Sound(observed[i])]_vars
  BY DEF FullWindow
<1> QED BY <1>1, <1>2, Invariance, PTL DEF Spec, StandardResolvesWhenReady

(***************************************************************************)
(* A query is found regressed only when clients saw it at least half       *)
(* slower, in each of the last two intervals that lost no counters, than   *)
(* at some time of the baseline, as long as fewer than half of a baseline  *)
(* lost counters: whatever is evicted, reset, restarted, hidden or lost,   *)
(* and however often.                                                      *)
(***************************************************************************)
THEOREM AlarmsAreReal == Spec => []NoFalseAlarm
<1>1. IInv => NoFalseAlarm
  BY DEF IInv
<1> QED BY <1>1, Invariance, PTL

=============================================================================
