-------------------------- MODULE MetricHistory_proofs --------------------------
(***************************************************************************)
(* Proofs about MetricHistory: the types, that maintenance counts every    *)
(* sample exactly once in each tier, and that a read has no gaps.          *)
(*                                                                         *)
(* The argument is about one bucket of one tier.  What maintenance adds to *)
(* a bucket it keeps is exactly what it removes of the raw samples of that *)
(* bucket, because a sample is not older than its bucket.                  *)
(***************************************************************************)
EXTENDS MetricHistory, FiniteSetTheorems, TLAPS

(* Only buckets of a tier that are retained have counted anything. *)
TierRetained(tier, width, retention) ==
    \A k \in Key : tier[k] # 0 => k[2] % width = 0 /\ k[2] >= prunedAt - retention

IInv ==
    /\ TypeOK
    /\ raw \subseteq collected
    /\ IsFiniteSet(collected) /\ Cardinality(collected) <= MaxSamples
    /\ prunedAt <= clock
    /\ TierRetained(medium, MediumWidth, Medium)
    /\ TierRetained(long, LongWidth, Long)
    /\ CountedOnce

-----------------------------------------------------------------------------
(* Buckets *)

LEMMA Constants ==
  /\ Raw \in Nat /\ Medium \in Nat /\ Long \in Nat /\ Lag \in Nat
  /\ MaxTime \in Nat /\ MaxSamples \in Nat
  /\ MediumWidth \in Nat \ {0} /\ LongWidth \in Nat \ {0}
  /\ Raw <= Medium /\ Medium <= Long
  BY MetricHistoryAssumption, PolicyAssumption DEF ValidPolicy

LEMMA Division ==
  ASSUME NEW n \in Nat, NEW width \in Nat \ {0}
  PROVE  /\ n \div width \in Nat
         /\ n = width * (n \div width) + (n % width)
         /\ n % width \in 0..(width - 1)
  OBVIOUS

LEMMA BucketBegins ==
  ASSUME NEW at \in Nat, NEW width \in Nat \ {0}
  PROVE  /\ Bucket(at, width) \in Nat
         /\ Bucket(at, width) <= at
         /\ at < Bucket(at, width) + width
         /\ Bucket(at, width) % width = 0
<1>1. /\ at \div width \in Nat
      /\ at = width * (at \div width) + (at % width)
      /\ at % width \in 0..(width - 1)
  BY Division
<1>2. (at \div width) * width \in Nat
  BY <1>1
<1>3. (at \div width) * width <= at /\ at < (at \div width) * width + width
  BY <1>1, <1>2
<1>4. ASSUME NEW n \in Nat
      PROVE  (n * width) % width = 0
  OBVIOUS
<1> QED BY <1>1, <1>2, <1>3, <1>4 DEF Bucket

(* A bucket of the medium tier lies in one of the long tier. *)
LEMMA MediumInLong ==
  ASSUME NEW at \in Nat
  PROVE  Bucket(at, LongWidth) <= Bucket(at, MediumWidth)
<1>1. PICK w \in Nat \ {0} : w = MediumWidth /\ LongWidth % w = 0
  BY Constants, MetricHistoryAssumption
<1>2. PICK q \in Nat : LongWidth = w * q
  <2>1. LongWidth = w * (LongWidth \div w) + (LongWidth % w) /\ LongWidth \div w \in Nat
    BY Constants, Division
  <2>2. LongWidth = w * (LongWidth \div w)
    BY <1>1, <2>1
  <2> QED BY <2>1, <2>2
<1>3. PICK d \in Nat : d = at \div LongWidth
  BY Constants, Division
<1>4. PICK e \in Nat : e = at \div w
  BY Division
<1>5. Bucket(at, LongWidth) = (d * q) * w /\ Bucket(at, w) = e * w
  <2>1. d * (w * q) = (d * q) * w
    OBVIOUS
  <2> QED BY <1>2, <1>3, <1>4, <2>1 DEF Bucket
<1>6. (d * q) * w < e * w + w
  <2>1. /\ Bucket(at, LongWidth) <= at /\ Bucket(at, LongWidth) \in Nat
        /\ at < Bucket(at, w) + w /\ Bucket(at, w) \in Nat
    BY Constants, BucketBegins
  <2> QED BY <1>5, <2>1
<1>7. ASSUME NEW m \in Nat, NEW n \in Nat, m * w < n * w + w
      PROVE  m * w <= n * w
  <2>1. m <= n
    BY <1>7
  <2> QED BY <2>1
<1>8. d * q \in Nat
  OBVIOUS
<1>9. (d * q) * w <= e * w
  BY <1>6, <1>7, <1>8
<1> QED BY <1>1, <1>5, <1>9

-----------------------------------------------------------------------------
(* Samples of a bucket *)

LEMMA SubsetCount ==
  ASSUME NEW S, IsFiniteSet(S), NEW T, T \subseteq S
  PROVE  /\ IsFiniteSet(T)
         /\ Cardinality(S) \in Nat /\ Cardinality(T) \in Nat
         /\ Cardinality(T) <= Cardinality(S)
         /\ T # S => Cardinality(T) < Cardinality(S)
<1>1. T \in SUBSET S
  OBVIOUS
<1> QED BY <1>1, FS_Subset, FS_CardinalityType

LEMMA DisjointCount ==
  ASSUME NEW S, NEW A, NEW B, IsFiniteSet(S), S = A \cup B, A \cap B = {}
  PROVE  Cardinality(S) = Cardinality(A) + Cardinality(B)
<1>1. /\ IsFiniteSet(A) /\ IsFiniteSet(B)
      /\ Cardinality(A) \in Nat /\ Cardinality(B) \in Nat
  BY SubsetCount
<1>2. Cardinality(A \cup B) = Cardinality(A) + Cardinality(B) - Cardinality(A \cap B)
  BY <1>1, FS_Union
<1>3. Cardinality(A \cap B) = 0
  BY FS_EmptySet
<1> QED BY <1>1, <1>2, <1>3

LEMMA SampleTypes ==
  ASSUME NEW x \in Sample
  PROVE  x.series \in Series /\ x.at \in Nat /\ x.at <= MaxTime
  BY Constants DEF Sample, Time

LEMMA KeyTypes ==
  ASSUME NEW k \in Key
  PROVE  k[1] \in Series /\ k[2] \in Nat /\ k[2] <= MaxTime
  BY Constants DEF Key, Time

(* The bucket of a sample is a key, and the sample is not older than it. *)
LEMMA SampleKey ==
  ASSUME NEW x \in Sample, NEW width \in Nat \ {0}
  PROVE  LET k == <<x.series, Bucket(x.at, width)>> IN
         /\ k \in Key /\ k[2] % width = 0 /\ k[2] <= x.at
         /\ \A S : x \in S => x \in Within(S, k, width)
<1>1. x.series \in Series /\ x.at \in Nat /\ x.at <= MaxTime
  BY SampleTypes
<1>2. /\ Bucket(x.at, width) \in Nat /\ Bucket(x.at, width) <= x.at
      /\ Bucket(x.at, width) % width = 0
  BY <1>1, BucketBegins
<1>3. Bucket(x.at, width) \in Time
  BY <1>1, <1>2, Constants DEF Time
<1> QED BY <1>1, <1>2, <1>3 DEF Key, Within

(* Only keys at which a bucket of the width begins have samples. *)
LEMMA WithinAligned ==
  ASSUME NEW S, S \subseteq Sample, NEW k \in Key, NEW width \in Nat \ {0}, k[2] % width # 0
  PROVE  Within(S, k, width) = {}
<1>1. \A x \in S : Bucket(x.at, width) % width = 0
  BY SampleTypes, BucketBegins
<1> QED BY <1>1 DEF Within

(* Counts of the samples of a bucket. *)
LEMMA WithinCounts ==
  ASSUME IInv, NEW k, NEW width
  PROVE  /\ IsFiniteSet(Within(raw, k, width)) /\ IsFiniteSet(Within(collected, k, width))
         /\ Within(raw, k, width) \subseteq Within(collected, k, width)
         /\ Cardinality(Within(raw, k, width)) \in Nat
         /\ Cardinality(Within(collected, k, width)) \in Nat
         /\ Cardinality(Within(raw, k, width)) <= Cardinality(Within(collected, k, width))
         /\ Cardinality(Within(collected, k, width)) <= MaxSamples
<1>1. /\ Within(raw, k, width) \subseteq Within(collected, k, width)
      /\ Within(collected, k, width) \subseteq collected
  BY DEF Within, IInv
<1>2. /\ IsFiniteSet(Within(collected, k, width))
      /\ Cardinality(Within(collected, k, width)) \in Nat
      /\ Cardinality(collected) \in Nat
      /\ Cardinality(Within(collected, k, width)) <= Cardinality(collected)
  BY <1>1, SubsetCount DEF IInv
<1>3. /\ IsFiniteSet(Within(raw, k, width)) /\ Cardinality(Within(raw, k, width)) \in Nat
      /\ Cardinality(Within(raw, k, width)) <= Cardinality(Within(collected, k, width))
  BY <1>1, <1>2, SubsetCount
<1> QED BY <1>1, <1>2, <1>3, Constants DEF IInv

-----------------------------------------------------------------------------
(* One tier *)

Tier == [Key -> 0..MaxSamples]

(* A sample that is saved is raw and collected, in the same bucket. *)
LEMMA SavedCounts ==
  ASSUME IInv, NEW x \in Sample, SaveMetrics(x), NEW k, NEW width
  PROVE  Cardinality(Within(collected', k, width)) - Cardinality(Within(collected, k, width))
            = Cardinality(Within(raw', k, width)) - Cardinality(Within(raw, k, width))
<1>1. x \notin collected /\ x \notin raw /\ raw' = raw \cup {x} /\ collected' = collected \cup {x}
  BY DEF SaveMetrics, IInv
<1>2. CASE x.series = k[1] /\ Bucket(x.at, width) = k[2]
  <2>1. /\ Within(collected', k, width) = Within(collected, k, width) \cup {x}
        /\ Within(raw', k, width) = Within(raw, k, width) \cup {x}
        /\ x \notin Within(collected, k, width) /\ x \notin Within(raw, k, width)
    BY <1>1, <1>2 DEF Within
  <2>2. /\ Cardinality(Within(collected', k, width)) = Cardinality(Within(collected, k, width)) + 1
        /\ Cardinality(Within(raw', k, width)) = Cardinality(Within(raw, k, width)) + 1
    BY <2>1, WithinCounts, FS_AddElement
  <2> QED BY <2>2, WithinCounts
<1>3. CASE ~(x.series = k[1] /\ Bucket(x.at, width) = k[2])
  <2>1. /\ Within(collected', k, width) = Within(collected, k, width)
        /\ Within(raw', k, width) = Within(raw, k, width)
    BY <1>1, <1>3 DEF Within
  <2> QED BY <2>1, WithinCounts
<1> QED BY <1>2, <1>3

(***************************************************************************)
(* Maintenance counts what it removes: the samples of a bucket that is     *)
(* kept are either rolled up or remain, none is too old for both.          *)
(***************************************************************************)
LEMMA RolledOrRemains ==
  ASSUME IInv, NEW k \in Key, NEW width \in Nat \ {0}, k[2] >= clock - Long
  PROVE  /\ Cardinality(Within(Expiring(clock), k, width)) \in Nat
         /\ Cardinality(Within(Remaining(clock), k, width)) \in Nat
         /\ Cardinality(Within(raw, k, width))
                = Cardinality(Within(Expiring(clock), k, width))
                    + Cardinality(Within(Remaining(clock), k, width))
<1>1. clock \in Nat /\ raw \subseteq Sample /\ k[2] \in Nat
  BY Constants, KeyTypes DEF IInv, TypeOK, Time
<1>2. ASSUME NEW x \in Within(raw, k, width)
      PROVE  x.at \in Nat /\ x.at >= clock - Long
  <2>1. x \in Sample /\ Bucket(x.at, width) = k[2]
    BY <1>1 DEF Within
  <2>2. x.at \in Nat /\ k[2] <= x.at
    BY <2>1, SampleTypes, BucketBegins
  <2> QED BY <1>1, <2>2, Constants
<1>3. /\ Within(raw, k, width) = Within(Expiring(clock), k, width)
                                    \cup Within(Remaining(clock), k, width)
      /\ Within(Expiring(clock), k, width) \cap Within(Remaining(clock), k, width) = {}
  <2>1. ASSUME NEW x \in Within(raw, k, width)
        PROVE  x \in Expiring(clock) <=> x \notin Remaining(clock)
    BY <1>1, <1>2, Constants DEF Expiring, Remaining, Within
  <2>2. Expiring(clock) \subseteq raw /\ Remaining(clock) \subseteq raw
    BY DEF Expiring, Remaining
  <2> QED BY <2>1, <2>2 DEF Within
<1>4. IsFiniteSet(Within(raw, k, width))
  BY WithinCounts
<1> QED BY <1>3, <1>4, SubsetCount, DisjointCount

LEMMA TierPruned ==
  ASSUME IInv, NEW tier \in Tier, NEW width \in Nat \ {0}, NEW retention \in Nat,
         retention <= Long, TierExact(tier, width, retention),
         TierRetained(tier, width, retention)
  PROVE  LET new == RolledUp(tier, width, retention, clock) IN
         /\ new \in Tier
         /\ \A k \in Key :
                /\ new[k] # 0 => k[2] % width = 0 /\ k[2] >= clock - retention
                /\ k[2] % width = 0 /\ k[2] >= clock - retention =>
                        new[k] + Cardinality(Within(Remaining(clock), k, width))
                            = Cardinality(Within(collected, k, width))
<1> DEFINE new == RolledUp(tier, width, retention, clock)
<1>1. clock \in Nat /\ prunedAt \in Nat /\ prunedAt <= clock /\ MaxSamples \in Nat /\ Long \in Nat
  BY Constants DEF IInv, TypeOK, Time
<1>2. \A k \in Key : new[k] = IF k[2] < clock - retention THEN 0
                              ELSE tier[k] + Cardinality(Within(Expiring(clock), k, width))
  BY DEF RolledUp
<1>3. DOMAIN new = Key /\ new = [k \in Key |-> new[k]]
  BY DEF RolledUp
<1> HIDE DEF new
<1>4. ASSUME NEW k \in Key
      PROVE  /\ new[k] \in 0..MaxSamples
             /\ new[k] # 0 => k[2] % width = 0 /\ k[2] >= clock - retention
             /\ k[2] % width = 0 /\ k[2] >= clock - retention =>
                    new[k] + Cardinality(Within(Remaining(clock), k, width))
                        = Cardinality(Within(collected, k, width))
  <2>1. k[2] \in Nat /\ tier[k] \in Nat
    BY KeyTypes, Constants DEF Tier
  <2>2. CASE k[2] < clock - retention
    BY <1>1, <1>2, <2>1, <2>2
  <2>3. CASE k[2] >= clock - retention /\ k[2] % width # 0
    <3>1. Expiring(clock) \subseteq Sample
      BY DEF Expiring, IInv, TypeOK
    <3>2. Cardinality(Within(Expiring(clock), k, width)) = 0
      BY <2>3, <3>1, WithinAligned, FS_EmptySet
    <3>3. tier[k] = 0
      BY <2>3 DEF TierRetained
    <3>4. new[k] = 0
      BY <1>1, <1>2, <2>1, <2>3, <3>2, <3>3
    <3> QED BY <1>1, <2>3, <3>4
  <2>4. CASE k[2] >= clock - retention /\ k[2] % width = 0
    <3>1. k[2] >= prunedAt - retention /\ k[2] >= clock - Long
      BY <1>1, <2>1, <2>4
    <3>2. tier[k] + Cardinality(Within(raw, k, width)) = Cardinality(Within(collected, k, width))
      BY <2>4, <3>1 DEF TierExact
    <3>3. /\ Cardinality(Within(Expiring(clock), k, width)) \in Nat
          /\ Cardinality(Within(Remaining(clock), k, width)) \in Nat
          /\ Cardinality(Within(raw, k, width))
                = Cardinality(Within(Expiring(clock), k, width))
                    + Cardinality(Within(Remaining(clock), k, width))
      BY <3>1, RolledOrRemains
    <3>4. new[k] = tier[k] + Cardinality(Within(Expiring(clock), k, width))
      BY <1>1, <1>2, <2>1, <2>4
    <3>5. /\ Cardinality(Within(collected, k, width)) \in Nat
          /\ Cardinality(Within(collected, k, width)) <= MaxSamples
      BY WithinCounts
    <3> QED BY <1>1, <2>1, <2>4, <3>2, <3>3, <3>4, <3>5
  <2> QED BY <1>1, <2>1, <2>2, <2>3, <2>4
<1>5. new \in Tier
  BY <1>3, <1>4 DEF Tier
<1> QED BY <1>4, <1>5 DEF new

-----------------------------------------------------------------------------
(* Every step keeps the invariant *)

LEMMA InitSound == Init => IInv
<1> SUFFICES ASSUME Init
             PROVE  IInv
  OBVIOUS
<1>1. IsFiniteSet({}) /\ Cardinality({}) = 0
  BY FS_EmptySet
<1>2. 0 \in Time /\ 0 \in 0..MaxSamples /\ MaxSamples \in Nat
  BY Constants DEF Time
<1>3. medium = [k \in Key |-> 0] /\ long = [k \in Key |-> 0] /\ raw = {} /\ collected = {}
  BY DEF Init
<1>4. TypeOK
  BY <1>2, <1>3 DEF Init, TypeOK
<1>5. \A k \in Key : medium[k] = 0 /\ long[k] = 0
  BY <1>3
<1>6. ASSUME NEW k, NEW width
      PROVE  Cardinality(Within(raw, k, width)) = 0 /\ Cardinality(Within(collected, k, width)) = 0
  <2>1. Within(raw, k, width) = {} /\ Within(collected, k, width) = {}
    BY <1>3 DEF Within
  <2> QED BY <1>1, <2>1
<1>7. CountedOnce
  <2>1. TierExact(medium, MediumWidth, Medium)
    BY <1>5, <1>6 DEF TierExact
  <2>2. TierExact(long, LongWidth, Long)
    BY <1>5, <1>6 DEF TierExact
  <2> QED BY <2>1, <2>2 DEF CountedOnce
<1>8. TierRetained(medium, MediumWidth, Medium) /\ TierRetained(long, LongWidth, Long)
  BY <1>5 DEF TierRetained
<1> QED BY <1>1, <1>2, <1>3, <1>4, <1>7, <1>8 DEF Init, IInv

LEMMA SaveMetricsKeeps ==
  ASSUME IInv, NEW x \in Sample, SaveMetrics(x)
  PROVE  IInv'
<1>1. /\ raw' = raw \cup {x} /\ collected' = collected \cup {x}
      /\ x \notin collected /\ Cardinality(collected) < MaxSamples
      /\ UNCHANGED <<clock, medium, long, prunedAt>>
  BY DEF SaveMetrics
<1>2. TypeOK' /\ raw' \subseteq collected'
  BY <1>1 DEF IInv, TypeOK
<1>3. IsFiniteSet(collected') /\ Cardinality(collected') <= MaxSamples
  <2>1. IsFiniteSet(collected') /\ Cardinality(collected') = Cardinality(collected) + 1
    BY <1>1, FS_AddElement DEF IInv
  <2>2. Cardinality(collected) \in Nat
    BY FS_CardinalityType DEF IInv
  <2> QED BY <1>1, <2>1, <2>2, Constants
<1>4. ASSUME NEW tier \in Tier, NEW width, NEW retention, TierExact(tier, width, retention),
             NEW k \in Key, k[2] % width = 0, k[2] >= prunedAt - retention
      PROVE  tier[k] + Cardinality(Within(raw', k, width)) = Cardinality(Within(collected', k, width))
  <2>1. tier[k] + Cardinality(Within(raw, k, width)) = Cardinality(Within(collected, k, width))
    BY <1>4 DEF TierExact
  <2>2. Cardinality(Within(collected', k, width)) - Cardinality(Within(collected, k, width))
            = Cardinality(Within(raw', k, width)) - Cardinality(Within(raw, k, width))
    BY SavedCounts
  <2>3. /\ Cardinality(Within(raw, k, width)) \in Nat
        /\ Cardinality(Within(collected, k, width)) \in Nat
    BY WithinCounts
  <2>4. /\ Cardinality(Within(raw', k, width)) \in Nat
        /\ Cardinality(Within(collected', k, width)) \in Nat
    <3>1. /\ Within(raw', k, width) \subseteq collected'
          /\ Within(collected', k, width) \subseteq collected'
      BY <1>2 DEF Within
    <3> QED BY <1>3, <3>1, SubsetCount
  <2>5. tier[k] \in Nat
    BY Constants DEF Tier
  <2> QED BY <2>1, <2>2, <2>3, <2>4, <2>5
<1>5. medium \in Tier /\ long \in Tier
  BY DEF IInv, TypeOK, Tier
<1>6. TierExact(medium, MediumWidth, Medium) /\ TierExact(long, LongWidth, Long)
  BY DEF IInv, CountedOnce
<1>7. CountedOnce'
  <2>1. TierExact(medium, MediumWidth, Medium)'
    <3> SUFFICES ASSUME NEW k \in Key, k[2] % MediumWidth = 0, k[2] >= prunedAt - Medium
                 PROVE  medium[k] + Cardinality(Within(raw', k, MediumWidth))
                            = Cardinality(Within(collected', k, MediumWidth))
      BY <1>1 DEF TierExact
    <3> QED BY <1>4, <1>5, <1>6
  <2>2. TierExact(long, LongWidth, Long)'
    <3> SUFFICES ASSUME NEW k \in Key, k[2] % LongWidth = 0, k[2] >= prunedAt - Long
                 PROVE  long[k] + Cardinality(Within(raw', k, LongWidth))
                            = Cardinality(Within(collected', k, LongWidth))
      BY <1>1 DEF TierExact
    <3> QED BY <1>4, <1>5, <1>6
  <2> QED BY <2>1, <2>2 DEF CountedOnce
<1>8. TierRetained(medium, MediumWidth, Medium)' /\ TierRetained(long, LongWidth, Long)'
  BY <1>1 DEF IInv, TierRetained
<1> QED BY <1>1, <1>2, <1>3, <1>7, <1>8 DEF IInv

LEMMA PruneKeeps ==
  ASSUME IInv, PruneMonitoringHistory
  PROVE  IInv'
<1>1. /\ raw' = Remaining(clock) /\ prunedAt' = clock /\ clock' = clock /\ collected' = collected
      /\ medium' = RolledUp(medium, MediumWidth, Medium, clock)
      /\ long' = RolledUp(long, LongWidth, Long, clock)
  BY DEF PruneMonitoringHistory
<1>2. Remaining(clock) \subseteq raw
  BY DEF Remaining
<1>3. medium \in Tier /\ long \in Tier
  BY DEF IInv, TypeOK, Tier
<1>4. /\ TierExact(medium, MediumWidth, Medium) /\ TierExact(long, LongWidth, Long)
      /\ TierRetained(medium, MediumWidth, Medium) /\ TierRetained(long, LongWidth, Long)
  BY DEF IInv, CountedOnce
<1>5. /\ medium' \in Tier
      /\ TierRetained(medium, MediumWidth, Medium)'
      /\ TierExact(medium, MediumWidth, Medium)'
  <2>1. /\ medium' \in Tier
        /\ \A k \in Key :
            /\ medium'[k] # 0 => k[2] % MediumWidth = 0 /\ k[2] >= clock - Medium
            /\ k[2] % MediumWidth = 0 /\ k[2] >= clock - Medium =>
                    medium'[k] + Cardinality(Within(raw', k, MediumWidth))
                        = Cardinality(Within(collected', k, MediumWidth))
    BY <1>1, <1>3, <1>4, TierPruned, Constants
  <2>2. TierRetained(medium, MediumWidth, Medium)'
    BY <1>1, <2>1 DEF TierRetained
  <2>3. TierExact(medium, MediumWidth, Medium)'
    BY <1>1, <2>1 DEF TierExact, Within
  <2> QED BY <2>1, <2>2, <2>3
<1>6. /\ long' \in Tier
      /\ TierRetained(long, LongWidth, Long)'
      /\ TierExact(long, LongWidth, Long)'
  <2>1. /\ long' \in Tier
        /\ \A k \in Key :
            /\ long'[k] # 0 => k[2] % LongWidth = 0 /\ k[2] >= clock - Long
            /\ k[2] % LongWidth = 0 /\ k[2] >= clock - Long =>
                    long'[k] + Cardinality(Within(raw', k, LongWidth))
                        = Cardinality(Within(collected', k, LongWidth))
    BY <1>1, <1>3, <1>4, TierPruned, Constants
  <2>2. TierRetained(long, LongWidth, Long)'
    BY <1>1, <2>1 DEF TierRetained
  <2>3. TierExact(long, LongWidth, Long)'
    BY <1>1, <2>1 DEF TierExact, Within
  <2> QED BY <2>1, <2>2, <2>3
<1>7. TypeOK' /\ raw' \subseteq collected'
  BY <1>1, <1>2, <1>5, <1>6 DEF IInv, TypeOK, Tier
<1>8. prunedAt' <= clock'
  BY <1>1, Constants DEF IInv, TypeOK, Time
<1> QED BY <1>1, <1>5, <1>6, <1>7, <1>8 DEF IInv, CountedOnce

LEMMA StepSound == IInv /\ [Next]_vars => IInv'
<1> SUFFICES ASSUME IInv, [Next]_vars
             PROVE  IInv'
  OBVIOUS
<1>1. ASSUME NEW x \in Sample, SaveMetrics(x)
      PROVE  IInv'
  BY <1>1, SaveMetricsKeeps
<1>2. CASE PruneMonitoringHistory
  BY <1>2, PruneKeeps
<1>3. ASSUME UNCHANGED <<raw, medium, long, collected, prunedAt>>, clock' \in Time, clock' >= clock
      PROVE  IInv'
  <2>1. TypeOK' /\ raw' \subseteq collected' /\ prunedAt' <= clock'
    BY <1>3, Constants DEF IInv, TypeOK, Time
  <2>2. CountedOnce'
    BY <1>3 DEF IInv, CountedOnce, TierExact, Within
  <2> QED BY <1>3, <2>1, <2>2 DEF IInv, TierRetained
<1>4. CASE Tick
  BY <1>3, <1>4, Constants DEF Tick, IInv, TypeOK, Time
<1>5. CASE UNCHANGED vars
  BY <1>3, <1>5, Constants DEF vars, IInv, TypeOK, Time
<1> QED BY <1>1, <1>2, <1>4, <1>5 DEF Next

-----------------------------------------------------------------------------
(* The theorems *)

(* The inductive invariant: exact counts, and only buckets that are retained. *)
THEOREM Invariance == Spec => []IInv
  BY InitSound, StepSound, PTL DEF Spec

(* The types; no bucket counts more samples than were ever collected. *)
THEOREM TypeCorrect == Spec => []TypeOK
<1>1. IInv => TypeOK
  BY DEF IInv
<1> QED BY <1>1, Invariance, PTL

(***************************************************************************)
(* Whenever and however often PruneMonitoringHistory runs, a bucket that   *)
(* is still retained and the raw samples that remain count every sample    *)
(* once, for every valid retention policy and any two widths.              *)
(***************************************************************************)
THEOREM SamplesCountOnce == Spec => []CountedOnce
<1>1. IInv => CountedOnce
  BY DEF IInv
<1> QED BY <1>1, Invariance, PTL

(***************************************************************************)
(* listMetricAggregates hides long buckets behind the medium tier without  *)
(* hiding a sample: the medium tier is exact from its first bucket on, and *)
(* a medium bucket lies within one long bucket.                            *)
(***************************************************************************)
THEOREM ReadsHaveNoGaps == Spec => []HistoryHasNoGaps
<1>1. IInv => HistoryHasNoGaps
  <2> SUFFICES ASSUME IInv, NEW x \in collected,
                      Bucket(x.at, LongWidth) >= prunedAt - Long,
                      x \notin raw,
                      <<x.series, Bucket(x.at, LongWidth)>> \notin LongShown
               PROVE  medium[<<x.series, Bucket(x.at, MediumWidth)>>] > 0
    BY DEF HistoryHasNoGaps
  <2> DEFINE m == <<x.series, Bucket(x.at, MediumWidth)>>
             l == <<x.series, Bucket(x.at, LongWidth)>>
  <2>1. x \in Sample /\ x.at \in Nat
    BY SampleTypes DEF IInv, TypeOK
  <2>2. /\ m \in Key /\ m[2] % MediumWidth = 0 /\ \A S : x \in S => x \in Within(S, m, MediumWidth)
        /\ l \in Key /\ l[2] % LongWidth = 0 /\ \A S : x \in S => x \in Within(S, l, LongWidth)
    BY <2>1, SampleKey, Constants
  <2>3. m[2] = Bucket(x.at, MediumWidth) /\ l[2] = Bucket(x.at, LongWidth)
    OBVIOUS
  <2>4. m[2] \in Nat /\ l[2] \in Nat /\ l[2] <= m[2]
    BY <2>1, <2>3, BucketBegins, MediumInLong, Constants
  <2> HIDE DEF m, l
  (* A retained bucket has counted x, which is not raw any more. *)
  <2>5. ASSUME NEW tier \in Tier, NEW k \in Key, NEW width, NEW retention,
               TierExact(tier, width, retention), k[2] % width = 0,
               k[2] >= prunedAt - retention, x \in Within(collected, k, width)
        PROVE  tier[k] > 0
    <3>1. tier[k] + Cardinality(Within(raw, k, width)) = Cardinality(Within(collected, k, width))
      BY <2>5 DEF TierExact
    <3>2. /\ IsFiniteSet(Within(collected, k, width))
          /\ Within(raw, k, width) \subseteq Within(collected, k, width)
      BY WithinCounts
    <3>3. Within(raw, k, width) # Within(collected, k, width)
      BY <2>5 DEF Within
    <3>4. /\ Cardinality(Within(raw, k, width)) \in Nat
          /\ Cardinality(Within(collected, k, width)) \in Nat
          /\ Cardinality(Within(raw, k, width)) < Cardinality(Within(collected, k, width))
      BY <3>2, <3>3, SubsetCount
    <3>5. tier[k] \in Nat
      BY Constants DEF Tier
    <3> QED BY <3>1, <3>4, <3>5
  <2>6. medium \in Tier /\ long \in Tier
    BY DEF IInv, TypeOK, Tier
  <2>7. long[l] > 0
    BY <2>2, <2>3, <2>5, <2>6 DEF IInv, CountedOnce
  <2>8. PICK first \in Rows(medium) : ~(l[2] < first[2])
    BY <2>2, <2>7 DEF l, LongShown, Rows, BeforeMedium
  <2>9. first \in Key /\ first[2] \in Nat /\ first[2] >= prunedAt - Medium
    <3>1. first \in Key /\ medium[first] > 0
      BY DEF Rows
    <3>2. medium[first] # 0
      BY <2>6, <3>1, Constants DEF Tier
    <3> QED BY <3>1, <3>2, KeyTypes DEF IInv, TierRetained
  <2>10. m[2] >= prunedAt - Medium
    BY <2>4, <2>8, <2>9, Constants DEF IInv, TypeOK, Time
  <2>11. medium[m] > 0
    BY <2>2, <2>5, <2>6, <2>10 DEF IInv, CountedOnce
  <2> QED BY <2>11 DEF m
<1> QED BY <1>1, Invariance, PTL

-----------------------------------------------------------------------------
(* Points in their order *)

Points == Nat \X Nat \X Nat

LEMMA PrecedesOrders ==
  /\ \A p \in Points : ~Precedes(p, p)
  /\ \A p, q \in Points : p = q \/ Precedes(p, q) \/ Precedes(q, p)
  /\ \A p, q, r \in Points : Precedes(p, q) /\ Precedes(q, r) => Precedes(p, r)
<1>1. \A p \in Points : p[1] \in Nat /\ p[2] \in Nat /\ p[3] \in Nat /\ p = <<p[1], p[2], p[3]>>
  BY DEF Points
<1>2. \A p \in Points : ~Precedes(p, p)
  BY <1>1 DEF Precedes
<1>3. ASSUME NEW p \in Points, NEW q \in Points, ~Precedes(p, q), ~Precedes(q, p)
      PROVE  p = q
  <2>1. p[1] = q[1] /\ p[2] = q[2] /\ p[3] = q[3]
    BY <1>1, <1>3 DEF Precedes
  <2> QED BY <1>1, <2>1
<1>4. \A p, q, r \in Points : Precedes(p, q) /\ Precedes(q, r) => Precedes(p, r)
  BY <1>1 DEF Precedes
<1> QED BY <1>2, <1>3, <1>4

Below(S, p) == {q \in S : Precedes(q, p)}
Above(S, p) == {q \in S : Precedes(p, q)}
Rank(S) == [p \in S |-> Cardinality(Below(S, p))]

(* The places of the points of a finite set are the numbers from 0 on. *)
LEMMA RankBijective ==
  ASSUME NEW S, S \subseteq Points, IsFiniteSet(S)
  PROVE  /\ Cardinality(S) \in Nat
         /\ Rank(S) \in Bijection(S, 0..(Cardinality(S) - 1))
         /\ \A p \in S : Cardinality(Above(S, p)) = Cardinality(S) - 1 - Rank(S)[p]
<1> DEFINE n == Cardinality(S)
           T == 0..(n - 1)
<1>1. n \in Nat
  BY FS_CardinalityType
<1>2. ASSUME NEW p \in S
      PROVE  /\ IsFiniteSet(Below(S, p))
             /\ Cardinality(Below(S, p)) \in T
             /\ Cardinality(Above(S, p)) = n - 1 - Cardinality(Below(S, p))
  <2>1. Below(S, p) \subseteq S /\ Above(S, p) \subseteq S
    BY DEF Below, Above
  <2>2. /\ IsFiniteSet(Below(S, p)) /\ IsFiniteSet(Above(S, p))
        /\ Cardinality(Below(S, p)) \in Nat /\ Cardinality(Above(S, p)) \in Nat
    BY <2>1, SubsetCount
  <2>3. /\ S \ {p} = Below(S, p) \cup Above(S, p)
        /\ Below(S, p) \cap Above(S, p) = {}
    BY PrecedesOrders DEF Below, Above
  <2>4. IsFiniteSet(S \ {p}) /\ Cardinality(S \ {p}) = n - 1
    BY FS_RemoveElement
  <2>5. n - 1 = Cardinality(Below(S, p)) + Cardinality(Above(S, p))
    BY <2>3, <2>4, DisjointCount
  <2> QED BY <1>1, <2>2, <2>5
<1>3. ASSUME NEW p \in S, NEW q \in S, Precedes(p, q)
      PROVE  Cardinality(Below(S, p)) # Cardinality(Below(S, q))
  <2>1. Below(S, p) \subseteq Below(S, q) /\ p \in Below(S, q) /\ p \notin Below(S, p)
    BY <1>3, PrecedesOrders DEF Below
  <2>2. /\ Cardinality(Below(S, p)) \in Nat /\ Cardinality(Below(S, q)) \in Nat
        /\ Cardinality(Below(S, p)) < Cardinality(Below(S, q))
    BY <1>2, <2>1, SubsetCount
  <2> QED BY <2>2
<1>4. Rank(S) \in Injection(S, T)
  <2>1. Rank(S) \in [S -> T]
    BY <1>2 DEF Rank
  <2>2. \A p, q \in S : Rank(S)[p] = Rank(S)[q] => p = q
    BY <1>3, PrecedesOrders DEF Rank
  <2> QED BY <2>1, <2>2 DEF Injection, IsInjective
<1>5. IsFiniteSet(T) /\ Cardinality(T) = n
  BY <1>1, FS_Interval
<1>6. Rank(S) \in Surjection(S, T)
  BY <1>4, <1>5, FS_Injection
<1> QED BY <1>1, <1>2, <1>4, <1>6 DEF Bijection, Rank

(* As many points are at some places as there are places. *)
LEMMA PlacesCount ==
  ASSUME NEW S, S \subseteq Points, IsFiniteSet(S), NEW T, T \subseteq 0..(Cardinality(S) - 1)
  PROVE  Cardinality({p \in S : Rank(S)[p] \in T}) = Cardinality(T)
<1> DEFINE n == Cardinality(S)
           at == {p \in S : Rank(S)[p] \in T}
           f == [p \in at |-> Rank(S)[p]]
<1>1. Rank(S) \in Injection(S, 0..(n - 1)) /\ Rank(S) \in Surjection(S, 0..(n - 1))
  BY RankBijective DEF Bijection
<1>2. \A p, q \in S : Rank(S)[p] = Rank(S)[q] => p = q
  BY <1>1 DEF Injection, IsInjective
<1>3. \A t \in T : \E p \in S : Rank(S)[p] = t
  BY <1>1 DEF Surjection
<1> HIDE DEF n
<1>4. f \in [at -> T]
  OBVIOUS
<1>5. f \in Injection(at, T)
  BY <1>2, <1>4 DEF Injection, IsInjective
<1>6. f \in Surjection(at, T)
  BY <1>3, <1>4 DEF Surjection
<1>7. IsFiniteSet(at)
  BY SubsetCount
<1>8. Cardinality(T) = Cardinality(at)
  BY <1>5, <1>6, <1>7, FS_Surjection
<1> QED BY <1>8

LEMMA NewestCount ==
  ASSUME NEW S, S \subseteq Points, IsFiniteSet(S), NEW n \in Nat
  PROVE  /\ Newest(S, n) \subseteq S
         /\ IsFiniteSet(Newest(S, n))
         /\ Cardinality(S) \in Nat
         /\ Cardinality(Newest(S, n)) = IF Cardinality(S) <= n THEN Cardinality(S) ELSE n
         /\ Cardinality(S) <= n => Newest(S, n) = S
<1>1. /\ Cardinality(S) \in Nat
      /\ \A p \in S : /\ Rank(S)[p] \in 0..(Cardinality(S) - 1)
                      /\ Cardinality(Above(S, p)) = Cardinality(S) - 1 - Rank(S)[p]
  BY RankBijective DEF Bijection, Injection
<1>2. Newest(S, n) = {p \in S : Cardinality(Above(S, p)) < n}
  BY DEF Newest, Above
<1>3. Newest(S, n) \subseteq S /\ IsFiniteSet(Newest(S, n))
  <2>1. Newest(S, n) \subseteq S
    BY DEF Newest
  <2> QED BY <2>1, SubsetCount
<1>4. CASE Cardinality(S) <= n
  <2>1. Newest(S, n) = S
    BY <1>1, <1>2, <1>4
  <2> QED BY <1>1, <1>3, <1>4, <2>1
<1>5. CASE Cardinality(S) > n
  <2> DEFINE T == (Cardinality(S) - n)..(Cardinality(S) - 1)
  <2>1. Newest(S, n) = {p \in S : Rank(S)[p] \in T}
    BY <1>1, <1>2
  <2>2. T \subseteq 0..(Cardinality(S) - 1)
    BY <1>1, <1>5
  <2>3. Cardinality(T) = n
    <3>1. Cardinality(S) - n \in Int /\ Cardinality(S) - 1 \in Int
      BY <1>1
    <3>2. Cardinality(T) = IF Cardinality(S) - n > Cardinality(S) - 1 THEN 0
                           ELSE Cardinality(S) - 1 - (Cardinality(S) - n) + 1
      BY <3>1, FS_Interval
    <3> HIDE DEF T
    <3> QED BY <1>1, <3>2
  <2> HIDE DEF T
  <2>4. Cardinality(Newest(S, n)) = n
    BY <2>1, <2>2, <2>3, PlacesCount
  <2> QED BY <1>1, <1>3, <1>5, <2>4
<1> QED BY <1>1, <1>4, <1>5

(* A point that all the others precede is the last one, and among the newest. *)
LEMMA LastPoint ==
  ASSUME NEW S, S \subseteq Points, IsFiniteSet(S), NEW p \in S,
         \A q \in S \ {p} : Precedes(q, p)
  PROVE  /\ Rank(S)[p] = Cardinality(S) - 1
         /\ \A n \in Nat \ {0} : p \in Newest(S, n)
<1>1. Above(S, p) = {}
  BY PrecedesOrders DEF Above
<1>2. Cardinality(Above(S, p)) = 0
  BY <1>1, FS_EmptySet
<1>3. /\ Cardinality(S) \in Nat /\ Rank(S)[p] \in Int
      /\ Cardinality(Above(S, p)) = Cardinality(S) - 1 - Rank(S)[p]
  BY RankBijective DEF Bijection, Injection
<1>4. ASSUME NEW n \in Nat \ {0}
      PROVE  p \in Newest(S, n)
  <2>1. 0 < n
    OBVIOUS
  <2> QED BY <1>2, <2>1 DEF Newest, Above
<1>5. Rank(S)[p] = Cardinality(S) - 1
  BY <1>2, <1>3
<1> QED BY <1>4, <1>5

(* Division by d is strictly monotone over steps of d. *)
LEMMA DivisionSteps ==
  ASSUME NEW a \in Nat, NEW b \in Nat, NEW d \in Nat \ {0}
  PROVE  /\ a + d <= b => a \div d < b \div d
         /\ a <= b => a \div d <= b \div d
         /\ \A n \in Nat : (d * n) \div d = n
<1>1. PICK x \in Nat, r \in 0..(d - 1) : x = a \div d /\ a = d * x + r
  BY Division
<1>2. PICK y \in Nat, s \in 0..(d - 1) : y = b \div d /\ b = d * y + s
  BY Division
<1>3. ASSUME NEW u \in Nat, NEW v \in Nat, d * u < d * v + d
      PROVE  u <= v
  BY <1>3
<1>4. ASSUME a <= b
      PROVE  x <= y
  <2>1. d * x < d * y + d
    BY <1>1, <1>2, <1>4
  <2> QED BY <1>3, <2>1
<1>5. ASSUME a + d <= b
      PROVE  x < y
  <2>1. d * (x + 1) < d * y + d
    BY <1>1, <1>2, <1>5
  <2>2. x + 1 <= y
    BY <1>3, <2>1
  <2> QED BY <2>2
<1>6. ASSUME NEW n \in Nat
      PROVE  (d * n) \div d = n
  OBVIOUS
<1> QED BY <1>1, <1>2, <1>4, <1>5, <1>6

(* The places that thinning out chooses are different, and the last is one of them. *)
LEMMA PlacesChosen ==
  ASSUME NEW n \in Nat, Limit < n, Limit # 1
  PROVE  LET chosen == {SpacedIndex(i, n) : i \in 0..Limit - 1} IN
         /\ chosen \subseteq 0..(n - 1)
         /\ Cardinality(chosen) = Limit
         /\ n - 1 \in chosen
<1> DEFINE I == 0..Limit - 1
           f == [i \in I |-> SpacedIndex(i, n)]
           chosen == {SpacedIndex(i, n) : i \in I}
<1>1. PICK d \in Nat \ {0} : d = Limit - 1 /\ Limit = d + 1
  BY MetricHistoryAssumption
<1>2. PICK m \in Nat : m = n - 1 /\ d < m
  BY <1>1
<1>3. I = 0..d /\ \A i \in I : SpacedIndex(i, n) = (i * m) \div d
  BY <1>1, <1>2 DEF SpacedIndex
<1>4. \A i \in Nat : i * m \in Nat
  OBVIOUS
<1>5. ASSUME NEW i \in I
      PROVE  SpacedIndex(i, n) \in 0..m
  <2>1. i \in Nat /\ i <= d
    BY <1>1
  <2>2. i * m <= d * m
    BY <2>1
  <2>3. (i * m) \div d <= (d * m) \div d /\ (d * m) \div d = m
    BY <1>4, <2>1, <2>2, DivisionSteps
  <2>4. (i * m) \div d \in Nat
    BY <1>4, <2>1, Division
  <2> QED BY <1>3, <2>3, <2>4
<1>6. SpacedIndex(d, n) = m /\ d \in I
  <2>1. (d * m) \div d = m
    BY DivisionSteps
  <2>2. d \in I
    <3> HIDE DEF I
    <3> QED BY <1>3
  <2> HIDE DEF I
  <2> QED BY <1>3, <2>1, <2>2
<1>7. ASSUME NEW i \in I, NEW j \in I, i < j
      PROVE  SpacedIndex(i, n) < SpacedIndex(j, n)
  <2>1. i \in Nat /\ j \in Nat /\ i + 1 <= j
    BY <1>1, <1>7
  <2>2. (i + 1) * m <= j * m /\ (i + 1) * m = i * m + m
    BY <2>1
  <2>3. i * m + d <= j * m
    BY <1>2, <1>4, <2>1, <2>2
  <2>4. (i * m) \div d < (j * m) \div d
    BY <1>4, <2>1, <2>3, DivisionSteps
  <2> QED BY <1>3, <2>4
<1>8. ASSUME NEW i \in I, NEW j \in I, SpacedIndex(i, n) = SpacedIndex(j, n)
      PROVE  i = j
  <2>1. i \in Nat /\ j \in Nat
    BY <1>3
  <2>2. SpacedIndex(i, n) \in Nat /\ SpacedIndex(j, n) \in Nat
    BY <1>5
  <2>3. ~(i < j) /\ ~(j < i)
    BY <1>7, <1>8, <2>2
  <2> QED BY <2>1, <2>3
<1>9. IsFiniteSet(I) /\ Cardinality(I) = Limit
  <2>1. IsFiniteSet(0..d) /\ Cardinality(0..d) = d - 0 + 1
    BY FS_Interval
  <2> HIDE DEF I
  <2> QED BY <1>1, <1>3, <2>1
<1>10. f \in Injection(I, chosen) /\ f \in Surjection(I, chosen)
  <2>1. f \in [I -> chosen]
    OBVIOUS
  <2> QED BY <1>8, <2>1 DEF Injection, IsInjective, Surjection
<1>11. Cardinality(chosen) = Limit
  BY <1>9, <1>10, FS_Surjection
<1> QED BY <1>2, <1>5, <1>6, <1>11

LEMMA ImageFinite ==
  ASSUME NEW S, IsFiniteSet(S), NEW f, DOMAIN f = S
  PROVE  IsFiniteSet({f[x] : x \in S})
<1> DEFINE T == {f[x] : x \in S}
           g == [x \in S |-> f[x]]
<1>1. g \in Surjection(S, T)
  BY DEF Surjection
<1> HIDE DEF T, g
<1>2. IsFiniteSet(T)
  BY <1>1, FS_Surjection
<1> QED BY <1>2 DEF T

MediumPoints == {Point(k[2], 1, k[1]) : k \in Rows(medium)}
LongPoints == {Point(k[2], 2, k[1]) : k \in LongShown}

LEMMA PointsFinite ==
  ASSUME IInv
  PROVE  /\ RawPoints \subseteq Points /\ IsFiniteSet(RawPoints)
         /\ MediumPoints \subseteq Points /\ IsFiniteSet(MediumPoints)
         /\ LongPoints \subseteq Points /\ IsFiniteSet(LongPoints)
<1>1. Series \subseteq Nat /\ IsFiniteSet(Series)
  BY MetricHistoryAssumption
<1>2. IsFiniteSet(Key)
  <2>1. IsFiniteSet(0..MaxTime)
    BY Constants, FS_Interval
  <2> QED BY <1>1, <2>1, FS_Product DEF Key, Time
<1>3. Rows(medium) \subseteq Key /\ LongShown \subseteq Key
  BY DEF Rows, LongShown
<1>4. IsFiniteSet(raw) /\ IsFiniteSet(Rows(medium)) /\ IsFiniteSet(LongShown)
  BY <1>2, <1>3, SubsetCount DEF IInv
<1>5. RawPoints \subseteq Points /\ IsFiniteSet(RawPoints)
  <2> DEFINE f == [x \in raw |-> <<x.at, 0, x.series>>]
  <2>1. RawPoints = {f[x] : x \in raw}
    BY DEF RawPoints, Point
  <2>2. RawPoints \subseteq Points
    <3>1. \A x \in raw : x.at \in Nat /\ x.series \in Nat
      BY <1>1, SampleTypes DEF IInv, TypeOK
    <3> QED BY <3>1 DEF RawPoints, Point, Points
  <2>3. DOMAIN f = raw
    OBVIOUS
  <2> HIDE DEF f
  <2> QED BY <1>4, <2>1, <2>2, <2>3, ImageFinite
<1>6. MediumPoints \subseteq Points /\ IsFiniteSet(MediumPoints)
  <2> DEFINE f == [k \in Rows(medium) |-> <<k[2], 1, k[1]>>]
  <2>1. MediumPoints = {f[k] : k \in Rows(medium)}
    BY DEF MediumPoints, Point
  <2>2. MediumPoints \subseteq Points
    <3>1. \A k \in Rows(medium) : k[1] \in Nat /\ k[2] \in Nat
      BY <1>1, <1>3, KeyTypes
    <3> QED BY <3>1 DEF MediumPoints, Point, Points
  <2>3. DOMAIN f = Rows(medium)
    OBVIOUS
  <2> HIDE DEF f
  <2> QED BY <1>4, <2>1, <2>2, <2>3, ImageFinite
<1>7. LongPoints \subseteq Points /\ IsFiniteSet(LongPoints)
  <2> DEFINE f == [k \in LongShown |-> <<k[2], 2, k[1]>>]
  <2>1. LongPoints = {f[k] : k \in LongShown}
    BY DEF LongPoints, Point
  <2>2. LongPoints \subseteq Points
    <3>1. \A k \in LongShown : k[1] \in Nat /\ k[2] \in Nat
      BY <1>1, <1>3, KeyTypes
    <3> QED BY <3>1 DEF LongPoints, Point, Points
  <2>3. DOMAIN f = LongShown
    OBVIOUS
  <2> HIDE DEF f
  <2> QED BY <1>4, <2>1, <2>2, <2>3, ImageFinite
<1> QED BY <1>5, <1>6, <1>7

LEMMA LesserOfTwo ==
  ASSUME NEW a \in Nat, NEW b \in Nat
  PROVE  Min({a, b}) = IF a <= b THEN a ELSE b
<1> DEFINE m == IF a <= b THEN a ELSE b
<1>1. m \in {a, b} /\ \A y \in {a, b} : m <= y
  OBVIOUS
<1>2. \A x \in {a, b} : (\A y \in {a, b} : x <= y) => x = m
  OBVIOUS
<1>3. Min({a, b}) \in {a, b} /\ \A y \in {a, b} : Min({a, b}) <= y
  BY <1>1 DEF Min
<1> QED BY <1>2, <1>3

(***************************************************************************)
(* What the three queries return: all there is if that is within the       *)
(* limit, and otherwise at least as much as the limit; the newest point is *)
(* always among it.                                                        *)
(***************************************************************************)
LEMMA QueriesSuffice ==
  ASSUME IInv, NEW out, out = Newest(RawPoints, Limit) \cup Aggregates,
         NEW all, all = RawPoints \cup MediumPoints \cup LongPoints
  PROVE  /\ out \subseteq all /\ all \subseteq Points /\ IsFiniteSet(all)
         /\ Cardinality(out) <= Limit => Cardinality(out) = Min({Limit, Cardinality(all)})
         /\ Cardinality(out) > Limit => Limit = Min({Limit, Cardinality(all)})
         /\ \A p \in all : (\A q \in all \ {p} : Precedes(q, p)) => p \in out
<1> DEFINE R == RawPoints
           M == MediumPoints
           L == LongPoints
<1>1. Limit \in Nat \ {0}
  BY MetricHistoryAssumption
<1>2. /\ R \subseteq Points /\ IsFiniteSet(R)
      /\ M \subseteq Points /\ IsFiniteSet(M)
      /\ L \subseteq Points /\ IsFiniteSet(L)
  BY PointsFinite
<1>3. out = Newest(R, Limit) \cup Newest(M, Limit) \cup Newest(L, Limit)
  BY DEF Aggregates, MediumPoints, LongPoints
<1> HIDE DEF R, M, L
<1>4. all = R \cup M \cup L
  BY DEF R, M, L
<1>5. /\ all \subseteq Points
      /\ IsFiniteSet(all)
  <2>1. IsFiniteSet(R \cup M)
    BY <1>2, FS_Union
  <2>2. IsFiniteSet((R \cup M) \cup L)
    BY <1>2, <2>1, FS_Union
  <2> QED BY <1>2, <1>4, <2>2
<1>6. ASSUME NEW S, S \subseteq Points, IsFiniteSet(S)
      PROVE  /\ Newest(S, Limit) \subseteq S
             /\ Newest(S, Limit) = S \/ Cardinality(Newest(S, Limit)) = Limit
  BY <1>1, <1>6, NewestCount
<1>7. out \subseteq all
  BY <1>2, <1>3, <1>4, <1>6
<1>8. /\ IsFiniteSet(out)
      /\ Cardinality(out) \in Nat /\ Cardinality(all) \in Nat
      /\ Cardinality(out) <= Cardinality(all)
  BY <1>5, <1>7, SubsetCount
<1>9. out = all \/ Cardinality(out) >= Limit
  <2>1. ASSUME NEW S \in {R, M, L}, Cardinality(Newest(S, Limit)) = Limit
        PROVE  Cardinality(out) >= Limit
    <3>1. Newest(S, Limit) \subseteq out
      BY <1>3
    <3>2. Cardinality(Newest(S, Limit)) <= Cardinality(out)
      BY <1>8, <3>1, SubsetCount
    <3> QED BY <1>1, <1>8, <2>1, <3>2
  <2>2. CASE Newest(R, Limit) = R /\ Newest(M, Limit) = M /\ Newest(L, Limit) = L
    BY <1>3, <1>4, <2>2
  <2> QED BY <1>2, <1>6, <2>1, <2>2
<1>10. Min({Limit, Cardinality(all)}) = IF Limit <= Cardinality(all) THEN Limit ELSE Cardinality(all)
  BY <1>1, <1>8, LesserOfTwo
<1>11. ASSUME NEW p \in all, \A q \in all \ {p} : Precedes(q, p)
       PROVE  p \in out
  <2>1. ASSUME NEW S \in {R, M, L}, p \in S
        PROVE  p \in out
    <3>1. S \subseteq all /\ S \subseteq Points /\ IsFiniteSet(S)
      BY <1>2, <1>4
    <3>2. \A q \in S \ {p} : Precedes(q, p)
      BY <1>11, <3>1
    <3>3. p \in Newest(S, Limit)
      BY <1>1, <2>1, <3>1, <3>2, LastPoint
    <3> QED BY <1>3, <3>3
  <2> QED BY <1>4, <2>1
<1> QED BY <1>1, <1>5, <1>7, <1>8, <1>9, <1>10, <1>11

(* Thinning out leaves exactly as many points as the limit, the last one too. *)
LEMMA ThinnedOut ==
  ASSUME NEW out, out \subseteq Points, IsFiniteSet(out), Cardinality(out) > Limit
  PROVE  /\ Cardinality(evenlySpacedMetrics(out)) = Limit
         /\ \A p \in out : (\A q \in out \ {p} : Precedes(q, p)) => p \in evenlySpacedMetrics(out)
<1>1. Limit \in Nat \ {0} /\ Cardinality(out) \in Nat
  BY MetricHistoryAssumption, FS_CardinalityType
<1>2. CASE Limit = 1
  <2>1. evenlySpacedMetrics(out) = Newest(out, 1)
    BY <1>2 DEF evenlySpacedMetrics
  <2>2. Cardinality(Newest(out, 1)) = 1
    BY <1>1, <1>2, NewestCount
  <2> QED BY <1>2, <2>1, <2>2, LastPoint
<1>3. CASE Limit # 1
  <2> DEFINE chosen == {SpacedIndex(i, Cardinality(out)) : i \in 0..Limit - 1}
  <2>1. /\ chosen \subseteq 0..(Cardinality(out) - 1) /\ Cardinality(chosen) = Limit
        /\ Cardinality(out) - 1 \in chosen
    BY <1>1, <1>3, PlacesChosen
  <2>2. evenlySpacedMetrics(out) = {p \in out : Cardinality(Below(out, p)) \in chosen}
    BY <1>3 DEF evenlySpacedMetrics, Below
  <2>3. evenlySpacedMetrics(out) = {p \in out : Rank(out)[p] \in chosen}
    BY <2>2 DEF Rank
  <2> HIDE DEF chosen
  <2>4. Cardinality(evenlySpacedMetrics(out)) = Limit
    BY <2>1, <2>3, PlacesCount
  <2>5. ASSUME NEW p \in out, \A q \in out \ {p} : Precedes(q, p)
        PROVE  p \in evenlySpacedMetrics(out)
    <3>1. Rank(out)[p] = Cardinality(out) - 1
      BY <2>5, LastPoint
    <3> QED BY <2>1, <2>3, <3>1
  <2> QED BY <2>4, <2>5
<1> QED BY <1>2, <1>3

(***************************************************************************)
(* ListMetrics returns as many points as there are and as the limit lets   *)
(* it, and the newest one always, in every state and for every limit: the  *)
(* places evenlySpacedMetrics chooses are different, first and last among  *)
(* them.                                                                   *)
(***************************************************************************)
THEOREM ReadsFillTheirLimit == Spec => []ReadFillsLimit
<1>1. IInv => ReadFillsLimit
  <2> SUFFICES ASSUME IInv
               PROVE  ReadFillsLimit
    OBVIOUS
  <2> DEFINE all == RawPoints \cup MediumPoints \cup LongPoints
             out == Newest(RawPoints, Limit) \cup Aggregates
  <2>1. /\ out \subseteq all /\ all \subseteq Points /\ IsFiniteSet(all)
        /\ Cardinality(out) <= Limit => Cardinality(out) = Min({Limit, Cardinality(all)})
        /\ Cardinality(out) > Limit => Limit = Min({Limit, Cardinality(all)})
        /\ \A p \in all : (\A q \in all \ {p} : Precedes(q, p)) => p \in out
    BY QueriesSuffice
  <2>2. Limit \in Nat \ {0}
    BY MetricHistoryAssumption
  <2>3. ListMetrics = IF Cardinality(out) <= Limit THEN out
                      ELSE IF Aggregates = {} THEN Newest(out, Limit)
                      ELSE evenlySpacedMetrics(out)
    BY DEF ListMetrics
  <2>4. ReadFillsLimit <=>
            /\ Cardinality(ListMetrics) = Min({Limit, Cardinality(all)})
            /\ \A p \in all : (\A q \in all \ {p} : Precedes(q, p)) => p \in ListMetrics
    BY DEF ReadFillsLimit, MediumPoints, LongPoints
  <2> HIDE DEF all, out
  <2>5. out \subseteq Points /\ IsFiniteSet(out) /\ Cardinality(out) \in Nat
    BY <2>1, SubsetCount
  <2>6. CASE Cardinality(out) <= Limit
    BY <2>1, <2>3, <2>4, <2>6
  <2>7. CASE Cardinality(out) > Limit
    <3>1. \A p \in all : (\A q \in all \ {p} : Precedes(q, p))
                            => p \in out /\ \A q \in out \ {p} : Precedes(q, p)
      BY <2>1
    <3>2. ListMetrics = Newest(out, Limit) \/ ListMetrics = evenlySpacedMetrics(out)
      BY <2>2, <2>3, <2>5, <2>7
    <3>3. /\ Cardinality(Newest(out, Limit)) = Limit
          /\ \A p \in out : (\A q \in out \ {p} : Precedes(q, p)) => p \in Newest(out, Limit)
      BY <2>2, <2>5, <2>7, NewestCount, LastPoint
    <3>4. /\ Cardinality(evenlySpacedMetrics(out)) = Limit
          /\ \A p \in out : (\A q \in out \ {p} : Precedes(q, p)) => p \in evenlySpacedMetrics(out)
      BY <2>5, <2>7, ThinnedOut
    <3> QED BY <2>1, <2>4, <2>7, <3>1, <3>2, <3>3, <3>4
  <2> QED BY <2>2, <2>5, <2>6, <2>7
<1> QED BY <1>1, Invariance, PTL
=============================================================================
