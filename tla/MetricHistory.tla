---------------------------- MODULE MetricHistory ----------------------------
(***************************************************************************)
(* The history of one metric of one server.  Collection cycles save raw    *)
(* samples.  Maintenance, every hour and at startup, rolls the samples     *)
(* older than the raw retention into two tiers of aggregates, removes them *)
(* and removes the aggregates older than the retention of their tier, in   *)
(* one transaction.  A read puts raw samples and both tiers together.      *)
(*                                                                         *)
(* A series is a database and a set of labels of the metric.  Of the       *)
(* columns of an aggregate the sample count is kept: sum, minimum and      *)
(* maximum are updated from the same rows in the same statement.           *)
(***************************************************************************)
EXTENDS Integers, FiniteSets, FiniteSetsExt

CONSTANTS
    Series,         \* numbered
    MediumWidth,    \* width of a bucket of the medium tier (15 minutes)
    LongWidth,      \* width of a bucket of the long tier (6 hours)
    Raw, Medium, Long,  \* the retention policy
    Limit,          \* points a read may return
    Lag,            \* bound: ticks between collecting a sample and saving it
    MaxTime,        \* bound: ticks
    MaxSamples      \* bound: samples

ASSUME MetricHistoryAssumption ==
    /\ Series \subseteq Nat
    /\ IsFiniteSet(Series)
    /\ {Raw, Medium, Long, Lag, MaxTime, MaxSamples} \subseteq Nat
    /\ {MediumWidth, LongWidth, Limit} \subseteq Nat \ {0}
    /\ LongWidth % MediumWidth = 0

(* MetricRetentionPolicy.validate *)
ValidPolicy == Raw <= Medium /\ Medium <= Long

(* Samples are saved well within the raw window, which is at least an hour. *)
ASSUME PolicyAssumption == ValidPolicy /\ Lag <= Raw

VARIABLES
    clock,          \* the time, in ticks
    raw,            \* samples in the table metrics
    medium, long,   \* [Key -> Nat]: sample_count in metric_aggregates, by tier
    collected,      \* every sample that was ever saved (history)
    prunedAt        \* the time of the last maintenance (history)

vars == <<clock, raw, medium, long, collected, prunedAt>>

Time == 0..MaxTime
Sample == [series : Series, at : Time]
Key == Series \X Time

Bucket(at, width) == (at \div width) * width
Within(S, k, width) == {x \in S : x.series = k[1] /\ Bucket(x.at, width) = k[2]}

-----------------------------------------------------------------------------
SaveMetrics(x) ==
    /\ x.at \in clock - Lag..clock
    /\ x \notin collected
    /\ Cardinality(collected) < MaxSamples
    /\ raw' = raw \cup {x}
    /\ collected' = collected \cup {x}
    /\ UNCHANGED <<clock, medium, long, prunedAt>>

(* Mutant of Expiring: the cutoff of the roll-up is off by one. *)
ExpiringLess(now) == {x \in raw : x.at < now - Raw - 1 /\ x.at >= now - Long}

(* The samples that maintenance adds to the aggregates. *)
Expiring(now) == {x \in raw : x.at < now - Raw /\ x.at >= now - Long}

(* Mutant of Remaining: rolled up, but not removed. *)
RemainingAll(now) == raw

Remaining(now) == {x \in raw : x.at >= now - Raw}

(* Insert or add, and drop the buckets that began before the retention. *)
RolledUp(tier, width, retention, now) ==
    [k \in Key |-> IF k[2] < now - retention THEN 0
                   ELSE tier[k] + Cardinality(Within(Expiring(now), k, width))]

PruneMonitoringHistory ==
    /\ raw' = Remaining(clock)
    /\ medium' = RolledUp(medium, MediumWidth, Medium, clock)
    /\ long' = RolledUp(long, LongWidth, Long, clock)
    /\ prunedAt' = clock
    /\ UNCHANGED <<clock, collected>>

Tick ==
    /\ clock < MaxTime
    /\ clock' = clock + 1
    /\ UNCHANGED <<raw, medium, long, collected, prunedAt>>

-----------------------------------------------------------------------------
(* ListMetrics without a lower bound of time *)

Rows(tier) == {k \in Key : tier[k] > 0}

(* Mutant of BeforeMedium: only buckets that end before the medium tier. *)
EndsBeforeMedium(k) == \A m \in Rows(medium) : k[2] + LongWidth <= m[2]

(* A long bucket is shown when it begins before the medium tier does. *)
BeforeMedium(k) == \A m \in Rows(medium) : k[2] < m[2]

LongShown == {k \in Rows(long) : BeforeMedium(k)}

(* A point: its time, its place in the stable sort, its series. *)
Point(at, place, series) == <<at, place, series>>
Precedes(p, q) ==
    \/ p[1] < q[1]
    \/ p[1] = q[1] /\ p[2] < q[2]
    \/ p[1] = q[1] /\ p[2] = q[2] /\ p[3] < q[3]

Newest(S, n) == {p \in S : Cardinality({q \in S : Precedes(p, q)}) < n}

RawPoints == {Point(x.at, 0, x.series) : x \in raw}
Aggregates ==
    Newest({Point(k[2], 1, k[1]) : k \in Rows(medium)}, Limit)
        \cup Newest({Point(k[2], 2, k[1]) : k \in LongShown}, Limit)

(* Mutant of SpacedIndex: divides by the limit. *)
SpacedIndexShort(i, n) == (i * (n - 1)) \div Limit

SpacedIndex(i, n) == (i * (n - 1)) \div (Limit - 1)

evenlySpacedMetrics(S) ==
    IF Limit = 1 THEN Newest(S, 1)
    ELSE LET chosen == {SpacedIndex(i, Cardinality(S)) : i \in 0..Limit - 1} IN
         {p \in S : Cardinality({q \in S : Precedes(q, p)}) \in chosen}

ListMetrics ==
    LET out == Newest(RawPoints, Limit) \cup Aggregates IN
    IF Cardinality(out) <= Limit THEN out
    ELSE IF Aggregates = {} THEN Newest(out, Limit)
    ELSE evenlySpacedMetrics(out)

-----------------------------------------------------------------------------
Init ==
    /\ clock = 0
    /\ raw = {}
    /\ medium = [k \in Key |-> 0]
    /\ long = [k \in Key |-> 0]
    /\ collected = {}
    /\ prunedAt = 0

Next ==
    \/ \E x \in Sample : SaveMetrics(x)
    \/ PruneMonitoringHistory
    \/ Tick

Spec == Init /\ [][Next]_vars

-----------------------------------------------------------------------------
(* Types of every variable. *)
TypeOK ==
    /\ clock \in Time
    /\ raw \subseteq Sample
    /\ medium \in [Key -> 0..MaxSamples]
    /\ long \in [Key -> 0..MaxSamples]
    /\ collected \subseteq Sample
    /\ prunedAt \in Time

(***************************************************************************)
(* Every sample counts exactly once in each tier: what a bucket that is    *)
(* still retained has counted, together with the raw samples it has yet to *)
(* count, is what was collected in its span, whenever and however often    *)
(* maintenance ran (PruneMonitoringHistory: "either all aggregate upserts  *)
(* and deletes commit, or the raw samples remain untouched").              *)
(***************************************************************************)
TierExact(tier, width, retention) ==
    \A k \in Key : k[2] % width = 0 /\ k[2] >= prunedAt - retention =>
        tier[k] + Cardinality(Within(raw, k, width)) = Cardinality(Within(collected, k, width))

CountedOnce == TierExact(medium, MediumWidth, Medium) /\ TierExact(long, LongWidth, Long)

(***************************************************************************)
(* A read has no gaps: a sample whose long bucket is retained is there as  *)
(* a raw sample, in its medium bucket or in a long bucket that is shown,   *)
(* although the medium tier hides long buckets of every series as soon as  *)
(* one series has a medium bucket that early (listMetricAggregates).       *)
(***************************************************************************)
HistoryHasNoGaps ==
    \A x \in collected : Bucket(x.at, LongWidth) >= prunedAt - Long =>
        \/ x \in raw
        \/ medium[<<x.series, Bucket(x.at, MediumWidth)>>] > 0
        \/ <<x.series, Bucket(x.at, LongWidth)>> \in LongShown

(***************************************************************************)
(* A read is bounded by its limit, fills it when there is enough to show,  *)
(* and always shows the newest point: thinning out neither repeats points  *)
(* nor drops the end (evenlySpacedMetrics and the limits of the queries).  *)
(***************************************************************************)
ReadFillsLimit ==
    LET all == RawPoints \cup {Point(k[2], 1, k[1]) : k \in Rows(medium)}
                         \cup {Point(k[2], 2, k[1]) : k \in LongShown}
    IN /\ Cardinality(ListMetrics) = Min({Limit, Cardinality(all)})
       /\ \A p \in all : (\A q \in all \ {p} : Precedes(q, p)) => p \in ListMetrics
=============================================================================
