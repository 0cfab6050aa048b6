---------------------------- MODULE QueryRegression ----------------------------
(***************************************************************************)
(* Reset-aware detection of query regressions, for one query of one        *)
(* server.  PostgreSQL keeps cumulative counters of the query; a standard  *)
(* cycle observes them together with the two boundary times (statistics    *)
(* reset, postmaster start), compares the intervals between the stored     *)
(* observations with a baseline of earlier ones, stores the observation    *)
(* and, at its end, reconciles the finding.  Every other complete cycle    *)
(* reconciles too.                                                         *)
(*                                                                         *)
(* Times of the query are in microseconds (.001 ms of the code), so that   *)
(* the arithmetic of the code is integer arithmetic to that precision.     *)
(* Rows and shared reads of the query move with its calls.                 *)
(***************************************************************************)
EXTENDS Integers, Sequences, FiniteSets, SequencesExt

CONSTANTS
    Workload,         \* what clients do between two standard cycles: [calls, mean]
    MinBaseline,      \* intervals a baseline needs (6 in the code)
    HistoryLimit,     \* observations a comparison reads (10 in the code)
    Upsets,           \* what may go wrong, among UpsetKinds
    MaxPeriods,       \* bound: standard cycles
    MaxShifts,        \* bound: changes of the workload
    MaxUpsets         \* bound: things that go wrong

UpsetKinds == {"evicted", "reset", "restarted", "hidden", "dropped", "unknown",
               "incomplete", "lost"}

ASSUME QueryRegressionAssumption ==
    /\ Workload \subseteq [calls : Nat \ {0}, mean : Nat \ {0}]
    /\ MinBaseline \in Nat \ {0}
    /\ HistoryLimit \in Nat
    /\ HistoryLimit >= MinBaseline + 2
    /\ Upsets \subseteq UpsetKinds
    /\ {MaxPeriods, MaxShifts, MaxUpsets} \subseteq Nat

MinCalls == 20
MinRuntime == 1000000       \* one second
MinMean == 5000             \* 5 ms
MinChangePercent == 50
NoTime == -1                \* a nil time

VARIABLES
    load,           \* the workload of the clients
    counters,       \* the row of pg_stat_statements: [calls, runtime], zero calls: no row
    resetAt,        \* time of the last statistics reset
    startedAt,      \* start of the postmaster
    hasInfo,        \* pg_stat_statements_info can be read
    observed,       \* stored observations, the oldest first, the last HistoryLimit
    open,           \* the regression finding is open
    phase,          \* the standard cycle: "idle", "due", "analyze"
    report,         \* the cycle will report the regression
    complete,       \* the cycle is complete so far
    verdict,        \* the last comparison (history)
    done,           \* truly executed since the last stored observation (history)
    crossed,        \* what was crossed since then: "boundary", "loss" (history)
    periods, shifts, upsets

serverVars == <<load, counters, resetAt, startedAt, hasInfo>>
cycleVars == <<phase, report, complete>>
historyVars == <<verdict, done, crossed>>
bounds == <<periods, shifts, upsets>>
vars == <<serverVars, observed, open, cycleVars, historyVars, bounds>>

Idle == [means |-> {}, calls |-> 0, runtime |-> 0]
Gone == [calls |-> 0, runtime |-> 0]

-----------------------------------------------------------------------------
(* Intervals between observations *)

(* Two nil times are the same boundary, a nil time and another one are not. *)
sameBoundary(left, right) == left = right

Listed(o) == o.calls > 0

Compatible(before, after) ==
    /\ Listed(before) /\ Listed(after)
    /\ sameBoundary(before.resetAt, after.resetAt)
    /\ sameBoundary(before.startedAt, after.startedAt)
    /\ after.calls - before.calls >= MinCalls
    /\ after.runtime - before.runtime >= MinRuntime

(***************************************************************************)
(* The means of the intervals since the last pair of observations that     *)
(* cannot be compared: every such pair empties the list.                   *)
(***************************************************************************)
compatibleQueryIntervals(os) ==
    LET breaks == {i \in 2..Len(os) : ~Compatible(os[i - 1], os[i])}
        start == Max({1} \cup breaks)
    IN  [j \in 1..(Len(os) - start) |->
            (os[start + j].runtime - os[start + j - 1].runtime)
            \div (os[start + j].calls - os[start + j - 1].calls)]

-----------------------------------------------------------------------------
(* The baseline: median and median absolute deviation *)

Kth(s, k) ==
    CHOOSE x \in Range(s) :
        /\ Cardinality({i \in DOMAIN s : s[i] < x}) < k
        /\ Cardinality({i \in DOMAIN s : s[i] <= x}) >= k

(* Mutant of median: the mean. *)
arithmeticMean(s) == FoldSeq(+, 0, s) \div Len(s)

median(s) ==
    LET m == Len(s) \div 2
    IN  IF Len(s) % 2 = 0 THEN (Kth(s, m) + Kth(s, m + 1)) \div 2 ELSE Kth(s, m + 1)

AbsoluteDifference(a, b) == IF a > b THEN a - b ELSE b - a

Deviation(history) ==
    LET mid == median(history)
        mad == median([i \in DOMAIN history |-> AbsoluteDifference(history[i], mid)])
    IN  IF mad = 0 THEN Max({mid \div 20, 1}) ELSE mad

(* CompareBaseline: whether the current mean is anomalous. *)
Anomalous(history, current) ==
    LET mid == median(history) IN
    /\ Len(history) >= MinBaseline
    /\ current > mid + 3 * Deviation(history)
    /\ (current - mid) * 100 >= MinChangePercent * mid

-----------------------------------------------------------------------------
(* The two questions a standard cycle asks of the intervals *)

(* Mutant of QueryRegressionFindings: one anomalous interval is enough. *)
QueryRegressionFindingsAtOnce(os) ==
    LET intervals == compatibleQueryIntervals(os)
        n == Len(intervals)
        baseline == SubSeq(intervals, 1, n - 2)
    IN  /\ n >= MinBaseline + 2
        /\ Anomalous(baseline, intervals[n])
        /\ median(baseline) >= MinMean
        /\ intervals[n] - median(baseline) >= MinMean

(* The query is reported: the last two intervals are both anomalous. *)
QueryRegressionFindings(os) ==
    LET intervals == compatibleQueryIntervals(os)
        n == Len(intervals)
        baseline == SubSeq(intervals, 1, n - 2)
    IN  /\ n >= MinBaseline + 2
        /\ Anomalous(baseline, intervals[n - 1])
        /\ Anomalous(baseline, intervals[n])
        /\ median(baseline) >= MinMean
        /\ intervals[n] - median(baseline) >= MinMean

(* Mutant of QueryRegressionFindingReady: a baseline is enough. *)
QueryRegressionFindingReadyEarly(os) == Len(compatibleQueryIntervals(os)) >= MinBaseline

QueryRegressionFindingReady(os) == Len(compatibleQueryIntervals(os)) >= MinBaseline + 2

-----------------------------------------------------------------------------
(* PostgreSQL and its clients *)

(* The clients run their workload until the next standard cycle is due. *)
Work ==
    /\ phase = "idle"
    /\ periods < MaxPeriods
    /\ periods' = periods + 1
    /\ phase' = "due"
    /\ counters' = [calls |-> counters.calls + load.calls,
                    runtime |-> counters.runtime + load.calls * load.mean]
    /\ done' = [means |-> done.means \cup {load.mean}, calls |-> done.calls + load.calls,
                runtime |-> done.runtime + load.calls * load.mean]
    /\ UNCHANGED <<load, resetAt, startedAt, hasInfo, observed, open, report, complete, verdict,
                   crossed, shifts, upsets>>

Shift(w) ==
    /\ phase = "idle"
    /\ shifts < MaxShifts
    /\ w # load
    /\ load' = w
    /\ shifts' = shifts + 1
    /\ UNCHANGED <<counters, resetAt, startedAt, hasInfo, observed, open, cycleVars, historyVars,
                   periods, upsets>>

Upset(kind) == kind \in Upsets /\ upsets < MaxUpsets /\ upsets' = upsets + 1

(* The extension drops the row to make room: nothing tells but the counters. *)
Evict ==
    /\ phase # "analyze"
    /\ Upset("evicted")
    /\ counters' = Gone
    /\ crossed' = crossed \cup {"loss"}
    /\ UNCHANGED <<load, resetAt, startedAt, hasInfo, observed, open, cycleVars, verdict, done,
                   periods, shifts>>

ResetStatistics ==
    /\ phase # "analyze"
    /\ Upset("reset")
    /\ counters' = Gone
    /\ resetAt' = resetAt + 1
    /\ crossed' = crossed \cup {"loss", "boundary"}
    /\ UNCHANGED <<load, startedAt, hasInfo, observed, open, cycleVars, verdict, done,
                   periods, shifts>>

(* A clean restart keeps the statistics. *)
RestartPostgres ==
    /\ phase # "analyze"
    /\ Upset("restarted")
    /\ startedAt' = startedAt + 1
    /\ crossed' = crossed \cup {"boundary"}
    /\ UNCHANGED <<load, counters, resetAt, hasInfo, observed, open, cycleVars, verdict, done,
                   periods, shifts>>

-----------------------------------------------------------------------------
(* The standard cycle *)

(***************************************************************************)
(* What CollectQueries returns: the row unless it is below the first 200,  *)
(* and the boundary times, which are nil when they cannot be read or the   *)
(* extension is missing.  The other fields are history: what was executed  *)
(* and what was crossed on the server since the observation before, and    *)
(* whether that is a measured interval: the query is listed at both ends,  *)
(* their boundary times can both be read or neither can, and enough was    *)
(* executed.                                                               *)
(***************************************************************************)
CollectQueries(row, info) ==
    [calls |-> row.calls, runtime |-> row.runtime,
     resetAt |-> IF info THEN resetAt ELSE NoTime,
     startedAt |-> IF info THEN startedAt ELSE NoTime,
     done |-> done,
     crossed |-> crossed,
     measured |-> /\ observed # <<>>
                  /\ row.calls > 0
                  /\ Listed(Last(observed))
                  /\ info = (Last(observed).resetAt # NoTime)
                  /\ done.calls >= MinCalls
                  /\ done.runtime >= MinRuntime]

(* The row may be hidden, the extension dropped or its info unreadable, once. *)
Observation(kind) ==
    CollectQueries(IF kind \in {"hidden", "dropped"} THEN Gone ELSE counters,
                   hasInfo /\ kind \notin {"dropped", "unknown"})

Seen(kind) == IF kind = "plain" THEN UNCHANGED upsets ELSE Upset(kind)

(* Mutant of RecentQueryObservations: one too many. *)
RecentQueryObservationsAndOne(os) == SubSeq(os, Max({1, Len(os) - HistoryLimit}), Len(os))

(* The newest observations a later cycle will read. *)
RecentQueryObservations(os) == SubSeq(os, Max({1, Len(os) - HistoryLimit + 1}), Len(os))

(* Mutant of Compare: what is open is reported again, judged or not. *)
CompareAndKeep(current) ==
    LET os == Append(observed, current)
        regressed == QueryRegressionFindings(os)
        ready == QueryRegressionFindingReady(os)
    IN  /\ verdict' = CASE regressed -> "regressed"
                        [] ~regressed /\ ready -> "normal"
                        [] OTHER -> "insufficient"
        /\ report' = (regressed \/ open)

(***************************************************************************)
(* A finding that is open, and that the intervals can not judge, is        *)
(* reported again.                                                         *)
(***************************************************************************)
Compare(current) ==
    LET os == Append(observed, current)
        regressed == QueryRegressionFindings(os)
        ready == QueryRegressionFindingReady(os)
    IN  /\ verdict' = CASE regressed -> "regressed"
                        [] ~regressed /\ ready -> "normal"
                        [] OTHER -> "insufficient"
        /\ report' = (regressed \/ (open /\ ~ready))

Store(current) ==
    /\ observed' = RecentQueryObservations(Append(observed, current))
    /\ done' = Idle
    /\ crossed' = {}

ObservationKinds == {"plain", "hidden", "dropped", "unknown"}

(* The observation is compared with the stored ones and stored. *)
Observe(kind) ==
    /\ phase = "due"
    /\ Seen(kind)
    /\ phase' = "analyze"
    /\ Compare(Observation(kind))
    /\ Store(Observation(kind))
    /\ complete' = TRUE
    /\ UNCHANGED <<serverVars, open, periods, shifts>>

(* So it is when the open findings, or another section, cannot be read. *)
ObserveIncomplete ==
    /\ phase = "due"
    /\ Upset("incomplete")
    /\ phase' = "analyze"
    /\ Compare(Observation("plain"))
    /\ Store(Observation("plain"))
    /\ complete' = FALSE
    /\ UNCHANGED <<serverVars, open, periods, shifts>>

(* The queries, or the history, cannot be read, or the observation not saved. *)
ObservationLost ==
    /\ phase = "due"
    /\ Upset("lost")
    /\ phase' = "analyze"
    /\ complete' = FALSE
    /\ verdict' = "insufficient"
    /\ report' = FALSE
    /\ UNCHANGED <<serverVars, observed, open, done, crossed, periods, shifts>>

Reconcile ==
    /\ phase = "analyze"
    /\ phase' = "idle"
    /\ open' = IF complete THEN report ELSE open
    /\ UNCHANGED <<serverVars, observed, report, complete, historyVars, bounds>>

(* A complete fast or slow cycle: it has no regression to report. *)
OtherCycle ==
    /\ open
    /\ open' = FALSE
    /\ UNCHANGED <<serverVars, observed, cycleVars, historyVars, bounds>>

-----------------------------------------------------------------------------
Init ==
    /\ load \in Workload
    /\ counters = Gone
    /\ resetAt = 0
    /\ startedAt = 0
    /\ hasInfo \in BOOLEAN
    /\ observed = <<>>
    /\ open = FALSE
    /\ phase = "idle"
    /\ report = FALSE
    /\ complete = FALSE
    /\ verdict = "insufficient"
    /\ done = Idle
    /\ crossed = {}
    /\ periods = 0
    /\ shifts = 0
    /\ upsets = 0

Next ==
    \/ Work
    \/ \E w \in Workload : Shift(w)
    \/ Evict
    \/ ResetStatistics
    \/ RestartPostgres
    \/ \E kind \in ObservationKinds : Observe(kind)
    \/ ObserveIncomplete
    \/ ObservationLost
    \/ Reconcile
    \/ OtherCycle

Spec == Init /\ [][Next]_vars

-----------------------------------------------------------------------------
(* Types of every variable. *)
TypeOK ==
    /\ load \in Workload
    /\ counters \in [calls : Nat, runtime : Nat]
    /\ {resetAt, startedAt} \subseteq Nat
    /\ Len(observed) <= HistoryLimit
    /\ \A i \in DOMAIN observed :
        /\ {observed[i].calls, observed[i].runtime} \subseteq Nat
        /\ {observed[i].resetAt, observed[i].startedAt} \subseteq Nat \cup {NoTime}
    /\ {hasInfo, open, report, complete} \subseteq BOOLEAN
    /\ phase \in {"idle", "due", "analyze"}
    /\ verdict \in {"regressed", "normal", "insufficient"}
    /\ done.calls \in Nat /\ done.runtime \in Nat
    /\ periods \in 0..MaxPeriods
    /\ shifts \in 0..MaxShifts
    /\ upsets \in 0..MaxUpsets

(* No counters were lost on the way to this observation. *)
Intact(o) == "loss" \notin o.crossed

(* A measured interval; no restart or reset happened that its times can tell. *)
Sound(o) == o.measured /\ ("boundary" \in o.crossed => o.resetAt = NoTime)

(* At some time of interval i the clients saw the query half slower than in j. *)
Slower(i, j) ==
    \E now \in observed[i].done.means, was \in observed[j].done.means :
        (now - was) * 100 >= MinChangePercent * was

(***************************************************************************)
(* No false alarm: a query is found regressed only when clients really saw *)
(* it at least half slower, in each of the last two intervals that lost no *)
(* counters, than at some time of the baseline, provided fewer than half   *)
(* of a baseline lost theirs.  An eviction or a reset may distort what the *)
(* counters say of its interval, but alone it raises no alarm.             *)
(***************************************************************************)
NoFalseAlarm ==
    LET n == Len(observed) IN
    /\ phase = "analyze" /\ verdict = "regressed"
    /\ 2 * Cardinality({j \in 1..(n - 2) : ~Intact(observed[j])}) < MinBaseline
    => \A i \in {n - 1, n} : Intact(observed[i]) => \E j \in 1..(n - 2) : Slower(i, j)

(***************************************************************************)
(* A regression is caught although the workload had spikes: when the last  *)
(* intervals are sound and intact, most of the baseline ran at one mean    *)
(* and the last two intervals ran at least 50% and 5 ms slower, the        *)
(* regression is reported.                                                 *)
(***************************************************************************)
SpikesDoNotHide ==
    phase = "analyze" /\ verdict # "regressed" /\ complete =>
        LET n == Len(observed)
            sure == {i \in 1..n : \A j \in i..n : Sound(observed[j]) /\ Intact(observed[j])}
            baseline == {i \in sure : i <= n - 2}
        IN  \A usual \in {w.mean : w \in Workload} :
                ~ /\ Cardinality(baseline) >= MinBaseline
                  /\ usual >= MinMean
                  /\ 2 * Cardinality({i \in baseline : observed[i].done.means = {usual}})
                        > HistoryLimit - 2
                  /\ \A i \in {n - 1, n} : \A now \in observed[i].done.means :
                        /\ (now - usual) * 100 >= MinChangePercent * usual
                        /\ now - usual >= MinMean

(***************************************************************************)
(* "Resets, restarts, missing query IDs and low-sample gaps require a full *)
(* compatible window" (QueryRegressionFindingReady): when the standard     *)
(* cycle resolves the finding, clients really executed enough in each of   *)
(* that many last intervals, the query was listed at both ends, and no     *)
(* restart or reset happened in any of them whose boundary times could be  *)
(* read.  Evictions, and restarts behind unreadable times, do pass.        *)
(***************************************************************************)
StandardResolvesWhenReady ==
    [][phase = "analyze" /\ phase' = "idle" /\ open /\ ~open' =>
        LET n == Len(observed) IN
        /\ n >= MinBaseline + 2
        /\ \A i \in (n - MinBaseline - 1)..n : Sound(observed[i])]_vars

(***************************************************************************)
(* A finding does not outlive a steady workload: after as many intact      *)
(* intervals of one mean as a comparison reads, the standard cycle has     *)
(* resolved it, slow or not: by then the baseline has absorbed the change. *)
(***************************************************************************)
SteadyMeansResolved ==
    phase = "idle" /\ complete /\ open =>
        ~ /\ Len(observed) = HistoryLimit
          /\ \E w \in Workload : \A i \in DOMAIN observed :
                /\ Sound(observed[i]) /\ Intact(observed[i])
                /\ observed[i].done.means = {w.mean}

(***************************************************************************)
(* The same rule for every cycle: a regression finding is resolved only    *)
(* after a comparison of a full compatible window found it gone.           *)
(***************************************************************************)
RegressionResolvedWhenReady == [][open /\ ~open' => verdict = "normal"]_vars
=============================================================================
