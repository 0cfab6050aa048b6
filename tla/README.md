# PGSentinel: TLA+ models, model checking and proofs

PGSentinel monitors PostgreSQL servers. It collects statistics in cycles of
different speed, analyses them into *findings*, reconciles findings with the ones
that are open, groups them into *incidents*, notifies destinations about them,
and keeps a bounded history of metrics. It is one Go process over one SQLite
database. This directory holds TLA+ models of the parts of that process where
order, concurrency, failure and boundaries matter, the TLC configurations that
check them, and TLAPS proofs of most of what the configurations check.

All paths below are relative to the repository; `internal/` is
`src/internal/`.

## 1. Inventory

| Component | State it keeps | Operations | What is hard about it | What makes it correct |
|---|---|---|---|---|
| Collection cycles (`internal/collector`) | snapshots per kind, the core snapshot, status of each resource, status of the server | startup cycle, then fast, standard, slow and metadata cycles, each on its ticker; hourly maintenance | cycles of one server overlap; each analyses its own fresh sections together with stored ones of the others; any of a dozen steps may fail; crash in the middle | `complete` is never true after a loss; findings are never invented; they converge; a failure never resolves a finding |
| Finding lifecycle (`storage/findings.go`) | findings: active, acknowledged, resolved | `UpsertFindings` (one transaction), `SetFindingStatus` | operators triage while reconciliations run | triage is respected; a change of status is announced |
| Notification queue and routing (`storage/finding_notifications.go`, `notification_routes.go`, `notifications.go`) | events, deliveries, routes, destinations | queue, cooldown, prune, record an attempt, configuration | history is pruned while deliveries are in a batch; configuration changes under way | history bounded; subscribers' last word is true; a settled delivery stays settled |
| Dispatcher (`notifications/dispatcher.go`) | the mutex `dispatchMu`, a batch per call | `DispatchPending` | called at the end of every cycle of every server; requests are slow; crash between a request and its record | no duplicate requests except those a fault explains; every delivery settles |
| Incident correlation (`incidents/correlate.go`, `storage/incidents.go`) | incidents and their findings | `RebuildIncidents`, `Correlate` | the findings are read outside the transaction; an incident's ID moves with its earliest finding | grouping is right; active incidents are disjoint; they converge |
| Metric history (`storage/metrics.go`) | raw samples, two tiers of aggregates | `SaveMetrics`, `PruneMonitoringHistory`, `ListMetrics` | repeated roll-up into the same buckets; seams between tiers; integer thinning | counted once; no gaps; reads filled and bounded |
| Query regression (`analyzer/query_regression.go`, `baseline.go`, `storage/query_history.go`) | the last observations, open regression findings | collect, compare intervals with a baseline, judge readiness, preserve | counters are lost by resets, restarts and evictions; boundaries may be unreadable; spikes; few samples | no alarm clients would not confirm; spikes hide nothing; a standard cycle resolves only after a full window |
| Operator controls, thresholds, rule profiles (`api/operator_controls.go`, `api/rule_profiles.go`, `storage/operator_controls.go`) | windows, suppressions, overrides, profiles | validate and insert, delete, apply a profile, resolve what is in effect | caps, conflicts and references are checked before the statement; windows expire; lists are cut off | controls name what exists; lists tell what is in effect; the most specific scope wins; profiles are applied whole |
| Snapshots and collection status (`storage/snapshots.go`, `storage/freshness.go`, `collector/freshness.go`, `analyzer/score.go`) | latest snapshot, state and last success per resource, status of the server | save and record, derive staleness, lower confidence, cap the score | a snapshot and its record are two writes; cycles and tests overwrite each other's status | labels promise no more than was stored; status follows outage and recovery |
| Server registry (`storage/store.go`, `api/servers.go`) | servers, encrypted passwords | create, edit, test, delete (cascade) | deleted or tested while cycles run | nothing of a deleted server remains or comes back |
| Change events and audit log (`storage/change_events.go`, `storage/audit.go`, `collector/collect_metadata.go`) | two bounded tables | detect changed settings, record and delete markers, append, prune | times are ordered as text; the event is recorded before the settings are saved; pruning in the inserting transaction | the listing explains the settings; retention keeps the newest |
| Authentication and users | users, sessions | login, logout, roles | - | left aside, see section 8 |
| HTTP API, PostgreSQL collectors, providers, front end | - | I/O and presentation | - | not modelled |

Interaction: a ticker starts a cycle (`collectAll` goes through the servers one
by one, so two cycles of the *same* kind never overlap, but cycles of different
kinds do). A cycle collects from PostgreSQL, saves snapshots, reads the latest
snapshots of the other cycles, analyses, and - when `complete` - calls
`UpsertFindings`, which queues notifications in its own transaction, and then
`RebuildIncidents`. At the end it calls `DispatchPending` synchronously and
writes the status of the server. Operators act through the HTTP API on the same
store at any time. Nothing but the store survives a crash.

`PROJECT.json` lists the hazards of this code, each at its line, with the
properties that would catch it.

## 2. Modules

| Module | Models | Role |
|---|---|---|
| `NotificationOutbox` | what the queue promises for a delivery | abstract specification |
| `FindingStore` | findings, events, deliveries, routes, destinations, retention | component, no process of its own |
| `Dispatcher` | `FindingStore` together with `DispatchPending` and its callers, crashes | composition; refines `NotificationOutbox` |
| `Collector` | `collect`, its cycles, snapshots, maintenance, crashes | component |
| `Incidents` | `UpsertFindings` (its effect on status), `recentIncidentFindings`, `Correlate`, `RebuildIncidents` | component |
| `MetricHistory` | `SaveMetrics`, `PruneMonitoringHistory`, `ListMetrics` | component |
| `OperatorControls` | windows, suppressions, overrides and profiles: the requests, what is in effect | component |
| `QueryRegression` | `CollectQueries`, intervals and baseline, the regression part of a standard cycle | component |
| `ChangeHistory` | metadata cycles, deployment markers, deletion of servers, both logs and their retention | component |
| `CollectionStatus` | what cycles, tests and registration write about the collection itself, and what the API derives from it | component |
| `Dispatcher_proofs`, `Collector_proofs`, `Incidents_proofs`, `MetricHistory_proofs`, `OperatorControls_proofs`, `ChangeHistory_proofs`, `CollectionStatus_proofs`, `QueryRegression_proofs` | theorems about the module of that name | TLAPS |
| `MCDispatcher`, `MCCollector`, `MCIncidents`, `MCControls`, `MCQueryRegression`, `MCChangeHistory`, `MCCollectionStatus` | constants of the instances | TLC |

In every module a definition named "Mutant of ..." is a plausible bug. Nothing
uses it; replacing the original by it makes TLC report the property it is paired
with in `PROJECT.json`, which shows that the property depends on that code.

### FindingStore

A transaction of `UpsertFindings` is a sequence of steps: `BeginUpsert` fixes the
server and the report, `UpsertOne` and `ResolveOne` treat one finding each (and
queue its notification), `CommitUpsert` ends it. The steps are separate because
each one queues and prunes with what the ones before it left. SQLite runs in WAL
mode with one writer at a time; a transaction that read before another one
committed cannot go on to write, so transactions are serialisable, and one that
fails leaves no trace. A read during an open transaction sees what was there
before it, which is the same as reading before it began. Therefore every other
operation of the store waits for `Idle`, and a transaction that fails is one that
never began; what a failure costs its *caller* is an action of `Dispatcher`,
`Collector` or `Incidents`. Severities are numbers in the order of
`severityRank`. A route's filters by server, tag, category and rule are one set
of findings, `scope`. Time is relative: a row counts the ticks to its next
attempt and the ticks since its delivery, up to `AgeCap`. A control (maintenance
window or suppression) is only whether it covers a finding now.

### Dispatcher

`pc[c]` follows a caller of `DispatchPending`: waiting for the mutex, working
through its batch, holding the outcome of a request that is not yet recorded.
`sends` is a history variable that counts requests. `Restart` empties memory and
keeps the store. A request that fails may have reached its target. `LoadFails`
and `RecordFails` are errors of the store. `LookupFails` does not count as a
fault: it makes no request.

### Collector

One server. A section of the snapshot (queries, locks, tables, settings, ...) is
reduced to whether its evidence shows a problem and whether it is whole; a
problem of a section is one finding. The evidence inside the core snapshot that
every fast, standard and startup cycle collects afresh (connections, databases)
has no section of its own. `CollectedAt` is a rank: when a cycle takes a new
stamp, the stamps in use are renumbered, which keeps the state space finite
without a bound on time. `LatestSnapshot` returns the greatest stamp and, among
equal ones, the row inserted first (`snapshots_lookup_idx`). The finding
`pgss-unavailable` follows the capability and is a variable of its own; regressions
are in `QueryRegression`. The failures of `collect` are the actions of `Failure`: the
target or the connection (`TargetUnknown`, `CycleFails`), the core snapshot from which
`restoreCapabilities` starts (`CoreReadFails`), a section that cannot be collected,
collected whole or saved (`CollectFails`, `CollectPartly`, `SaveFails`), the query
history (`ObservationFails`), a record of freshness that is only logged and leaves
`complete` true (`RecordFreshFails`), the latest snapshot of another cycle's section
(`LoadFails`), the core snapshot, the transaction of the findings and the status of the
server (`SaveCoreFails`, `ReconcileFails`, `UpdateStatusFails`). The error of
`LatestSnapshot` that concerns the previous *settings* matters for change events only and is
`ReadFails` of `ChangeHistory`. `suffered` and `doubted` are history variables:
the sections that ever had a problem, and whether the capability was ever really
absent, or made to look absent by a failed query collection or by a fast cycle without a
core snapshot it could read. `ServerChanges` is the monitored server, which is external.

### Incidents

One server. A cycle reconciles, then reads the recent findings, then replaces the
incidents: three steps, with other cycles in between. An incident is known by its
earliest finding, of which its ID is a digest. `Groups` folds `Union` over the
pairs in the order of the two loops of `Correlate`. Acknowledged counts as open.
Findings may be reported with a `started_at` that lies up to `Lag` ticks before
the reconciliation, because another cycle may reconcile between an analysis and
its transaction; that is how an older finding turns up late.

### MetricHistory

One metric of one server with several series (database and labels). Of an
aggregate only the sample count is kept: sum, minimum and maximum are updated
from the same rows by the same statement. `ListMetrics` is modelled for a read
without a lower bound of time.

### OperatorControls

A request is accepted after its checks (`Accept...`: validation, references, cap,
conflicts) and carried out by a statement or transaction later (`Create...`,
`ApplyRuleProfile`), with other requests in between. Rules, servers and spellings
of tags are numbered in the order in which SQLite sorts them; 0 means "not given".
The category and the rule of a window are one set of rules. A tag may have
several spellings that differ in case; where the code lowers them, `Lower` is
applied, and where it does not, it is not. Limits of queries are the same number
as the cap (200), as in the code. `FindingStore` uses of all this only whether a
finding is quiet now (`ToggleControl`).

Times are stored as RFC 3339 text without trailing zeros of the fraction, so within a
second "...05.5Z" sorts before "...05Z". What is in effect is decided in SQL, by text
(`Running`, by `TextBefore`), and so is the check that a window ends after it starts;
what a list calls active is decided in Go, by time (`TemporalState`). An instant has its
`Second` and its `Position` among the texts of that second, both constants.

### QueryRegression

One query of one server. `counters` is its row of `pg_stat_statements`, `load` the
workload its clients run; a period of work (`Work`) is followed by a standard cycle
(`Observe` and its variants, then `Reconcile`). The counters can be lost in the ways
PostgreSQL loses them: evicted, reset, hidden below the 200 rows that are read, or
gone with the extension. An observation carries, besides what the code stores,
what the clients truly saw (`done`), what happened on the server meanwhile (`crossed`: a
restart or reset, whether or not its time can be read, and a loss of counters by an
eviction or a reset) and whether the query was listed at both ends with enough executed
between (`measured`). The properties are stated with these, so that they judge the
verdict by what happened and not by the counters: `Intact` says that no counters were
lost, `Sound` that the interval is measured and that no restart or reset happened
which its boundary times could tell. Times are in microseconds, and
means are whole; the workloads are chosen so that rounding never matters.
`OtherCycle` is any complete fast or slow cycle.

### ChangeHistory

A time is a second and the digits of its fraction. RFC 3339 text drops trailing
zeros, so within a second "...05.5Z" sorts after "...05.55Z" and "...05Z" after both;
`TextBefore` is that order, and everything the code asks SQLite for is decided by
it, while the checks in Go compare times. Identifiers are random, so which of two
rows of one time is dropped is a choice (`Newest`). A metadata cycle starts from
the latest core stamp and the stored settings, compares and records, then saves.
Core snapshots may be saved at any distance, milliseconds apart too, because the
tickers of fast and standard cycles coincide; the latest is the one whose text sorts last.
`ReadFails` is the error of `LatestSnapshot` that `collect` drops: the cycle goes on without
previous settings, and a change it should have recorded is lost.
A cycle on a core snapshot that an earlier cycle already used counts as a fault:
it means that fast and standard cycles failed in between. A request is one
operator's: its checks, its statement, its audit entry are separate steps.

### CollectionStatus

One server. Times are ages in ticks of the fastest schedule; ages from `Old` on are
one. A cycle records the core resources as fresh when it collected them, works
through its own sections (save, then record, two steps), saves the core snapshot
and reports the status. The resource `vacuum`, which has no snapshot of its own and
follows `tables`, is not told apart from it. `up` and `broken` are the monitored
server. `Derived`, `Shown`, `ShownConfidence` and `Health` are what
`ListCollectionResources`, `serverFreshness`, `attachFindingQuality` and `overview`
compute. Records of freshness may fail on every path (`RecordFails`, `CoreRecordFails`,
`CollectFailsUnrecorded`); the history variable `missed` holds the sections whose record
was lost, by such a failure or a crash. A deleted server never returns: a new one has a new identifier.

## 3. Runs

| Run | Question | Bounds and why they are enough |
|---|---|---|
| `lifecycle` | Do queueing, routing, triage and retention keep `HistoryBounded`, `SubscribersToldTruth`, `TriageRespected`? | two servers with a finding each, three severities around the default threshold, three shapes of route, four events with a history of two, so pruning happens. Without callers nothing is delivered, so the status `cooldown` is reached in no run; the theorems cover it |
| `batches` | Do two concurrent callers keep `SendsAccounted` and `BatchesAreOwed`, implement `NotificationOutbox`, and does every delivery settle? | one destination and two events, batches of one, so one delivery waits behind the retries of the other; a history of two, three attempts; one fault, one edit |
| `cycles` | Does `complete` mean what it says, is no problem invented, does a failure of its own make no cycle resolve a finding, and do findings become the truth? | startup, standard and slow cycles; queries and one section per database; one change, one fault of every kind, unreadable and expired snapshots included; fast cycles run in `resolves` and in the theorems |
| `resolves` | Does the code do what `docs/health-rules.md` says of failures? | startup, fast and slow cycles, one section, one fault; see section 6 |
| `incidents` | Is the grouping right, are active incidents disjoint, do they converge? | three findings related in a chain, so a middle one bridges; windows of one tick over three instants; two cycles; one change, one fault |
| `metrics` | Is every sample counted once, is a read without gaps and filled? | two series, four samples, buckets of two and four ticks, retentions 1, 3 and 6 over nine ticks, so that samples cross every edge |
| `controls` | Do the checks of concurrent requests hold up when the statements run, and do reads tell what is in effect? | a cap of two, two concurrent requests and three operations in all, so reads are cut off; two rules, one server with a tag in two spellings, a profile of both rules; an instant is half a second, so windows begin and end on whole and half seconds and texts and times disagree. It may stop: requests are bounded, and everything may have been deleted |
| `capped` | Do the tables of controls keep to the documented cap? | as `controls`; see section 6 |
| `intervals` | Is a regression reported exactly when it should be, and resolved only when it may be? | a baseline of three intervals instead of six and seven observations instead of ten, so that windows fill, empty and slide within ten periods; two shifts of the workload, so spikes and regressions happen; one upset of each kind, which only distorts intervals it touches |
| `history` | Does the history explain the settings, and does retention keep the newest? | one server; instants before, on and after a whole second with one and two digits; caps of two events and one entry, so every insertion prunes; two changes of settings of the server, one fault |
| `status` | Are labels and status right while cycles, tests and deletion interleave, and do they settle? | startup, fast and slow cycles with one section each, one of them per database; ages up to just beyond stale; one fault or outage, and any sections may be uncollectable from the start, so a failed collection whose record fails too happens |
| `regression` | Does the code do what its comment says? | as `intervals`; see section 6 |

Named bounds: `MaxEvents`, `MaxEdits`, `MaxFaults`, `MaxChanges`, `MaxTime`,
`MaxSamples`, `MaxOps`, `MaxPeriods`, `MaxShifts`, `MaxUpsets`, `AgeCap`, `Old`, `Lag`. They are guards of the model, not of the code.
`incidentFindingLimit` (500) is a constant of `Incidents`, but the run has as many
findings as the limit, so what happens beyond it is not exercised. The cap of
snapshots per kind (`MaxSnapshotsPerResource`, at least 10) never removes the
latest row and is left out.

The properties, in words:

* `SendsAccounted`: requests made for a delivery are the attempts on record plus
  the one under way plus the ones whose record a fault lost. Without `dispatchMu`
  it fails.
* `BatchesAreOwed`: a batch never holds a delivery that is settled, although it is
  loaded long before its last item is sent.
* `ImplementsOutbox`: refinement of `NotificationOutbox` under the mapping
  `OutboxEntry` (pending and retry rows are "owed", missing rows are "gone" once
  their event exists).
* `SubscribersToldTruth`: the newest delivery of a severe finding says "resolved"
  exactly when the finding is resolved, as long as nobody edits the configuration.
* `CompleteMeansSaved`: a cycle that reaches its analysis complete has collected all
  of every section it owns and stored it. It need not have been marked fresh:
  that record may fail with `complete` left true.
* `NoInventedProblems`: an open finding of a section is of a problem the server had.
  "pg_stat_statements is not enabled" is open only after the extension was really missing
  or its capability was `doubted`, which the code can do wrongly (section 6).
* `FindingsConverge`, `IncidentsConverge`, `EveryDeliverySettles`: liveness.
* `ActiveIncidentsDisjoint`: a finding is in at most one active incident even
  though groups change their ID and rebuilds work on outdated reads.
* `GroupingCorrect`: the union-find with its window computes a partition whose
  groups are connected, fit the window, and are kept apart only by the window.
* `CountedOnce`, `HistoryHasNoGaps`, `ReadFillsLimit`: the metric history. "No gaps" goes
  by the start of a bucket, so a sample is covered for up to one long bucket less than
  the longest retention.
* `ControlsCapped`: windows and suppressions keep to the cap; it does not hold
  (section 6). `OverrunBounded`, a theorem only, is what does: concurrent requests
  exceed the cap by less than their number.
* `ShownMatchesEffect`: up to the cap, a finding is quiet exactly when the lists
  show an active control that matches it, but for the second in which such a control
  begins or ends.
* `EffectiveWithinCap`: up to the cap, the threshold a cycle applies is the one the
  documented order of scopes determines.
* `ProfileNeverPartial`: a conflict that comes up after the check leaves no part of
  a profile behind.
* `OwnFailureNeverResolves`: a cycle resolves a finding of a section it collects
  itself only when it has collected all of that section in this very cycle.
  `FailureNeverResolves` says so of every section, and does not hold (section 6).
* `NoFalseAlarm`: when a regression is reported and fewer than half of a baseline lost
  counters, clients saw each of the last two intervals that lost none at least half slower
  than some time of the baseline. A lost interval alone raises no alarm.
* `SpikesDoNotHide`: two slow intervals after a baseline that mostly ran at one mean
  are reported, whatever the rest of the baseline did.
* `StandardResolvesWhenReady`: a standard cycle resolves a regression only after a
  full window in each of whose intervals the query was listed, enough was executed
  and no restart or reset happened that the boundary times could tell. Evictions, and
  restarts behind unreadable times, do pass (section 6).
* `SteadyMeansResolved`: preserved findings do not outlive a steady workload.
* `ListingExplainsSettings`: without failures, the configuration events in the order
  of the listing form a chain that ends in the stored settings.
* `DuplicatesNeedFailures`: no more configuration events of a server than changes of
  its settings and failures.
* `KeepsNewest`: what pruning removes is out of date or outnumbered by newer rows, up
  to the one second in which texts sort differently from times.
* `LabelsHonest`: a finding is trusted fully only when the stored evidence of its
  section is recent enough. The code trusts evidence without any record fully; the
  property says that this happens only when the first record of the section failed,
  was cut off by a crash or is still to come.
* `NothingOfDeleted`: no snapshot and no label of a deleted server comes back.
* `StatusRecovers`, `OutageNoticed`: liveness of status, labels and the cap of the
  score.

## 4. Fairness

* `Dispatcher`: `SF(Dispatch(c))` for every caller, because tickers keep calling
  `DispatchPending` while the process is up, `sync.Mutex` hands over to starved
  waiters, and a statement of a call gets its turn between short transactions;
  strong, because a call is disabled whenever a transaction is open. `WF(Tick)`:
  time passes. `WF(FinishUpsert)`: a transaction that began ends.
* `Collector`: `WF(Progress(c))`: tickers keep firing and calls have timeouts.
* `Incidents`: `WF(Reconcile(c) \/ Rebuild(c))`, for the same reason.
* `CollectionStatus`: `WF(Progress(c))` as in `Collector`, and `WF(TestReports)`: a
  connection test has a timeout and then writes its outcome. Nothing is assumed of
  `Tick`: labels must not depend on how long a step takes.
* Nothing is assumed of faults, operators and the monitored server, and all three
  are bounded, so "in the end" means after the last of them.

## 5. Proofs

The theorems hold for every value of the constants that the named assumptions
allow: any set of servers, findings, destinations, routes, callers, sections,
cycles, requests and instants, any cap, width, window and retention, and any of the
bounds. TLC evaluates the assumptions in every run. They say no more than the code
and its configuration do: finite sets, positive limits, the order of retentions. In
`OperatorControls` they fix the shape of a request and of a profile; in `FindingStore`
they make the destinations finite, because pruning counts their deliveries.

| Module | Theorem | States |
|---|---|---|
| `Dispatcher_proofs` | `Invariance`, `TypeCorrect` | `Spec => []IInv`, `Spec => []TypeOK` |
| | `NoUnaccountedSends` | `Spec => []SendsAccounted` |
| | `SettledRowsLeftAlone` | `Spec => [](BatchesAreOwed /\ RowShape)` |
| | `HistoryInvariance`, `HistoryIsBounded` | `Spec => []HInv`, `Spec => []HistoryBounded` |
| | `TruthIsTold` | `Spec => []SubscribersToldTruth` |
| | `TriageIsRespected` | `Spec => TriageRespected` |
| | `DispatcherImplementsOutbox` | `Spec => ImplementsOutbox`, the refinement |
| `Collector_proofs` | `Invariance`, `TypeCorrect` | `Spec => []IInv`, `Spec => []TypeOK` |
| | `CompleteIsSaved` | `Spec => []CompleteMeansSaved` |
| | `OwnFailuresResolveNothing` | `Spec => OwnFailureNeverResolves` |
| | `ProblemsAreReal` | `Spec => []NoInventedProblems` |
| `Incidents_proofs` | `Invariance`, `TypeCorrect` | `Spec => []IInv`, `Spec => []TypeOK` |
| | `ActiveIncidentsNeverShare` | `Spec => []ActiveIncidentsDisjoint` |
| | `GroupsAreRight` | `Spec => []GroupingCorrect` |
| `MetricHistory_proofs` | `Invariance`, `TypeCorrect` | `Spec => []IInv`, `Spec => []TypeOK` |
| | `SamplesCountOnce` | `Spec => []CountedOnce` |
| | `ReadsHaveNoGaps` | `Spec => []HistoryHasNoGaps` |
| | `ReadsFillTheirLimit` | `Spec => []ReadFillsLimit` |
| `OperatorControls_proofs` | `Invariance`, `TypeCorrect` | `Spec => []IInv`, `Spec => []TypeOK` |
| | `OverrunIsBounded` | `Spec => []OverrunBounded` |
| | `ListsTellTheTruth` | `Spec => []ShownMatchesEffect` |
| | `ThresholdsAsDocumented` | `Spec => []EffectiveWithinCap` |
| | `ProfilesAreWhole` | `Spec => ProfileNeverPartial` |
| `ChangeHistory_proofs` | `Invariance`, `TypeCorrect` | `Spec => []IInv`, `Spec => []TypeOK` |
| | `DuplicatesArePaid` | `Spec => []DuplicatesNeedFailures` |
| | `ListingLeadsToSettings` | `Spec => []ListingExplainsSettings` |
| | `RetentionKeepsNewest` | `Spec => KeepsNewest` |
| `CollectionStatus_proofs` | `Invariance`, `TypeCorrect` | `Spec => []IInv`, `Spec => []TypeOK` |
| | `TrustIsBacked` | `Spec => []LabelsHonest` |
| | `DeletionIsFinal` | `Spec => []NothingOfDeleted` |
| `QueryRegression_proofs` | `Invariance`, `TypeCorrect` | `Spec => []IInv`, `Spec => []TypeOK` |
| | `SpikesNeverHide` | `Spec => []SpikesDoNotHide` |
| | `SteadyIsResolved` | `Spec => []SteadyMeansResolved` |
| | `ResolvesOnFullWindow` | `Spec => StandardResolvesWhenReady` |
| | `AlarmsAreReal` | `Spec => []NoFalseAlarm` |

Every inductive invariant was checked with TLC on the instance of its run before it
was proved. The arguments:

* **Dispatcher.** `IInv` is `TypeOK /\ RowShape /\ LockDiscipline /\ BatchesAreOwed /\
  SendsAccounted`. None of the parts is inductive alone. `SendsAccounted` needs
  `LockDiscipline`: a request is accounted for by the caller that made it, and only
  because a batch implies the mutex is no other caller working on the same row.
  `LockDiscipline` also says that nothing is stored or requested for an event still
  to be created, without which a new row could start with requests already made.
  `BatchesAreOwed` needs it too: only the holder of the mutex changes the status of
  a row of its batch, everyone else can only delete it. `TypeOK` needs
  `BatchesAreOwed` and `RowShape` for the limit of attempts: an item of a batch has
  attempts left. `HInv` adds what a *row says about the past*: it refers to a
  destination, a server and a finding that exist, and as long as nobody edits, the
  newest event of a finding records its status now. It is separate because it needs
  `IInv` in both states. The refinement needs `IInv` and `RowShape` only: each
  step changes the entry of a delivery by an action of `NotificationOutbox` or not at
  all.
* **Collector.** `CompleteMeansSaved` speaks of the moment of the analysis; `Kept` says
  it of every section a cycle has already left behind. Another cycle could undo it, so
  `StartupAlone` is needed: two cycles that run at once own different sections.
  Stamps are renumbered; the lemmas on `RankOf` show that this keeps their order.
  `EvidenceHonest` follows a problem from the server through a view, a
  section's snapshot, the core snapshot and back, and `CapabilityHonest` does so for the
  capability: where it is taken to be absent, it has been doubted before.
* **Incidents.** `GroupingCorrect` is about a fold over pairs in the order of two
  nested loops. `FoldExists` shows that the fold is defined (the pairs have a last one,
  because the order is total on finite sets), and `VisitGrouped` that one visit keeps a
  partition into connected groups within the window, in which visited pairs are together
  or too far apart. The induction over the number of visited pairs is a minimal
  counterexample. `ActiveIncidentsDisjoint` then follows: after a rebuild only what it
  has built is active, and groups of one rebuild are disjoint.
* **MetricHistory.** `CountedOnce` is inductive with `TierRetained` (only retained
  buckets have counted anything) and with `raw` being a part of what was collected: a
  roll-up adds to a bucket exactly what it takes from the raw samples. `HistoryHasNoGaps` follows, with the divisibility of the
  widths for the seam between the tiers. `ReadFillsLimit` numbers the rows by rank and
  shows that `i * (n - 1) \div (limit - 1)` is injective and ends at `n - 1`.
* **OperatorControls.** A request that has passed the check of the cap is pending; the
  invariant bounds stored plus pending controls, which is what `OverrunBounded` needs.
  The other properties are about operators: up to the cap nothing is cut off, and then
  the order of SQL and the order of scopes single out the same override. Texts and times
  sort alike between seconds, which leaves only the second of an edge.
* **ChangeHistory.** Texts sort differently from times only within a second. The
  argument does not go by time: every text has a rank among all texts (`Rank`), the
  latest core snapshot is the one of the highest rank, and so the stamps of a
  server's cycles never fall in rank (`StampsOrdered`). As long as nothing failed, its
  configuration events have different ranks and form a chain up to the settings
  compared last (`Explained`). `Counted` pays each event with a change or a failure, the
  event a running cycle has yet to record included.
* **CollectionStatus.** A label and its snapshot are two writes, so the invariant follows
  a cycle between them: what it has saved is at least as recent as its stamp, and every
  record of a success has a snapshot that is no older. `LossExplained` says which
  evidence can be without a record. After a deletion nothing is
  left, and cycles and tests still running write to nothing.
* **QueryRegression.** The properties compare a verdict, which the code takes from the
  counters it stored, with what clients saw. So the invariant follows the truth through
  the observations: `Accounts` relates the last observation to the server (`Counted`:
  the counters have grown by what was executed since, or by less once some were lost;
  `Dated`: a boundary time that was read is older than the one after a crossed
  boundary), and `History` says that a sound and intact interval is exact, that
  observations the code takes for comparable have a sound interval (`Tied`), and that the
  first stored observation has one only once the history has been cut. With it the
  intervals the code computes are, where nothing was lost, the means clients saw. The
  rest is about `median`: a value that more than half of a sequence has is its median
  and makes its absolute deviation zero, so the spread falls back to its
  floor, a twentieth of the median: intervals half slower are anomalous
  (`SlowIsAnomalous`), equal ones are not (`SteadyQuiet`). And at least half of a sequence
  is at most its median: when fewer than half of a baseline lost counters, one of the
  intervals at or below the median is exact, so what is that far above the median is that
  far above something clients saw (`RegressedIsReal`). All of it holds for any number and
  kind of upsets.

Only model-checked:

* liveness (`EveryDeliverySettles`, `FindingsConverge`, `IncidentsConverge`,
  `StatusRecovers`, `OutageNoticed`), because fairness and `ENABLED` are beyond the prover.

## 6. Where code and documentation disagree

In three runs TLC finds a behaviour of the modelled code that contradicts the
repository's own words:

* `regression`: resolving a regression "require[s] a full compatible window"
  (`analyzer/query_regression.go`). Only standard cycles fill
  `regressionFindings`; every complete fast or slow cycle reports none and thereby
  resolves them.
* `resolves`: "a temporary collection failure must never resolve an existing finding"
  (`docs/health-rules.md`). `collect` drops the errors of `LatestSnapshot`. After a
  startup cycle that failed, a fast cycle finds no snapshot of the tables and takes
  them for empty; a slow cycle stores them and opens a finding; then the fast cycle,
  complete by its own sections, resolves it. With `Expires = TRUE` the same happens
  when a section cannot be collected for the whole retention and its last snapshot is
  pruned. What does hold is proved: `OwnFailureNeverResolves`.
* `capped`: "Each control type is capped at 200 records" (`docs/operator-controls.md`).
  `controlCapacity` counts in a statement of its own before the insertion, so two
  requests that both find the last place free store one record too many. What does hold
  is proved: `OverrunBounded`.

Others were met while modelling and are not runs. The first two follow from the
models as they stand, with a property or a constant changed as described:

* "Existing findings resolve only when a complete collection no longer meets the
  effective threshold" (`docs/operator-controls.md`). A slow cycle that read the
  locks before a fast cycle stored newer ones resolves the finding that the fast
  cycle has just opened, and announces it; the next fast cycle reopens it
  (`FindingsConverge` holds). In `Collector`, `[][\A k \in open \ open' :
  ~snap[k].ev.bad]_vars` fails without any fault.
* A server override comes first in a "deterministic" resolution
  (`docs/operator-controls.md`). `applyRuleProfile` inserts without looking at the cap
  at all, and `EffectiveThresholdOverrides` reads no more than 200 rows sorted by rule,
  so an override of a rule that sorts last is stored and ignored:
  `EffectiveAsDocumented` fails in the instance of `controls`.
* Whether a control is in effect is asked by text and shown by time. In the second in
  which a window begins or ends the two may disagree, for less than a second, and
  the check `ends_at > starts_at` on texts refuses some windows that lie within one
  second.
* "Estate health is capped at 75 for partial or stale evidence, 60 for an unavailable
  resource, and 50 for a failed or unreachable target" (`docs/health-rules.md`).
  `overview` looks at the status of the server only and has no cap of 60: a complete
  fast cycle, or a successful connection test, lifts the cap while a standard section
  is still unavailable. `StatusRecovers` and `OutageNoticed` therefore speak of
  conditions that last.
* `connections` and `database-statistics` are recorded as fresh before the core
  snapshot they are read from is saved; when that save fails, the label is newer
  than the evidence. `LabelsHonest` is stated for sections with a snapshot of their
  own.
* "Finding confidence is reduced one level in API responses when its source evidence is
  not fresh" (`docs/health-rules.md:33`), but without a row `qualityForFinding` has nothing to lower it by: a section whose first record failed is
  trusted fully until the next record, and so is every section while
  `ListCollectionResources` cannot be read.
* "counter decreases, evictions, missing query IDs, and low-sample gaps also restart the
  baseline" (`docs/health-rules.md:15`). An eviction whose counters grow past the old
  ones before the next observation does not, and two observations whose
  boundaries are both unreadable count as compatible, although the comment in
  `collector/query.go` says that "losing it disables comparisons across an uncertain
  boundary". The means of such an
  interval are not what clients saw. Stated without exception, that no interval of a
  judged window crossed a restart, a reset or an eviction, the property fails; what
  holds in its place is `StandardResolvesWhenReady`, and `NoFalseAlarm` shows that
  a lost interval alone invents no regression.
* A query that stays slow becomes its own baseline and its finding is resolved
  (`SteadyMeansResolved` says so on purpose).
* "Unchanged collections do not create duplicates" (`docs/change-history.md`): the
  same configuration event is recorded again when saving the settings failed, or
  when two metadata cycles work on one core snapshot.
* A deployment marker of almost a year ago, or of a server with 10000 newer events,
  is pruned in the transaction that records it, and answered with 201.
* Expected intervals above a day, which the configuration allows, are refused by a
  check of `collection_resource_status`, so that every record of freshness fails.
* Expired windows and suppressions, and overrides of deleted servers, count against
  the cap until somebody deletes them.
* `collect` calls `DispatchPending` synchronously, which holds one mutex through
  every request of its batch, although `docs/notifications.md` says that delivery
  "never blocks PostgreSQL collection or analysis".
* A failed query collection stores `false` as the capability, and fast and slow cycles
  restore it; a fast cycle that finds no core snapshot, or cannot read it, starts
  without it. "pg_stat_statements is not enabled" may then be reported although no
  collection found so. `NoInventedProblems` shows that there is no other way.
* `applyRuleProfile` stores a tag as it was typed, `createThresholdOverride` in lower
  case, so a conflict between the two is not seen and both overrides are stored.
* Cycles that overlap may save core snapshots in the opposite order of their
  stamps, so a capability a standard cycle found stays hidden behind a fast cycle's
  older copy.
* Slow cycles that work on the same core snapshot store under the same stamp,
  where the index makes `LatestSnapshot` return the older row; `FindingsConverge` shows
  that later core snapshots make it good. It also holds with a metadata cycle instead
  of the slow one (`Cycle = {"all", "standard", "metadata"}`, `Section = {1, 4}`, no
  section per database, snapshots neither expired nor unreadable).

## 7. Plan

Order, most important behaviour first; all of it is built.

1. `NotificationOutbox`, `FindingStore`, `Dispatcher`: findings to deliveries.
2. `Dispatcher_proofs`: the inductive invariant.
3. `Collector`: cycles, evidence, reconciliation.
4. `Incidents`.
5. `MetricHistory`.
6. `OperatorControls`: windows, suppressions, threshold overrides and rule
   profiles; the effective threshold by scope (server, tag, global) and expiry; the
   cap under concurrent requests.
7. `CollectionStatus`: status and freshness, deletion of a server during a cycle.
8. `QueryRegression`: intervals, resets and readiness.
9. `ChangeHistory`: change events and the audit log.

10. The `_proofs` modules: `Dispatcher`, `CollectionStatus`, `Collector`,
    `OperatorControls`, `ChangeHistory`, `MetricHistory`, `Incidents`, `QueryRegression`.

## 8. Not modelled

* Analyzer rules: comparisons of floating-point evidence with thresholds;
  `Collector` takes their outcome as given.
* SQL against PostgreSQL (but for what `CollectQueries` returns), HTTP providers and
  outbound policy: I/O.
* Request decoding, plain listings and the front end: presentation.
* Editing a server: changes names, addresses, tags and credentials, none of which
  the models tell apart.
* Migrations: run once, in order, before anything else.
* Authentication and users: access control, separate from the monitoring core.
* Texts of findings, incidents and messages.
* Times are ranks, ticks or ages, except in `ChangeHistory` and in the controls of
  `OperatorControls`, where the order of texts is modelled. It applies to other tables
  with times as text too (the cooldown of deliveries, snapshots): there a
  comparison within one second may go the other way, which the models leave out.
