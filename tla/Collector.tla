------------------------------ MODULE Collector ------------------------------
(***************************************************************************)
(* The collection cycles of one monitored server.  After a startup cycle   *)
(* that collects everything, four cycles run concurrently, each on its own *)
(* schedule.  A cycle collects the evidence sections it owns from          *)
(* PostgreSQL and stores them, takes every other section from the latest   *)
(* stored snapshot, analyses the mixture and, when nothing of its own went *)
(* wrong, reconciles the open findings with the outcome.  The regressions  *)
(* a standard cycle adds to them are the subject of QueryRegression.       *)
(*                                                                         *)
(* A section is abstracted to whether its evidence shows a problem, and a  *)
(* problem of a section is one finding.  Sections are numbered in the      *)
(* order in which collect works through them.  Of collected_at only the    *)
(* order matters, so stamps are ranks: when a cycle takes a new stamp, the *)
(* ones in use are renumbered.                                             *)
(***************************************************************************)
EXTENDS Integers, FiniteSets

CONSTANTS
    Cycle,          \* the cycles that run, among CycleKinds
    Section,        \* evidence sections, numbered in the order of collect
    Owner,          \* [Section -> CycleKinds]: the cycle that collects it
    PerDatabase,    \* sections collected per database: tables and indexes
    QuerySection,   \* the number of the section of pg_stat_statements
    ReadsFail,      \* whether reads of stored snapshots may fail
    Expires,        \* whether snapshots may outlive their retention
    MaxChanges,     \* bound: changes of the monitored server
    MaxFaults       \* bound: failures, crashes and expiries

CycleKinds == {"all", "fast", "standard", "slow", "metadata"}
Evidence == [bad : BOOLEAN, whole : BOOLEAN]
Nothing == [bad |-> FALSE, whole |-> FALSE]
NoSnapshot == [at |-> 0, ev |-> Nothing]

ASSUME CollectorAssumption ==
    /\ Cycle \subseteq CycleKinds
    /\ Section \subseteq Nat
    /\ IsFiniteSet(Section)
    /\ Owner \in [Section -> CycleKinds \ {"all"}]
    /\ PerDatabase \subseteq Section
    /\ QuerySection \in Nat \ PerDatabase
    /\ QuerySection \in Section => Owner[QuerySection] = "standard"
    /\ {ReadsFail, Expires} \subseteq BOOLEAN
    /\ MaxChanges \in Nat
    /\ MaxFaults \in Nat

VARIABLES
    pg,             \* [Section -> BOOLEAN]: the server has this problem
    pgss,           \* pg_stat_statements is installed on the server
    changes,        \* changes of the server so far
    snap,           \* [Section -> [at, ev]]: what LatestSnapshot returns
    core,           \* latest core snapshot: stamp, capability, embedded sections
    resource,       \* [Section -> state]: the table collection_resource_status
    open,           \* sections whose finding is open
    pgssOpen,       \* the finding pgss-unavailable is open
    status,         \* the status of the server
    boot,           \* the startup cycle: "pending", "running", "done"
    pc,             \* [Cycle -> "idle", "sections", "analyze", "report"]
    at,             \* [Cycle -> Nat]: CollectedAt of the cycle's snapshot
    left,           \* [Cycle -> SUBSET Section]: sections yet to work through
    view,           \* [Cycle -> [Section -> Evidence]]: its snapshot
    capable,        \* [Cycle -> BOOLEAN]: its pg_stat_statements capability
    complete,       \* [Cycle -> BOOLEAN]
    suffered,       \* problems the server has had (history)
    doubted,        \* pg_stat_statements was missing, or could not be told (history)
    faults          \* failures so far

serverVars == <<pg, pgss, changes>>
findingVars == <<open, pgssOpen>>
localVars == <<pc, at, left, view, capable, complete>>
pastVars == <<suffered, doubted>>
vars == <<serverVars, snap, core, resource, findingVars, status, boot, localVars, pastVars,
          faults>>

Owns(c, k) == c = "all" \/ Owner[k] = c
CoreFresh(c) == c \in {"all", "fast", "standard"}
IsNext(c, k) == pc[c] = "sections" /\ k \in left[c] /\ \A j \in left[c] : k <= j

(* The rows pg_stat_statements would give are gone with the extension. *)
Problem(k) == pg[k] /\ (k = QuerySection => pgss)

-----------------------------------------------------------------------------
(* Stamps and snapshots *)

Stamps == ({core.at} \cup {snap[k].at : k \in Section} \cup {at[c] : c \in Cycle}) \ {0}
RankOf(x) == Cardinality({y \in Stamps : y <= x})
NewStamp == Cardinality(Stamps) + 1

(***************************************************************************)
(* SaveSnapshot inserts a row; LatestSnapshot takes the greatest           *)
(* collected_at and, through the index snapshots_lookup_idx, the row that  *)
(* was inserted first when there are several.                              *)
(***************************************************************************)
Stored(k, x, ev) == IF x > snap[k].at THEN [snap EXCEPT ![k] = [at |-> x, ev |-> ev]] ELSE snap

(* Mutant of Cached: the newest snapshot of whatever kind. *)
CachedOfAnyKind(c, k) ==
    IF \E j \in Section : snap[j].at # 0
    THEN snap[CHOOSE j \in Section : \A i \in Section : snap[i].at <= snap[j].at].ev
    ELSE view[c][k]

(* Mutant of Cached: other cycles' sections are taken from the core snapshot. *)
CachedInCore(c, k) == view[c][k]

(* LatestSnapshot leaves its destination alone when there is no row. *)
Cached(c, k) == IF snap[k].at = 0 THEN view[c][k] ELSE snap[k].ev

Fault == faults < MaxFaults /\ faults' = faults + 1

-----------------------------------------------------------------------------
(* The start of a cycle *)

MayStart(c) == pc[c] = "idle" /\ boot = IF c = "all" THEN "pending" ELSE "done"
Booted(c, phase) == boot' = IF c = "all" THEN phase ELSE boot

(* Fresh core evidence under a new stamp; known is the restored capability. *)
StartCore(c, known) ==
    /\ MayStart(c)
    /\ CoreFresh(c)
    /\ Booted(c, "running")
    /\ pc' = [pc EXCEPT ![c] = "sections"]
    /\ at' = [x \in Cycle |-> IF x = c THEN NewStamp ELSE RankOf(at[x])]
    /\ snap' = [k \in Section |-> [at |-> RankOf(snap[k].at), ev |-> snap[k].ev]]
    /\ core' = [at |-> RankOf(core.at), capable |-> core.capable, view |-> core.view]
    /\ left' = [left EXCEPT ![c] = Section]
    /\ view' = [view EXCEPT ![c] = [k \in Section |-> Nothing]]
    /\ capable' = [capable EXCEPT ![c] = known]
    /\ complete' = [complete EXCEPT ![c] = TRUE]
    /\ UNCHANGED <<serverVars, resource, findingVars, status, suffered>>

(* Without a core snapshot a fast cycle takes the extension to be missing. *)
CollectCore(c) ==
    /\ StartCore(c, c = "fast" /\ core.at # 0 /\ core.capable)
    /\ doubted' = (doubted \/ (c = "fast" /\ core.at = 0))
    /\ UNCHANGED faults

(* Slow and metadata cycles work on the last core snapshot, under its stamp. *)
LoadCore(c) ==
    /\ MayStart(c)
    /\ ~CoreFresh(c)
    /\ core.at # 0
    /\ pc' = [pc EXCEPT ![c] = "sections"]
    /\ at' = [at EXCEPT ![c] = core.at]
    /\ left' = [left EXCEPT ![c] = Section]
    /\ view' = [view EXCEPT ![c] = core.view]
    /\ capable' = [capable EXCEPT ![c] = core.capable]
    /\ complete' = [complete EXCEPT ![c] = TRUE]
    /\ UNCHANGED <<serverVars, snap, core, resource, findingVars, status, boot, pastVars, faults>>

(***************************************************************************)
(* The core snapshot cannot be read.  A fast cycle ignores the error of    *)
(* restoreCapabilities, like a missing snapshot; a slow or metadata cycle  *)
(* waits for its next turn.                                                *)
(***************************************************************************)
CoreReadFails(c) ==
    /\ ReadsFail
    /\ c \notin {"all", "standard"}
    /\ Fault
    /\ IF c = "fast"
       THEN StartCore(c, FALSE) /\ doubted' = TRUE
       ELSE MayStart(c) /\ UNCHANGED <<serverVars, snap, core, resource, findingVars, status,
                                       boot, localVars, pastVars>>

(* The target cannot be read from the store: the cycle leaves no trace. *)
TargetUnknown(c) ==
    /\ MayStart(c)
    /\ Fault
    /\ Booted(c, "done")
    /\ UNCHANGED <<serverVars, snap, core, resource, findingVars, status, localVars, pastVars>>

(***************************************************************************)
(* No connection, or no core evidence: nothing of this cycle is available. *)
(* The records of it and the status are written one by one, and an error   *)
(* of the store is only logged or ignored.                                 *)
(***************************************************************************)
CycleFails(c) ==
    /\ MayStart(c)
    /\ Fault
    /\ Booted(c, "done")
    /\ status' \in {status, "unreachable"} \cup IF CoreFresh(c) THEN {"error"} ELSE {}
    /\ \E told \in SUBSET {k \in Section : Owns(c, k)} :
        resource' = [k \in Section |-> IF k \in told THEN "unavailable" ELSE resource[k]]
    /\ UNCHANGED <<serverVars, snap, core, findingVars, localVars, pastVars>>

-----------------------------------------------------------------------------
(* One section of a cycle *)

Advance(c, k) == left' = [left EXCEPT ![c] = @ \ {k}]
SeeSection(c, k, ev) == view' = [view EXCEPT ![c][k] = ev]

(* Mutant of Incomplete: the flag of the cycle is shadowed. *)
StillComplete(c) == UNCHANGED complete

Incomplete(c) == complete' = [complete EXCEPT ![c] = FALSE]
SetResource(k, state) == resource' = [resource EXCEPT ![k] = state]

(* A record of a section that may fail: the error is only logged. *)
MayRecord(k, state) == UNCHANGED resource \/ SetResource(k, state)

(* The query section also tells whether pg_stat_statements is available. *)
SeeCapability(c, k) == capable' = IF k = QuerySection THEN [capable EXCEPT ![c] = pgss] ELSE capable

Collected(c, k) ==
    /\ IsNext(c, k)
    /\ Owns(c, k)
    /\ Advance(c, k)
    /\ SeeSection(c, k, [bad |-> Problem(k), whole |-> TRUE])
    /\ SeeCapability(c, k)
    /\ UNCHANGED pastVars

CollectSection(c, k) ==
    /\ Collected(c, k)
    /\ snap' = Stored(k, at[c], [bad |-> Problem(k), whole |-> TRUE])
    /\ SetResource(k, "fresh")
    /\ UNCHANGED <<serverVars, core, findingVars, status, boot, pc, at, complete, faults>>

(* Saved, but not marked fresh: recordFresh logs the error, and saveSnapshot is true. *)
RecordFreshFails(c, k) ==
    /\ Collected(c, k)
    /\ Fault
    /\ snap' = Stored(k, at[c], [bad |-> Problem(k), whole |-> TRUE])
    /\ UNCHANGED <<serverVars, core, resource, findingVars, status, boot, pc, at, complete>>

(* Mutant of SaveFails: the cycle still counts as complete. *)
SaveFailsUnnoticed(c, k) ==
    /\ Collected(c, k)
    /\ Fault
    /\ MayRecord(k, "unavailable")
    /\ UNCHANGED <<serverVars, snap, core, findingVars, status, boot, pc, at, complete>>

(* Collected, but not saved. *)
SaveFails(c, k) ==
    /\ Collected(c, k)
    /\ Fault
    /\ Incomplete(c)
    /\ MayRecord(k, "unavailable")
    /\ UNCHANGED <<serverVars, snap, core, findingVars, status, boot, pc, at>>

(* The queries are saved, but the comparison of their intervals failed. *)
ObservationFails(c, k) ==
    /\ k = QuerySection
    /\ Collected(c, k)
    /\ Fault
    /\ Incomplete(c)
    /\ snap' = Stored(k, at[c], [bad |-> Problem(k), whole |-> TRUE])
    /\ MayRecord(k, "fresh")
    /\ UNCHANGED <<serverVars, core, findingVars, status, boot, pc, at>>

(***************************************************************************)
(* The query capability is set before the error is looked at.  An error of *)
(* restoreSnapshot leaves the evidence of the section as it was.           *)
(***************************************************************************)
CollectFails(c, k) ==
    /\ IsNext(c, k)
    /\ Owns(c, k)
    /\ k \notin PerDatabase
    /\ Fault
    /\ Advance(c, k)
    /\ \/ SeeSection(c, k, Cached(c, k))
       \/ ReadsFail /\ UNCHANGED view
    /\ IF k = QuerySection
       THEN \E known \in {FALSE, pgss} : /\ capable' = [capable EXCEPT ![c] = known]
                                        /\ doubted' = (doubted \/ ~known)
       ELSE UNCHANGED <<capable, doubted>>
    /\ Incomplete(c)
    /\ MayRecord(k, "unavailable")
    /\ UNCHANGED <<serverVars, snap, core, findingVars, status, boot, pc, at, suffered>>

(* What the databases that could be collected show of a section. *)
Parts(k) == {[bad |-> bad, whole |-> FALSE] : bad \in {FALSE, Problem(k)}}

(***************************************************************************)
(* Some databases could not be collected.  Cached evidence is preferred to *)
(* the part that was; the part is stored when there is no cached evidence  *)
(* or it cannot be read (restoreSnapshot is false in both cases).          *)
(***************************************************************************)
CollectPartly(c, k) ==
    /\ IsNext(c, k)
    /\ Owns(c, k)
    /\ k \in PerDatabase
    /\ Fault
    /\ Advance(c, k)
    /\ \E part \in Parts(k) :
        \/ /\ snap[k].at # 0
           /\ SeeSection(c, k, snap[k].ev)
           /\ UNCHANGED snap
        \/ /\ snap[k].at = 0 \/ ReadsFail
           /\ SeeSection(c, k, part)
           /\ snap' \in {snap, Stored(k, at[c], part)}
    /\ Incomplete(c)
    /\ MayRecord(k, "partial")
    /\ UNCHANGED <<serverVars, core, findingVars, status, boot, pc, at, capable, pastVars>>

(* A section of another cycle.  An error is ignored, like a missing row. *)
LoadSection(c, k) ==
    /\ IsNext(c, k)
    /\ ~Owns(c, k)
    /\ Advance(c, k)
    /\ SeeSection(c, k, Cached(c, k))
    /\ UNCHANGED <<serverVars, snap, core, resource, findingVars, status, boot, pc, at,
                   capable, complete, pastVars, faults>>

LoadFails(c, k) ==
    /\ ReadsFail
    /\ IsNext(c, k)
    /\ ~Owns(c, k)
    /\ Fault
    /\ Advance(c, k)
    /\ UNCHANGED <<serverVars, snap, core, resource, findingVars, status, boot, pc, at, view,
                   capable, complete, pastVars>>

-----------------------------------------------------------------------------
(* The end of a cycle *)

CoreOf(c) == [at |-> at[c], capable |-> capable[c], view |-> view[c]]

(* The core snapshot is saved whether or not the cycle is complete. *)
SaveCore(c) ==
    /\ pc[c] = "sections"
    /\ left[c] = {}
    /\ CoreFresh(c)
    /\ pc' = [pc EXCEPT ![c] = "analyze"]
    /\ core' = IF at[c] > core.at THEN CoreOf(c) ELSE core
    /\ UNCHANGED <<serverVars, snap, resource, findingVars, status, boot, at, left, view,
                   capable, complete, pastVars, faults>>

(* Saving the core snapshot or its metrics fails. *)
SaveCoreFails(c) ==
    /\ pc[c] = "sections"
    /\ left[c] = {}
    /\ CoreFresh(c)
    /\ Fault
    /\ pc' = [pc EXCEPT ![c] = "analyze"]
    /\ core' \in {core, IF at[c] > core.at THEN CoreOf(c) ELSE core}
    /\ Incomplete(c)
    /\ UNCHANGED <<serverVars, snap, resource, findingVars, status, boot, at, left, view,
                   capable, pastVars>>

Return(c) ==
    /\ pc' = [pc EXCEPT ![c] = "idle"]
    /\ at' = [at EXCEPT ![c] = 0]
    /\ view' = [view EXCEPT ![c] = [k \in Section |-> Nothing]]
    /\ capable' = [capable EXCEPT ![c] = FALSE]
    /\ complete' = [complete EXCEPT ![c] = FALSE]
    /\ UNCHANGED left

(* Nothing of the core to save: a slow cycle analyses, a metadata cycle is over. *)
SkipCore(c) ==
    /\ pc[c] = "sections"
    /\ left[c] = {}
    /\ ~CoreFresh(c)
    /\ IF c = "metadata"
       THEN Return(c)
       ELSE pc' = [pc EXCEPT ![c] = "analyze"]
            /\ UNCHANGED <<at, left, view, capable, complete>>
    /\ UNCHANGED <<serverVars, snap, core, resource, findingVars, status, boot, pastVars, faults>>

(* The findings of the analysis replace the open ones, in one transaction. *)
Reconcile(c) ==
    /\ pc[c] = "analyze"
    /\ pc' = [pc EXCEPT ![c] = "report"]
    /\ IF complete[c]
       THEN /\ open' = {k \in Section : view[c][k].bad}
            /\ pgssOpen' = ~capable[c]
       ELSE UNCHANGED findingVars
    /\ UNCHANGED <<serverVars, snap, core, resource, status, boot, at, left, view, capable,
                   complete, pastVars, faults>>

(* Thresholds cannot be read (incomplete), or the transaction fails (logged). *)
ReconcileFails(c) ==
    /\ pc[c] = "analyze"
    /\ Fault
    /\ pc' = [pc EXCEPT ![c] = "report"]
    /\ complete' \in {complete, [complete EXCEPT ![c] = FALSE]}
    /\ UNCHANGED <<serverVars, snap, core, resource, findingVars, status, boot, at, left, view,
                   capable, pastVars>>

(* Mutant of UpdateServerStatus: a status that is not one. *)
UpdateServerStatusPartial(c) ==
    /\ pc[c] = "report"
    /\ status' = IF complete[c] THEN "healthy" ELSE "partial"
    /\ Booted(c, "done")
    /\ Return(c)
    /\ UNCHANGED <<serverVars, snap, core, resource, findingVars, pastVars, faults>>

(* After the call of DispatchPending (module Dispatcher). *)
UpdateServerStatus(c) ==
    /\ pc[c] = "report"
    /\ status' = IF complete[c] THEN "healthy" ELSE "degraded"
    /\ Booted(c, "done")
    /\ Return(c)
    /\ UNCHANGED <<serverVars, snap, core, resource, findingVars, pastVars, faults>>

(* The error of the store is ignored: the status stays as it was. *)
UpdateStatusFails(c) ==
    /\ pc[c] = "report"
    /\ Fault
    /\ Booted(c, "done")
    /\ Return(c)
    /\ UNCHANGED <<serverVars, snap, core, resource, findingVars, status, pastVars>>

-----------------------------------------------------------------------------
(* The monitored server, retention and crashes *)

ServerChanges ==
    /\ changes < MaxChanges
    /\ changes' = changes + 1
    /\ \/ \E k \in Section : pg' = [pg EXCEPT ![k] = ~@] /\ UNCHANGED pgss
       \/ QuerySection \in Section /\ pgss' = ~pgss /\ UNCHANGED pg
    /\ suffered' = suffered \cup {k \in Section : pg'[k]}
    /\ doubted' = (doubted \/ ~pgss')
    /\ UNCHANGED <<snap, core, resource, findingVars, status, boot, localVars, faults>>

(* Snapshots older than their retention go, the last of a kind too. *)
PruneMonitoringHistory(cutoff) ==
    /\ Expires
    /\ Fault
    /\ snap' = [k \in Section |-> IF snap[k].at < cutoff THEN NoSnapshot ELSE snap[k]]
    /\ core' = IF core.at < cutoff THEN [at |-> 0, capable |-> FALSE, view |-> [k \in Section |-> Nothing]]
               ELSE core
    /\ UNCHANGED <<serverVars, resource, findingVars, status, boot, localVars, pastVars>>

Restart ==
    /\ Fault
    /\ boot' = "pending"
    /\ pc' = [c \in Cycle |-> "idle"]
    /\ at' = [c \in Cycle |-> 0]
    /\ left' = [c \in Cycle |-> {}]
    /\ view' = [c \in Cycle |-> [k \in Section |-> Nothing]]
    /\ capable' = [c \in Cycle |-> FALSE]
    /\ complete' = [c \in Cycle |-> FALSE]
    /\ UNCHANGED <<serverVars, snap, core, resource, findingVars, status, pastVars>>

-----------------------------------------------------------------------------
Init ==
    /\ pg \in [Section -> BOOLEAN]
    /\ pgss \in IF QuerySection \in Section THEN BOOLEAN ELSE {TRUE}
    /\ changes = 0
    /\ snap = [k \in Section |-> NoSnapshot]
    /\ core = [at |-> 0, capable |-> FALSE, view |-> [k \in Section |-> Nothing]]
    /\ resource = [k \in Section |-> "none"]
    /\ open = {}
    /\ pgssOpen = FALSE
    /\ status = "unknown"
    /\ boot = "pending"
    /\ pc = [c \in Cycle |-> "idle"]
    /\ at = [c \in Cycle |-> 0]
    /\ left = [c \in Cycle |-> {}]
    /\ view = [c \in Cycle |-> [k \in Section |-> Nothing]]
    /\ capable = [c \in Cycle |-> FALSE]
    /\ complete = [c \in Cycle |-> FALSE]
    /\ suffered = {k \in Section : pg[k]}
    /\ doubted = ~pgss
    /\ faults = 0

(* The steps of a cycle in which nothing fails. *)
Progress(c) ==
    \/ CollectCore(c)
    \/ LoadCore(c)
    \/ \E k \in Section : CollectSection(c, k) \/ LoadSection(c, k)
    \/ SaveCore(c)
    \/ SkipCore(c)
    \/ Reconcile(c)
    \/ UpdateServerStatus(c)

Failure(c) ==
    \/ TargetUnknown(c)
    \/ CycleFails(c)
    \/ CoreReadFails(c)
    \/ \E k \in Section : \/ RecordFreshFails(c, k)
                          \/ SaveFails(c, k)
                          \/ ObservationFails(c, k)
                          \/ CollectFails(c, k)
                          \/ CollectPartly(c, k)
                          \/ LoadFails(c, k)
    \/ SaveCoreFails(c)
    \/ ReconcileFails(c)
    \/ UpdateStatusFails(c)

Next ==
    \/ \E c \in Cycle : Progress(c) \/ Failure(c)
    \/ ServerChanges
    \/ \E cutoff \in Stamps : PruneMonitoringHistory(cutoff)
    \/ Restart

Spec == Init /\ [][Next]_vars

(* The tickers keep starting cycles, and every call of a cycle returns. *)
FairSpec == Spec /\ \A c \in Cycle : WF_vars(Progress(c))

-----------------------------------------------------------------------------
(* Types of every variable. *)
TypeOK ==
    /\ pg \in [Section -> BOOLEAN]
    /\ pgss \in BOOLEAN
    /\ changes \in 0..MaxChanges
    /\ snap \in [Section -> [at : Nat, ev : Evidence]]
    /\ core \in [at : Nat, capable : BOOLEAN, view : [Section -> Evidence]]
    /\ resource \in [Section -> {"none", "fresh", "partial", "unavailable"}]
    /\ open \subseteq Section
    /\ pgssOpen \in BOOLEAN
    /\ status \in {"unknown", "unreachable", "error", "degraded", "healthy"}
    /\ boot \in {"pending", "running", "done"}
    /\ pc \in [Cycle -> {"idle", "sections", "analyze", "report"}]
    /\ at \in [Cycle -> Nat]
    /\ left \in [Cycle -> SUBSET Section]
    /\ view \in [Cycle -> [Section -> Evidence]]
    /\ capable \in [Cycle -> BOOLEAN]
    /\ complete \in [Cycle -> BOOLEAN]
    /\ suffered \subseteq Section
    /\ doubted \in BOOLEAN
    /\ faults \in 0..MaxFaults

(***************************************************************************)
(* A cycle that still counts as complete has collected every section of    *)
(* its own that it went through and has stored it under its stamp,         *)
(* whatever the other cycles did meanwhile: the flag is cleared on every   *)
(* path of collect that lost evidence.  Only retention takes such a        *)
(* snapshot away again.  The record of the section as fresh is no part of  *)
(* it: when that fails the cycle stays complete (module CollectionStatus). *)
(***************************************************************************)
CompleteMeansSaved ==
    \A c \in Cycle : complete[c] /\ pc[c] = "analyze" =>
        \A k \in Section : Owns(c, k) =>
            /\ view[c][k].whole
            /\ snap[k].at >= at[c] \/ (Expires /\ snap[k].at = 0)

(***************************************************************************)
(* Restored, cached and partial evidence never invents a problem: an open  *)
(* finding of a section is of a problem the server has had.  The finding   *)
(* that pg_stat_statements is unavailable can be wrong in two ways, and    *)
(* in no other: a failed collection of the queries stores the capability   *)
(* as absent, and a fast cycle without a core snapshot to restore it from  *)
(* starts without it.  Otherwise it is only open after the extension was   *)
(* really missing.                                                         *)
(***************************************************************************)
NoInventedProblems ==
    /\ open \subseteq suffered
    /\ QuerySection \in Section /\ pgssOpen => doubted

(***************************************************************************)
(* A failed, partial or unsaved collection resolves no finding of the      *)
(* section that failed: a cycle that resolves a finding of a section it    *)
(* collects itself has collected all of it, in this very cycle.            *)
(***************************************************************************)
OwnFailureNeverResolves ==
    [][\A c \in Cycle : pc[c] = "analyze" /\ pc'[c] = "report" =>
        \A k \in open \ open' : Owns(c, k) => view[c][k].whole]_vars

(***************************************************************************)
(* "A temporary collection failure must never resolve an existing finding" *)
(* (docs/health-rules.md): the cycle that resolves a finding has whole     *)
(* evidence of its section before it, collected now or earlier, and not a  *)
(* part of it or nothing at all.  The code does not keep this.  A cycle    *)
(* that is complete by its own sections may have found no snapshot of      *)
(* another's, since collect drops the error of LatestSnapshot: after a     *)
(* startup cycle that failed, or when the last snapshot expired.           *)
(***************************************************************************)
FailureNeverResolves ==
    [][\A c \in Cycle : pc[c] = "analyze" /\ pc'[c] = "report" =>
        \A k \in open \ open' : view[c][k].whole]_vars

(***************************************************************************)
(* Once the server stops changing and nothing fails any more, the open     *)
(* findings become and stay the problems the server has, although cycles   *)
(* analyse mixtures of evidence of different age.                          *)
(***************************************************************************)
FindingsConverge == <>[](open = {k \in Section : Problem(k)})
=============================================================================
