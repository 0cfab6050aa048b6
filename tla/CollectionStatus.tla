--------------------------- MODULE CollectionStatus ---------------------------
(***************************************************************************)
(* What PGSentinel tells of the collection itself, for one registered      *)
(* server: its status, and per resource the state of the evidence with the *)
(* time of its last success.  Collection cycles write both while they run; *)
(* the API derives from them what is shown beside the evidence, how much a *)
(* finding is trusted and how healthy the estate looks.  Operators         *)
(* register, test and delete the server meanwhile.  A startup cycle        *)
(* collects everything before the others begin.                            *)
(*                                                                         *)
(* Times are ages, in ticks of the fastest schedule; an age of Old stands  *)
(* for every age from there on, which is stale for every resource.         *)
(***************************************************************************)
EXTENDS Integers, FiniteSets

CONSTANTS
    Cycle,          \* the cycles that run, among CycleKinds
    Section,        \* resources saved one by one
    OwnerOf,        \* [Section -> Cycle]: the cycle that collects it
    PerDatabase,    \* sections that may be collected in part
    Interval,       \* [Section \cup {Core} -> Nat]: expected interval, in ticks
    Old,            \* ages from here on are not told apart
    MaxFaults       \* bound: outages, failed writes and crashes

CycleKinds == {"all", "fast", "standard", "slow", "metadata"}
Core == "core"                          \* connections and database-statistics
Resource == Section \cup {Core}

ASSUME CollectionStatusAssumption ==
    /\ Cycle \subseteq CycleKinds
    /\ "all" \in Cycle
    /\ IsFiniteSet(Section)
    /\ Core \notin Section
    /\ OwnerOf \in [Section -> Cycle \ {"all"}]
    /\ PerDatabase \subseteq Section
    /\ Interval \in [Resource -> Nat \ {0}]
    /\ Old \in Nat
    /\ \A r \in Resource : Old > 2 * Interval[r]
    /\ MaxFaults \in Nat

Age == 0..Old
Never == Old + 1                        \* no such time
AgeOrNever == Age \cup {Never}
RowType == [state : {"none", "fresh", "partial", "unavailable"}, success : AgeOrNever]
NoRow == [state |-> "none", success |-> Never]

VARIABLES
    server,         \* "absent", "present", "deleted"
    status,         \* servers.status
    up,             \* PostgreSQL accepts connections
    broken,         \* sections that cannot be collected at present
    snap,           \* [Resource -> age of the latest stored snapshot]
    row,            \* [Resource -> collection_resource_status]
    boot,           \* the startup cycle: "pending", "running", "done"
    pc,             \* [Cycle -> "idle", "collect", "record", "report"]
    stamp,          \* [Cycle -> age of CollectedAt]
    left,           \* [Cycle -> sections yet to collect]
    saved,          \* [Cycle -> the section just saved, to be recorded]
    complete,       \* [Cycle -> BOOLEAN]
    test,           \* a connection test: "none", or what Connect said
    missed,         \* sections saved without a record of it (history)
    faults          \* outages and failures so far

serverVars == <<server, status>>
worldVars == <<up, broken>>
localVars == <<pc, stamp, left, saved, complete>>
cycleVars == <<boot, localVars>>
vars == <<serverVars, worldVars, snap, row, cycleVars, test, missed, faults>>

CoreFresh(c) == c \in {"all", "fast", "standard"}
Own(c) == {k \in Section : c \in {OwnerOf[k], "all"}}
OwnResources(c) == Own(c) \cup (IF CoreFresh(c) THEN {Core} ELSE {})
Present == server = "present"
Fault == faults < MaxFaults /\ faults' = faults + 1

-----------------------------------------------------------------------------
(* Writes to the store; the foreign key refuses them without the server *)

(* Mutant of Recorded: without the foreign key. *)
RecordedAnyway(r, state, age) ==
    [row EXCEPT ![r] = [state |-> state, success |-> IF state = "fresh" THEN age ELSE @.success]]

(* Mutant of Recorded: staleness is stored instead of derived. *)
RecordedStale(r, state, age) ==
    IF ~Present THEN row
    ELSE [row EXCEPT ![r] =
            [state |-> IF age > 2 * Interval[r] THEN "stale" ELSE state, success |-> age]]

(* A success sets the time of the last one, an older success too. *)
Recorded(r, state, age) ==
    IF ~Present THEN row
    ELSE [row EXCEPT ![r] =
            [state |-> state, success |-> IF state = "fresh" THEN age ELSE @.success]]

RecordedUnavailable(rs) ==
    IF ~Present THEN row
    ELSE [r \in Resource |-> IF r \in rs THEN [row[r] EXCEPT !.state = "unavailable"] ELSE row[r]]

Stored(r, age) == IF Present /\ age < snap[r] THEN [snap EXCEPT ![r] = age] ELSE snap

UpdateServerStatus(s) == status' = IF Present THEN s ELSE status

-----------------------------------------------------------------------------
(* A cycle *)

MayStart(c) == pc[c] = "idle" /\ boot = IF c = "all" THEN "pending" ELSE "done"
Booted(c, phase) == boot' = IF c = "all" THEN phase ELSE boot

Start(c, age) ==
    /\ MayStart(c) /\ Present /\ up
    /\ Booted(c, "running")
    /\ pc' = [pc EXCEPT ![c] = "collect"]
    /\ stamp' = [stamp EXCEPT ![c] = age]
    /\ left' = [left EXCEPT ![c] = Own(c)]
    /\ complete' = [complete EXCEPT ![c] = TRUE]
    /\ UNCHANGED saved

(* The core evidence is recorded as fresh long before it is saved. *)
CollectCore(c) ==
    /\ CoreFresh(c)
    /\ Start(c, 0)
    /\ row' = Recorded(Core, "fresh", 0)
    /\ UNCHANGED <<serverVars, worldVars, snap, test, missed, faults>>

CoreRecordFails(c) ==
    /\ CoreFresh(c)
    /\ Start(c, 0)
    /\ Fault
    /\ UNCHANGED <<serverVars, worldVars, snap, row, test, missed>>

(* Slow and metadata cycles work under the stamp of the last core snapshot. *)
LoadCore(c) ==
    /\ ~CoreFresh(c)
    /\ snap[Core] # Never
    /\ Start(c, snap[Core])
    /\ UNCHANGED <<serverVars, worldVars, snap, row, test, missed, faults>>

(* No server is registered when the startup cycle lists them. *)
NothingToCollect(c) ==
    /\ MayStart(c)
    /\ c = "all" /\ ~Present
    /\ Booted(c, "done")
    /\ UNCHANGED <<serverVars, worldVars, snap, row, localVars, test, missed, faults>>

(* Mutant of CycleFails: only the status tells. *)
CycleFailsSilently(c) ==
    /\ MayStart(c) /\ Present
    /\ ~up
    /\ Booted(c, "done")
    /\ UpdateServerStatus("unreachable")
    /\ UNCHANGED <<server, worldVars, snap, row, localVars, test, missed, faults>>

(* No connection: everything the cycle collects is unavailable. *)
CycleFails(c) ==
    /\ MayStart(c) /\ Present
    /\ ~up
    /\ Booted(c, "done")
    /\ UpdateServerStatus("unreachable")
    /\ row' = RecordedUnavailable(OwnResources(c))
    /\ UNCHANGED <<server, worldVars, snap, localVars, test, missed, faults>>

(***************************************************************************)
(* Connected, but the core evidence cannot be collected; or no connection  *)
(* either, and some of the writes that tell of it fail, which is only      *)
(* logged or ignored.                                                      *)
(***************************************************************************)
CoreFails(c) ==
    /\ MayStart(c) /\ Present
    /\ up => CoreFresh(c)
    /\ Fault
    /\ Booted(c, "done")
    /\ UNCHANGED status \/ UpdateServerStatus(IF up THEN "error" ELSE "unreachable")
    /\ \E told \in SUBSET OwnResources(c) : row' = RecordedUnavailable(told)
    /\ UNCHANGED <<server, worldVars, snap, localVars, test, missed>>

Done(c, k) == left' = [left EXCEPT ![c] = @ \ {k}]
Incomplete(c) == complete' = [complete EXCEPT ![c] = FALSE]
Works(k) == up /\ k \notin broken

(* saveSnapshot, first half: the snapshot. *)
SaveSection(c, k) ==
    /\ pc[c] = "collect" /\ k \in left[c]
    /\ Works(k)
    /\ Done(c, k)
    /\ IF Present
       THEN /\ pc' = [pc EXCEPT ![c] = "record"]
            /\ saved' = [saved EXCEPT ![c] = k]
            /\ snap' = Stored(k, stamp[c])
            /\ UNCHANGED complete
       ELSE Incomplete(c) /\ UNCHANGED <<pc, saved, snap>>
    /\ UNCHANGED <<serverVars, worldVars, row, boot, stamp, test, missed, faults>>

(* Second half: the resource is fresh.  Its failure is only logged. *)
RecordFresh(c) ==
    /\ pc[c] = "record"
    /\ pc' = [pc EXCEPT ![c] = "collect"]
    /\ row' = Recorded(saved[c], "fresh", stamp[c])
    /\ saved' = [saved EXCEPT ![c] = Core]
    /\ UNCHANGED <<serverVars, worldVars, snap, boot, stamp, left, complete, test, missed, faults>>

RecordFails(c) ==
    /\ pc[c] = "record"
    /\ Fault
    /\ pc' = [pc EXCEPT ![c] = "collect"]
    /\ saved' = [saved EXCEPT ![c] = Core]
    /\ missed' = missed \cup {saved[c]}
    /\ UNCHANGED <<serverVars, worldVars, snap, row, boot, stamp, left, complete, test>>

SaveFails(c, k) ==
    /\ pc[c] = "collect" /\ k \in left[c]
    /\ Works(k)
    /\ Fault
    /\ Done(c, k)
    /\ Incomplete(c)
    /\ row' \in {row, Recorded(k, "unavailable", stamp[c])}
    /\ UNCHANGED <<serverVars, worldVars, snap, boot, pc, stamp, saved, test, missed>>

(* The section cannot be collected, or only in part of the databases. *)
NotCollected(c, k) ==
    /\ pc[c] = "collect" /\ k \in left[c]
    /\ ~Works(k)
    /\ Done(c, k)
    /\ Incomplete(c)
    /\ \/ UNCHANGED snap
       \/ k \in PerDatabase /\ snap[k] = Never /\ snap' = Stored(k, stamp[c])
    /\ UNCHANGED <<serverVars, worldVars, boot, pc, stamp, saved, test>>

CollectFails(c, k) ==
    /\ NotCollected(c, k)
    /\ row' = Recorded(k, IF k \in PerDatabase THEN "partial" ELSE "unavailable", stamp[c])
    /\ UNCHANGED <<missed, faults>>

(* The failure itself cannot be recorded. *)
CollectFailsUnrecorded(c, k) ==
    /\ NotCollected(c, k)
    /\ Fault
    /\ missed' = IF snap' = snap THEN missed ELSE missed \cup {k}
    /\ UNCHANGED row

Collected(c) == pc[c] = "collect" /\ left[c] = {}

SaveCore(c) ==
    /\ Collected(c)
    /\ CoreFresh(c)
    /\ pc' = [pc EXCEPT ![c] = "report"]
    /\ snap' = Stored(Core, stamp[c])
    /\ complete' = [complete EXCEPT ![c] = @ /\ Present]
    /\ UNCHANGED <<serverVars, worldVars, row, boot, stamp, left, saved, test, missed, faults>>

(* The core snapshot or the metrics are not saved, or the thresholds not read. *)
EndFails(c) ==
    /\ Collected(c)
    /\ c # "metadata"
    /\ Fault
    /\ pc' = [pc EXCEPT ![c] = "report"]
    /\ \/ UNCHANGED snap
       \/ CoreFresh(c) /\ snap' = Stored(Core, stamp[c])
    /\ Incomplete(c)
    /\ UNCHANGED <<serverVars, worldVars, row, boot, stamp, left, saved, test, missed>>

Return(c) ==
    /\ Booted(c, "done")
    /\ pc' = [pc EXCEPT ![c] = "idle"]
    /\ stamp' = [stamp EXCEPT ![c] = 0]
    /\ complete' = [complete EXCEPT ![c] = TRUE]

(* Metadata cycles end here; the others analyse and report. *)
SkipCore(c) ==
    /\ Collected(c)
    /\ ~CoreFresh(c)
    /\ IF c = "metadata"
       THEN Return(c)
       ELSE pc' = [pc EXCEPT ![c] = "report"] /\ UNCHANGED <<boot, stamp, complete>>
    /\ UNCHANGED <<serverVars, worldVars, snap, row, left, saved, test, missed, faults>>

(* Mutant of Report: a degraded server stays so. *)
ReportOnce(c) ==
    /\ pc[c] = "report"
    /\ UpdateServerStatus(IF complete[c] /\ status # "degraded" THEN "healthy" ELSE "degraded")
    /\ Return(c)
    /\ UNCHANGED <<server, worldVars, snap, row, left, saved, test, missed, faults>>

Report(c) ==
    /\ pc[c] = "report"
    /\ UpdateServerStatus(IF complete[c] THEN "healthy" ELSE "degraded")
    /\ Return(c)
    /\ UNCHANGED <<server, worldVars, snap, row, left, saved, test, missed, faults>>

(* The error of the status update is dropped. *)
ReportFails(c) ==
    /\ pc[c] = "report"
    /\ Fault
    /\ Return(c)
    /\ UNCHANGED <<serverVars, worldVars, snap, row, left, saved, test, missed>>

-----------------------------------------------------------------------------
(* Operators *)

InsertServer == server' = "present" /\ status' = "unknown"

CreateServer ==
    /\ server = "absent"
    /\ InsertServer
    /\ UNCHANGED <<worldVars, snap, row, cycleVars, test, missed, faults>>

(* With the server go its snapshots and the state of its resources. *)
DeleteServer ==
    /\ Present
    /\ server' = "deleted"
    /\ snap' = [r \in Resource |-> Never]
    /\ row' = [r \in Resource |-> NoRow]
    /\ UNCHANGED <<status, worldVars, cycleVars, test, missed, faults>>

TestServer ==
    /\ test = "none" /\ Present
    /\ test' = IF up THEN "connected" ELSE "refused"
    /\ UNCHANGED <<serverVars, worldVars, snap, row, cycleVars, missed, faults>>

(* The outcome is written whatever the cycles found out in between. *)
TestReports ==
    /\ test # "none"
    /\ UpdateServerStatus(IF test = "connected" THEN "healthy" ELSE "unreachable")
    /\ test' = "none"
    /\ UNCHANGED <<server, worldVars, snap, row, cycleVars, missed, faults>>

-----------------------------------------------------------------------------
(* What the API shows *)

(* Mutant of Derived: staleness is not looked at. *)
AsStored(r) == row[r].state

(* ListCollectionResources: old evidence is stale, whatever was recorded. *)
Derived(r) ==
    LET old == row[r].success # Never /\ row[r].success > 2 * Interval[r]
    IN  IF row[r].state # "unavailable" /\ old THEN "stale" ELSE row[r].state

(* serverFreshness: every monitored resource, recorded or not. *)
Shown(r) == IF row[r] = NoRow THEN "unavailable" ELSE Derived(r)

(* A finding whose evidence is not fresh is trusted one level less. *)
Lowered == [High |-> "Medium", Medium |-> "Low", Low |-> "Low"]
ShownConfidence(confidence, r) ==
    IF row[r] # NoRow /\ Derived(r) # "fresh" THEN Lowered[confidence] ELSE confidence

(* The score of open findings of that weight. *)
HealthScore(weight) == IF weight > 100 THEN 0 ELSE 100 - weight

(* overview caps it by what the status tells. *)
Health(weight) ==
    LET cap == CASE status \in {"unreachable", "error"} -> 50
                 [] status \in {"degraded", "unknown"} -> 75
                 [] OTHER -> 100
    IN  IF Present /\ HealthScore(weight) > cap THEN cap ELSE HealthScore(weight)

-----------------------------------------------------------------------------
(* Time, PostgreSQL and crashes *)

Older(age) == IF age < Old THEN age + 1 ELSE age

Tick ==
    /\ snap' = [r \in Resource |-> Older(snap[r])]
    /\ row' = [r \in Resource |-> [row[r] EXCEPT !.success = Older(@)]]
    /\ stamp' = [c \in Cycle |-> IF pc[c] = "idle" THEN 0 ELSE Older(stamp[c])]
    /\ UNCHANGED <<serverVars, worldVars, boot, pc, left, saved, complete, test, missed, faults>>

Breaks ==
    /\ Fault
    /\ \/ up /\ up' = FALSE /\ UNCHANGED broken
       \/ \E k \in Section \ broken : broken' = broken \cup {k} /\ UNCHANGED up
    /\ UNCHANGED <<serverVars, snap, row, cycleVars, test, missed>>

Recovers ==
    /\ ~up \/ broken # {}
    /\ up' = TRUE
    /\ broken' = {}
    /\ UNCHANGED <<serverVars, snap, row, cycleVars, test, missed, faults>>

Restart ==
    /\ Fault
    /\ boot' = "pending"
    /\ pc' = [c \in Cycle |-> "idle"]
    /\ stamp' = [c \in Cycle |-> 0]
    /\ left' = [c \in Cycle |-> {}]
    /\ saved' = [c \in Cycle |-> Core]
    /\ complete' = [c \in Cycle |-> TRUE]
    /\ test' = "none"
    /\ missed' = missed \cup {saved[c] : c \in {d \in Cycle : pc[d] = "record"}}
    /\ UNCHANGED <<serverVars, worldVars, snap, row>>

Init ==
    /\ server = "absent"
    /\ status = "unknown"
    /\ up = TRUE
    /\ broken \in SUBSET Section        \* for lack of privileges, say
    /\ snap = [r \in Resource |-> Never]
    /\ row = [r \in Resource |-> NoRow]
    /\ boot = "pending"
    /\ pc = [c \in Cycle |-> "idle"]
    /\ stamp = [c \in Cycle |-> 0]
    /\ left = [c \in Cycle |-> {}]
    /\ saved = [c \in Cycle |-> Core]
    /\ complete = [c \in Cycle |-> TRUE]
    /\ test = "none"
    /\ missed = {}
    /\ faults = 0

Progress(c) ==
    \/ CollectCore(c)
    \/ LoadCore(c)
    \/ NothingToCollect(c)
    \/ CycleFails(c)
    \/ \E k \in Section : SaveSection(c, k) \/ CollectFails(c, k)
    \/ RecordFresh(c)
    \/ SaveCore(c)
    \/ SkipCore(c)
    \/ Report(c)

Failure(c) ==
    \/ CoreFails(c)
    \/ CoreRecordFails(c)
    \/ \E k \in Section : SaveFails(c, k) \/ CollectFailsUnrecorded(c, k)
    \/ RecordFails(c)
    \/ EndFails(c)
    \/ ReportFails(c)

Next ==
    \/ \E c \in Cycle : Progress(c) \/ Failure(c)
    \/ CreateServer
    \/ DeleteServer
    \/ TestServer
    \/ TestReports
    \/ Tick
    \/ Breaks
    \/ Recovers
    \/ Restart

Spec == Init /\ [][Next]_vars

(* The schedules keep starting cycles, and every call returns. *)
FairSpec == Spec /\ WF_vars(TestReports) /\ \A c \in Cycle : WF_vars(Progress(c))

-----------------------------------------------------------------------------
(* Types of every variable. *)
TypeOK ==
    /\ server \in {"absent", "present", "deleted"}
    /\ status \in {"unknown", "healthy", "degraded", "unreachable", "error"}
    /\ up \in BOOLEAN
    /\ broken \subseteq Section
    /\ snap \in [Resource -> AgeOrNever]
    /\ row \in [Resource -> RowType]
    /\ boot \in {"pending", "running", "done"}
    /\ pc \in [Cycle -> {"idle", "collect", "record", "report"}]
    /\ stamp \in [Cycle -> Age]
    /\ left \in [Cycle -> SUBSET Section]
    /\ saved \in [Cycle -> Resource]
    /\ complete \in [Cycle -> BOOLEAN]
    /\ test \in {"none", "connected", "refused"}
    /\ missed \subseteq Resource
    /\ faults \in 0..MaxFaults

(***************************************************************************)
(* "Cached data cannot be mistaken for a current observation" (README):    *)
(* a finding is trusted fully only when the evidence stored of its section *)
(* is no older than two expected intervals.  There is one exception: the   *)
(* code trusts a section without a record fully, however old its evidence. *)
(* This says that evidence without a record comes about in one way only:   *)
(* the record of its very first snapshot failed, was cut off by a crash,   *)
(* or is still under way.  Every later record ends it.                     *)
(***************************************************************************)
Unrecorded(k) ==
    /\ row[k] = NoRow
    /\ k \in missed \/ \E c \in Cycle : pc[c] = "record" /\ saved[c] = k

LabelsHonest ==
    \A k \in Section : snap[k] # Never /\ ShownConfidence("High", k) = "High" =>
        snap[k] <= 2 * Interval[k] \/ Unrecorded(k)

(***************************************************************************)
(* Nothing of a deleted server is left or comes back, although cycles and  *)
(* a test of it were under way.                                            *)
(***************************************************************************)
NothingOfDeleted ==
    server # "present" => \A r \in Resource : snap[r] = Never /\ row[r] = NoRow

(***************************************************************************)
(* When the server and all its sections work from some time on, it becomes *)
(* and stays healthy with every resource fresh, although cycles overwrite  *)
(* each other's status and late tests overwrite both.                      *)
(***************************************************************************)
StatusRecovers ==
    <>[](Present /\ up /\ broken = {}) =>
        <>[](Health(0) = 100 /\ \A r \in Resource : row[r].state = "fresh")

(***************************************************************************)
(* When PostgreSQL is down for good, health is capped at 50 and nothing is *)
(* shown as fresh any more.                                                *)
(***************************************************************************)
OutageNoticed ==
    <>[](Present /\ ~up) => <>[](Health(0) <= 50 /\ \A r \in Resource : Shown(r) # "fresh")
=============================================================================
