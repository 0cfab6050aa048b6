------------------------------ MODULE Incidents ------------------------------
(***************************************************************************)
(* Incident correlation for one server.  A collection cycle that is        *)
(* complete reconciles the findings in one transaction and then rebuilds   *)
(* the incidents: it reads the recent findings, groups them, and replaces  *)
(* the stored incidents in a second transaction.  Cycles of different      *)
(* kinds do this concurrently, so a rebuild may work on findings that      *)
(* another cycle has changed since they were read.                         *)
(*                                                                         *)
(* Findings are numbered in the order of their IDs.  An incident is known  *)
(* by its earliest finding, of which its ID is a digest.                   *)
(***************************************************************************)
EXTENDS Integers, FiniteSets, FiniteSetsExt, Folds

CONSTANTS
    Finding,        \* the findings there may be, numbered in the order of IDs
    Category,       \* [Finding -> STRING], in lower case
    Resource,       \* [Finding -> STRING], "" for none
    Cycle,          \* cycles that rebuild incidents
    Window,         \* correlationWindow (15 minutes), in ticks
    Recent,         \* how long a resolved finding is considered (24 hours)
    Retention,      \* how long a resolved incident is kept (90 days)
    FindingLimit,   \* incidentFindingLimit (500)
    Lag,            \* bound: ticks between an analysis and its reconciliation
    MaxTime,        \* bound: ticks
    MaxChanges,     \* bound: reconciliations that change a finding
    MaxFaults       \* bound: rebuilds that fail and crashes

ASSUME IncidentsAssumption ==
    /\ IsFiniteSet(Finding)
    /\ Finding \subseteq Nat
    /\ {Window, Recent, Retention, Lag, MaxTime, MaxChanges, MaxFaults} \subseteq Nat
    /\ FindingLimit \in Nat \ {0}

VARIABLES
    clock,          \* the time, in ticks
    status,         \* [Finding -> "absent", "open", "resolved"]
    started,        \* [Finding -> time]: started_at
    resolvedAt,     \* [Finding -> time]: resolved_at
    incident,       \* [Finding -> Incident], by the earliest finding
    pc,             \* [Cycle -> "idle", "reconciled", "read"]
    read,           \* [Cycle -> Copy]: the findings its rebuild has read
    changes,        \* reconciliations that changed something so far
    faults          \* failures so far

findingVars == <<status, started, resolvedAt>>
vars == <<clock, findingVars, incident, pc, read, changes, faults>>

Time == 0..MaxTime
Incident == [state : {"none", "active", "resolved"}, members : SUBSET Finding, since : Time]
NoIncident == [state |-> "none", members |-> {}, since |-> 0]

(* What a rebuild knows: its time, the findings it read, which are open. *)
Copy == [now : Time, seen : SUBSET Finding, open : SUBSET Finding, ended : [Finding -> Time]]
NoCopy == [now |-> 0, seen |-> {}, open |-> {}, ended |-> [f \in Finding |-> 0]]

-----------------------------------------------------------------------------
(* Correlate *)

relatedCategories ==
    {<<"connections", "locks">>, <<"connections", "transactions">>, <<"locks", "queries">>,
     <<"locks", "transactions">>, <<"replication", "wal">>, <<"transactions", "vacuum">>,
     <<"performance", "queries">>}

sameCategorySignals ==
    {"connections", "locks", "replication", "transactions", "vacuum", "wal"}

relationship(a, b) ==
    \/ Resource[a] # "" /\ Resource[a] = Resource[b]
    \/ Category[a] = Category[b] /\ Category[a] \in sameCategorySignals
    \/ <<Category[a], Category[b]>> \in relatedCategories
    \/ <<Category[b], Category[a]>> \in relatedCategories

(* Sorted by started_at, then by ID. *)
Earlier(a, b) == started[a] < started[b] \/ (started[a] = started[b] /\ a < b)
First(G) == CHOOSE a \in G : \A b \in G \ {a} : Earlier(a, b)

Span(G) == Max({started[a] : a \in G}) - Min({started[a] : a \in G})

(* Mutant of Fits: only the two findings have to be close. *)
FitsPairwise(A, B) == \E a \in A, b \in B : Span({a, b}) <= Window

(* The findings of two groups began within one window. *)
Fits(A, B) == Span(A \cup B) <= Window

(* The condition under which the pair of loops calls union. *)
Linked(a, b) == Span({a, b}) <= Window /\ relationship(a, b)

GroupOf(P, a) == CHOOSE G \in P : a \in G

Union(P, a, b) ==
    LET A == GroupOf(P, a)
        B == GroupOf(P, b)
    IN IF A # B /\ Fits(A, B)
       THEN (P \ {A, B}) \cup {A \cup B}
       ELSE P

(* The last of some pairs in the order in which the two loops visit them. *)
LastPair(pairs) ==
    CHOOSE p \in pairs : \A q \in pairs \ {p} :
        Earlier(q[1], p[1]) \/ (q[1] = p[1] /\ Earlier(q[2], p[2]))

Groups(S) ==
    MapThenFoldSet(LAMBDA p, P : Union(P, p[1], p[2]), {{a} : a \in S},
                   LAMBDA p : p, LastPair,
                   {p \in S \X S : Earlier(p[1], p[2]) /\ Linked(p[1], p[2])})

(* A finding on its own is no incident. *)
Correlate(S) == {G \in Groups(S) : Cardinality(G) >= 2}

-----------------------------------------------------------------------------
(* One cycle *)

(***************************************************************************)
(* UpsertFindings: what the cycle reports is open, whatever else was open  *)
(* is resolved.  A finding keeps the time at which it was first reported.  *)
(***************************************************************************)
UpsertFindings(c, report, at) ==
    /\ pc[c] = "idle"
    /\ status' = [f \in Finding |-> IF f \in report THEN "open"
                                    ELSE IF status[f] = "open" THEN "resolved" ELSE status[f]]
    /\ started' = [f \in Finding |-> IF f \in report /\ status[f] = "absent" THEN at ELSE started[f]]
    /\ resolvedAt' = [f \in Finding |-> IF f \in report THEN 0
                                        ELSE IF status[f] = "open" THEN clock ELSE resolvedAt[f]]
    /\ changes' = IF status' = status THEN changes ELSE changes + 1
    /\ changes' <= MaxChanges
    /\ pc' = [pc EXCEPT ![c] = "reconciled"]
    /\ UNCHANGED <<clock, incident, read, faults>>

RecentFindings == {f \in Finding : \/ status[f] = "open"
                                   \/ status[f] = "resolved" /\ resolvedAt[f] >= clock - Recent}

(* ORDER BY started_at DESC LIMIT: which of equal ones go is not said. *)
NewestOf(S) ==
    {T \in SUBSET S : /\ Cardinality(T) = Min({FindingLimit, Cardinality(S)})
                      /\ \A f \in T, g \in S \ T : started[f] >= started[g]}

RecentIncidentFindings(c) ==
    /\ pc[c] = "reconciled"
    /\ \E S \in NewestOf(RecentFindings) :
        read' = [read EXCEPT ![c] = [now |-> clock, seen |-> S,
                                     open |-> {f \in S : status[f] = "open"},
                                     ended |-> [f \in Finding |-> IF f \in S THEN resolvedAt[f] ELSE 0]]]
    /\ pc' = [pc EXCEPT ![c] = "read"]
    /\ UNCHANGED <<clock, findingVars, incident, changes, faults>>

(* Mutant of Built: the incident takes the status of a finding. *)
BuiltAsFinding(G, copy) ==
    IF G \cap copy.open # {}
    THEN [state |-> "open", members |-> G, since |-> 0]
    ELSE [state |-> "resolved", members |-> G, since |-> Max({copy.ended[f] : f \in G})]

(* Mutant of Built: active only while no finding is resolved. *)
BuiltWhenAllOpen(G, copy) ==
    IF G \subseteq copy.open
    THEN [state |-> "active", members |-> G, since |-> 0]
    ELSE [state |-> "resolved", members |-> G, since |-> Max({copy.ended[f] : f \in G})]

(* buildIncident: active while a finding of the group is not resolved. *)
Built(G, copy) ==
    IF G \cap copy.open # {}
    THEN [state |-> "active", members |-> G, since |-> 0]
    ELSE [state |-> "resolved", members |-> G, since |-> Max({copy.ended[f] : f \in G})]

(* Mutant of Superseded: incidents that no longer apply stay as they are. *)
NotSuperseded(old, now) == old

(* An active incident that was not built again is resolved now. *)
Superseded(old, now) ==
    IF old.state = "active" THEN [state |-> "resolved", members |-> old.members, since |-> now] ELSE old

Rebuilt(i, found, copy) ==
    IF \E G \in found : First(G) = i
    THEN Built(CHOOSE G \in found : First(G) = i, copy)
    ELSE Superseded(incident[i], copy.now)

(* Incidents that have been resolved for long are deleted. *)
Kept(new, now) ==
    IF new.state = "resolved" /\ new.since < now - Retention THEN NoIncident ELSE new

(* The transaction of RebuildIncidents, on the findings read before it. *)
RebuildIncidents(c) ==
    /\ pc[c] = "read"
    /\ \E found \in {Correlate(read[c].seen)} :
        incident' = [i \in Finding |-> Kept(Rebuilt(i, found, read[c]), read[c].now)]
    /\ pc' = [pc EXCEPT ![c] = "idle"]
    /\ read' = [read EXCEPT ![c] = NoCopy]
    /\ UNCHANGED <<clock, findingVars, changes, faults>>

(* The read or the transaction fails: the cycle logs it and goes on. *)
RebuildFails(c) ==
    /\ pc[c] # "idle"
    /\ faults < MaxFaults
    /\ faults' = faults + 1
    /\ pc' = [pc EXCEPT ![c] = "idle"]
    /\ read' = [read EXCEPT ![c] = NoCopy]
    /\ UNCHANGED <<clock, findingVars, incident, changes>>

(* The process dies between the two transactions of its cycles. *)
Crash ==
    /\ faults < MaxFaults
    /\ \E c \in Cycle : pc[c] # "idle"
    /\ faults' = faults + 1
    /\ pc' = [c \in Cycle |-> "idle"]
    /\ read' = [c \in Cycle |-> NoCopy]
    /\ UNCHANGED <<clock, findingVars, incident, changes>>

Tick ==
    /\ clock < MaxTime
    /\ clock' = clock + 1
    /\ UNCHANGED <<findingVars, incident, pc, read, changes, faults>>

-----------------------------------------------------------------------------
(* Incidents came with a migration: findings may be older than they are. *)
Init ==
    /\ clock \in Time
    /\ status \in [Finding -> {"absent", "open"}]
    /\ started \in [Finding -> 0..clock]
    /\ \A f \in Finding : status[f] = "absent" => started[f] = 0
    /\ resolvedAt = [f \in Finding |-> 0]
    /\ incident = [i \in Finding |-> NoIncident]
    /\ pc = [c \in Cycle |-> "idle"]
    /\ read = [c \in Cycle |-> NoCopy]
    /\ changes = 0
    /\ faults = 0

Reconcile(c) ==
    \E report \in SUBSET Finding, at \in {t \in Time : t <= clock /\ t >= clock - Lag} :
        UpsertFindings(c, report, at)

Rebuild(c) == RecentIncidentFindings(c) \/ RebuildIncidents(c)

Next ==
    \/ \E c \in Cycle : Reconcile(c) \/ Rebuild(c) \/ RebuildFails(c)
    \/ Crash
    \/ Tick

Spec == Init /\ [][Next]_vars

(* Cycles keep running, and a rebuild that has started ends. *)
FairSpec == Spec /\ \A c \in Cycle : WF_vars(Reconcile(c) \/ Rebuild(c))

-----------------------------------------------------------------------------
(* Types of every variable. *)
TypeOK ==
    /\ clock \in Time
    /\ status \in [Finding -> {"absent", "open", "resolved"}]
    /\ started \in [Finding -> Time]
    /\ resolvedAt \in [Finding -> Time]
    /\ incident \in [Finding -> Incident]
    /\ pc \in [Cycle -> {"idle", "reconciled", "read"}]
    /\ read \in [Cycle -> Copy]
    /\ changes \in 0..MaxChanges
    /\ faults \in 0..MaxFaults

ActiveIncidents == {i \in Finding : incident[i].state = "active"}

(***************************************************************************)
(* A finding is in at most one active incident, although groups change     *)
(* their earliest finding, and with it their ID, when an older finding     *)
(* turns up or the earliest one is forgotten, and although concurrent      *)
(* rebuilds overwrite each other (the stale loop of RebuildIncidents).     *)
(***************************************************************************)
ActiveIncidentsDisjoint ==
    \A i, j \in ActiveIncidents : i # j => incident[i].members \cap incident[j].members = {}

(***************************************************************************)
(* Correlate computes the grouping it is meant to: the groups are a        *)
(* partition; the findings of a group began within one window and are      *)
(* connected through related findings of the same group; and two related   *)
(* findings are kept apart only when their groups do not fit one window.   *)
(***************************************************************************)
Connected(G) ==
    \A A \in (SUBSET G) \ {{}, G} : \E a \in A, b \in G \ A :
        relationship(a, b) /\ started[a] - started[b] \in -Window..Window

GroupingCorrect ==
    \A c \in Cycle : pc[c] = "read" =>
        LET P == Groups(read[c].seen) IN
        /\ UNION P = read[c].seen
        /\ \A G \in P : G # {} /\ Connected(G)
                        /\ \A a, b \in G : started[a] - started[b] <= Window
        /\ \A G, H \in P : G # H =>
            /\ G \cap H = {}
            /\ (\E a \in G, b \in H : relationship(a, b) /\ started[a] - started[b] \in -Window..Window)
                => \E a \in G, b \in H : started[a] - started[b] \notin -Window..Window

(***************************************************************************)
(* Once the findings stop changing, the active incidents become and stay   *)
(* the groups of the recent findings (the newest FindingLimit of them)     *)
(* that have one still open: a rebuild on outdated findings, a failed one  *)
(* or a crash between the two transactions is made good by a later cycle.  *)
(***************************************************************************)
OpenGroups(S) == {G \in Correlate(S) : \E f \in G : status[f] = "open"}

IncidentsConverge ==
    <>[](\E S \in NewestOf(RecentFindings) :
            {incident[i].members : i \in ActiveIncidents} = OpenGroups(S))
=============================================================================
