---------------------------- MODULE FindingStore ----------------------------
(***************************************************************************)
(* The finding lifecycle and the notification queue of PGSentinel's        *)
(* SQLite store: UpsertFindings with the notifications it queues in the    *)
(* same transaction, acknowledgement by operators, routes, destinations    *)
(* and operator controls, and the bounded delivery history.                *)
(*                                                                         *)
(* Times are relative.  A row holds the ticks left until its               *)
(* next_attempt_at (wait) and the ticks since its delivered_at (age);      *)
(* Tick moves both.  One tick is the minute of the retry backoff.          *)
(*                                                                         *)
(* UpsertFindings is one SQLite transaction.  Its loop iterations are      *)
(* steps of their own here, and no other store operation runs between      *)
(* BeginUpsert and CommitUpsert: other writers wait for the write lock,    *)
(* and what a reader sees is what it saw before the transaction began.  A  *)
(* transaction that fails is rolled back and is a behaviour in which it    *)
(* did not begin.                                                          *)
(***************************************************************************)
EXTENDS Integers, FiniteSets

CONSTANTS
    Server,         \* monitored PostgreSQL servers
    Fingerprint,    \* identities of findings: hash of rule, server, database, resource
    ServerOf,       \* the server hashed into a fingerprint
    Severities,     \* ranks of the severities analysis may report, among 1..5
    Destination,    \* notification destinations, numbered in the order of their ids
    RouteId,        \* identities of routing rules
    RouteShapes,    \* the contents an operator may give a routing rule
    MaxEvents,      \* bound: notification events ever queued
    MaxEdits,       \* bound: changes operators make to the configuration
    Keep,           \* deliveries the history retains (2000)
    MaxAttempts,    \* attempts before a delivery fails (3)
    AgeCap          \* bound: ages of deliveries beyond which none is told apart

Event == 1..MaxEvents
Key == Event \X Destination                 \* primary key of a delivery
Rank == 0..5                                \* severityRank; 0 is no severity
HighRank == 4                               \* severityRank("HIGH")
Transition == {"new", "reopened", "severity_increased", "resolved"}
RowStatus == {"none", "pending", "retry", "delivered", "failed", "cooldown"}
OpenStatus == {"active", "acknowledged"}
NoServer == "none"
NoFinding == "none"

Route == [state : {"absent", "disabled", "enabled"},
          severities : SUBSET Rank, scope : SUBSET Fingerprint,
          transitions : SUBSET Transition, dests : SUBSET Destination,
          cooldown : Nat]
Row == [status : RowStatus, attempts : 0..MaxAttempts, wait : Nat, age : 0..AgeCap]

NoRoute == [state |-> "absent", severities |-> {}, scope |-> {},
            transitions |-> {}, dests |-> {}, cooldown |-> 0]
NewRow(st) == [status |-> st, attempts |-> 0, wait |-> 0, age |-> 0]
NoRow == NewRow("none")
NoEvent == [finding |-> NoFinding, type |-> "none"]

ASSUME FindingStoreAssumption ==
    /\ NoServer \notin Server
    /\ NoFinding \notin Fingerprint
    /\ ServerOf \in [Fingerprint -> Server]
    /\ Severities \subseteq 1..5
    /\ Destination \subseteq Nat
    /\ RouteShapes \subseteq Route
    /\ MaxEvents \in Nat
    /\ MaxEdits \in Nat
    /\ Keep \in Nat \ {0}
    /\ MaxAttempts \in Nat \ {0}
    /\ AgeCap \in Nat
    /\ \A shape \in RouteShapes : shape.cooldown < AgeCap
    /\ IsFiniteSet(Fingerprint)
    /\ IsFiniteSet(Destination)

VARIABLES
    servers,        \* servers that exist
    status,         \* [Fingerprint -> "absent", "active", "acknowledged", "resolved"]
    severity,       \* [Fingerprint -> Rank], as last stored
    quiet,          \* findings an active maintenance window or suppression covers
    dest,           \* [Destination -> "absent", "disabled", "enabled", "deleted"]
    routes,         \* [RouteId -> Route]
    event,          \* [Event -> finding and transition], in creation order
    nextEvent,      \* the next event to be created
    rows,           \* [Key -> Row], the table finding_notification_deliveries
    edits,          \* configuration changes so far
    txServer,       \* server whose UpsertFindings transaction is open
    report,         \* [Fingerprint -> Rank]: the findings passed to it
    todo            \* reported findings its first loop has yet to upsert

findingVars == <<status, severity>>
configVars == <<servers, quiet, dest, routes, edits>>
queueVars == <<event, nextEvent, rows>>
txVars == <<txServer, report, todo>>
storeVars == <<findingVars, configVars, queueVars, txVars>>

Idle == txServer = NoServer
FindingsOf(s) == {f \in Fingerprint : ServerOf[f] = s}
Live(rs) == {k \in Key : rs[k].status # "none"}

-----------------------------------------------------------------------------
(* Queueing a notification, inside the transaction that changed a finding. *)

(* An empty filter matches any value. *)
Passes(filter, value) == filter = {} \/ value \in filter

(* Category, server and tag filters are one set of findings they let pass. *)
RouteMatches(r, f, t, rank) ==
    /\ r.state = "enabled"
    /\ Passes(r.severities, rank)
    /\ Passes(r.scope, f)
    /\ Passes(r.transitions, t)

MatchingRoutes(f, t, rank, d) ==
    {r \in RouteId : RouteMatches(routes[r], f, t, rank) /\ d \in routes[r].dests}

EnabledDestinations == {d \in Destination : dest[d] = "enabled"}

(* Routes count even when they are disabled: explicit routing has taken over. *)
ExplicitRouting == \E r \in RouteId : routes[r].state # "absent"

(* The destinations that get a delivery of this transition of f. *)
Targets(f, t, rank) ==
    {d \in EnabledDestinations :
        /\ f \notin quiet
        /\ IF ExplicitRouting THEN MatchingRoutes(f, t, rank, d) # {}
                              ELSE rank >= HighRank}

LeastCooldown(S) == CHOOSE c \in S : \A x \in S : c <= x

(* A delivery of the same finding to d succeeded within the last c ticks. *)
DeliveredWithin(f, d, c) ==
    \E e \in Event : /\ event[e].finding = f
                     /\ rows[<<e, d>>].status = "delivered"
                     /\ rows[<<e, d>>].age <= c

(* The status of a new delivery; without routes there is no cooldown. *)
QueuedStatus(f, t, rank, d) ==
    IF /\ ExplicitRouting
       /\ LET c == LeastCooldown({routes[r].cooldown : r \in MatchingRoutes(f, t, rank, d)})
          IN c > 0 /\ DeliveredWithin(f, d, c)
    THEN "cooldown" ELSE "pending"

(* ORDER BY created_at DESC, destination_id *)
NewerRow(j, k) == j[1] > k[1] \/ (j[1] = k[1] /\ j[2] < k[2])

(* Mutant of Prune: keeps one delivery too many. *)
PruneOneLess(rs) ==
    [k \in Key |-> IF Cardinality({j \in Live(rs) : NewerRow(j, k)}) <= Keep
                   THEN rs[k] ELSE NoRow]

(* Only the newest Keep deliveries stay; an event without any is gone. *)
Prune(rs) ==
    [k \in Key |-> IF Cardinality({j \in Live(rs) : NewerRow(j, k)}) < Keep
                   THEN rs[k] ELSE NoRow]

WithNewRows(f, t, rank) ==
    [k \in Key |-> IF k[1] = nextEvent /\ k[2] \in Targets(f, t, rank)
                   THEN NewRow(QueuedStatus(f, t, rank, k[2]))
                   ELSE rows[k]]

QueueFindingNotification(f, t, rank) ==
    IF Targets(f, t, rank) = {}
    THEN UNCHANGED queueVars
    ELSE /\ nextEvent \in Event
         /\ event' = [event EXCEPT ![nextEvent] = [finding |-> f, type |-> t]]
         /\ nextEvent' = nextEvent + 1
         /\ rows' = Prune(WithNewRows(f, t, rank))

-----------------------------------------------------------------------------
(* UpsertFindings *)

(* A transaction queues at most one event for each finding of the server. *)
BeginUpsert(s, r) ==
    /\ Idle
    /\ s \in servers
    /\ nextEvent + Cardinality(Fingerprint) <= MaxEvents + 1
    /\ \A f \in Fingerprint : ServerOf[f] # s => r[f] = 0
    /\ txServer' = s
    /\ report' = r
    /\ todo' = {f \in Fingerprint : r[f] # 0}
    /\ UNCHANGED <<findingVars, configVars, queueVars>>

(* Mutant of EventType: a finding that comes back is not announced. *)
EventTypeSilentReturn(f) ==
    CASE status[f] = "absent" -> "new"
      [] status[f] \in OpenStatus /\ report[f] > severity[f] -> "severity_increased"
      [] OTHER -> "none"

(* The transition a reported finding makes, "none" when nobody is told. *)
EventType(f) ==
    CASE status[f] = "absent" -> "new"
      [] status[f] = "resolved" -> "reopened"
      [] status[f] \in OpenStatus /\ report[f] > severity[f] -> "severity_increased"
      [] OTHER -> "none"

UpsertOne(f) ==
    /\ f \in todo
    /\ status' = [status EXCEPT ![f] = IF @ = "acknowledged" THEN @ ELSE "active"]
    /\ severity' = [severity EXCEPT ![f] = report[f]]
    /\ IF EventType(f) = "none"
       THEN UNCHANGED queueVars
       ELSE QueueFindingNotification(f, EventType(f), report[f])
    /\ todo' = todo \ {f}
    /\ UNCHANGED <<configVars, txServer, report>>

(* Mutant of Stale: the query forgets the server. *)
StaleAnywhere == {f \in Fingerprint : status[f] \in OpenStatus /\ report[f] = 0}

(* Open findings of the server that were not reported. *)
Stale == {f \in Fingerprint : /\ ServerOf[f] = txServer
                              /\ status[f] \in OpenStatus
                              /\ report[f] = 0}

ResolveOne(f) ==
    /\ ~Idle
    /\ todo = {}
    /\ f \in Stale
    /\ status' = [status EXCEPT ![f] = "resolved"]
    /\ QueueFindingNotification(f, "resolved", severity[f])
    /\ UNCHANGED <<severity, configVars, txVars>>

CommitUpsert ==
    /\ ~Idle
    /\ todo = {}
    /\ Stale = {}
    /\ txServer' = NoServer
    /\ report' = [f \in Fingerprint |-> 0]
    /\ UNCHANGED <<findingVars, configVars, queueVars, todo>>

-----------------------------------------------------------------------------
(* Operators, through the API *)

(* Acknowledge or return to triage; a finding that is not open is left alone. *)
SetFindingStatus(f, new) ==
    /\ Idle
    /\ status[f] \in OpenStatus
    /\ status' = [status EXCEPT ![f] = new]
    /\ UNCHANGED <<severity, configVars, queueVars, txVars>>

Edit == Idle /\ edits < MaxEdits /\ edits' = edits + 1

(* A maintenance window or a suppression starts or stops covering f. *)
ToggleControl(f) ==
    /\ Edit
    /\ quiet' = IF f \in quiet THEN quiet \ {f} ELSE quiet \cup {f}
    /\ UNCHANGED <<findingVars, servers, dest, routes, queueVars, txVars>>

SaveDestination(d, new) ==
    /\ Edit
    /\ dest' = [dest EXCEPT ![d] = new]
    /\ UNCHANGED <<findingVars, servers, quiet, routes, queueVars, txVars>>

(* Identifiers are random: that of a deleted destination does not come back. *)
CreateNotificationDestination(d, new) == dest[d] = "absent" /\ SaveDestination(d, new)

UpdateNotificationDestination(d, new) ==
    dest[d] \in {"enabled", "disabled"} /\ SaveDestination(d, new)

(* The foreign key of notification_route_destinations. *)
WithoutDestination(route, d) ==
    [state |-> route.state, severities |-> route.severities, scope |-> route.scope,
     transitions |-> route.transitions, dests |-> route.dests \ {d},
     cooldown |-> route.cooldown]

(* Foreign keys drop its deliveries and its place in every route. *)
DeleteDestination(d) ==
    /\ Edit
    /\ dest[d] \in {"enabled", "disabled"}
    /\ dest' = [dest EXCEPT ![d] = "deleted"]
    /\ routes' = [r \in RouteId |-> WithoutDestination(routes[r], d)]
    /\ rows' = [k \in Key |-> IF k[2] = d THEN NoRow ELSE rows[k]]
    /\ UNCHANGED <<findingVars, servers, quiet, event, nextEvent, txVars>>

(* Filters may be empty, the list of destinations may not. *)
ValidRoute(shape) == shape.state # "absent" /\ shape.dests # {}

(* The destinations are enabled when the request is checked; one disabled    *)
(* before the transaction still gets its place, one deleted makes it fail.   *)
ReferencesExist(shape) == \A d \in shape.dests : dest[d] \in {"enabled", "disabled"}

SaveRoute(r, shape) ==
    /\ Edit
    /\ ValidRoute(shape)
    /\ ReferencesExist(shape)
    /\ routes' = [routes EXCEPT ![r] = shape]
    /\ UNCHANGED <<findingVars, servers, quiet, dest, queueVars, txVars>>

CreateNotificationRoute(r, shape) == routes[r].state = "absent" /\ SaveRoute(r, shape)
UpdateNotificationRoute(r, shape) == routes[r].state # "absent" /\ SaveRoute(r, shape)

DeleteRoute(r) ==
    /\ Edit
    /\ routes[r].state # "absent"
    /\ routes' = [routes EXCEPT ![r] = NoRoute]
    /\ UNCHANGED <<findingVars, servers, quiet, dest, queueVars, txVars>>

(* Foreign keys drop its findings, their events and their deliveries. *)
DeleteServer(s) ==
    /\ Edit
    /\ s \in servers
    /\ servers' = servers \ {s}
    /\ status' = [f \in Fingerprint |-> IF ServerOf[f] = s THEN "absent" ELSE status[f]]
    /\ severity' = [f \in Fingerprint |-> IF ServerOf[f] = s THEN 0 ELSE severity[f]]
    /\ rows' = [k \in Key |-> IF event[k[1]].finding \in FindingsOf(s)
                              THEN NoRow ELSE rows[k]]
    /\ UNCHANGED <<quiet, dest, routes, event, nextEvent, txVars>>

(* A minute passes, in the middle of a transaction too. *)
Later(row) ==
    [status |-> row.status, attempts |-> row.attempts,
     wait |-> IF row.wait > 0 THEN row.wait - 1 ELSE 0,
     age |-> IF row.status = "delivered" /\ row.age < AgeCap THEN row.age + 1 ELSE row.age]

Tick ==
    /\ rows' = [k \in Key |-> Later(rows[k])]
    /\ UNCHANGED <<findingVars, configVars, event, nextEvent, txVars>>

-----------------------------------------------------------------------------
StoreInit ==
    /\ servers = Server
    /\ status = [f \in Fingerprint |-> "absent"]
    /\ severity = [f \in Fingerprint |-> 0]
    /\ quiet = {}
    /\ dest \in [Destination -> {"absent", "disabled", "enabled"}]
    /\ routes = [r \in RouteId |-> NoRoute]
    /\ event = [e \in Event |-> NoEvent]
    /\ nextEvent = 1
    /\ rows = [k \in Key |-> NoRow]
    /\ edits = 0
    /\ txServer = NoServer
    /\ report = [f \in Fingerprint |-> 0]
    /\ todo = {}

Reconcile ==
    \/ \E s \in Server, r \in [Fingerprint -> Severities \cup {0}] : BeginUpsert(s, r)
    \/ \E f \in Fingerprint : UpsertOne(f) \/ ResolveOne(f)
    \/ CommitUpsert

Operate ==
    \/ \E f \in Fingerprint : \/ \E new \in OpenStatus : SetFindingStatus(f, new)
                              \/ ToggleControl(f)
    \/ \E d \in Destination : \/ \E new \in {"enabled", "disabled"} :
                                    \/ CreateNotificationDestination(d, new)
                                    \/ UpdateNotificationDestination(d, new)
                              \/ DeleteDestination(d)
    \/ \E r \in RouteId : \/ \E shape \in RouteShapes :
                                \/ CreateNotificationRoute(r, shape)
                                \/ UpdateNotificationRoute(r, shape)
                          \/ DeleteRoute(r)
    \/ \E s \in Server : DeleteServer(s)

StoreNext == Reconcile \/ Operate \/ Tick

StoreTypeOK ==
    /\ servers \subseteq Server
    /\ status \in [Fingerprint -> OpenStatus \cup {"absent", "resolved"}]
    /\ severity \in [Fingerprint -> Rank]
    /\ quiet \subseteq Fingerprint
    /\ dest \in [Destination -> {"absent", "disabled", "enabled", "deleted"}]
    /\ routes \in [RouteId -> Route]
    /\ event \in [Event -> [finding : Fingerprint, type : Transition] \cup {NoEvent}]
    /\ nextEvent \in 1..MaxEvents + 1
    /\ rows \in [Key -> Row]
    /\ edits \in 0..MaxEdits
    /\ txServer \in Server \cup {NoServer}
    /\ report \in [Fingerprint -> Rank]
    /\ todo \subseteq Fingerprint
=============================================================================
