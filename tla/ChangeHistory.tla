----------------------------- MODULE ChangeHistory -----------------------------
(***************************************************************************)
(* The change history of the monitored servers and the audit log.          *)
(* Metadata cycles compare the settings of a server with the ones stored   *)
(* before and record a difference as a configuration event; operators      *)
(* record and delete deployment markers and delete servers; every such     *)
(* operation is entered in the audit log.  Each insertion prunes its log   *)
(* by age and by number.                                                   *)
(*                                                                         *)
(* Times are stored, compared and ordered as RFC 3339 text.  A time is a   *)
(* second and the digits of its fraction, which the text gives without     *)
(* trailing zeros, and the order of the texts is not the order of times:   *)
(* within a second, a fraction sorts before its own prefixes.              *)
(***************************************************************************)
EXTENDS Integers, Sequences, FiniteSets

CONSTANTS
    Server,         \* the servers that exist at first
    Setting,        \* values of the monitored settings of a server
    Instants,       \* the times the clock goes through, in order
    Retention,      \* seconds an event is kept (a year in the code)
    Slack,          \* hundredths of a second a deployment may lie ahead (5 minutes)
    Cap,            \* events kept per server (10000 in the code)
    AuditCap,       \* audit entries kept (100000 in the code)
    None,           \* no time and no settings
    MaxEvents,      \* bound: recorded events
    MaxChanges,     \* bound: changes of the settings of a server
    MaxFaults       \* bound: failures and crashes

Digits == {<<>>} \cup {<<d>> : d \in 1..9} \cup {<<d, e>> : d \in 0..9, e \in 1..9}
Time == [s : Nat, f : Digits]

ASSUME ChangeHistoryAssumption ==
    /\ IsFiniteSet(Server)
    /\ Instants \in Seq(Time)
    /\ Instants # <<>>
    /\ {Retention, Slack, MaxEvents, MaxChanges, MaxFaults} \subseteq Nat
    /\ {Cap, AuditCap} \subseteq Nat \ {0}
    /\ None \notin Time \cup Setting

NoSettings == [at |-> None, value |-> None]
NoCycle == [pc |-> "idle", at |-> None, before |-> None, value |-> None]
NoRequest == [op |-> "none"]

VARIABLES
    clock,          \* the current time is Instants[clock]
    exists,         \* servers that are registered
    setting,        \* [Server -> Setting]: what the server really has
    coreAt,         \* [Server -> Time]: stamp of its latest core snapshot
    stored,         \* [Server -> [at, value]]: its latest configuration snapshot
    cycle,          \* [Server -> [pc, at, before, value]]: its metadata cycle
    events,         \* the table change_events
    audit,          \* the table audit_events
    request,        \* the request of the operator that is being served
    nextId,         \* number of the next event
    changes,        \* [Server -> Nat]: changes of its settings so far
    faults          \* failures so far, and cycles on a core snapshot used before

logVars == <<events, audit, nextId>>
vars == <<clock, exists, setting, coreAt, stored, cycle, logVars, request, changes, faults>>

-----------------------------------------------------------------------------
(* Times and their texts *)

Now == Instants[clock]
Hundredths(t) ==
    100 * t.s + (IF Len(t.f) > 0 THEN 10 * t.f[1] ELSE 0) + (IF Len(t.f) > 1 THEN t.f[2] ELSE 0)

(* What follows the seconds in the text; the point sorts first, the Z last. *)
Text(t) == IF t.f = <<>> THEN <<10>> ELSE <<-1>> \o t.f \o <<10>>

TextBefore(a, b) ==
    \/ a.s < b.s
    \/ /\ a.s = b.s
       /\ LET x == Text(a)
              y == Text(b)
          IN  \E i \in DOMAIN x \cap DOMAIN y :
                x[i] < y[i] /\ \A j \in 1..(i - 1) : x[j] = y[j]

Cutoff(t) == [t EXCEPT !.s = @ - Retention]

-----------------------------------------------------------------------------
(* The two logs *)

(* Mutant of Newest: the oldest rows are kept. *)
Oldest(rows, n) ==
    {kept \in SUBSET rows :
        /\ Cardinality(kept) = IF Cardinality(rows) < n THEN Cardinality(rows) ELSE n
        /\ \A k \in kept, d \in rows \ kept : ~TextBefore(d.at, k.at)}

(* Mutant of Newest: one row too many. *)
NewestAndOne(rows, n) ==
    {kept \in SUBSET rows :
        /\ Cardinality(kept) = IF Cardinality(rows) < n + 1 THEN Cardinality(rows) ELSE n + 1
        /\ \A k \in kept, d \in rows \ kept : ~TextBefore(k.at, d.at)}

(* The first n rows by occurred_at; the random ids decide between equal times. *)
Newest(rows, n) ==
    {kept \in SUBSET rows :
        /\ Cardinality(kept) = IF Cardinality(rows) < n THEN Cardinality(rows) ELSE n
        /\ \A k \in kept, d \in rows \ kept : ~TextBefore(k.at, d.at)}

Aged(rows) == {r \in rows : ~TextBefore(r.at, Cutoff(Now))}
Of(s, rows) == {r \in rows : r.server = s}

(* One transaction; without the server, its foreign key refuses the row. *)
RecordChangeEvent(e) ==
    /\ nextId <= MaxEvents
    /\ nextId' = nextId + 1
    /\ LET kept == Aged(events \cup {e})
       IN  \E own \in Newest(Of(e.server, kept), Cap) :
            events' = (kept \ Of(e.server, kept)) \cup own

RecordAuditEvent(about) ==
    audit' \in Newest(Aged(audit \cup {[at |-> Now, about |-> about]}), AuditCap)

Fault == faults < MaxFaults /\ faults' = faults + 1

-----------------------------------------------------------------------------
(* Requests of operators *)

Ask(r) == request' = r

(* The occurrence is checked by time, not by text, and the server by a query. *)
CreateDeploymentEvent(s, at) ==
    /\ request = NoRequest
    /\ s \in exists
    /\ Hundredths(at) <= Hundredths(Now) + Slack
    /\ Hundredths(at) >= Hundredths(Cutoff(Now))
    /\ Ask([op |-> "deploy", server |-> s, at |-> at])
    /\ UNCHANGED <<clock, exists, setting, coreAt, stored, cycle, logVars, changes, faults>>

Deployment(s, at) ==
    [id |-> nextId, server |-> s, kind |-> "deployment", at |-> at, from |-> None, to |-> None]

(* The server may be gone by now. *)
RecordDeployment ==
    /\ request.op = "deploy"
    /\ IF request.server \in exists
       THEN /\ RecordChangeEvent(Deployment(request.server, request.at))
            /\ Ask([op |-> "audit", about |-> <<"deployment.recorded", nextId>>])
       ELSE /\ Ask(NoRequest)
            /\ UNCHANGED <<events, nextId>>
    /\ UNCHANGED <<clock, exists, setting, coreAt, stored, cycle, audit, changes, faults>>

(* Mutant of Deletable: events of any kind. *)
AnyKind(e) == e \in events

(* Detected configuration events are kept. *)
Deletable(e) == e.kind = "deployment"

DeleteDeploymentEvent(e) ==
    /\ request = NoRequest
    /\ Deletable(e)
    /\ events' = events \ {e}
    /\ Ask([op |-> "audit", about |-> <<"deployment.deleted", e.id>>])
    /\ UNCHANGED <<clock, exists, setting, coreAt, stored, cycle, audit, nextId, changes, faults>>

(* With the server go its snapshots and its events. *)
DeleteServer(s) ==
    /\ request = NoRequest
    /\ s \in exists
    /\ exists' = exists \ {s}
    /\ events' = events \ Of(s, events)
    /\ coreAt' = [coreAt EXCEPT ![s] = None]
    /\ stored' = [stored EXCEPT ![s] = NoSettings]
    /\ Ask([op |-> "audit", about |-> <<"server.deleted", s>>])
    /\ UNCHANGED <<clock, setting, cycle, audit, nextId, changes, faults>>

(* The entry is written after the operation; a failure is only logged. *)
WriteAudit ==
    /\ request.op = "audit"
    /\ RecordAuditEvent(request.about)
    /\ Ask(NoRequest)
    /\ UNCHANGED <<clock, exists, setting, coreAt, stored, cycle, events, nextId, changes, faults>>

RequestFails ==
    /\ request.op \in {"deploy", "audit"}
    /\ Fault
    /\ Ask(NoRequest)
    /\ UNCHANGED <<clock, exists, setting, coreAt, stored, cycle, logVars, changes>>

-----------------------------------------------------------------------------
(* Core snapshots and metadata cycles *)

(* Fast and standard cycles save core snapshots; the latest is so by its text. *)
SaveCore(s) ==
    /\ s \in exists
    /\ coreAt' = IF coreAt[s] # None /\ TextBefore(Now, coreAt[s]) THEN coreAt
                 ELSE [coreAt EXCEPT ![s] = Now]
    /\ UNCHANGED <<clock, exists, setting, stored, cycle, logVars, request, changes, faults>>

Step(s, pc, value) == cycle' = [cycle EXCEPT ![s].pc = pc, ![s].value = value]

(***************************************************************************)
(* A metadata cycle takes the stamp of the latest core snapshot and reads  *)
(* the settings stored before.  That no core snapshot was saved since the  *)
(* last metadata cycle counts as a failure: of fast and standard cycles.   *)
(***************************************************************************)
Compare(s, before) ==
    /\ s \in exists
    /\ cycle[s].pc = "idle"
    /\ coreAt[s] # None
    /\ cycle' = [cycle EXCEPT ![s] = [pc |-> "compare", at |-> coreAt[s],
                                      before |-> before, value |-> None]]
    /\ UNCHANGED <<clock, exists, setting, coreAt, stored, logVars, request, changes>>

StartMetadata(s) ==
    /\ Compare(s, stored[s].value)
    /\ IF coreAt[s] = stored[s].at THEN Fault ELSE UNCHANGED faults

(* The error of the read is ignored, and there seem to be no settings before. *)
ReadFails(s) ==
    /\ Compare(s, None)
    /\ Fault

ChangedSettings(s) == cycle[s].before \notin {None, setting[s]}

Configuration(s) ==
    [id |-> nextId, server |-> s, kind |-> "configuration", at |-> cycle[s].at,
     from |-> cycle[s].before, to |-> setting[s]]

(* Mutant of CompareSettings: the first settings are a change too. *)
CompareSettingsAtFirst(s) ==
    /\ cycle[s].pc = "compare"
    /\ Step(s, "save", setting[s])
    /\ IF cycle[s].before # setting[s] /\ s \in exists
       THEN RecordChangeEvent(Configuration(s))
       ELSE UNCHANGED <<events, nextId>>
    /\ UNCHANGED <<clock, exists, setting, coreAt, stored, audit, request, changes, faults>>

(* The event is recorded before the settings are saved. *)
CompareSettings(s) ==
    /\ cycle[s].pc = "compare"
    /\ Step(s, "save", setting[s])
    /\ IF ChangedSettings(s) /\ s \in exists
       THEN RecordChangeEvent(Configuration(s))
       ELSE UNCHANGED <<events, nextId>>
    /\ UNCHANGED <<clock, exists, setting, coreAt, stored, audit, request, changes, faults>>

(* The settings cannot be collected, or the event not be recorded. *)
CompareFails(s) ==
    /\ cycle[s].pc = "compare"
    /\ Fault
    /\ \/ cycle' = [cycle EXCEPT ![s] = NoCycle]
       \/ ChangedSettings(s) /\ Step(s, "save", setting[s])
    /\ UNCHANGED <<clock, exists, setting, coreAt, stored, logVars, request, changes>>

(* Of two rows with one stamp, LatestSnapshot returns the first. *)
SaveSettings(s) ==
    /\ cycle[s].pc = "save"
    /\ cycle' = [cycle EXCEPT ![s] = NoCycle]
    /\ stored' = IF s \in exists /\ (stored[s].at # None => TextBefore(stored[s].at, cycle[s].at))
                 THEN [stored EXCEPT ![s] = [at |-> cycle[s].at, value |-> cycle[s].value]]
                 ELSE stored
    /\ UNCHANGED <<clock, exists, setting, coreAt, logVars, request, changes, faults>>

SaveFails(s) ==
    /\ cycle[s].pc = "save"
    /\ Fault
    /\ cycle' = [cycle EXCEPT ![s] = NoCycle]
    /\ UNCHANGED <<clock, exists, setting, coreAt, stored, logVars, request, changes>>

-----------------------------------------------------------------------------
(* The world *)

Tick ==
    /\ clock < Len(Instants)
    /\ clock' = clock + 1
    /\ UNCHANGED <<exists, setting, coreAt, stored, cycle, logVars, request, changes, faults>>

SettingsChange(s, v) ==
    /\ changes[s] < MaxChanges
    /\ v # setting[s]
    /\ setting' = [setting EXCEPT ![s] = v]
    /\ changes' = [changes EXCEPT ![s] = @ + 1]
    /\ UNCHANGED <<clock, exists, coreAt, stored, cycle, logVars, request, faults>>

Restart ==
    /\ Fault
    /\ cycle' = [s \in Server |-> NoCycle]
    /\ Ask(NoRequest)
    /\ UNCHANGED <<clock, exists, setting, coreAt, stored, logVars, changes>>

Init ==
    /\ clock = 1
    /\ exists = Server
    /\ setting \in [Server -> Setting]
    /\ coreAt = [s \in Server |-> None]
    /\ stored = [s \in Server |-> NoSettings]
    /\ cycle = [s \in Server |-> NoCycle]
    /\ events = {}
    /\ audit = {}
    /\ request = NoRequest
    /\ nextId = 1
    /\ changes = [s \in Server |-> 0]
    /\ faults = 0

Next ==
    \/ \E s \in Server :
        \/ \E i \in DOMAIN Instants : CreateDeploymentEvent(s, Instants[i])
        \/ DeleteServer(s)
        \/ SaveCore(s)
        \/ StartMetadata(s)
        \/ ReadFails(s)
        \/ CompareSettings(s)
        \/ CompareFails(s)
        \/ SaveSettings(s)
        \/ SaveFails(s)
        \/ \E v \in Setting : SettingsChange(s, v)
    \/ RecordDeployment
    \/ \E e \in events : DeleteDeploymentEvent(e)
    \/ WriteAudit
    \/ RequestFails
    \/ Tick
    \/ Restart

Spec == Init /\ [][Next]_vars

-----------------------------------------------------------------------------
(* Types of every variable; each log is within its bound. *)
TypeOK ==
    /\ clock \in DOMAIN Instants
    /\ exists \subseteq Server
    /\ setting \in [Server -> Setting]
    /\ coreAt \in [Server -> Time \cup {None}]
    /\ stored \in [Server -> [at : Time \cup {None}, value : Setting \cup {None}]]
    /\ cycle \in [Server -> [pc : {"idle", "compare", "save"}, at : Time \cup {None},
                             before : Setting \cup {None}, value : Setting \cup {None}]]
    /\ \A e \in events : e.at \in Time /\ e.kind \in {"deployment", "configuration"}
    /\ \A s \in Server : Cardinality(Of(s, events)) <= Cap
    /\ \A e \in audit : e.at \in Time
    /\ Cardinality(audit) <= AuditCap
    /\ request.op \in {"none", "deploy", "audit"}
    /\ nextId \in 1..(MaxEvents + 1)
    /\ changes \in [Server -> 0..MaxChanges]
    /\ faults \in 0..MaxFaults

Detected(s) == {e \in Of(s, events) : e.kind = "configuration"}

(***************************************************************************)
(* Read in the order of the listing, the configuration events of a server  *)
(* lead step by step to the settings that are stored, unless something     *)
(* failed: none is missing in between, none is there twice, and deployment *)
(* markers, retention and the order of the texts do not disturb that.      *)
(***************************************************************************)
ListingExplainsSettings ==
    faults = 0 => \A s \in exists : cycle[s].pc # "save" =>
        \A e \in Detected(s) :
            LET later == {x \in Detected(s) : TextBefore(e.at, x.at)}
                next == {x \in later : \A y \in later : ~TextBefore(y.at, x.at)}
            IN  IF later = {} THEN e.to = stored[s].value
                ELSE \E x \in next : next = {x} /\ x.from = e.to

(***************************************************************************)
(* "Unchanged collections do not create duplicates" (docs/change-          *)
(* history.md): of a server there are never more configuration events than *)
(* its settings changed, but for one per failure: of a save, or of the     *)
(* cycles that move the stamp on.  A crash may cost every server one.      *)
(***************************************************************************)
DuplicatesNeedFailures ==
    \A s \in Server : Cardinality(Detected(s)) <= changes[s] + faults

(* Removed because of its age, up to a second, or of that many newer rows. *)
RightlyPruned(r, kept, n) ==
    \/ Hundredths(r.at) < Hundredths(Cutoff(Now)) + 100
    \/ Cardinality({k \in kept : Hundredths(k.at) + 100 > Hundredths(r.at)}) >= n

(***************************************************************************)
(* Retention keeps the newest although it compares texts: what recording   *)
(* an event or an audit entry removes is older than the retention, or as   *)
(* many rows as the log may hold are newer, both up to one second.         *)
(***************************************************************************)
KeepsNewest ==
    [][/\ events' \ events # {} =>
            \A e \in events \ events' : RightlyPruned(e, Of(e.server, events'), Cap)
       /\ \A a \in audit \ audit' : RightlyPruned(a, audit', AuditCap)]_vars
=============================================================================
