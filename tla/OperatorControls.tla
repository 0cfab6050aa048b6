--------------------------- MODULE OperatorControls ---------------------------
(***************************************************************************)
(* Operator controls: maintenance windows, suppressions, threshold         *)
(* overrides and the rule profiles that set many overrides at once.  A     *)
(* request of the HTTP API is validated, with reads of the store, and then *)
(* carried out by one statement or transaction; requests run concurrently, *)
(* so the store may have changed in between.                               *)
(*                                                                         *)
(* Rules, servers and spellings of tags are numbered in the order in which *)
(* the store sorts them; 0 stands for a scope that is not given.  A tag    *)
(* may be spelled in several ways that differ in case only.                *)
(*                                                                         *)
(* Times are stored as RFC 3339 text and compared as text by the store, as *)
(* times by the API and by what the lists show.  Texts order the seconds,  *)
(* but not the instants in one: the text of a whole second ends in Z,      *)
(* which sorts after the point of a fraction.                              *)
(***************************************************************************)
EXTENDS Integers, FiniteSets

CONSTANTS
    Server, TagsOf,     \* servers; [Server -> SUBSET Spelling], in lower case
    Spelling, Lower,    \* spellings of tags; [Spelling -> Spelling]
    Rule,               \* rules with a threshold
    Finding,            \* findings there may be
    ServerOf, RuleOf,   \* [Finding -> Server], [Finding -> Rule]
    WindowScopes,       \* scopes of maintenance windows that may be asked for
    SuppressionScopes,  \* scopes of suppressions that may be asked for
    OverrideShapes,     \* overrides that may be asked for
    ProfileShapes,      \* profiles: functions from rules to values
    Value,              \* values in the safe range; Default is none of them
    Cap,                \* operatorControlLimit, and the limit of the queries (200)
    MaxDuration,        \* longest window, longest suppression (30 days)
    MaxAhead,           \* how far ahead a window may start (1 year)
    Second, Position,   \* [Time -> Nat]: an instant's second, its text's place in it
    Request,            \* requests that may be under way at once
    MaxTime,            \* bound: ticks
    MaxOps              \* bound: requests accepted

Time == 0..MaxTime + 1
Free == [kind |-> "free"]

WindowScope == [server : Server \cup {0}, tag : Spelling \cup {0}, rules : SUBSET Rule]
SuppressionScope == [finding : Finding \cup {0}, rule : Rule \cup {0},
                     server : Server \cup {0}, tag : Spelling \cup {0}]
Window == [id : 1..MaxOps, scope : WindowScope, start : Time, end : Time]
Suppression == [id : 1..MaxOps, scope : SuppressionScope, end : Time]

Scope == [type : {"global"}, value : {0}]
            \cup [type : {"tag"}, value : Spelling]
            \cup [type : {"server"}, value : Server]
Override == [rule : Rule, scope : Scope, value : Value]

ASSUME OperatorControlsAssumption ==
    /\ Server \cup Spelling \cup Rule \cup Finding \subseteq Nat \ {0}
    /\ TagsOf \in [Server -> SUBSET Spelling]
    /\ Lower \in [Spelling -> Spelling]
    /\ ServerOf \in [Finding -> Server]
    /\ RuleOf \in [Finding -> Rule]
    /\ WindowScopes \subseteq WindowScope
    /\ SuppressionScopes \subseteq SuppressionScope
    /\ OverrideShapes \subseteq Override
    /\ \A p \in ProfileShapes :
        DOMAIN p \subseteq Rule /\ DOMAIN p # {} /\ p \in [DOMAIN p -> Value]
    /\ Cap \in Nat \ {0}
    /\ {MaxDuration, MaxAhead, MaxTime, MaxOps} \subseteq Nat
    /\ Second \in [Time -> Nat] /\ Position \in [Time -> Nat]
    /\ \A t, u \in Time :
        /\ t <= u => Second[t] <= Second[u]
        /\ Second[t] = Second[u] /\ Position[t] = Position[u] => t = u
    /\ IsFiniteSet(Request)
    /\ IsFiniteSet(Rule)

VARIABLES
    clock,          \* the time, in ticks
    servers,        \* the table servers
    windows,        \* the table maintenance_windows
    suppressions,   \* the table finding_suppressions
    overrides,      \* the table threshold_overrides
    profiles,       \* the table rule_profiles
    req,            \* [Request -> what was accepted and is yet to be done]
    ops             \* requests accepted so far

tables == <<windows, suppressions, overrides, profiles>>
vars == <<clock, servers, tables, req, ops>>

FindingExists(f) == ServerOf[f] \in servers

(* The order of the texts of two instants (stamp). *)
TextBefore(t, u) ==
    Second[t] < Second[u] \/ (Second[t] = Second[u] /\ Position[t] < Position[u])

-----------------------------------------------------------------------------
(* Requests: validation *)

ControlCapacity(table) == Cardinality(table) < Cap

Accept(r, accepted) ==
    /\ req[r] = Free
    /\ ops < MaxOps
    /\ ops' = ops + 1
    /\ req' = [req EXCEPT ![r] = accepted]
    /\ UNCHANGED <<clock, servers, tables>>

ServerExists(scope) == scope.server \in servers \cup {0}

(* The tags of windows and suppressions are stored in lower case. *)
LowerTag(t) == IF t = 0 THEN 0 ELSE Lower[t]

AcceptWindow(r, scope, start, end) ==
    /\ scope.server # 0 \/ scope.tag # 0 \/ scope.rules # Rule
    /\ start < end
    /\ clock < end
    /\ end - start <= MaxDuration
    /\ start <= clock + MaxAhead
    /\ ServerExists(scope)
    /\ ControlCapacity(windows)
    /\ Accept(r, [kind |-> "window", start |-> start, end |-> end,
                  scope |-> [scope EXCEPT !.tag = LowerTag(@)]])

(* Mutant of ValidSuppression: a rule may be suppressed everywhere. *)
ValidSuppressionAnywhere(scope) == (scope.finding = 0) # (scope.rule = 0)

(* A finding, or a rule together with a server or a tag. *)
ValidSuppression(scope) ==
    /\ (scope.finding = 0) # (scope.rule = 0)
    /\ scope.rule # 0 => scope.server # 0 \/ scope.tag # 0

AcceptSuppression(r, scope, end) ==
    /\ ValidSuppression(scope)
    /\ scope.finding # 0 => /\ FindingExists(scope.finding)
                            /\ scope.server \in {0, ServerOf[scope.finding]}
    /\ clock < end
    /\ end <= clock + MaxDuration
    /\ ServerExists(scope)
    /\ ControlCapacity(suppressions)
    /\ Accept(r, [kind |-> "suppression", end |-> end,
                  scope |-> [scope EXCEPT !.tag = LowerTag(@)]])

ValidThresholdScope(scope) == scope.type = "server" => scope.value \in servers

(* The tag of a single override is stored in lower case. *)
AcceptOverride(r, o) ==
    /\ ValidThresholdScope(o.scope)
    /\ ControlCapacity(overrides)
    /\ Accept(r, [kind |-> "override",
                  item |-> IF o.scope.type = "tag" THEN [o EXCEPT !.scope.value = Lower[@]] ELSE o])

At(rule, scope) == {o \in overrides : o.rule = rule /\ o.scope = scope}

(* The scope of an application is stored as it was typed; nobody counts. *)
AcceptApplication(r, p, scope, replace) ==
    /\ p \in profiles
    /\ ValidThresholdScope(scope)
    /\ replace \/ \A rule \in DOMAIN p : At(rule, scope) = {}
    /\ Accept(r, [kind |-> "apply", entries |-> p, scope |-> scope, replace |-> replace])

-----------------------------------------------------------------------------
(* Requests: the statement or transaction *)

Done(r) == req' = [req EXCEPT ![r] = Free]

(* Identifiers are random; their order decides among equals beyond Cap only. *)
NewId == CHOOSE x \in 1..MaxOps : \A w \in windows \cup suppressions : x # w.id

(* server_id REFERENCES servers *)
ForeignKeys(scope) == scope.server \in servers \cup {0}

(* CHECK (ends_at > starts_at), of the texts *)
CreateMaintenanceWindow(r) ==
    /\ req[r].kind = "window"
    /\ windows' = IF ForeignKeys(req[r].scope) /\ TextBefore(req[r].start, req[r].end)
                  THEN windows \cup {[id |-> NewId, scope |-> req[r].scope,
                                      start |-> req[r].start, end |-> req[r].end]}
                  ELSE windows
    /\ Done(r)
    /\ UNCHANGED <<clock, servers, suppressions, overrides, profiles, ops>>

CreateSuppression(r) ==
    /\ req[r].kind = "suppression"
    /\ LET scope == req[r].scope IN
       suppressions' = IF ForeignKeys(scope) /\ (scope.finding # 0 => FindingExists(scope.finding))
                       THEN suppressions \cup {[id |-> NewId, scope |-> scope, end |-> req[r].end]}
                       ELSE suppressions
    /\ Done(r)
    /\ UNCHANGED <<clock, servers, windows, overrides, profiles, ops>>

(* UNIQUE(rule_id, scope_type, scope_value) *)
CreateThresholdOverride(r) ==
    /\ req[r].kind = "override"
    /\ LET o == req[r].item IN
       overrides' = IF At(o.rule, o.scope) = {} THEN overrides \cup {o} ELSE overrides
    /\ Done(r)
    /\ UNCHANGED <<clock, servers, windows, suppressions, profiles, ops>>

(* Mutant of Applied: without a transaction, up to the first conflict. *)
AppliedInPart(p, scope, replace) ==
    LET taken == {x \in DOMAIN p : At(x, scope) # {}}
        done == IF replace THEN DOMAIN p ELSE {x \in DOMAIN p : \A y \in taken : x < y}
    IN (overrides \ UNION {At(x, scope) : x \in done})
           \cup {[rule |-> x, scope |-> scope, value |-> p[x]] : x \in done}

(* A conflict that came up since the check rolls everything back. *)
Applied(p, scope, replace) ==
    IF ~replace /\ \E x \in DOMAIN p : At(x, scope) # {} THEN overrides
    ELSE (overrides \ UNION {At(x, scope) : x \in DOMAIN p})
             \cup {[rule |-> x, scope |-> scope, value |-> p[x]] : x \in DOMAIN p}

ApplyRuleProfile(r) ==
    /\ req[r].kind = "apply"
    /\ overrides' = Applied(req[r].entries, req[r].scope, req[r].replace)
    /\ Done(r)
    /\ UNCHANGED <<clock, servers, windows, suppressions, profiles, ops>>

-----------------------------------------------------------------------------
(* Requests that need no check of the store *)

DeleteControl ==
    /\ \/ \E w \in windows : windows' = windows \ {w} /\ UNCHANGED <<suppressions, overrides>>
       \/ \E x \in suppressions : suppressions' = suppressions \ {x} /\ UNCHANGED <<windows, overrides>>
       \/ \E o \in overrides : overrides' = overrides \ {o} /\ UNCHANGED <<windows, suppressions>>
    /\ UNCHANGED <<clock, servers, profiles, req, ops>>

SaveRuleProfile(p) ==
    /\ p \notin profiles
    /\ profiles' = profiles \cup {p}
    /\ UNCHANGED <<clock, servers, windows, suppressions, overrides, req, ops>>

DeleteRuleProfile(p) ==
    /\ p \in profiles
    /\ profiles' = profiles \ {p}
    /\ UNCHANGED <<clock, servers, windows, suppressions, overrides, req, ops>>

(* ON DELETE CASCADE, of a server and of its findings *)
Orphaned(scope, s) ==
    scope.server = s \/ (scope.finding # 0 /\ ServerOf[scope.finding] = s)

(* Overrides hold the server in a column without a reference. *)
DeleteServer(s) ==
    /\ s \in servers
    /\ servers' = servers \ {s}
    /\ windows' = {w \in windows : w.scope.server # s}
    /\ suppressions' = {x \in suppressions : ~Orphaned(x.scope, s)}
    /\ UNCHANGED <<clock, overrides, profiles, req, ops>>

Tick ==
    /\ clock < MaxTime
    /\ clock' = clock + 1
    /\ UNCHANGED <<servers, tables, req, ops>>

-----------------------------------------------------------------------------
(* Reads: which findings are quiet *)

FirstOf(S, Precedes(_, _), n) == {x \in S : Cardinality({y \in S \ {x} : Precedes(y, x)}) < n}

StartsFirst(x, y) == TextBefore(x.start, y.start) \/ (x.start = y.start /\ x.id < y.id)
EndsFirst(x, y) == TextBefore(x.end, y.end) \/ (x.end = y.end /\ x.id < y.id)
EndsLast(x, y) == EndsFirst(y, x)

(* Mutant of Running: a window is active through its last instant. *)
RunningLate(w) == ~TextBefore(clock, w.start) /\ ~TextBefore(w.end, clock)

Running(w) == ~TextBefore(clock, w.start) /\ TextBefore(clock, w.end)

(* loadActiveControls *)
ActiveWindows == FirstOf({w \in windows : Running(w)}, StartsFirst, Cap)
ActiveSuppressions == FirstOf({x \in suppressions : TextBefore(clock, x.end)}, EndsFirst, Cap)

MatchesServer(scope, f) == scope.server \in {0, ServerOf[f]}
MatchesTag(scope, f) == scope.tag = 0 \/ \E t \in TagsOf[ServerOf[f]] : Lower[t] = Lower[scope.tag]
WindowMatches(scope, f) == MatchesServer(scope, f) /\ MatchesTag(scope, f) /\ RuleOf[f] \in scope.rules
SuppressionMatches(scope, f) ==
    /\ scope.finding \in {0, f}
    /\ scope.rule \in {0, RuleOf[f]}
    /\ MatchesServer(scope, f)
    /\ MatchesTag(scope, f)

MatchControls(f) ==
    IF \E w \in ActiveWindows : WindowMatches(w.scope, f) THEN "maintenance"
    ELSE IF \E x \in ActiveSuppressions : SuppressionMatches(x.scope, f) THEN "suppressed"
    ELSE "none"

(* What the lists show. *)
TemporalState(w) ==
    IF clock < w.start THEN "upcoming" ELSE IF clock < w.end THEN "active" ELSE "expired"
ListMaintenanceWindows == FirstOf(windows, EndsLast, Cap)
ListSuppressions == FirstOf(suppressions, EndsLast, Cap)

-----------------------------------------------------------------------------
(* Reads: thresholds *)

TypeOrder == [server |-> 0, tag |-> 1, global |-> 2]
ListsFirst(x, y) ==
    \/ x.rule < y.rule
    \/ x.rule = y.rule /\ TypeOrder[x.scope.type] < TypeOrder[y.scope.type]
    \/ x.rule = y.rule /\ x.scope.type = y.scope.type /\ x.scope.value < y.scope.value

ListThresholdOverrides == FirstOf(overrides, ListsFirst, Cap)

ScopeMatches(scope, s) ==
    \/ scope.type = "global"
    \/ scope.type = "tag" /\ \E t \in TagsOf[s] : Lower[t] = Lower[scope.value]
    \/ scope.type = "server" /\ scope.value = s

(* Mutant of Rank: a tag outranks a server. *)
RankByTag(type) == [global |-> 1, tag |-> 3, server |-> 2][type]

Rank(type) == [global |-> 1, tag |-> 2, server |-> 3][type]

(* The loop keeps the item that beats the others. *)
Beats(x, y) ==
    \/ Rank(x.scope.type) > Rank(y.scope.type)
    \/ Rank(x.scope.type) = Rank(y.scope.type) /\ x.scope.value < y.scope.value

EffectiveThresholdOverrides(s) ==
    LET matching == {o \in ListThresholdOverrides : ScopeMatches(o.scope, s)} IN
    {o \in matching : \A x \in matching \ {o} : x.rule = o.rule => Beats(o, x)}

Default == 0

ApplyThresholdOverrides(s) ==
    [rule \in Rule |->
        IF \E o \in EffectiveThresholdOverrides(s) : o.rule = rule
        THEN (CHOOSE o \in EffectiveThresholdOverrides(s) : o.rule = rule).value
        ELSE Default]

-----------------------------------------------------------------------------
Init ==
    /\ clock = 0
    /\ servers = Server
    /\ windows = {}
    /\ suppressions = {}
    /\ overrides = {}
    /\ profiles = {}
    /\ req = [r \in Request |-> Free]
    /\ ops = 0

Ask(r) ==
    \/ \E scope \in WindowScopes, start, end \in Time : AcceptWindow(r, scope, start, end)
    \/ \E scope \in SuppressionScopes, end \in Time : AcceptSuppression(r, scope, end)
    \/ \E o \in OverrideShapes : AcceptOverride(r, o)
    \/ \E p \in profiles, scope \in Scope, replace \in BOOLEAN : AcceptApplication(r, p, scope, replace)

Carry(r) ==
    \/ CreateMaintenanceWindow(r)
    \/ CreateSuppression(r)
    \/ CreateThresholdOverride(r)
    \/ ApplyRuleProfile(r)

Next ==
    \/ \E r \in Request : Ask(r) \/ Carry(r)
    \/ DeleteControl
    \/ \E p \in ProfileShapes : SaveRuleProfile(p) \/ DeleteRuleProfile(p)
    \/ \E s \in Server : DeleteServer(s)
    \/ Tick

Spec == Init /\ [][Next]_vars

-----------------------------------------------------------------------------
(***************************************************************************)
(* Types of every variable, with the constraints of the tables that the    *)
(* validation of the requests has to guarantee (migration 006).            *)
(***************************************************************************)
TypeOK ==
    /\ clock \in 0..MaxTime
    /\ servers \subseteq Server
    /\ \A w \in windows :
        /\ w \in Window
        /\ w.start < w.end /\ TextBefore(w.start, w.end)
        /\ w.scope.server # 0 \/ w.scope.tag # 0 \/ w.scope.rules # Rule
    /\ \A x \in suppressions :
        /\ x \in Suppression
        /\ x.scope.finding # 0 \/ x.scope.rule # 0
        /\ x.scope.finding # 0 \/ x.scope.server # 0 \/ x.scope.tag # 0
    /\ overrides \subseteq Override
    /\ profiles \subseteq ProfileShapes
    /\ \A r \in Request : req[r].kind \in {"free", "window", "suppression", "override", "apply"}
    /\ ops \in 0..MaxOps

(***************************************************************************)
(* "Each control type is capped at 200 records"                            *)
(* (docs/operator-controls.md); controlCapacity counts before the insert,  *)
(* in a statement of its own.                                              *)
(***************************************************************************)
ControlsCapped ==
    /\ Cardinality(windows) <= Cap
    /\ Cardinality(suppressions) <= Cap

(***************************************************************************)
(* What the code does guarantee: concurrent requests may all pass the      *)
(* check for the last place, and the tables of windows and suppressions    *)
(* exceed the cap by no more than the other requests under way.            *)
(***************************************************************************)
OverrunBounded ==
    /\ Cardinality(windows) < Cap + Cardinality(Request)
    /\ Cardinality(suppressions) < Cap + Cardinality(Request)

(***************************************************************************)
(* The lists and the queue agree while no cap is exceeded: a finding is    *)
(* quiet when the lists show an active window or suppression that matches  *)
(* it, and only then (temporalState and ListSuppressions against           *)
(* loadActiveControls, which compare times and texts and cut off           *)
(* differently).  They may disagree about a control in the second in which *)
(* it begins or ends, except at the very instant.                          *)
(***************************************************************************)
AtEdge(bound) == Second[bound] = Second[clock] /\ bound # clock

WindowAtEdge(w) == AtEdge(w.start) \/ AtEdge(w.end)

ShownMatchesEffect ==
    ControlsCapped =>
        \A f \in Finding : FindingExists(f) =>
            LET shown == {w \in ListMaintenanceWindows :
                            TemporalState(w) = "active" /\ WindowMatches(w.scope, f)}
                quiet == {x \in ListSuppressions :
                            clock < x.end /\ SuppressionMatches(x.scope, f)}
            IN /\ (\E w \in shown : ~WindowAtEdge(w)) \/ (\E x \in quiet : ~AtEdge(x.end)) =>
                    MatchControls(f) # "none"
               /\ MatchControls(f) # "none" =>
                    \/ shown # {} \/ quiet # {}
                    \/ \E w \in windows : WindowAtEdge(w) /\ WindowMatches(w.scope, f)
                    \/ \E x \in suppressions : AtEdge(x.end) /\ SuppressionMatches(x.scope, f)

(***************************************************************************)
(* "Resolution is deterministic: server override; matching tag override    *)
(* (lexically first tag scope if several match); global override; built-in *)
(* default" (docs/operator-controls.md): the threshold a cycle applies is  *)
(* the one all stored overrides determine that way.                        *)
(***************************************************************************)
OverridesOf(rule, type, s) ==
    {o \in overrides : o.rule = rule /\ o.scope.type = type /\ ScopeMatches(o.scope, s)}

LexicallyFirst(S) == CHOOSE o \in S : \A x \in S : o.scope.value <= x.scope.value

Documented(s, rule) ==
    CASE OverridesOf(rule, "server", s) # {} -> LexicallyFirst(OverridesOf(rule, "server", s)).value
      [] OverridesOf(rule, "server", s) = {} /\ OverridesOf(rule, "tag", s) # {} ->
            LexicallyFirst(OverridesOf(rule, "tag", s)).value
      [] OverridesOf(rule, "server", s) = {} /\ OverridesOf(rule, "tag", s) = {}
         /\ OverridesOf(rule, "global", s) # {} ->
            LexicallyFirst(OverridesOf(rule, "global", s)).value
      [] OTHER -> Default

EffectiveAsDocumented ==
    \A s \in servers : \A rule \in Rule : ApplyThresholdOverrides(s)[rule] = Documented(s, rule)

(***************************************************************************)
(* The same as long as the table holds no more overrides than are listed:  *)
(* the loop over the listed overrides finds the documented one             *)
(* (EffectiveThresholdOverrides).                                          *)
(***************************************************************************)
EffectiveWithinCap == Cardinality(overrides) <= Cap => EffectiveAsDocumented

(***************************************************************************)
(* "Application is transactional, so a partial profile is never activated" *)
(* (docs/rule-profiles.md), even when an override of its scope is created  *)
(* after the check for conflicts; and nothing is replaced without consent. *)
(***************************************************************************)
ProfileNeverPartial ==
    [][\A r \in Request : req[r].kind = "apply" /\ req'[r] = Free =>
        \/ overrides' = overrides
        \/ /\ \A rule \in DOMAIN req[r].entries :
                [rule |-> rule, scope |-> req[r].scope, value |-> req[r].entries[rule]] \in overrides'
           /\ ~req[r].replace => overrides \subseteq overrides']_vars
=============================================================================
