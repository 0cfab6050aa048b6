------------------------ MODULE OperatorControls_proofs ------------------------
(***************************************************************************)
(* Proofs about OperatorControls, for every number of servers, rules,      *)
(* findings and concurrent requests, every cap and every profile.          *)
(***************************************************************************)
EXTENDS OperatorControls, FiniteSetTheorems, WellFoundedInduction, TLAPS

(***************************************************************************)
(* What was accepted keeps the properties that validation established.     *)
(***************************************************************************)
ValidWindow(w) ==
    /\ w.scope \in WindowScope
    /\ w.start \in Time /\ w.end \in Time
    /\ w.start < w.end
    /\ w.scope.server # 0 \/ w.scope.tag # 0 \/ w.scope.rules # Rule

ValidEntry(x) ==
    /\ x.scope \in SuppressionScope
    /\ x.end \in Time
    /\ x.scope.finding # 0 \/ x.scope.rule # 0
    /\ x.scope.finding # 0 \/ x.scope.server # 0 \/ x.scope.tag # 0

ValidRequest(q) ==
    /\ q.kind \in {"free", "window", "suppression", "override", "apply"}
    /\ q.kind = "window" => ValidWindow(q)
    /\ q.kind = "suppression" => ValidEntry(q)
    /\ q.kind = "override" => q.item \in Override
    /\ q.kind = "apply" => q.entries \in ProfileShapes /\ q.scope \in Scope

RequestsValid ==
    /\ req = [r \in Request |-> req[r]]
    /\ \A r \in Request : ValidRequest(req[r])

TablesFinite == IsFiniteSet(windows) /\ IsFiniteSet(suppressions) /\ IsFiniteSet(overrides)

(* UNIQUE(rule_id, scope_type, scope_value) *)
OverridesUnique ==
    \A o, p \in overrides : o.rule = p.rule /\ o.scope = p.scope => o = p

(***************************************************************************)
(* The cap and the numbers of identifiers count the accepted requests that *)
(* are still to be carried out.                                            *)
(***************************************************************************)
Pending(kind) == {r \in Request : req[r].kind = kind}

PendingCounted ==
    /\ Cardinality(windows) + Cardinality(Pending("window")) < Cap + Cardinality(Request)
    /\ Cardinality(suppressions) + Cardinality(Pending("suppression")) < Cap + Cardinality(Request)
    /\ Cardinality(windows) + Cardinality(suppressions)
         + Cardinality(Pending("window")) + Cardinality(Pending("suppression")) <= ops

IInv ==
    /\ TypeOK
    /\ RequestsValid
    /\ TablesFinite
    /\ OverridesUnique
    /\ PendingCounted

(***************************************************************************)
(* Requests.  Lowering the case of a tag keeps the shape of a scope and    *)
(* gives no tag where there was none.                                      *)
(***************************************************************************)
LEMMA TagLowered ==
  ASSUME NEW t \in Spelling \cup {0}
  PROVE  LowerTag(t) \in Spelling \cup {0} /\ (LowerTag(t) = 0 <=> t = 0)
  BY OperatorControlsAssumption DEF LowerTag

LEMMA WindowScopeLowered ==
  ASSUME NEW scope \in WindowScope
  PROVE  LET low == [scope EXCEPT !.tag = LowerTag(@)] IN
         /\ low \in WindowScope
         /\ low.server = scope.server /\ low.rules = scope.rules
         /\ low.tag = 0 <=> scope.tag = 0
<1>1. [scope EXCEPT !.tag = LowerTag(@)] =
        [server |-> scope.server, tag |-> LowerTag(scope.tag), rules |-> scope.rules]
  BY DEF WindowScope
<1>2. LowerTag(scope.tag) \in Spelling \cup {0} /\ (LowerTag(scope.tag) = 0 <=> scope.tag = 0)
  BY TagLowered DEF WindowScope
<1> QED BY <1>1, <1>2 DEF WindowScope

LEMMA SuppressionScopeLowered ==
  ASSUME NEW scope \in SuppressionScope
  PROVE  LET low == [scope EXCEPT !.tag = LowerTag(@)] IN
         /\ low \in SuppressionScope
         /\ low.finding = scope.finding /\ low.rule = scope.rule /\ low.server = scope.server
         /\ low.tag = 0 <=> scope.tag = 0
<1>1. [scope EXCEPT !.tag = LowerTag(@)] =
        [finding |-> scope.finding, rule |-> scope.rule, server |-> scope.server,
         tag |-> LowerTag(scope.tag)]
  BY DEF SuppressionScope
<1>2. LowerTag(scope.tag) \in Spelling \cup {0} /\ (LowerTag(scope.tag) = 0 <=> scope.tag = 0)
  BY TagLowered DEF SuppressionScope
<1> QED BY <1>1, <1>2 DEF SuppressionScope

LEMMA OverrideLowered ==
  ASSUME NEW o \in Override, o.scope.type = "tag"
  PROVE  [o EXCEPT !.scope.value = Lower[@]] \in Override
<1>1. o.scope.value \in Spelling
  BY DEF Override, Scope
<1>2. [o EXCEPT !.scope.value = Lower[@]] =
        [rule |-> o.rule, scope |-> [o.scope EXCEPT !.value = Lower[@]], value |-> o.value]
  BY DEF Override
<1>3. [o.scope EXCEPT !.value = Lower[@]] = [type |-> "tag", value |-> Lower[o.scope.value]]
  BY DEF Override, Scope
<1>4. [type |-> "tag", value |-> Lower[o.scope.value]] \in Scope
  BY <1>1, OperatorControlsAssumption DEF Scope
<1> QED BY <1>2, <1>3, <1>4 DEF Override

(* The four kinds of requests, as they are accepted. *)
LEMMA AcceptedValid ==
  ASSUME TypeOK, NEW r \in Request, Ask(r)
  PROVE  \E q : Accept(r, q) /\ ValidRequest(q) /\ q.kind # "free"
                /\ (q.kind = "window" => ControlCapacity(windows))
                /\ (q.kind = "suppression" => ControlCapacity(suppressions))
<1>1. CASE \E scope \in WindowScopes, start, end \in Time : AcceptWindow(r, scope, start, end)
  <2>1. PICK scope \in WindowScopes, start \in Time, end \in Time :
              AcceptWindow(r, scope, start, end)
    BY <1>1
  <2> DEFINE low == [scope EXCEPT !.tag = LowerTag(@)]
             q == [kind |-> "window", start |-> start, end |-> end, scope |-> low]
  <2>2. /\ low \in WindowScope
        /\ low.server = scope.server /\ low.rules = scope.rules
        /\ low.tag = 0 <=> scope.tag = 0
    BY WindowScopeLowered, OperatorControlsAssumption
  <2>3. Accept(r, q) /\ ControlCapacity(windows)
    BY <2>1 DEF AcceptWindow
  <2>4. start < end /\ (scope.server # 0 \/ scope.tag # 0 \/ scope.rules # Rule)
    BY <2>1 DEF AcceptWindow
  <2> HIDE DEF low
  <2>5. ValidWindow(q)
    BY <2>2, <2>4 DEF ValidWindow
  <2> QED BY <2>3, <2>5 DEF ValidRequest
<1>2. CASE \E scope \in SuppressionScopes, end \in Time : AcceptSuppression(r, scope, end)
  <2>1. PICK scope \in SuppressionScopes, end \in Time : AcceptSuppression(r, scope, end)
    BY <1>2
  <2> DEFINE low == [scope EXCEPT !.tag = LowerTag(@)]
             q == [kind |-> "suppression", end |-> end, scope |-> low]
  <2>2. /\ low \in SuppressionScope
        /\ low.finding = scope.finding /\ low.rule = scope.rule /\ low.server = scope.server
        /\ low.tag = 0 <=> scope.tag = 0
    BY SuppressionScopeLowered, OperatorControlsAssumption
  <2>3. Accept(r, q) /\ ControlCapacity(suppressions)
    BY <2>1 DEF AcceptSuppression
  <2>4. ValidSuppression(scope)
    BY <2>1 DEF AcceptSuppression
  <2> HIDE DEF low
  <2>5. ValidEntry(q)
    BY <2>2, <2>4 DEF ValidEntry, ValidSuppression
  <2> QED BY <2>3, <2>5 DEF ValidRequest
<1>3. CASE \E o \in OverrideShapes : AcceptOverride(r, o)
  <2>1. PICK o \in OverrideShapes : AcceptOverride(r, o)
    BY <1>3
  <2> DEFINE item == IF o.scope.type = "tag" THEN [o EXCEPT !.scope.value = Lower[@]] ELSE o
             q == [kind |-> "override", item |-> item]
  <2>2. item \in Override
    BY OverrideLowered, OperatorControlsAssumption
  <2>3. Accept(r, q)
    BY <2>1 DEF AcceptOverride
  <2> HIDE DEF item
  <2> QED BY <2>2, <2>3 DEF ValidRequest
<1>4. CASE \E p \in profiles, scope \in Scope, replace \in BOOLEAN :
              AcceptApplication(r, p, scope, replace)
  <2>1. PICK p \in profiles, scope \in Scope, replace \in BOOLEAN :
              AcceptApplication(r, p, scope, replace)
    BY <1>4
  <2> DEFINE q == [kind |-> "apply", entries |-> p, scope |-> scope, replace |-> replace]
  <2>2. Accept(r, q) /\ p \in ProfileShapes
    BY <2>1 DEF AcceptApplication, TypeOK
  <2> QED BY <2>2 DEF ValidRequest
<1> QED BY <1>1, <1>2, <1>3, <1>4 DEF Ask

(***************************************************************************)
(* Counting.  Accepting a request adds it to the pending ones of its kind, *)
(* carrying it out removes it.                                             *)
(***************************************************************************)
LEMMA PendingFinite ==
  ASSUME NEW kind
  PROVE  /\ IsFiniteSet(Pending(kind))
         /\ Cardinality(Pending(kind)) \in Nat
         /\ Cardinality(Request) \in Nat
         /\ \A r \in Request : req[r].kind # kind => Cardinality(Pending(kind)) < Cardinality(Request)
<1>1. Pending(kind) \in SUBSET Request /\ IsFiniteSet(Request)
  BY OperatorControlsAssumption DEF Pending
<1>2. IsFiniteSet(Pending(kind)) /\ Cardinality(Pending(kind)) <= Cardinality(Request)
  BY <1>1, FS_Subset
<1>3. Cardinality(Pending(kind)) \in Nat /\ Cardinality(Request) \in Nat
  BY <1>1, <1>2, FS_CardinalityType
<1>4. ASSUME NEW r \in Request, req[r].kind # kind
      PROVE  Cardinality(Pending(kind)) # Cardinality(Request)
  <2>1. r \notin Pending(kind)
    BY <1>4 DEF Pending
  <2> QED BY <1>1, <2>1, FS_Subset
<1> QED BY <1>2, <1>3, <1>4

LEMMA PendingStep ==
  ASSUME RequestsValid, NEW r \in Request, NEW q, req' = [req EXCEPT ![r] = q], NEW kind
  PROVE  Cardinality(Pending(kind))' =
            Cardinality(Pending(kind)) - (IF req[r].kind = kind THEN 1 ELSE 0)
                                       + (IF q.kind = kind THEN 1 ELSE 0)
<1>1. req'[r] = q /\ \A x \in Request \ {r} : req'[x] = req[x]
  BY DEF RequestsValid
<1>2. IsFiniteSet(Pending(kind)) /\ Cardinality(Pending(kind)) \in Nat
  BY PendingFinite
<1>3. r \in Pending(kind) <=> req[r].kind = kind
  BY DEF Pending
<1>4. CASE q.kind = kind
  <2>1. Pending(kind)' = Pending(kind) \cup {r}
    BY <1>1, <1>4 DEF Pending
  <2>2. Cardinality(Pending(kind) \cup {r}) =
          IF r \in Pending(kind) THEN Cardinality(Pending(kind)) ELSE Cardinality(Pending(kind)) + 1
    BY <1>2, FS_AddElement
  <2>3. Cardinality(Pending(kind))' = Cardinality(Pending(kind) \cup {r})
    BY <2>1
  <2>4. CASE req[r].kind = kind
    BY <1>2, <1>3, <1>4, <2>2, <2>3, <2>4
  <2>5. CASE req[r].kind # kind
    BY <1>2, <1>3, <1>4, <2>2, <2>3, <2>5
  <2> QED BY <2>4, <2>5
<1>5. CASE q.kind # kind
  <2>1. Pending(kind)' = Pending(kind) \ {r}
    BY <1>1, <1>5 DEF Pending
  <2>2. Cardinality(Pending(kind) \ {r}) =
          IF r \in Pending(kind) THEN Cardinality(Pending(kind)) - 1 ELSE Cardinality(Pending(kind))
    BY <1>2, FS_RemoveElement
  <2>3. Cardinality(Pending(kind))' = Cardinality(Pending(kind) \ {r})
    BY <2>1
  <2>4. CASE req[r].kind = kind
    BY <1>2, <1>3, <1>5, <2>2, <2>3, <2>4
  <2>5. CASE req[r].kind # kind
    BY <1>2, <1>3, <1>5, <2>2, <2>3, <2>5
  <2> QED BY <2>4, <2>5
<1> QED BY <1>4, <1>5

LEMMA AddOne ==
  ASSUME NEW S, IsFiniteSet(S), NEW x
  PROVE  /\ IsFiniteSet(S \cup {x})
         /\ Cardinality(S) \in Nat /\ Cardinality(S \cup {x}) \in Nat
         /\ Cardinality(S \cup {x}) <= Cardinality(S) + 1
  BY FS_AddElement, FS_CardinalityType

LEMMA SubsetCount ==
  ASSUME NEW S, IsFiniteSet(S), NEW T, T \subseteq S
  PROVE  /\ IsFiniteSet(T)
         /\ Cardinality(S) \in Nat /\ Cardinality(T) \in Nat
         /\ Cardinality(T) <= Cardinality(S)
<1>1. T \in SUBSET S
  OBVIOUS
<1> QED BY <1>1, FS_Subset, FS_CardinalityType

LEMMA ImageCount ==
  ASSUME NEW S, IsFiniteSet(S), NEW f, DOMAIN f = S, f = [x \in S |-> f[x]]
  PROVE  /\ IsFiniteSet({f[x] : x \in S})
         /\ Cardinality({f[x] : x \in S}) <= Cardinality(S)
<1> DEFINE T == {f[x] : x \in S}
<1>1. f \in Surjection(S, T)
  BY DEF Surjection
<1> HIDE DEF T
<1>2. IsFiniteSet(T) /\ Cardinality(T) <= Cardinality(S)
  BY <1>1, FS_Surjection
<1> QED BY <1>2 DEF T

(* As long as not every number is taken there is one to choose. *)
LEMMA NewIdType ==
  ASSUME IsFiniteSet(windows), IsFiniteSet(suppressions), MaxOps \in Nat,
         Cardinality(windows) + Cardinality(suppressions) < MaxOps
  PROVE  NewId \in 1..MaxOps
<1> DEFINE rows == windows \cup suppressions
           ids == [w \in rows |-> w.id]
           used == {ids[w] : w \in rows}
<1>1. IsFiniteSet(rows) /\ Cardinality(rows) <= Cardinality(windows) + Cardinality(suppressions)
  <2>1. IsFiniteSet(windows \cap suppressions)
    BY FS_Intersection
  <2>2. Cardinality(windows \cap suppressions) \in Nat
    BY <2>1, FS_CardinalityType
  <2>3. Cardinality(windows) \in Nat /\ Cardinality(suppressions) \in Nat
    BY FS_CardinalityType
  <2>4. /\ IsFiniteSet(rows)
        /\ Cardinality(rows) = Cardinality(windows) + Cardinality(suppressions)
                                 - Cardinality(windows \cap suppressions)
    BY FS_Union
  <2>5. Cardinality(rows) \in Nat
    BY <2>4, FS_CardinalityType
  <2> HIDE DEF rows
  <2> QED BY <2>2, <2>3, <2>4, <2>5
<1>2. IsFiniteSet(used) /\ Cardinality(used) <= Cardinality(rows)
  BY <1>1, ImageCount
<1>3. IsFiniteSet(1..MaxOps) /\ Cardinality(1..MaxOps) = MaxOps
  BY FS_Interval
<1>4. Cardinality(used) < MaxOps
  BY <1>1, <1>2, FS_CardinalityType
<1>5. \E x \in 1..MaxOps : x \notin used
  <2>1. SUFFICES ASSUME 1..MaxOps \subseteq used PROVE FALSE
    OBVIOUS
  <2>2. MaxOps <= Cardinality(used)
    BY <1>2, <1>3, <2>1, SubsetCount
  <2> QED BY <1>2, <1>4, <2>2, FS_CardinalityType
<1>6. \E x \in 1..MaxOps : \A w \in windows \cup suppressions : x # w.id
  BY <1>5
<1> QED BY <1>6 DEF NewId
-----------------------------------------------------------------------------
(* The invariant is kept, operation by operation *)

LEMMA ReplacedValid ==
  ASSUME RequestsValid, NEW r \in Request, NEW q, ValidRequest(q), req' = [req EXCEPT ![r] = q]
  PROVE  RequestsValid'
<1>1. req' = [x \in Request |-> IF x = r THEN q ELSE req[x]]
  BY DEF RequestsValid
<1>2. \A x \in Request : ValidRequest(req'[x])
  BY <1>1 DEF RequestsValid
<1>3. \A x \in Request : ValidRequest(req[x])'
  BY <1>2 DEF ValidRequest, ValidWindow, ValidEntry
<1> QED BY <1>1, <1>3 DEF RequestsValid

LEMMA DoneValid ==
  ASSUME RequestsValid, NEW r \in Request, Done(r)
  PROVE  RequestsValid'
<1>1. ValidRequest(Free)
  BY DEF Free, ValidRequest
<1> QED BY <1>1, ReplacedValid DEF Done

LEMMA KindsKnown ==
  ASSUME RequestsValid'
  PROVE  \A x \in Request : req'[x].kind \in {"free", "window", "suppression", "override", "apply"}
  BY DEF RequestsValid, ValidRequest

LEMMA Counts ==
  ASSUME TablesFinite, TypeOK
  PROVE  /\ Cardinality(windows) \in Nat /\ Cardinality(suppressions) \in Nat
         /\ Cardinality(Request) \in Nat /\ Cap \in Nat \ {0} /\ MaxOps \in Nat /\ ops \in 0..MaxOps
         /\ \A kind : Cardinality(Pending(kind)) \in Nat
  BY FS_CardinalityType, PendingFinite, OperatorControlsAssumption DEF TablesFinite, TypeOK

LEMMA AskKeeps ==
  ASSUME IInv, NEW r \in Request, Ask(r)
  PROVE  IInv'
<1>1. TypeOK /\ RequestsValid /\ TablesFinite /\ OverridesUnique /\ PendingCounted
  BY DEF IInv
<1>2. PICK q : /\ Accept(r, q) /\ ValidRequest(q) /\ q.kind # "free"
               /\ q.kind = "window" => ControlCapacity(windows)
               /\ q.kind = "suppression" => ControlCapacity(suppressions)
  BY <1>1, AcceptedValid
<1>3. /\ req[r].kind = "free" /\ ops < MaxOps /\ ops' = ops + 1
      /\ req' = [req EXCEPT ![r] = q]
      /\ UNCHANGED <<clock, servers, windows, suppressions, overrides, profiles>>
  BY <1>2 DEF Accept, tables, Free
<1>4. RequestsValid'
  BY <1>1, <1>2, <1>3, ReplacedValid
<1>5. ops' \in 0..MaxOps
  BY <1>1, <1>3, OperatorControlsAssumption DEF TypeOK
<1>6. TypeOK'
  BY <1>1, <1>3, <1>4, <1>5, KindsKnown DEF TypeOK
<1>7. TablesFinite' /\ OverridesUnique'
  BY <1>1, <1>3 DEF TablesFinite, OverridesUnique
<1>8. PendingCounted'
  <2>1. /\ Cardinality(windows) \in Nat /\ Cardinality(suppressions) \in Nat
        /\ Cardinality(Request) \in Nat /\ Cap \in Nat \ {0} /\ MaxOps \in Nat /\ ops \in 0..MaxOps
        /\ \A kind : Cardinality(Pending(kind)) \in Nat
    BY <1>1, Counts
  <2>2. \A kind : Cardinality(Pending(kind))' =
            Cardinality(Pending(kind)) - (IF req[r].kind = kind THEN 1 ELSE 0)
                                       + (IF q.kind = kind THEN 1 ELSE 0)
    BY <1>1, <1>3, PendingStep
  <2>3. /\ Cardinality(Pending("window")) < Cardinality(Request)
        /\ Cardinality(Pending("suppression")) < Cardinality(Request)
    BY <1>3, PendingFinite
  <2>4. /\ Cardinality(Pending("window"))' =
             Cardinality(Pending("window")) + (IF q.kind = "window" THEN 1 ELSE 0)
        /\ Cardinality(Pending("suppression"))' =
             Cardinality(Pending("suppression")) + (IF q.kind = "suppression" THEN 1 ELSE 0)
    BY <1>3, <2>1, <2>2
  <2>5. /\ q.kind = "window" => Cardinality(windows) < Cap
        /\ q.kind = "suppression" => Cardinality(suppressions) < Cap
    BY <1>2 DEF ControlCapacity
  <2> QED BY <1>1, <1>3, <2>1, <2>3, <2>4, <2>5 DEF PendingCounted
<1> QED BY <1>4, <1>6, <1>7, <1>8 DEF IInv

(***************************************************************************)
(* A request that is carried out: it is pending no more, and the table of  *)
(* its kind has at most one row more.                                      *)
(***************************************************************************)
LEMMA DoneCounted ==
  ASSUME TypeOK, TablesFinite, RequestsValid, NEW r \in Request, Done(r), PendingCounted,
         ops' = ops,
         Cardinality(windows') \in Nat, Cardinality(suppressions') \in Nat,
         Cardinality(windows') <= Cardinality(windows) + (IF req[r].kind = "window" THEN 1 ELSE 0),
         Cardinality(suppressions') <=
            Cardinality(suppressions) + (IF req[r].kind = "suppression" THEN 1 ELSE 0)
  PROVE  PendingCounted'
<1>1. /\ Cardinality(windows) \in Nat /\ Cardinality(suppressions) \in Nat
      /\ Cardinality(Request) \in Nat /\ Cap \in Nat \ {0} /\ MaxOps \in Nat /\ ops \in 0..MaxOps
      /\ \A kind : Cardinality(Pending(kind)) \in Nat
  BY Counts
<1>2. Free.kind = "free"
  BY DEF Free
<1>3. \A kind : Cardinality(Pending(kind))' =
          Cardinality(Pending(kind)) - (IF req[r].kind = kind THEN 1 ELSE 0)
                                     + (IF Free.kind = kind THEN 1 ELSE 0)
  BY PendingStep DEF Done
<1>4. /\ Cardinality(Pending("window"))' =
           Cardinality(Pending("window")) - (IF req[r].kind = "window" THEN 1 ELSE 0)
      /\ Cardinality(Pending("suppression"))' =
           Cardinality(Pending("suppression")) - (IF req[r].kind = "suppression" THEN 1 ELSE 0)
  BY <1>1, <1>2, <1>3
<1>5. /\ Cardinality(windows)' = Cardinality(windows')
      /\ Cardinality(suppressions)' = Cardinality(suppressions')
  OBVIOUS
<1> QED BY <1>1, <1>4, <1>5 DEF PendingCounted

(* There is room for one more identifier. *)
LEMMA PendingLeavesId ==
  ASSUME TypeOK, TablesFinite, PendingCounted, NEW r \in Request,
         req[r].kind \in {"window", "suppression"}
  PROVE  NewId \in 1..MaxOps
<1>1. /\ Cardinality(windows) \in Nat /\ Cardinality(suppressions) \in Nat
      /\ MaxOps \in Nat /\ ops \in 0..MaxOps
      /\ \A kind : Cardinality(Pending(kind)) \in Nat
  BY Counts
<1>2. Cardinality(Pending(req[r].kind)) # 0
  <2>1. r \in Pending(req[r].kind)
    BY DEF Pending
  <2> QED BY <2>1, PendingFinite, FS_EmptySet
<1>3. Cardinality(windows) + Cardinality(suppressions) < MaxOps
  BY <1>1, <1>2 DEF PendingCounted
<1> QED BY <1>1, <1>3, NewIdType DEF TablesFinite

LEMMA CreateWindowKeeps ==
  ASSUME IInv, NEW r \in Request, CreateMaintenanceWindow(r)
  PROVE  IInv'
<1>1. TypeOK /\ RequestsValid /\ TablesFinite /\ OverridesUnique /\ PendingCounted
  BY DEF IInv
<1> DEFINE w == [id |-> NewId, scope |-> req[r].scope, start |-> req[r].start, end |-> req[r].end]
<1>2. /\ req[r].kind = "window" /\ Done(r)
      /\ windows' = windows \/ (windows' = windows \cup {w} /\ TextBefore(w.start, w.end))
      /\ UNCHANGED <<clock, servers, suppressions, overrides, profiles, ops>>
  BY DEF CreateMaintenanceWindow
<1>3. RequestsValid'
  BY <1>1, <1>2, DoneValid
<1>4. /\ w \in Window /\ w.start < w.end
      /\ w.scope.server # 0 \/ w.scope.tag # 0 \/ w.scope.rules # Rule
  <2>1. NewId \in 1..MaxOps
    BY <1>1, <1>2, PendingLeavesId
  <2>2. ValidWindow(req[r])
    BY <1>1, <1>2 DEF RequestsValid, ValidRequest
  <2> QED BY <2>1, <2>2 DEF ValidWindow, Window
<1>5. TypeOK'
  <2> HIDE DEF w
  <2>1. \A x \in windows' : /\ x \in Window
                            /\ x.start < x.end /\ TextBefore(x.start, x.end)
                            /\ x.scope.server # 0 \/ x.scope.tag # 0 \/ x.scope.rules # Rule
    BY <1>1, <1>2, <1>4 DEF TypeOK
  <2> QED BY <1>1, <1>2, <1>3, <2>1, KindsKnown DEF TypeOK
<1>6. /\ IsFiniteSet(windows')
      /\ Cardinality(windows) \in Nat /\ Cardinality(windows') \in Nat
      /\ Cardinality(windows') <= Cardinality(windows) + 1
  <2> HIDE DEF w
  <2>1. CASE windows' = windows
    BY <1>1, <2>1, FS_CardinalityType DEF TablesFinite
  <2>2. CASE windows' = windows \cup {w}
    BY <1>1, <2>2, AddOne DEF TablesFinite
  <2> QED BY <1>2, <2>1, <2>2
<1>7. TablesFinite' /\ OverridesUnique'
  BY <1>1, <1>2, <1>6 DEF TablesFinite, OverridesUnique
<1>8. PendingCounted'
  <2>1. Cardinality(suppressions) \in Nat
    BY <1>1, Counts
  <2> QED BY <1>1, <1>2, <1>6, <2>1, DoneCounted
<1> QED BY <1>3, <1>5, <1>7, <1>8 DEF IInv

LEMMA CreateSuppressionKeeps ==
  ASSUME IInv, NEW r \in Request, CreateSuppression(r)
  PROVE  IInv'
<1>1. TypeOK /\ RequestsValid /\ TablesFinite /\ OverridesUnique /\ PendingCounted
  BY DEF IInv
<1> DEFINE x == [id |-> NewId, scope |-> req[r].scope, end |-> req[r].end]
<1>2. /\ req[r].kind = "suppression" /\ Done(r)
      /\ suppressions' = suppressions \/ suppressions' = suppressions \cup {x}
      /\ UNCHANGED <<clock, servers, windows, overrides, profiles, ops>>
  BY DEF CreateSuppression
<1>3. RequestsValid'
  BY <1>1, <1>2, DoneValid
<1>4. /\ x \in Suppression
      /\ x.scope.finding # 0 \/ x.scope.rule # 0
      /\ x.scope.finding # 0 \/ x.scope.server # 0 \/ x.scope.tag # 0
  <2>1. NewId \in 1..MaxOps
    BY <1>1, <1>2, PendingLeavesId
  <2>2. ValidEntry(req[r])
    BY <1>1, <1>2 DEF RequestsValid, ValidRequest
  <2> QED BY <2>1, <2>2 DEF ValidEntry, Suppression
<1>5. TypeOK'
  <2> HIDE DEF x
  <2>1. \A y \in suppressions' :
          /\ y \in Suppression
          /\ y.scope.finding # 0 \/ y.scope.rule # 0
          /\ y.scope.finding # 0 \/ y.scope.server # 0 \/ y.scope.tag # 0
    BY <1>1, <1>2, <1>4 DEF TypeOK
  <2> QED BY <1>1, <1>2, <1>3, <2>1, KindsKnown DEF TypeOK
<1>6. /\ IsFiniteSet(suppressions')
      /\ Cardinality(suppressions) \in Nat /\ Cardinality(suppressions') \in Nat
      /\ Cardinality(suppressions') <= Cardinality(suppressions) + 1
  <2> HIDE DEF x
  <2>1. CASE suppressions' = suppressions
    BY <1>1, <2>1, FS_CardinalityType DEF TablesFinite
  <2>2. CASE suppressions' = suppressions \cup {x}
    BY <1>1, <2>2, AddOne DEF TablesFinite
  <2> QED BY <1>2, <2>1, <2>2
<1>7. TablesFinite' /\ OverridesUnique'
  BY <1>1, <1>2, <1>6 DEF TablesFinite, OverridesUnique
<1>8. PendingCounted'
  <2>1. Cardinality(windows) \in Nat
    BY <1>1, Counts
  <2> QED BY <1>1, <1>2, <1>6, <2>1, DoneCounted
<1> QED BY <1>3, <1>5, <1>7, <1>8 DEF IInv

(***************************************************************************)
(* Operations on overrides leave one row per rule and scope.               *)
(***************************************************************************)
LEMMA OverrideStepKeeps ==
  ASSUME IInv, NEW r \in Request, req[r].kind \in {"override", "apply"}, Done(r),
         UNCHANGED <<clock, servers, windows, suppressions, profiles, ops>>,
         overrides' \subseteq Override, IsFiniteSet(overrides'), OverridesUnique'
  PROVE  IInv'
<1>1. TypeOK /\ RequestsValid /\ TablesFinite /\ PendingCounted
  BY DEF IInv
<1>2. RequestsValid'
  BY <1>1, DoneValid
<1>3. TypeOK'
  BY <1>1, <1>2, KindsKnown DEF TypeOK
<1>4. TablesFinite'
  BY <1>1 DEF TablesFinite
<1>5. PendingCounted'
  <2>1. Cardinality(windows) \in Nat /\ Cardinality(suppressions) \in Nat
    BY <1>1, Counts
  <2> QED BY <1>1, <2>1, DoneCounted
<1> QED BY <1>2, <1>3, <1>4, <1>5 DEF IInv

LEMMA CreateOverrideKeeps ==
  ASSUME IInv, NEW r \in Request, CreateThresholdOverride(r)
  PROVE  IInv'
<1>1. TypeOK /\ RequestsValid /\ TablesFinite /\ OverridesUnique
  BY DEF IInv
<1> DEFINE o == req[r].item
<1>2. /\ req[r].kind = "override" /\ Done(r)
      /\ overrides' = IF At(o.rule, o.scope) = {} THEN overrides \cup {o} ELSE overrides
      /\ UNCHANGED <<clock, servers, windows, suppressions, profiles, ops>>
  BY DEF CreateThresholdOverride
<1>3. o \in Override
  BY <1>1, <1>2 DEF RequestsValid, ValidRequest
<1>4. overrides' \subseteq Override
  BY <1>1, <1>2, <1>3 DEF TypeOK
<1>5. IsFiniteSet(overrides')
  BY <1>1, <1>2, FS_AddElement DEF TablesFinite
<1>6. OverridesUnique'
  BY <1>1, <1>2 DEF OverridesUnique, At
<1> QED BY <1>2, <1>4, <1>5, <1>6, OverrideStepKeeps

(* What a transaction leaves: all of the profile and what it did not touch. *)
LEMMA AppliedEffect ==
  ASSUME TypeOK, TablesFinite, OverridesUnique,
         NEW p \in ProfileShapes, NEW scope \in Scope, NEW replace
  PROVE  LET new == Applied(p, scope, replace) IN
         /\ new \subseteq Override
         /\ IsFiniteSet(new)
         /\ \A o, q \in new : o.rule = q.rule /\ o.scope = q.scope => o = q
         /\ \/ new = overrides
            \/ /\ \A rule \in DOMAIN p : [rule |-> rule, scope |-> scope, value |-> p[rule]] \in new
               /\ ~replace => overrides \subseteq new
<1> DEFINE new == Applied(p, scope, replace)
           row == [x \in DOMAIN p |-> [rule |-> x, scope |-> scope, value |-> p[x]]]
           added == {row[x] : x \in DOMAIN p}
           gone == UNION {At(x, scope) : x \in DOMAIN p}
<1>1. CASE ~replace /\ \E x \in DOMAIN p : At(x, scope) # {}
  <2>1. new = overrides
    BY <1>1 DEF Applied
  <2> QED BY <2>1 DEF TypeOK, TablesFinite, OverridesUnique
<1>2. CASE ~(~replace /\ \E x \in DOMAIN p : At(x, scope) # {})
  <2>1. new = (overrides \ gone) \cup added
    BY <1>2 DEF Applied
  <2>2. \A o \in overrides : o \in gone <=> o.rule \in DOMAIN p /\ o.scope = scope
    BY DEF At
  <2>3. \A o \in added : /\ o.rule \in DOMAIN p /\ o.scope = scope /\ o = row[o.rule]
                         /\ o \in Override
    BY OperatorControlsAssumption DEF Override
  <2>4. \A rule \in DOMAIN p : [rule |-> rule, scope |-> scope, value |-> p[rule]] \in added
    OBVIOUS
  <2>5. ~replace => gone = {}
    BY <1>2
  <2>6. IsFiniteSet(new)
    <3>1. IsFiniteSet(overrides \ gone)
      BY FS_Difference DEF TablesFinite
    <3>2. IsFiniteSet(DOMAIN p)
      BY OperatorControlsAssumption, SubsetCount
    <3>3. IsFiniteSet(added)
      <4>1. DOMAIN row = DOMAIN p /\ row = [x \in DOMAIN p |-> row[x]]
        OBVIOUS
      <4> HIDE DEF row
      <4> QED BY <3>2, <4>1, ImageCount
    <3> HIDE DEF added, gone
    <3> QED BY <2>1, <3>1, <3>3, FS_Union
  <2> HIDE DEF new, row, added, gone
  <2>7. new \subseteq Override
    BY <2>1, <2>3 DEF TypeOK
  <2>8. \A o, q \in new : o.rule = q.rule /\ o.scope = q.scope => o = q
    BY <2>1, <2>2, <2>3 DEF OverridesUnique
  <2>9. /\ \A rule \in DOMAIN p : [rule |-> rule, scope |-> scope, value |-> p[rule]] \in new
        /\ ~replace => overrides \subseteq new
    BY <2>1, <2>4, <2>5
  <2> QED BY <2>6, <2>7, <2>8, <2>9 DEF new
<1> QED BY <1>1, <1>2

LEMMA ApplyKeeps ==
  ASSUME IInv, NEW r \in Request, ApplyRuleProfile(r)
  PROVE  IInv'
<1>1. TypeOK /\ RequestsValid /\ TablesFinite /\ OverridesUnique
  BY DEF IInv
<1>2. /\ req[r].kind = "apply" /\ Done(r)
      /\ overrides' = Applied(req[r].entries, req[r].scope, req[r].replace)
      /\ UNCHANGED <<clock, servers, windows, suppressions, profiles, ops>>
  BY DEF ApplyRuleProfile
<1>3. req[r].entries \in ProfileShapes /\ req[r].scope \in Scope
  BY <1>1, <1>2 DEF RequestsValid, ValidRequest
<1>4. /\ overrides' \subseteq Override /\ IsFiniteSet(overrides')
      /\ \A o, q \in overrides' : o.rule = q.rule /\ o.scope = q.scope => o = q
  BY <1>1, <1>2, <1>3, AppliedEffect
<1>5. OverridesUnique'
  BY <1>4 DEF OverridesUnique
<1> QED BY <1>2, <1>4, <1>5, OverrideStepKeeps

(***************************************************************************)
(* Deletions, profiles and time: the tables of controls only shrink.       *)
(***************************************************************************)
LEMMA ShrinkKeeps ==
  ASSUME IInv, UNCHANGED <<req, ops>>,
         windows' \subseteq windows, suppressions' \subseteq suppressions,
         overrides' \subseteq overrides,
         clock' \in 0..MaxTime, servers' \subseteq Server, profiles' \subseteq ProfileShapes
  PROVE  IInv'
<1>1. TypeOK /\ RequestsValid /\ TablesFinite /\ OverridesUnique /\ PendingCounted
  BY DEF IInv
<1>2. TypeOK'
  BY <1>1 DEF TypeOK
<1>3. RequestsValid' /\ OverridesUnique'
  BY <1>1 DEF RequestsValid, ValidRequest, ValidWindow, ValidEntry, OverridesUnique
<1>4. TablesFinite'
  BY <1>1, SubsetCount DEF TablesFinite
<1>5. PendingCounted'
  <2>1. /\ Cardinality(windows') \in Nat /\ Cardinality(windows') <= Cardinality(windows)
        /\ Cardinality(suppressions') \in Nat
        /\ Cardinality(suppressions') <= Cardinality(suppressions)
    BY <1>1, SubsetCount DEF TablesFinite
  <2>2. \A kind : Pending(kind)' = Pending(kind)
    BY DEF Pending
  <2>3. /\ Cardinality(windows) \in Nat /\ Cardinality(suppressions) \in Nat
        /\ Cardinality(Request) \in Nat /\ Cap \in Nat \ {0} /\ ops \in Nat
        /\ \A kind : Cardinality(Pending(kind)) \in Nat
    BY <1>1, Counts
  <2> QED BY <1>1, <2>1, <2>2, <2>3 DEF PendingCounted
<1> QED BY <1>2, <1>3, <1>4, <1>5 DEF IInv

LEMMA StepIInv == IInv /\ [Next]_vars => IInv'
<1> SUFFICES ASSUME IInv, [Next]_vars PROVE IInv'
  OBVIOUS
<1>0. /\ clock \in 0..MaxTime /\ servers \subseteq Server /\ profiles \subseteq ProfileShapes
      /\ MaxTime \in Nat
  BY OperatorControlsAssumption DEF IInv, TypeOK
<1>1. ASSUME NEW r \in Request, Ask(r) PROVE IInv'
  BY <1>1, AskKeeps
<1>2. ASSUME NEW r \in Request, Carry(r) PROVE IInv'
  BY <1>2, CreateWindowKeeps, CreateSuppressionKeeps, CreateOverrideKeeps, ApplyKeeps DEF Carry
<1>3. CASE DeleteControl
  BY <1>0, <1>3, ShrinkKeeps DEF DeleteControl
<1>4. ASSUME NEW p \in ProfileShapes, SaveRuleProfile(p) \/ DeleteRuleProfile(p) PROVE IInv'
  BY <1>0, <1>4, ShrinkKeeps DEF SaveRuleProfile, DeleteRuleProfile
<1>5. ASSUME NEW s \in Server, DeleteServer(s) PROVE IInv'
  BY <1>0, <1>5, ShrinkKeeps DEF DeleteServer
<1>6. CASE Tick
  <2>1. clock' \in 0..MaxTime
    BY <1>0, <1>6 DEF Tick
  <2> QED BY <1>0, <1>6, <2>1, ShrinkKeeps DEF Tick, tables
<1>7. CASE UNCHANGED vars
  BY <1>0, <1>7, ShrinkKeeps DEF vars, tables
<1> QED BY <1>1, <1>2, <1>3, <1>4, <1>5, <1>6, <1>7 DEF Next

LEMMA InitIInv == Init => IInv
<1> SUFFICES ASSUME Init PROVE IInv
  OBVIOUS
<1>1. TypeOK
  BY OperatorControlsAssumption DEF Init, TypeOK, Free
<1>2. RequestsValid
  BY DEF Init, RequestsValid, ValidRequest, Free
<1>3. TablesFinite /\ OverridesUnique
  BY FS_EmptySet DEF Init, TablesFinite, OverridesUnique
<1>4. PendingCounted
  <2>1. Pending("window") = {} /\ Pending("suppression") = {}
    BY DEF Init, Pending, Free
  <2>2. Cardinality(Request) \in Nat
    BY OperatorControlsAssumption, FS_CardinalityType
  <2>3. Cardinality({}) = 0
    BY FS_EmptySet
  <2>4. windows = {} /\ suppressions = {} /\ ops = 0
    BY DEF Init
  <2>5. 0 + 0 < Cap + Cardinality(Request)
    BY <2>2, OperatorControlsAssumption
  <2> QED BY <2>1, <2>3, <2>4, <2>5 DEF PendingCounted
<1> QED BY <1>1, <1>2, <1>3, <1>4 DEF IInv
-----------------------------------------------------------------------------
(* Reads *)

(* A limit that is not reached cuts nothing off. *)
LEMMA UnderLimit ==
  ASSUME NEW S, IsFiniteSet(S), Cardinality(S) <= Cap, NEW x \in S, NEW T, T \subseteq S \ {x}
  PROVE  Cardinality(T) < Cap
<1>1. IsFiniteSet(S \ {x}) /\ Cardinality(S \ {x}) = Cardinality(S) - 1
  BY FS_RemoveElement
<1>2. Cardinality(S) \in Nat /\ Cap \in Nat
  BY FS_CardinalityType, OperatorControlsAssumption
<1>3. Cardinality(T) \in Nat /\ Cardinality(T) <= Cardinality(S \ {x})
  BY <1>1, SubsetCount
<1> QED BY <1>1, <1>2, <1>3

LEMMA WindowsListed ==
  ASSUME IsFiniteSet(windows), Cardinality(windows) <= Cap
  PROVE  /\ ActiveWindows = {w \in windows : Running(w)}
         /\ ListMaintenanceWindows = windows
<1>1. ASSUME NEW w \in {v \in windows : Running(v)}
      PROVE  Cardinality({y \in {v \in windows : Running(v)} \ {w} : StartsFirst(y, w)}) < Cap
  BY UnderLimit
<1>2. ASSUME NEW w \in windows
      PROVE  Cardinality({y \in windows \ {w} : EndsLast(y, w)}) < Cap
  BY UnderLimit
<1> QED BY <1>1, <1>2 DEF ActiveWindows, ListMaintenanceWindows, FirstOf

LEMMA SuppressionsListed ==
  ASSUME IsFiniteSet(suppressions), Cardinality(suppressions) <= Cap
  PROVE  /\ ActiveSuppressions = {x \in suppressions : TextBefore(clock, x.end)}
         /\ ListSuppressions = suppressions
<1> DEFINE active == {v \in suppressions : TextBefore(clock, v.end)}
<1>1. ASSUME NEW w \in active
      PROVE  Cardinality({y \in active \ {w} : EndsFirst(y, w)}) < Cap
  BY UnderLimit
<1>2. ASSUME NEW w \in suppressions
      PROVE  Cardinality({y \in suppressions \ {w} : EndsLast(y, w)}) < Cap
  BY UnderLimit
<1> QED BY <1>1, <1>2 DEF ActiveSuppressions, ListSuppressions, FirstOf

(* Away from the second of an instant, its text and its time agree. *)
LEMMA TextTellsTime ==
  ASSUME TypeOK, NEW t \in Time, ~AtEdge(t)
  PROVE  TextBefore(clock, t) <=> clock < t
<1>1. clock \in Time /\ Time \subseteq Int
  BY OperatorControlsAssumption DEF TypeOK, Time
<1>2. /\ Second[clock] \in Nat /\ Second[t] \in Nat /\ Position[clock] \in Nat
      /\ clock <= t => Second[clock] <= Second[t]
      /\ t <= clock => Second[t] <= Second[clock]
  BY <1>1, OperatorControlsAssumption
<1>3. CASE t = clock
  BY <1>1, <1>2, <1>3 DEF TextBefore
<1>4. CASE Second[t] # Second[clock]
  BY <1>1, <1>2, <1>4 DEF TextBefore
<1> QED BY <1>3, <1>4 DEF AtEdge

LEMMA ShownIsEffect == IInv => ShownMatchesEffect
<1> SUFFICES ASSUME IInv, Cardinality(windows) <= Cap, Cardinality(suppressions) <= Cap,
                    NEW f \in Finding
             PROVE  LET shown == {w \in ListMaintenanceWindows :
                                    TemporalState(w) = "active" /\ WindowMatches(w.scope, f)}
                        quiet == {x \in ListSuppressions :
                                    clock < x.end /\ SuppressionMatches(x.scope, f)}
                    IN /\ (\E w \in shown : ~WindowAtEdge(w)) \/ (\E x \in quiet : ~AtEdge(x.end)) =>
                            MatchControls(f) # "none"
                       /\ MatchControls(f) # "none" =>
                            \/ shown # {} \/ quiet # {}
                            \/ \E w \in windows : WindowAtEdge(w) /\ WindowMatches(w.scope, f)
                            \/ \E x \in suppressions : AtEdge(x.end) /\ SuppressionMatches(x.scope, f)
  BY DEF ShownMatchesEffect, ControlsCapped
<1>0. TypeOK /\ IsFiniteSet(windows) /\ IsFiniteSet(suppressions)
  BY DEF IInv, TablesFinite
<1>1. /\ ActiveWindows = {w \in windows : Running(w)}
      /\ ListMaintenanceWindows = windows
  BY <1>0, WindowsListed
<1>2. /\ ActiveSuppressions = {x \in suppressions : TextBefore(clock, x.end)}
      /\ ListSuppressions = suppressions
  BY <1>0, SuppressionsListed
<1>3. ASSUME NEW w \in windows, ~WindowAtEdge(w) PROVE Running(w) <=> TemporalState(w) = "active"
  <2>1. w.start \in Time /\ w.end \in Time /\ ~AtEdge(w.start) /\ ~AtEdge(w.end)
    BY <1>0, <1>3 DEF TypeOK, Window, WindowAtEdge
  <2>2. /\ TextBefore(clock, w.start) <=> clock < w.start
        /\ TextBefore(clock, w.end) <=> clock < w.end
    BY <1>0, <2>1, TextTellsTime
  <2> QED BY <2>2 DEF Running, TemporalState
<1>4. ASSUME NEW x \in suppressions, ~AtEdge(x.end) PROVE TextBefore(clock, x.end) <=> clock < x.end
  <2>1. x.end \in Time
    BY <1>0 DEF TypeOK, Suppression
  <2> QED BY <1>0, <1>4, <2>1, TextTellsTime
<1>5. MatchControls(f) # "none" <=>
        \/ \E w \in windows : Running(w) /\ WindowMatches(w.scope, f)
        \/ \E x \in suppressions : TextBefore(clock, x.end) /\ SuppressionMatches(x.scope, f)
  BY <1>1, <1>2 DEF MatchControls
<1> QED BY <1>1, <1>2, <1>3, <1>4, <1>5, Zenon

(***************************************************************************)
(* Thresholds.  Among the overrides of a rule that match a server there is *)
(* one that beats all others, and it is the one the documentation names.   *)
(***************************************************************************)
LEMMA LeastNatural ==
  ASSUME NEW T, T \subseteq Nat, T # {}
  PROVE  \E x \in T : \A y \in T : x <= y
<1>1. PICK x \in T : \A y \in T : ~ (<<y, x>> \in OpToRel(<, Nat))
  BY WFMin, NatLessThanWellFounded
<1>2. \A y \in T : ~ (y < x)
  BY <1>1 DEF OpToRel
<1> QED BY <1>2

LEMMA OverrideTypes ==
  ASSUME NEW o \in Override
  PROVE  /\ o.scope.type \in {"server", "tag", "global"}
         /\ o.scope.value \in Nat
  BY OperatorControlsAssumption DEF Override, Scope

LEMMA LexicallyFirstExists ==
  ASSUME NEW S, S \subseteq Override, S # {}
  PROVE  /\ LexicallyFirst(S) \in S
         /\ \A x \in S : LexicallyFirst(S).scope.value <= x.scope.value
<1>1. PICK n \in {o.scope.value : o \in S} : \A m \in {o.scope.value : o \in S} : n <= m
  <2>1. {o.scope.value : o \in S} \subseteq Nat /\ {o.scope.value : o \in S} # {}
    BY OverrideTypes
  <2> QED BY <2>1, LeastNatural
<1>2. \E o \in S : \A x \in S : o.scope.value <= x.scope.value
  BY <1>1
<1> QED BY <1>2 DEF LexicallyFirst

LEMMA AllListed ==
  ASSUME IsFiniteSet(overrides), Cardinality(overrides) <= Cap
  PROVE  ListThresholdOverrides = overrides
<1>1. ASSUME NEW o \in overrides
      PROVE  Cardinality({y \in overrides \ {o} : ListsFirst(y, o)}) < Cap
  BY UnderLimit
<1> QED BY <1>1 DEF ListThresholdOverrides, FirstOf

(***************************************************************************)
(* An override of the first type that has one wins: it outranks the later  *)
(* types, and of its own type it is the lexically first, of which UNIQUE   *)
(* allows one only.                                                        *)
(***************************************************************************)
LEMMA WinnerIsChosen ==
  ASSUME TypeOK, OverridesUnique, ListThresholdOverrides = overrides, NEW s, NEW rule \in Rule,
         NEW type \in {"server", "tag", "global"}, OverridesOf(rule, type, s) # {},
         \A t \in {"server", "tag", "global"} :
            Rank(t) > Rank(type) => OverridesOf(rule, t, s) = {}
  PROVE  ApplyThresholdOverrides(s)[rule] = LexicallyFirst(OverridesOf(rule, type, s)).value
<1> DEFINE D == OverridesOf(rule, type, s)
           m == LexicallyFirst(D)
           M == {o \in overrides : ScopeMatches(o.scope, s)}
           E == EffectiveThresholdOverrides(s)
<1>1. m \in D /\ \A x \in D : m.scope.value <= x.scope.value
  <2>1. D \subseteq Override
    BY DEF OverridesOf, TypeOK
  <2> QED BY <2>1, LexicallyFirstExists
<1>2. m \in M /\ m.rule = rule /\ m.scope.type = type
  BY <1>1 DEF OverridesOf
<1>3. E = {o \in M : \A x \in M \ {o} : x.rule = o.rule => Beats(o, x)}
  BY DEF EffectiveThresholdOverrides
<1>4. \A x \in M : /\ x.scope.type \in {"server", "tag", "global"} /\ x.scope.value \in Nat
                   /\ Rank(x.scope.type) \in Nat
  BY OverrideTypes DEF TypeOK, Rank
<1> HIDE DEF m
<1>5. ASSUME NEW x \in M \ {m}, x.rule = rule PROVE Beats(m, x) /\ ~Beats(x, m)
  <2>1. CASE x.scope.type = type
    <3>1. x \in D
      BY <1>5, <2>1 DEF OverridesOf
    <3>2. x.scope.value # m.scope.value
      <4>1. SUFFICES ASSUME x.scope.value = m.scope.value PROVE x = m
        BY <1>5
      <4>2. x.scope \in Scope /\ m.scope \in Scope
        BY <1>2 DEF TypeOK, Override
      <4>3. x.scope = m.scope
        BY <1>2, <2>1, <4>1, <4>2 DEF Scope
      <4> QED BY <1>2, <1>5, <4>3 DEF OverridesUnique
    <3> QED BY <1>1, <1>2, <1>4, <2>1, <3>1, <3>2 DEF Beats
  <2>2. CASE x.scope.type # type
    <3>1. x \in OverridesOf(rule, x.scope.type, s)
      BY <1>5 DEF OverridesOf
    <3>2. ~(Rank(x.scope.type) > Rank(type))
      BY <1>4, <3>1
    <3>3. Rank(x.scope.type) # Rank(type)
      BY <1>4, <2>2 DEF Rank
    <3> QED BY <1>2, <1>4, <3>2, <3>3 DEF Beats
  <2> QED BY <2>1, <2>2
<1>6. m \in E
  BY <1>2, <1>3, <1>5
<1>7. \A o \in E : o.rule = rule => o = m
  BY <1>2, <1>3, <1>5
<1>8. (CHOOSE o \in E : o.rule = rule) = m
  BY <1>2, <1>6, <1>7
<1> QED BY <1>2, <1>6, <1>8 DEF ApplyThresholdOverrides, m

LEMMA ResolutionAsDocumented == IInv => EffectiveWithinCap
<1> SUFFICES ASSUME IInv, Cardinality(overrides) <= Cap, NEW s \in servers, NEW rule \in Rule
             PROVE  ApplyThresholdOverrides(s)[rule] = Documented(s, rule)
  BY DEF EffectiveWithinCap, EffectiveAsDocumented
<1>1. TypeOK /\ OverridesUnique /\ ListThresholdOverrides = overrides
  BY AllListed DEF IInv, TablesFinite
<1>2. Rank("server") = 3 /\ Rank("tag") = 2 /\ Rank("global") = 1
  BY DEF Rank
<1>3. CASE OverridesOf(rule, "server", s) # {}
  <2>1. ApplyThresholdOverrides(s)[rule] = LexicallyFirst(OverridesOf(rule, "server", s)).value
    BY <1>1, <1>2, <1>3, WinnerIsChosen
  <2> QED BY <1>3, <2>1 DEF Documented
<1>4. CASE OverridesOf(rule, "server", s) = {} /\ OverridesOf(rule, "tag", s) # {}
  <2>1. ApplyThresholdOverrides(s)[rule] = LexicallyFirst(OverridesOf(rule, "tag", s)).value
    BY <1>1, <1>2, <1>4, WinnerIsChosen
  <2> QED BY <1>4, <2>1 DEF Documented
<1>5. CASE /\ OverridesOf(rule, "server", s) = {} /\ OverridesOf(rule, "tag", s) = {}
           /\ OverridesOf(rule, "global", s) # {}
  <2>1. ApplyThresholdOverrides(s)[rule] = LexicallyFirst(OverridesOf(rule, "global", s)).value
    BY <1>1, <1>2, <1>5, WinnerIsChosen
  <2> QED BY <1>5, <2>1 DEF Documented
<1>6. CASE /\ OverridesOf(rule, "server", s) = {} /\ OverridesOf(rule, "tag", s) = {}
           /\ OverridesOf(rule, "global", s) = {}
  <2>1. ASSUME NEW o \in EffectiveThresholdOverrides(s), o.rule = rule PROVE FALSE
    <3>1. o \in overrides /\ ScopeMatches(o.scope, s)
      BY <1>1 DEF EffectiveThresholdOverrides
    <3>2. o.scope.type \in {"server", "tag", "global"}
      BY <1>1, <3>1, OverrideTypes DEF TypeOK
    <3> QED BY <1>6, <2>1, <3>1, <3>2 DEF OverridesOf
  <2> QED BY <1>6, <2>1 DEF ApplyThresholdOverrides, Documented
<1> QED BY <1>3, <1>4, <1>5, <1>6
-----------------------------------------------------------------------------
(* The theorems *)

(***************************************************************************)
(* The inductive invariant: accepted requests stay valid, they are counted *)
(* with the rows they will insert, and overrides are unique.               *)
(***************************************************************************)
THEOREM Invariance == Spec => []IInv
  BY InitIInv, StepIInv, PTL DEF Spec

(***************************************************************************)
(* The constraints of migration 006 on windows, suppressions and overrides *)
(* are never violated by a row the API inserts.                            *)
(***************************************************************************)
THEOREM TypeCorrect == Spec => []TypeOK
<1>1. IInv => TypeOK
  BY DEF IInv
<1> QED BY <1>1, Invariance, PTL

(***************************************************************************)
(* controlCapacity is checked before the insert; the cap is exceeded by    *)
(* less than the number of concurrent requests, however many there are.    *)
(***************************************************************************)
THEOREM OverrunIsBounded == Spec => []OverrunBounded
<1>1. IInv => OverrunBounded
  <2> SUFFICES ASSUME IInv PROVE OverrunBounded
    OBVIOUS
  <2>1. /\ Cardinality(windows) \in Nat /\ Cardinality(suppressions) \in Nat
        /\ Cardinality(Request) \in Nat /\ Cap \in Nat \ {0}
        /\ \A kind : Cardinality(Pending(kind)) \in Nat
    BY Counts DEF IInv
  <2> QED BY <2>1 DEF IInv, PendingCounted, OverrunBounded
<1> QED BY <1>1, Invariance, PTL

(***************************************************************************)
(* Up to the cap, the lists of controls show what keeps a finding quiet,   *)
(* except in the second in which a control begins or ends: whatever the    *)
(* texts of the instants in a second are, comparing them (stamp,           *)
(* loadActiveControls) and comparing times (temporalState,                 *)
(* ListSuppressions) differ there only.                                    *)
(***************************************************************************)
THEOREM ListsTellTheTruth == Spec => []ShownMatchesEffect
  BY ShownIsEffect, Invariance, PTL

(***************************************************************************)
(* Up to the cap, the loop of EffectiveThresholdOverrides finds the        *)
(* override the documented order names, for any overrides and tags.        *)
(***************************************************************************)
THEOREM ThresholdsAsDocumented == Spec => []EffectiveWithinCap
  BY ResolutionAsDocumented, Invariance, PTL

(* Nothing but its own transaction ends an accepted application. *)
LEMMA OnlyApplyEnds ==
  ASSUME IInv, [Next]_vars, NEW r \in Request, req[r].kind = "apply", req'[r] = Free
  PROVE  ApplyRuleProfile(r)
<1>1. Free.kind = "free"
  BY DEF Free
<1>2. req = [x \in Request |-> req[x]]
  BY DEF IInv, RequestsValid
<1>3. req' # req
  BY <1>1
<1>4. PICK x \in Request : Ask(x) \/ Carry(x)
  BY <1>3 DEF Next, DeleteControl, SaveRuleProfile, DeleteRuleProfile, DeleteServer, Tick, vars
<1>5. CASE Ask(x)
  <2>1. PICK q : Accept(x, q) /\ q.kind # "free"
    BY <1>5, AcceptedValid DEF IInv
  <2>2. req[x].kind = "free" /\ req' = [req EXCEPT ![x] = q]
    BY <2>1, <1>1 DEF Accept
  <2>3. x # r
    BY <2>2
  <2> QED BY <1>1, <1>2, <2>2, <2>3
<1>6. CASE Carry(x)
  <2>1. req' = [req EXCEPT ![x] = Free]
    BY <1>6 DEF Carry, CreateMaintenanceWindow, CreateSuppression, CreateThresholdOverride,
                ApplyRuleProfile, Done
  <2>2. x = r
    BY <1>1, <1>2, <2>1
  <2> QED BY <1>6, <2>2
          DEF Carry, CreateMaintenanceWindow, CreateSuppression, CreateThresholdOverride
<1> QED BY <1>4, <1>5, <1>6

(***************************************************************************)
(* An application of a profile takes effect whole or not at all, whatever  *)
(* was created between its check and its transaction, and without consent  *)
(* it replaces nothing.                                                    *)
(***************************************************************************)
THEOREM ProfilesAreWhole == Spec => ProfileNeverPartial
<1>1. ASSUME IInv, [Next]_vars, NEW r \in Request, req[r].kind = "apply", req'[r] = Free
      PROVE  \/ overrides' = overrides
             \/ /\ \A rule \in DOMAIN req[r].entries :
                     [rule |-> rule, scope |-> req[r].scope, value |-> req[r].entries[rule]]
                       \in overrides'
                /\ ~req[r].replace => overrides \subseteq overrides'
  <2>1. overrides' = Applied(req[r].entries, req[r].scope, req[r].replace)
    BY <1>1, OnlyApplyEnds DEF ApplyRuleProfile
  <2>2. req[r].entries \in ProfileShapes /\ req[r].scope \in Scope
    BY <1>1 DEF IInv, RequestsValid, ValidRequest
  <2> QED BY <1>1, <2>1, <2>2, AppliedEffect DEF IInv
<1>2. IInv /\ [Next]_vars =>
        [\A r \in Request : req[r].kind = "apply" /\ req'[r] = Free =>
            \/ overrides' = overrides
            \/ /\ \A rule \in DOMAIN req[r].entries :
                    [rule |-> rule, scope |-> req[r].scope, value |-> req[r].entries[rule]]
                      \in overrides'
               /\ ~req[r].replace => overrides \subseteq overrides']_vars
  BY <1>1
<1> QED BY <1>2, Invariance, PTL DEF Spec, ProfileNeverPartial
=============================================================================
