-------------------------- MODULE Dispatcher_proofs --------------------------
(***************************************************************************)
(* Proofs about Dispatcher, for every number of servers, findings,         *)
(* destinations, routes, callers, events and faults.                       *)
(***************************************************************************)
EXTENDS Dispatcher, FiniteSetTheorems, TLAPS

LEMMA NoRowType == NoRow \in Row
  BY FindingStoreAssumption DEF NoRow, NewRow, Row, RowStatus

LEMMA BackoffType == \A n \in Nat : Backoff(n) \in Nat
  BY DEF Backoff

(* Retention only ever removes rows. *)
LEMMA PruneRemoves ==
  ASSUME NEW rs, NEW k \in Key
  PROVE  Prune(rs)[k] \in {rs[k], NoRow}
  BY DEF Prune

LEMMA PruneType ==
  ASSUME NEW rs \in [Key -> Row]
  PROVE  Prune(rs) \in [Key -> Row]
  BY NoRowType DEF Prune

(* What one step of the store may do to a row. *)
Fresh(row) == row = NewRow("pending") \/ row = NewRow("cooldown")

Aged(old, new) ==
  /\ new.status = old.status
  /\ new.attempts = old.attempts
  /\ new.wait \in Nat
  /\ new.wait <= old.wait
  /\ old.status # "delivered" => new.age = old.age

StoreEffect ==
  /\ nextEvent' \in {nextEvent, nextEvent + 1}
  /\ \A k \in Key : \/ rows'[k] = rows[k]
                    \/ rows'[k] = NoRow
                    \/ Aged(rows[k], rows'[k])
                    \/ /\ k[1] = nextEvent
                       /\ nextEvent' = nextEvent + 1
                       /\ Fresh(rows'[k])

LEMMA FreshType == \A row : Fresh(row) => row \in Row
  BY FindingStoreAssumption DEF Fresh, NewRow, Row, RowStatus

LEMMA QueueEffect ==
  ASSUME StoreTypeOK,
         NEW f \in Fingerprint, NEW t \in Transition, NEW rank \in Rank,
         QueueFindingNotification(f, t, rank)
  PROVE  /\ StoreEffect
         /\ event' \in [Event -> [finding : Fingerprint, type : Transition] \cup {NoEvent}]
         /\ nextEvent' \in 1..MaxEvents + 1
         /\ rows' \in [Key -> Row]
<1>1. CASE Targets(f, t, rank) = {}
  BY <1>1 DEF QueueFindingNotification, queueVars, StoreEffect, StoreTypeOK
<1>2. CASE Targets(f, t, rank) # {}
  <2> DEFINE new == WithNewRows(f, t, rank)
  <2>1. /\ nextEvent \in Event
        /\ event' = [event EXCEPT ![nextEvent] = [finding |-> f, type |-> t]]
        /\ nextEvent' = nextEvent + 1
        /\ rows' = Prune(new)
    BY <1>2 DEF QueueFindingNotification
  <2>2. ASSUME NEW k \in Key
        PROVE  new[k] = rows[k] \/ (k[1] = nextEvent /\ Fresh(new[k]))
    BY DEF WithNewRows, QueuedStatus, Fresh
  <2>3. new \in [Key -> Row]
    <3>1. DOMAIN new = Key /\ new = [k \in Key |-> new[k]]
      BY DEF WithNewRows
    <3>2. ASSUME NEW k \in Key PROVE new[k] \in Row
      BY <2>2, FreshType DEF StoreTypeOK
    <3> QED BY <3>1, <3>2
  <2>4. rows' \in [Key -> Row]
    <3> HIDE DEF new
    <3> QED BY <2>1, <2>3, PruneType
  <2>5. ASSUME NEW k \in Key
        PROVE  \/ rows'[k] = rows[k]
               \/ rows'[k] = NoRow
               \/ k[1] = nextEvent /\ Fresh(rows'[k])
    <3> HIDE DEF new
    <3>1. rows'[k] \in {new[k], NoRow}
      BY <2>1, PruneRemoves
    <3> QED BY <3>1, <2>2
  <2>6. event' \in [Event -> [finding : Fingerprint, type : Transition] \cup {NoEvent}]
    BY <2>1 DEF StoreTypeOK
  <2>7. nextEvent' \in 1..MaxEvents + 1
    BY <2>1, FindingStoreAssumption DEF Event
  <2> QED BY <2>1, <2>4, <2>5, <2>6, <2>7 DEF StoreEffect
<1> QED BY <1>1, <1>2

(***************************************************************************)
(* Every operation of the store keeps the types and changes rows only in   *)
(* the four ways of StoreEffect.                                           *)
(***************************************************************************)
LEMMA ReconcileStep ==
  ASSUME StoreTypeOK, Reconcile
  PROVE  StoreTypeOK' /\ StoreEffect
<1> USE FindingStoreAssumption
<1>1. ASSUME NEW s \in Server, NEW r \in [Fingerprint -> Severities \cup {0}],
             BeginUpsert(s, r)
      PROVE  StoreTypeOK' /\ StoreEffect
  <2>1. r \in [Fingerprint -> Rank]
    <3>1. Severities \cup {0} \subseteq Rank
      BY DEF Rank
    <3> QED BY <3>1
  <2> QED BY <1>1, <2>1 DEF BeginUpsert, findingVars, configVars, queueVars,
                            StoreTypeOK, StoreEffect
<1>2. ASSUME NEW f \in Fingerprint, UpsertOne(f)
      PROVE  StoreTypeOK' /\ StoreEffect
  <2>1. status' \in [Fingerprint -> OpenStatus \cup {"absent", "resolved"}]
    BY <1>2 DEF UpsertOne, StoreTypeOK, OpenStatus
  <2>2. /\ severity' \in [Fingerprint -> Rank]
        /\ todo' \subseteq Fingerprint
    BY <1>2 DEF UpsertOne, StoreTypeOK
  <2>3. /\ StoreEffect
        /\ event' \in [Event -> [finding : Fingerprint, type : Transition] \cup {NoEvent}]
        /\ nextEvent' \in 1..MaxEvents + 1
        /\ rows' \in [Key -> Row]
    <3>1. CASE EventType(f) = "none"
      BY <1>2, <3>1 DEF UpsertOne, queueVars, StoreEffect, StoreTypeOK
    <3>2. CASE EventType(f) # "none"
      <4>1. EventType(f) \in Transition
        BY <3>2 DEF EventType, Transition
      <4>2. report[f] \in Rank
        BY DEF StoreTypeOK
      <4>3. QueueFindingNotification(f, EventType(f), report[f])
        BY <1>2, <3>2 DEF UpsertOne
      <4> QED BY <4>1, <4>2, <4>3, QueueEffect
    <3> QED BY <3>1, <3>2
  <2> QED BY <1>2, <2>1, <2>2, <2>3 DEF UpsertOne, configVars, StoreTypeOK
<1>3. ASSUME NEW f \in Fingerprint, ResolveOne(f)
      PROVE  StoreTypeOK' /\ StoreEffect
  <2>1. status' \in [Fingerprint -> OpenStatus \cup {"absent", "resolved"}]
    BY <1>3 DEF ResolveOne, StoreTypeOK
  <2>2. "resolved" \in Transition /\ severity[f] \in Rank
    BY DEF Transition, StoreTypeOK
  <2>3. /\ StoreEffect
        /\ event' \in [Event -> [finding : Fingerprint, type : Transition] \cup {NoEvent}]
        /\ nextEvent' \in 1..MaxEvents + 1
        /\ rows' \in [Key -> Row]
    BY <1>3, <2>2, QueueEffect DEF ResolveOne
  <2> QED BY <1>3, <2>1, <2>3 DEF ResolveOne, configVars, txVars, StoreTypeOK
<1>4. ASSUME CommitUpsert
      PROVE  StoreTypeOK' /\ StoreEffect
  BY <1>4 DEF CommitUpsert, findingVars, configVars, queueVars, StoreTypeOK,
              StoreEffect, Rank
<1> QED BY <1>1, <1>2, <1>3, <1>4 DEF Reconcile

LEMMA OperateStep ==
  ASSUME StoreTypeOK, Operate
  PROVE  StoreTypeOK' /\ StoreEffect
<1> USE FindingStoreAssumption
<1> USE DEF Edit, findingVars, configVars, queueVars, txVars, StoreTypeOK, StoreEffect
<1>1. ASSUME NEW f \in Fingerprint, NEW new \in OpenStatus, SetFindingStatus(f, new)
      PROVE  StoreTypeOK' /\ StoreEffect
  BY <1>1 DEF SetFindingStatus
<1>2. ASSUME NEW f \in Fingerprint, ToggleControl(f)
      PROVE  StoreTypeOK' /\ StoreEffect
  BY <1>2 DEF ToggleControl
<1>3. ASSUME NEW d \in Destination, NEW new \in {"enabled", "disabled"},
             SaveDestination(d, new)
      PROVE  StoreTypeOK' /\ StoreEffect
  BY <1>3 DEF SaveDestination
<1>4. ASSUME NEW d \in Destination, DeleteDestination(d)
      PROVE  StoreTypeOK' /\ StoreEffect
  <2>1. routes' \in [RouteId -> Route]
    <3>1. ASSUME NEW r \in RouteId
          PROVE  WithoutDestination(routes[r], d) \in Route
      <4>1. routes[r] \in Route
        OBVIOUS
      <4> QED BY <4>1 DEF Route, WithoutDestination
    <3> QED BY <1>4, <3>1 DEF DeleteDestination
  <2>2. rows' \in [Key -> Row]
    BY <1>4, NoRowType DEF DeleteDestination
  <2>3. StoreEffect
    BY <1>4 DEF DeleteDestination
  <2> QED BY <1>4, <2>1, <2>2, <2>3 DEF DeleteDestination
<1>5. ASSUME NEW r \in RouteId, NEW shape \in RouteShapes, SaveRoute(r, shape)
      PROVE  StoreTypeOK' /\ StoreEffect
  BY <1>5 DEF SaveRoute
<1>6. ASSUME NEW r \in RouteId, DeleteRoute(r)
      PROVE  StoreTypeOK' /\ StoreEffect
  <2>1. NoRoute \in Route
    BY DEF NoRoute, Route
  <2> QED BY <1>6, <2>1 DEF DeleteRoute
<1>7. ASSUME NEW s \in Server, DeleteServer(s)
      PROVE  StoreTypeOK' /\ StoreEffect
  <2>1. rows' \in [Key -> Row]
    BY <1>7, NoRowType DEF DeleteServer
  <2>2. StoreEffect
    BY <1>7 DEF DeleteServer
  <2>3. status' \in [Fingerprint -> OpenStatus \cup {"absent", "resolved"}]
    BY <1>7 DEF DeleteServer
  <2>4. severity' \in [Fingerprint -> Rank]
    BY <1>7 DEF DeleteServer, Rank
  <2> QED BY <1>7, <2>1, <2>2, <2>3, <2>4 DEF DeleteServer
<1> QED
  BY <1>1, <1>2, <1>3, <1>4, <1>5, <1>6, <1>7
  DEF Operate, CreateNotificationDestination, UpdateNotificationDestination,
      CreateNotificationRoute, UpdateNotificationRoute

LEMMA TickStep ==
  ASSUME StoreTypeOK, Tick
  PROVE  StoreTypeOK' /\ StoreEffect
<1> USE FindingStoreAssumption
<1>1. ASSUME NEW k \in Key
      PROVE  rows'[k] \in Row /\ Aged(rows[k], rows'[k])
  <2>1. rows[k] \in Row
    BY DEF StoreTypeOK
  <2>2. rows'[k] = Later(rows[k])
    BY DEF Tick
  <2> QED BY <2>1, <2>2 DEF Row, Aged, Later
<1>2. rows' \in [Key -> Row]
  BY <1>1 DEF Tick
<1> QED BY <1>1, <1>2 DEF Tick, findingVars, configVars, txVars, StoreTypeOK, StoreEffect

LEMMA StoreStep ==
  ASSUME StoreTypeOK, StoreNext
  PROVE  StoreTypeOK' /\ StoreEffect
  BY ReconcileStep, OperateStep, TickStep DEF StoreNext

-----------------------------------------------------------------------------

LEMMA RecordedType ==
  ASSUME NEW row \in Row, row.attempts < MaxAttempts, NEW ok \in BOOLEAN
  PROVE  Recorded(row, ok) \in Row
<1>1. row.attempts + 1 \in 0..MaxAttempts
  BY FindingStoreAssumption DEF Row
<1>2. Backoff(row.attempts + 1) \in Nat
  BY <1>1, BackoffType
<1> QED BY <1>1, <1>2, FindingStoreAssumption DEF Recorded, Row, RowStatus

(* The items of a batch are deliveries still owed, or gone. *)
LEMMA OwedRow ==
  ASSUME TypeOK, RowShape, BatchesAreOwed,
         NEW c \in Caller, NEW k \in batch[c], rows[k].status # "none"
  PROVE  rows[k] \in Row /\ rows[k].attempts < MaxAttempts
<1>1. k \in Key /\ rows[k] \in Row
  BY DEF TypeOK, StoreTypeOK
<1>2. rows[k].status \in {"pending", "retry"}
  BY DEF BatchesAreOwed
<1> QED BY <1>1, <1>2, FindingStoreAssumption DEF RowShape, Row

(* Types are kept by every step; RecordFindingNotification needs the rest. *)
LEMMA TypeStep ==
  ASSUME TypeOK, RowShape, BatchesAreOwed, [Next]_vars
  PROVE  TypeOK'
<1> USE FindingStoreAssumption, DispatcherAssumption
<1>1. CASE StoreNext /\ UNCHANGED dispatchVars
  BY <1>1, StoreStep DEF TypeOK, dispatchVars
<1>2. ASSUME NEW c \in Caller, CallDispatchPending(c)
      PROVE  TypeOK'
  BY <1>2 DEF CallDispatchPending, storeVars, findingVars, configVars, queueVars, txVars,
              TypeOK, StoreTypeOK
<1>3. ASSUME NEW c \in Caller, LockAndLoad(c)
      PROVE  TypeOK'
  <2>1. PendingFindingNotifications \subseteq Key
    BY DEF PendingFindingNotifications, Due
  <2> QED BY <1>3, <2>1 DEF LockAndLoad, storeVars, findingVars, configVars, queueVars,
                            txVars, TypeOK, StoreTypeOK
<1>4. ASSUME NEW c \in Caller, NEW k \in Key, Send(c, k)
      PROVE  TypeOK'
  BY <1>4 DEF Send, storeVars, findingVars, configVars, queueVars, txVars,
              TypeOK, StoreTypeOK
<1>5. ASSUME NEW c \in Caller, NEW k \in Key, LookupFails(c, k)
      PROVE  TypeOK'
  BY <1>5 DEF LookupFails, storeVars, findingVars, configVars, queueVars, txVars,
              TypeOK, StoreTypeOK
<1>6. ASSUME NEW c \in Caller, NEW k \in Key, RecordFindingNotification(c, k)
      PROVE  TypeOK'
  <2>1. rows' \in [Key -> Row]
    <3>1. CASE rows[k].status = "none"
      BY <1>6, <3>1 DEF RecordFindingNotification, TypeOK, StoreTypeOK
    <3>2. CASE rows[k].status # "none"
      <4>1. k \in batch[c]
        BY <1>6 DEF RecordFindingNotification, IsNext
      <4>2. Recorded(rows[k], pc[c] = "sent") \in Row
        BY <4>1, <3>2, OwedRow, RecordedType
      <4>3. [rows EXCEPT ![k] = Recorded(rows[k], pc[c] = "sent")] \in [Key -> Row]
        BY <4>2 DEF TypeOK, StoreTypeOK
      <4> QED BY <1>6, <3>2, <4>3, PruneType DEF RecordFindingNotification
    <3> QED BY <3>1, <3>2
  <2> QED BY <1>6, <2>1 DEF RecordFindingNotification, findingVars, configVars, txVars,
                            TypeOK, StoreTypeOK
<1>7. ASSUME NEW c \in Caller, NEW k \in Key, RecordFails(c, k)
      PROVE  TypeOK'
  BY <1>7 DEF RecordFails, storeVars, findingVars, configVars, queueVars, txVars,
              TypeOK, StoreTypeOK
<1>8. ASSUME NEW c \in Caller, Unlock(c)
      PROVE  TypeOK'
  BY <1>8 DEF Unlock, storeVars, findingVars, configVars, queueVars, txVars,
              TypeOK, StoreTypeOK
<1>9. CASE Restart
  BY <1>9 DEF Restart, storeVars, findingVars, configVars, queueVars, txVars,
              TypeOK, StoreTypeOK
<1>10. CASE UNCHANGED vars
  BY <1>10 DEF vars, dispatchVars, storeVars, findingVars, configVars, queueVars, txVars,
               TypeOK, StoreTypeOK
<1>11. ASSUME NEW c \in Caller, LoadFails(c)
       PROVE  TypeOK'
  BY <1>11, DispatcherAssumption
  DEF LoadFails, storeVars, findingVars, configVars, queueVars, txVars,
               TypeOK, StoreTypeOK
<1> QED BY <1>1, <1>2, <1>3, <1>4, <1>5, <1>6, <1>7, <1>8, <1>9, <1>10, <1>11 DEF Next, Dispatch

-----------------------------------------------------------------------------
(***************************************************************************)
(* The inductive invariant.  SendsAccounted alone is not inductive: that a *)
(* request under way is the only one rests on the mutex (LockDiscipline),  *)
(* that it is for a row still owed on BatchesAreOwed, and that a new row   *)
(* starts without requests on the last part of LockDiscipline.             *)
(***************************************************************************)
IInv == TypeOK /\ RowShape /\ LockDiscipline /\ BatchesAreOwed /\ SendsAccounted

Working == {"sending", "sent", "unsent"}

(* Mutual exclusion of the calls of DispatchPending. *)
LEMMA OneWorker ==
  ASSUME TypeOK, LockDiscipline,
         NEW c \in Caller, NEW h \in Caller, pc[c] \in Working, pc[h] \in Working
  PROVE  c = h
  BY DEF LockDiscipline, Working

LEMMA KeyType == \A k \in Key : k[1] \in Int /\ k[2] \in Int
<1>1. \A k \in Key : k[1] \in Event /\ k[2] \in Destination
  BY DEF Key
<1>2. Destination \subseteq Int /\ Event \subseteq Int
  BY FindingStoreAssumption DEF Event
<1> QED BY <1>1, <1>2

LEMMA NextIsUnique ==
  ASSUME NEW B \in SUBSET Key, NEW j \in Key, NEW k \in Key, IsNext(j, B), IsNext(k, B)
  PROVE  j = k
<1>1. /\ j[1] \in Int /\ j[2] \in Int /\ k[1] \in Int /\ k[2] \in Int
  BY KeyType
<1>2. j = <<j[1], j[2]>> /\ k = <<k[1], k[2]>>
  BY DEF Key
<1> QED BY <1>1, <1>2 DEF IsNext, Before

(* While c works on k nothing else is under way. *)
LEMMA UnderWayIsMine ==
  ASSUME TypeOK, LockDiscipline,
         NEW c \in Caller, pc[c] \in Working, NEW k \in Key, IsNext(k, batch[c]),
         NEW j \in Key, UnderWay(j)
  PROVE  j = k /\ pc[c] \in {"sent", "unsent"}
<1>1. PICK h \in Caller : pc[h] \in {"sent", "unsent"} /\ IsNext(j, batch[h])
  BY DEF UnderWay
<1>2. h = c
  BY <1>1, OneWorker DEF Working
<1>3. batch[c] \in SUBSET Key
  BY DEF TypeOK
<1> QED BY <1>1, <1>2, <1>3, NextIsUnique

LEMMA InitIInv == Init => IInv
<1> SUFFICES ASSUME Init PROVE IInv
  OBVIOUS
<1> USE FindingStoreAssumption, DispatcherAssumption
<1>1. TypeOK
  <2>1. NoRoute \in Route
    BY DEF NoRoute, Route
  <2>2. 1 \in 1..MaxEvents + 1 /\ 0 \in Rank /\ 0 \in 0..MaxEdits /\ 0 \in 0..MaxFaults
    BY DEF Rank
  <2>3. StoreTypeOK
    BY <2>1, <2>2, NoRowType DEF Init, StoreInit, StoreTypeOK
  <2> QED BY <2>2, <2>3 DEF Init, TypeOK
<1>2. RowShape
  <2>1. Backoff(0) = 0
    BY DEF Backoff
  <2> QED BY <2>1 DEF Init, StoreInit, RowShape, NoRow, NewRow
<1>3. LockDiscipline /\ BatchesAreOwed
  BY DEF Init, StoreInit, LockDiscipline, BatchesAreOwed
<1>4. SendsAccounted
  BY DEF Init, StoreInit, SendsAccounted, NoRow, NewRow
<1> QED BY <1>1, <1>2, <1>3, <1>4 DEF IInv

LEMMA FreshShape ==
  ASSUME NEW row, Fresh(row)
  PROVE  row.status \in {"pending", "cooldown"} /\ row.attempts = 0 /\ row.wait = 0
  BY DEF Fresh, NewRow

(* The invariant survives everything the store does. *)
LEMMA StoreKeepsIInv ==
  ASSUME IInv, StoreNext, UNCHANGED dispatchVars
  PROVE  RowShape' /\ LockDiscipline' /\ BatchesAreOwed' /\ SendsAccounted'
<1> USE FindingStoreAssumption
<1>1. StoreTypeOK /\ StoreTypeOK' /\ StoreEffect
  BY StoreStep DEF IInv, TypeOK
<1>2. /\ nextEvent \in Int /\ nextEvent' \in Int /\ nextEvent <= nextEvent'
      /\ \A k \in Key : k[1] \in Int
  BY <1>1 DEF StoreEffect, StoreTypeOK, Key, Event
<1>3. /\ lock' = lock /\ pc' = pc /\ batch' = batch /\ sends' = sends /\ faults' = faults
  BY DEF dispatchVars
<1>4. RowShape'
  <2> SUFFICES ASSUME NEW k \in Key
               PROVE  LET row == rows'[k] IN
                      /\ row.status \in {"none", "pending", "cooldown"} => row.attempts = 0
                      /\ row.status = "retry" => row.attempts \in 1..MaxAttempts - 1
                      /\ row.status = "delivered" => row.attempts > 0
                      /\ row.status = "failed" => row.attempts = MaxAttempts
                      /\ row.status # "retry" => row.wait = 0
                      /\ row.wait <= Backoff(row.attempts)
    BY DEF RowShape
  <2>1. Backoff(0) = 0
    BY DEF Backoff
  <2>2. rows[k] \in Row /\ rows'[k] \in Row /\ Backoff(rows[k].attempts) \in Nat
    BY <1>1, BackoffType DEF StoreTypeOK, Row
  <2>3. CASE rows'[k] = rows[k]
    BY <2>3 DEF IInv, RowShape
  <2>4. CASE rows'[k] = NoRow
    BY <2>1, <2>4 DEF NoRow, NewRow
  <2>5. CASE Aged(rows[k], rows'[k])
    BY <2>2, <2>5 DEF IInv, RowShape, Aged, Row
  <2>6. CASE Fresh(rows'[k])
    BY <2>1, <2>6, FreshShape
  <2> QED BY <1>1, <2>3, <2>4, <2>5, <2>6 DEF StoreEffect
<1>5. LockDiscipline'
  <2>1. ASSUME NEW k \in Key, k[1] >= nextEvent'
        PROVE  rows'[k] = NoRow /\ sends'[k] = 0
    <3>1. rows[k] = NoRow /\ sends[k] = 0
      BY <1>2, <2>1 DEF IInv, LockDiscipline
    <3>2. CASE Aged(rows[k], rows'[k])
      <4>1. rows[k] \in Row /\ rows'[k] \in Row
        BY <1>1 DEF StoreTypeOK
      <4>2. /\ rows'[k].status = "none" /\ rows'[k].attempts = 0
            /\ rows'[k].wait = 0 /\ rows'[k].age = 0
        BY <3>1, <3>2, <4>1 DEF Aged, NoRow, NewRow, Row
      <4> QED BY <1>3, <3>1, <4>1, <4>2 DEF NoRow, NewRow, Row
    <3>3. ~(k[1] = nextEvent /\ nextEvent' = nextEvent + 1)
      BY <1>2, <2>1
    <3> QED BY <1>1, <1>3, <3>1, <3>2, <3>3 DEF StoreEffect
  <2>2. ASSUME NEW c \in Caller, NEW k \in batch[c]
        PROVE  k[1] < nextEvent'
    <3>1. k \in Key /\ k[1] < nextEvent
      BY DEF IInv, TypeOK, LockDiscipline
    <3> QED BY <1>2, <3>1
  <2> QED BY <1>3, <2>1, <2>2 DEF IInv, LockDiscipline
<1>6. BatchesAreOwed'
  <2> SUFFICES ASSUME NEW c \in Caller, NEW k \in batch[c]
               PROVE  rows'[k].status \in {"none", "pending", "retry"}
    BY <1>3 DEF BatchesAreOwed
  <2>1. k \in Key /\ k[1] < nextEvent /\ rows[k].status \in {"none", "pending", "retry"}
    BY DEF IInv, TypeOK, LockDiscipline, BatchesAreOwed
  <2> QED BY <1>1, <1>2, <2>1 DEF StoreEffect, Aged, NoRow, NewRow
<1>7. SendsAccounted'
  <2> SUFFICES ASSUME NEW k \in Key, rows'[k].status # "none"
               PROVE  sends[k] <= rows'[k].attempts + faults + (IF UnderWay(k) THEN 1 ELSE 0)
    BY <1>3 DEF SendsAccounted, UnderWay
  <2>1. sends[k] \in Nat /\ faults \in Nat
    BY DispatcherAssumption DEF IInv, TypeOK
  <2>2. CASE rows'[k] = rows[k] \/ Aged(rows[k], rows'[k])
    BY <2>2 DEF IInv, SendsAccounted, Aged
  <2>3. CASE k[1] = nextEvent /\ Fresh(rows'[k])
    <3>1. sends[k] = 0
      BY <1>2, <2>3 DEF IInv, LockDiscipline
    <3> QED BY <2>1, <2>3, <3>1, FreshShape
  <2> QED BY <1>1, <2>2, <2>3 DEF StoreEffect, NoRow, NewRow
<1> QED BY <1>4, <1>5, <1>6, <1>7

(* What an attempt leaves in the row. *)
LEMMA RecordedShape ==
  ASSUME NEW row \in Row, row.attempts < MaxAttempts, NEW ok \in BOOLEAN
  PROVE  LET new == Recorded(row, ok) IN
         /\ new.status \in {"delivered", "retry", "failed"}
         /\ new.attempts = row.attempts + 1
         /\ new.status = "retry" => new.attempts \in 1..MaxAttempts - 1
         /\ new.status = "failed" => new.attempts = MaxAttempts
         /\ new.status # "retry" => new.wait = 0
         /\ new.wait <= Backoff(new.attempts)
<1>1. row.attempts + 1 \in 1..MaxAttempts
  BY FindingStoreAssumption DEF Row
<1>2. Backoff(row.attempts + 1) \in Nat
  BY <1>1, BackoffType
<1> QED BY <1>1, <1>2, FindingStoreAssumption DEF Recorded

(* Recording the outcome of the item the holder of the mutex works on. *)
LEMMA RecordKeepsIInv ==
  ASSUME IInv, NEW c \in Caller, NEW k \in Key, RecordFindingNotification(c, k)
  PROVE  RowShape' /\ LockDiscipline' /\ BatchesAreOwed' /\ SendsAccounted'
<1> USE FindingStoreAssumption
<1> DEFINE new == Recorded(rows[k], pc[c] = "sent")
<1>1. /\ TypeOK /\ RowShape /\ LockDiscipline /\ BatchesAreOwed /\ SendsAccounted
  BY DEF IInv
<1>2. /\ pc[c] \in Working /\ pc[c] \in {"sent", "unsent"}
      /\ IsNext(k, batch[c]) /\ k \in batch[c]
      /\ nextEvent' = nextEvent /\ lock' = lock /\ sends' = sends /\ faults' = faults
      /\ batch' = [batch EXCEPT ![c] = batch[c] \ {k}]
      /\ pc' = [pc EXCEPT ![c] = "sending"]
  BY DEF RecordFindingNotification, Working, IsNext
<1>3. ASSUME NEW j \in Key, j # k
      PROVE  rows'[j] = rows[j] \/ rows'[j] = NoRow
  <2>1. CASE rows[k].status # "none"
    <3>1. rows' = Prune([rows EXCEPT ![k] = new])
      BY <2>1 DEF RecordFindingNotification
    <3>2. [rows EXCEPT ![k] = new][j] = rows[j]
      BY <1>1, <1>3 DEF TypeOK, StoreTypeOK
    <3> QED BY <3>1, <3>2, PruneRemoves
  <2> QED BY <2>1 DEF RecordFindingNotification
<1>4. \/ rows'[k] = NoRow
      \/ rows[k].status = "none" /\ rows'[k] = rows[k]
      \/ rows[k].status # "none" /\ rows'[k] = new
  <2>1. CASE rows[k].status # "none"
    <3>1. rows' = Prune([rows EXCEPT ![k] = new])
      BY <2>1 DEF RecordFindingNotification
    <3>2. [rows EXCEPT ![k] = new][k] = new
      BY <1>1 DEF TypeOK, StoreTypeOK
    <3> QED BY <2>1, <3>1, <3>2, PruneRemoves
  <2> QED BY <2>1 DEF RecordFindingNotification
<1>5. rows[k].status # "none" =>
        /\ rows[k] \in Row
        /\ new.status \in {"delivered", "retry", "failed"}
        /\ new.attempts = rows[k].attempts + 1
        /\ new.status = "retry" => new.attempts \in 1..MaxAttempts - 1
        /\ new.status = "failed" => new.attempts = MaxAttempts
        /\ new.status # "retry" => new.wait = 0
        /\ new.wait <= Backoff(new.attempts)
  BY <1>1, <1>2, OwedRow, RecordedShape
<1>6. ~\E j \in Key : UnderWay(j)'
  <2>1. ASSUME NEW h \in Caller, pc'[h] \in {"sent", "unsent"}
        PROVE  FALSE
    <3>1. h # c
      BY <1>1, <1>2, <2>1 DEF TypeOK
    <3>2. pc[h] \in Working
      BY <1>1, <1>2, <2>1, <3>1 DEF TypeOK, Working
    <3> QED BY <1>1, <1>2, <3>1, <3>2, OneWorker
  <2> QED BY <2>1 DEF UnderWay
<1> HIDE DEF new
<1>7. RowShape'
  <2> SUFFICES ASSUME NEW j \in Key
               PROVE  LET row == rows'[j] IN
                      /\ row.status \in {"none", "pending", "cooldown"} => row.attempts = 0
                      /\ row.status = "retry" => row.attempts \in 1..MaxAttempts - 1
                      /\ row.status = "delivered" => row.attempts > 0
                      /\ row.status = "failed" => row.attempts = MaxAttempts
                      /\ row.status # "retry" => row.wait = 0
                      /\ row.wait <= Backoff(row.attempts)
    BY DEF RowShape
  <2>1. CASE rows'[j] = rows[j]
    BY <1>1, <2>1 DEF RowShape
  <2>2. CASE rows'[j] = NoRow
    BY <2>2 DEF NoRow, NewRow, Backoff
  <2>3. CASE j = k /\ rows[k].status # "none" /\ rows'[k] = new
    BY <1>5, <2>3 DEF Row
  <2> QED BY <1>3, <1>4, <2>1, <2>2, <2>3
<1>8. LockDiscipline'
  <2>1. ASSUME NEW j \in Key, j[1] >= nextEvent
        PROVE  rows'[j] = NoRow /\ sends[j] = 0
    <3>1. j # k
      BY <1>1, <1>2, <2>1 DEF LockDiscipline, TypeOK, StoreTypeOK, Key, Event
    <3> QED BY <1>1, <1>3, <2>1, <3>1 DEF LockDiscipline
  <2>2. ASSUME NEW h \in Caller
        PROVE  /\ IF pc'[h] \in {"idle", "waiting"} THEN batch'[h] = {} ELSE lock' = h
               /\ \A j \in batch'[h] : j[1] < nextEvent'
    BY <1>1, <1>2 DEF LockDiscipline, TypeOK
  <2> QED BY <1>2, <2>1, <2>2 DEF LockDiscipline
<1>9. BatchesAreOwed'
  <2> SUFFICES ASSUME NEW h \in Caller, NEW j \in batch'[h]
               PROVE  rows'[j].status \in {"none", "pending", "retry"}
    BY DEF BatchesAreOwed
  <2>1. j \in batch[h] /\ j \in Key
    BY <1>1, <1>2 DEF TypeOK
  <2>2. h = c
    <3>1. pc[h] \in Working
      BY <1>1, <2>1 DEF LockDiscipline, TypeOK, Working
    <3> QED BY <1>1, <1>2, <3>1, OneWorker
  <2>3. j # k
    BY <1>1, <1>2, <2>2 DEF TypeOK
  <2> QED BY <1>1, <1>3, <2>1, <2>3 DEF BatchesAreOwed, NoRow, NewRow
<1>10. SendsAccounted'
  <2> SUFFICES ASSUME NEW j \in Key, rows'[j].status # "none"
               PROVE  sends'[j] <= rows'[j].attempts + faults' + (IF UnderWay(j)' THEN 1 ELSE 0)
    BY DEF SendsAccounted
  <2>0. sends' = sends /\ faults' = faults /\ ~UnderWay(j)'
    BY <1>2, <1>6
  <2>1. sends[j] \in Nat /\ faults \in Nat
    BY <1>1, DispatcherAssumption DEF TypeOK
  <2>2. rows'[j] # NoRow
    BY DEF NoRow, NewRow
  <2>3. CASE j = k
    <3>1. rows[k].status # "none" /\ rows'[k] = new
      BY <1>4, <2>2, <2>3
    <3>2. sends[k] <= rows[k].attempts + faults + 1
      BY <1>1, <1>5, <2>1, <2>3, <3>1 DEF SendsAccounted, Row
    <3> QED BY <1>5, <2>0, <2>1, <2>3, <3>1, <3>2 DEF Row
  <2>4. CASE j # k
    <3>1. rows'[j] = rows[j]
      BY <1>3, <2>2, <2>4
    <3>2. ~UnderWay(j)
      BY <1>1, <1>2, <2>4, UnderWayIsMine
    <3>3. rows[j] \in Row
      BY <1>1 DEF TypeOK, StoreTypeOK
    <3> QED BY <1>1, <2>0, <2>1, <3>1, <3>2, <3>3 DEF SendsAccounted, Row
  <2> QED BY <2>3, <2>4
<1> QED BY <1>7, <1>8, <1>9, <1>10

(* The other steps of a caller and a restart leave the store alone. *)
LEMMA OthersKeepIInv ==
  ASSUME IInv, UNCHANGED storeVars,
         \/ Restart
         \/ \E c \in Caller : \/ CallDispatchPending(c) \/ LockAndLoad(c) \/ Unlock(c)
                              \/ LoadFails(c)
                              \/ \E k \in Key : Send(c, k) \/ LookupFails(c, k) \/ RecordFails(c, k)
  PROVE  RowShape' /\ LockDiscipline' /\ BatchesAreOwed' /\ SendsAccounted'
<1> USE FindingStoreAssumption, DispatcherAssumption
<1>1. /\ TypeOK /\ RowShape /\ LockDiscipline /\ BatchesAreOwed /\ SendsAccounted
  BY DEF IInv
<1>2. rows' = rows /\ nextEvent' = nextEvent
  BY DEF storeVars, queueVars
<1>3. /\ RowShape'
      /\ \A k \in Key : rows[k] \in Row /\ sends[k] \in Nat /\ faults \in Nat
      /\ \A k \in Key : rows[k].attempts \in Nat
      /\ \A k \in Key : k[1] \in Int
      /\ nextEvent \in Int
  BY <1>1, <1>2, KeyType DEF RowShape, TypeOK, StoreTypeOK, Row
<1>4. CASE Restart
  <2>1. \A c \in Caller : pc'[c] = "idle" /\ batch'[c] = {}
    BY <1>4 DEF Restart
  <2>2. faults' = faults + 1 /\ sends' = sends
    BY <1>4 DEF Restart
  <2>3. SendsAccounted'
    BY <1>1, <1>2, <1>3, <2>1, <2>2 DEF SendsAccounted, UnderWay
  <2> QED BY <1>1, <1>2, <1>3, <2>1, <2>2, <2>3 DEF LockDiscipline, BatchesAreOwed
<1>5. ASSUME NEW c \in Caller, CallDispatchPending(c) \/ LockAndLoad(c) \/ Unlock(c)
      PROVE  LockDiscipline' /\ BatchesAreOwed' /\ SendsAccounted'
  <2>1. /\ sends' = sends /\ faults' = faults
        /\ \A h \in Caller \ {c} : pc'[h] = pc[h] /\ batch'[h] = batch[h]
        /\ pc'[c] \notin {"sent", "unsent"}
    BY <1>1, <1>5 DEF CallDispatchPending, LockAndLoad, Unlock, TypeOK
  <2>2. pc[c] \notin {"sent", "unsent"}
    BY <1>5 DEF CallDispatchPending, LockAndLoad, Unlock
  <2>3. SendsAccounted'
    <3>1. ASSUME NEW k \in Key
          PROVE  UnderWay(k)' <=> UnderWay(k)
      BY <2>1, <2>2 DEF UnderWay
    <3> QED BY <1>1, <1>2, <2>1, <3>1 DEF SendsAccounted
  <2>4. LockDiscipline' /\ BatchesAreOwed'
    <3>1. CASE CallDispatchPending(c)
      BY <1>1, <1>2, <3>1 DEF CallDispatchPending, LockDiscipline, BatchesAreOwed, TypeOK
    <3>2. CASE LockAndLoad(c)
      <4>1. ASSUME NEW k \in PendingFindingNotifications
            PROVE  k \in Key /\ rows[k].status \in {"pending", "retry"} /\ k[1] < nextEvent
        <5>1. k \in Key /\ rows[k].status \in {"pending", "retry"}
          BY DEF PendingFindingNotifications, Due, Undelivered
        <5>2. rows[k] # NoRow
          BY <5>1 DEF NoRow, NewRow
        <5> QED BY <1>1, <1>3, <5>1, <5>2 DEF LockDiscipline
      <4>2. \A h \in Caller : pc[h] \in {"idle", "waiting"} /\ batch[h] = {}
        BY <1>1, <3>2 DEF LockAndLoad, Locked, LockDiscipline
      <4>3. /\ lock' = c
            /\ pc' = [pc EXCEPT ![c] = "sending"]
            /\ batch' = [batch EXCEPT ![c] = PendingFindingNotifications]
        BY <3>2 DEF LockAndLoad
      <4>4. /\ pc'[c] = "sending" /\ batch'[c] = PendingFindingNotifications
            /\ \A h \in Caller \ {c} : pc'[h] \in {"idle", "waiting"} /\ batch'[h] = {}
        BY <1>1, <4>2, <4>3 DEF TypeOK
      <4>5. LockDiscipline'
        BY <1>1, <1>2, <2>1, <4>1, <4>3, <4>4 DEF LockDiscipline
      <4>6. BatchesAreOwed'
        BY <1>2, <4>1, <4>4 DEF BatchesAreOwed
      <4> QED BY <4>5, <4>6
    <3>3. CASE Unlock(c)
      <4>1. \A h \in Caller \ {c} : pc[h] \in {"idle", "waiting"}
        BY <1>1, <3>3, OneWorker DEF Unlock, Working, TypeOK
      <4> QED BY <1>1, <1>2, <3>3, <4>1 DEF Unlock, LockDiscipline, BatchesAreOwed, TypeOK
    <3> QED BY <1>5, <3>1, <3>2, <3>3
  <2> QED BY <2>3, <2>4
<1>6. ASSUME NEW c \in Caller, NEW k \in Key, Send(c, k) \/ LookupFails(c, k)
      PROVE  LockDiscipline' /\ BatchesAreOwed' /\ SendsAccounted'
  <2>1. /\ pc[c] = "sending" /\ IsNext(k, batch[c]) /\ k \in batch[c]
        /\ batch' = batch /\ lock' = lock /\ faults' = faults
        /\ sends' = sends \/ sends' = [sends EXCEPT ![k] = sends[k] + 1]
        /\ pc'[c] \in {"sent", "unsent"}
        /\ \A h \in Caller \ {c} : pc'[h] = pc[h]
    BY <1>1, <1>6 DEF Send, LookupFails, IsNext, TypeOK
  <2>2. k[1] < nextEvent
    BY <1>1, <2>1 DEF LockDiscipline
  <2>3. \A j \in Key : ~UnderWay(j)
    BY <1>1, <2>1, UnderWayIsMine DEF Working
  <2>4. UnderWay(k)'
    BY <2>1 DEF UnderWay
  <2>5. SendsAccounted'
    <3> SUFFICES ASSUME NEW j \in Key, rows[j].status # "none"
                 PROVE  sends'[j] <= rows[j].attempts + faults + (IF UnderWay(j)' THEN 1 ELSE 0)
      BY <1>2, <2>1 DEF SendsAccounted
    <3>1. sends[j] <= rows[j].attempts + faults
      BY <1>1, <1>3, <2>3 DEF SendsAccounted
    <3>2. sends'[j] = sends[j] \/ (j = k /\ sends'[j] = sends[j] + 1)
      BY <1>1, <2>1 DEF TypeOK
    <3> QED BY <1>3, <2>4, <3>1, <3>2
  <2>6. LockDiscipline'
    <3>1. ASSUME NEW j \in Key, j[1] >= nextEvent
          PROVE  rows[j] = NoRow /\ sends'[j] = 0
      <4>1. j # k
        BY <1>3, <2>2, <3>1
      <4> QED BY <1>1, <2>1, <3>1, <4>1 DEF LockDiscipline, TypeOK
    <3>2. ASSUME NEW h \in Caller
          PROVE  IF pc'[h] \in {"idle", "waiting"} THEN batch'[h] = {} ELSE lock' = h
      BY <1>1, <2>1 DEF LockDiscipline
    <3> QED BY <1>1, <1>2, <2>1, <3>1, <3>2 DEF LockDiscipline
  <2> QED BY <1>1, <1>2, <2>1, <2>5, <2>6 DEF BatchesAreOwed
<1>7. ASSUME NEW c \in Caller, NEW k \in Key, RecordFails(c, k)
      PROVE  LockDiscipline' /\ BatchesAreOwed' /\ SendsAccounted'
  <2>1. /\ pc[c] \in {"sent", "unsent"} /\ IsNext(k, batch[c])
        /\ lock' = lock /\ sends' = sends /\ faults' = faults + 1
        /\ pc'[c] = "sending" /\ batch'[c] = batch[c] \ {k}
        /\ \A h \in Caller \ {c} : pc'[h] = pc[h] /\ batch'[h] = batch[h]
    BY <1>1, <1>7 DEF RecordFails, TypeOK
  <2>2. LockDiscipline' /\ BatchesAreOwed'
    BY <1>1, <1>2, <2>1 DEF LockDiscipline, BatchesAreOwed
  <2>3. SendsAccounted'
    BY <1>1, <1>2, <1>3, <2>1 DEF SendsAccounted
  <2> QED BY <2>2, <2>3
<1>8. ASSUME NEW c \in Caller, LoadFails(c)
      PROVE  LockDiscipline' /\ BatchesAreOwed' /\ SendsAccounted'
  <2>1. /\ pc[c] = "waiting" /\ pc'[c] = "idle"
        /\ lock' = lock /\ sends' = sends /\ batch' = batch /\ faults' = faults + 1
        /\ \A h \in Caller \ {c} : pc'[h] = pc[h]
    BY <1>1, <1>8 DEF LoadFails, TypeOK
  <2>2. LockDiscipline' /\ BatchesAreOwed'
    BY <1>1, <1>2, <2>1 DEF LockDiscipline, BatchesAreOwed
  <2>3. \A k \in Key : UnderWay(k)' <=> UnderWay(k)
    BY <2>1 DEF UnderWay
  <2>4. SendsAccounted'
    BY <1>1, <1>2, <1>3, <2>1, <2>3 DEF SendsAccounted
  <2> QED BY <2>2, <2>4
<1> QED BY <1>3, <1>4, <1>5, <1>6, <1>7, <1>8

LEMMA StepIInv == IInv /\ [Next]_vars => IInv'
<1> SUFFICES ASSUME IInv, [Next]_vars PROVE IInv'
  OBVIOUS
<1>1. TypeOK'
  BY TypeStep DEF IInv
<1>2. CASE StoreNext /\ UNCHANGED dispatchVars
  BY <1>1, <1>2, StoreKeepsIInv DEF IInv
<1>3. ASSUME NEW c \in Caller, Dispatch(c)
      PROVE  IInv'
  <2>1. ASSUME NEW k \in Key, RecordFindingNotification(c, k)
        PROVE  IInv'
    BY <1>1, <2>1, RecordKeepsIInv DEF IInv
  <2>2. CASE \/ CallDispatchPending(c) \/ LockAndLoad(c) \/ Unlock(c) \/ LoadFails(c)
             \/ \E k \in Key : Send(c, k) \/ LookupFails(c, k) \/ RecordFails(c, k)
    <3>1. UNCHANGED storeVars
      BY <2>2
      DEF CallDispatchPending, LockAndLoad, Unlock, LoadFails, Send, LookupFails, RecordFails
    <3> QED BY <1>1, <2>2, <3>1, OthersKeepIInv DEF IInv
  <2> QED BY <1>3, <2>1, <2>2 DEF Dispatch
<1>4. CASE Restart
  <2>1. UNCHANGED storeVars
    BY <1>4 DEF Restart
  <2> QED BY <1>1, <1>4, <2>1, OthersKeepIInv DEF IInv
<1>5. CASE UNCHANGED vars
  <2>1. /\ RowShape' /\ LockDiscipline' /\ BatchesAreOwed'
    BY <1>5 DEF IInv, vars, storeVars, queueVars, dispatchVars, RowShape, LockDiscipline,
                BatchesAreOwed
  <2>2. SendsAccounted'
    BY <1>5 DEF IInv, vars, storeVars, queueVars, dispatchVars, SendsAccounted, UnderWay
  <2> QED BY <1>1, <2>1, <2>2 DEF IInv
<1> QED BY <1>2, <1>3, <1>4, <1>5 DEF Next

(***************************************************************************)
(* The inductive invariant holds in every reachable state: the types, the  *)
(* shape of delivery rows, the mutex of DispatchPending and the accounts   *)
(* of requests.                                                            *)
(***************************************************************************)
THEOREM Invariance == Spec => []IInv
  BY InitIInv, StepIInv, PTL DEF Spec

(***************************************************************************)
(* Type correctness of the store and the dispatcher.                       *)
(***************************************************************************)
THEOREM TypeCorrect == Spec => []TypeOK
<1>1. IInv => TypeOK
  BY DEF IInv
<1> QED BY <1>1, Invariance, PTL

(***************************************************************************)
(* Concurrent cycles, restarts and lost records included, the requests     *)
(* made for a delivery are accounted for: dispatchMu prevents duplicates.  *)
(***************************************************************************)
THEOREM NoUnaccountedSends == Spec => []SendsAccounted
<1>1. IInv => SendsAccounted
  BY DEF IInv
<1> QED BY <1>1, Invariance, PTL

(***************************************************************************)
(* No request is made for a delivery that is already settled, and the      *)
(* columns of a delivery always agree.                                     *)
(***************************************************************************)
THEOREM SettledRowsLeftAlone == Spec => [](BatchesAreOwed /\ RowShape)
<1>1. IInv => BatchesAreOwed /\ RowShape
  BY DEF IInv
<1> QED BY <1>1, Invariance, PTL

-----------------------------------------------------------------------------
(***************************************************************************)
(* What the history refers to.  An open transaction belongs to a server    *)
(* that exists and its report to findings of that server; events still to  *)
(* be created are empty; a stored delivery is of a destination that was    *)
(* not deleted and of a finding that exists.                               *)
(***************************************************************************)
TxConsistent ==
  /\ ~Idle => txServer \in servers
  /\ \A f \in Fingerprint : report[f] # 0 => ServerOf[f] = txServer
  /\ \A f \in todo : report[f] # 0

FutureEmpty == \A e \in Event : e >= nextEvent => event[e] = NoEvent

EventExists(e) ==
  /\ event[e].finding \in Fingerprint
  /\ ServerOf[event[e].finding] \in servers
  /\ status[event[e].finding] # "absent"

RowsRefer ==
  \A k \in Live(rows) : dest[k[2]] \in {"enabled", "disabled"} /\ EventExists(k[1])

HistoryFits == Cardinality(Live(rows)) <= Keep

(* The last event of f says that it is resolved exactly when it is. *)
LastEvent(e, f) ==
  event[e].finding = f /\ \A x \in Event : x > e => event[x].finding # f

TruthTold ==
  edits = 0 =>
    /\ quiet = {}
    /\ ~ExplicitRouting
    /\ \A f \in Fingerprint : \A e \in Event :
         LastEvent(e, f) /\ severity[f] >= HighRank /\ EnabledDestinations # {} =>
            (event[e].type = "resolved" <=> status[f] = "resolved")

HInv == TxConsistent /\ FutureEmpty /\ RowsRefer /\ HistoryFits /\ TruthTold

(***************************************************************************)
(* Retention.  The order of the history is a strict total order, so the    *)
(* number of newer deliveries tells deliveries apart: those with fewer     *)
(* than Keep newer ones are at most Keep.                                  *)
(***************************************************************************)
LEMMA KeyFinite == IsFiniteSet(Key)
<1>1. IsFiniteSet(Event)
  BY FindingStoreAssumption, FS_Interval DEF Event
<1> QED BY <1>1, FindingStoreAssumption, FS_Product DEF Key

LEMMA NewerOrder ==
  /\ \A j \in Key : ~NewerRow(j, j)
  /\ \A j, k \in Key : j # k => NewerRow(j, k) \/ NewerRow(k, j)
  /\ \A i, j, k \in Key : NewerRow(i, j) /\ NewerRow(j, k) => NewerRow(i, k)
<1>1. \A k \in Key : k = <<k[1], k[2]>>
  BY DEF Key
<1> QED BY <1>1, KeyType DEF NewerRow

LEMMA MoreAreNewer ==
  ASSUME NEW L \in SUBSET Key, NEW j \in L, NEW k \in L, NewerRow(j, k)
  PROVE  Cardinality({i \in L : NewerRow(i, j)}) < Cardinality({i \in L : NewerRow(i, k)})
<1> DEFINE A == {i \in L : NewerRow(i, j)}
           B == {i \in L : NewerRow(i, k)}
<1>1. IsFiniteSet(B)
  BY KeyFinite, FS_Subset
<1>2. A \subseteq B /\ A # B
  BY NewerOrder
<1>3. IsFiniteSet(A) /\ Cardinality(A) <= Cardinality(B) /\ Cardinality(A) # Cardinality(B)
  BY <1>1, <1>2, FS_Subset
<1>4. Cardinality(A) \in Nat /\ Cardinality(B) \in Nat
  BY <1>1, <1>3, FS_CardinalityType
<1> QED BY <1>3, <1>4

LEMMA PruneFits ==
  ASSUME NEW rs
  PROVE  Cardinality(Live(Prune(rs))) <= Keep
<1> USE FindingStoreAssumption
<1> DEFINE S == Live(Prune(rs))
           L == Live(rs)
           newer(k) == Cardinality({i \in L : NewerRow(i, k)})
<1>1. L \subseteq Key
  BY DEF Live
<1>2. ASSUME NEW k \in S
      PROVE  k \in L /\ newer(k) \in 0..Keep - 1
  <2>1. k \in Key /\ Prune(rs)[k].status # "none"
    BY DEF Live
  <2>2. newer(k) < Keep /\ Prune(rs)[k] = rs[k]
    BY <2>1 DEF Prune, NoRow, NewRow
  <2>3. newer(k) \in Nat
    BY <1>1, KeyFinite, FS_Subset, FS_CardinalityType
  <2> QED BY <2>1, <2>2, <2>3 DEF Live
<1>3. IsFiniteSet(S) /\ Cardinality(S) \in Nat
  <2>1. S \subseteq Key
    BY DEF Live
  <2> QED BY <2>1, KeyFinite, FS_Subset, FS_CardinalityType
<1>4. IsFiniteSet(0..Keep - 1) /\ Cardinality(0..Keep - 1) = Keep
  BY FS_Interval
<1> SUFFICES ASSUME Keep < Cardinality(S) PROVE FALSE
  BY <1>3
<1> DEFINE position == [k \in S |-> newer(k)]
<1>5. position \in [S -> 0..Keep - 1]
  BY <1>2
<1>6. PICK j \in S, k \in S : j # k /\ position[j] = position[k]
  <2> HIDE DEF position, S
  <2> QED BY <1>3, <1>4, <1>5, FS_PigeonHole
<1>7. newer(j) = newer(k)
  BY <1>6
<1>8. CASE NewerRow(j, k)
  <2>1. newer(j) < newer(k)
    BY <1>1, <1>2, <1>8, MoreAreNewer
  <2> QED BY <1>2, <1>7, <2>1
<1>9. CASE NewerRow(k, j)
  <2>1. newer(k) < newer(j)
    BY <1>1, <1>2, <1>9, MoreAreNewer
  <2> QED BY <1>2, <1>7, <2>1
<1> QED BY <1>1, <1>2, <1>6, <1>8, <1>9, NewerOrder

(* A history that fits loses nothing. *)
LEMMA PruneNothing ==
  ASSUME NEW rs, Cardinality(Live(rs)) <= Keep, NEW k \in Live(rs)
  PROVE  Prune(rs)[k] = rs[k]
<1> DEFINE N == {j \in Live(rs) : NewerRow(j, k)}
<1>1. Live(rs) \subseteq Key /\ IsFiniteSet(Live(rs)) /\ k \in Key
  BY KeyFinite, FS_Subset DEF Live
<1>2. N \in SUBSET Live(rs) /\ N # Live(rs)
  BY <1>1, NewerOrder
<1>3. IsFiniteSet(N) /\ Cardinality(N) <= Cardinality(Live(rs)) /\ Cardinality(N) # Cardinality(Live(rs))
  BY <1>1, <1>2, FS_Subset
<1>4. Cardinality(N) \in Nat /\ Cardinality(Live(rs)) \in Nat
  BY <1>1, <1>3, FS_CardinalityType
<1>5. Cardinality(N) < Keep
  BY <1>3, <1>4, FindingStoreAssumption
<1> QED BY <1>1, <1>5 DEF Prune

(* Fewer live rows fit where more did. *)
LEMMA FitsMonotone ==
  ASSUME NEW rs, NEW qs, Live(qs) \subseteq Live(rs), Cardinality(Live(rs)) <= Keep
  PROVE  Cardinality(Live(qs)) <= Keep
<1>1. IsFiniteSet(Live(rs))
  BY KeyFinite, FS_Subset DEF Live
<1>2. IsFiniteSet(Live(qs)) /\ Cardinality(Live(qs)) <= Cardinality(Live(rs))
  BY <1>1, FS_Subset
<1>3. Cardinality(Live(qs)) \in Nat /\ Cardinality(Live(rs)) \in Nat
  BY <1>1, <1>2, FS_CardinalityType
<1> QED BY <1>2, <1>3, FindingStoreAssumption

-----------------------------------------------------------------------------
(* Stored deliveries are of events that were created. *)
LEMMA LiveIsPast ==
  ASSUME StoreTypeOK, FutureEmpty, NEW e \in Event, event[e].finding \in Fingerprint
  PROVE  e < nextEvent
<1>1. NoEvent.finding \notin Fingerprint
  BY FindingStoreAssumption DEF NoEvent
<1>2. e \in Int /\ nextEvent \in Int
  BY FindingStoreAssumption DEF StoreTypeOK, Event
<1> QED BY <1>1, <1>2 DEF FutureEmpty

(***************************************************************************)
(* A notification that is queued: the new rows are of the new event and of *)
(* enabled destinations, and retention keeps the history in its bound.     *)
(***************************************************************************)
LEMMA QueuedHistory ==
  ASSUME StoreTypeOK, NEW f \in Fingerprint, NEW t \in Transition, NEW rank \in Rank,
         QueueFindingNotification(f, t, rank), Targets(f, t, rank) # {}
  PROVE  /\ nextEvent \in Event
         /\ event' = [event EXCEPT ![nextEvent] = [finding |-> f, type |-> t]]
         /\ nextEvent' = nextEvent + 1
         /\ HistoryFits'
         /\ \A k \in Live(rows') : /\ k \in Key
                                   /\ k \in Live(rows) \/ (k[1] = nextEvent /\ dest[k[2]] = "enabled")
<1> DEFINE new == WithNewRows(f, t, rank)
<1>1. /\ nextEvent \in Event
      /\ event' = [event EXCEPT ![nextEvent] = [finding |-> f, type |-> t]]
      /\ nextEvent' = nextEvent + 1
      /\ rows' = Prune(new)
  BY DEF QueueFindingNotification
<1>2. ASSUME NEW k \in Key, new[k] # rows[k]
      PROVE  k[1] = nextEvent /\ dest[k[2]] = "enabled"
  BY <1>2 DEF WithNewRows, Targets, EnabledDestinations
<1> HIDE DEF new
<1>3. HistoryFits'
  BY <1>1, PruneFits DEF HistoryFits
<1>4. ASSUME NEW k \in Live(rows')
      PROVE  /\ k \in Key
             /\ k \in Live(rows) \/ (k[1] = nextEvent /\ dest[k[2]] = "enabled")
  <2>1. k \in Key /\ rows'[k].status # "none"
    BY DEF Live
  <2>2. rows'[k] = new[k]
    BY <1>1, <2>1, PruneRemoves DEF NoRow, NewRow
  <2> QED BY <1>2, <2>1, <2>2 DEF Live
<1> QED BY <1>1, <1>3, <1>4

(* What a queued event changes of the last event of a finding. *)
LEMMA LastEventStep ==
  ASSUME StoreTypeOK, FutureEmpty, NEW f \in Fingerprint, NEW t,
         nextEvent \in Event, event'[nextEvent].finding = f, event'[nextEvent].type = t,
         \A x \in Event : x # nextEvent => event'[x] = event[x],
         NEW g \in Fingerprint, NEW e \in Event, event'[e].finding = g,
         \A x \in Event : x > e => event'[x].finding # g
  PROVE  /\ g # f => LastEvent(e, g) /\ event'[e] = event[e]
         /\ g = f => event'[e].type = t
<1>0. /\ nextEvent \in Int /\ \A x \in Event : x \in Int
      /\ event[nextEvent] = NoEvent /\ NoEvent.finding \notin Fingerprint
  BY FindingStoreAssumption DEF StoreTypeOK, Event, NoEvent, FutureEmpty
<1>1. /\ event'[nextEvent].finding = f /\ event'[nextEvent].type = t
      /\ \A x \in Event : x # nextEvent => event'[x] = event[x]
  OBVIOUS
<1>2. CASE g # f
  <2>1. e # nextEvent
    BY <1>1, <1>2 DEF LastEvent
  <2>2. ASSUME NEW x \in Event, x > e
        PROVE  event[x].finding # g
    BY <1>0, <1>1, <2>2 DEF LastEvent
  <2> QED BY <1>1, <1>2, <2>1, <2>2 DEF LastEvent
<1>3. CASE g = f
  <2>1. ~(e < nextEvent)
    BY <1>0, <1>1, <1>3 DEF LastEvent
  <2>2. ~(e > nextEvent)
    <3>1. e > nextEvent => event'[e] = NoEvent
      BY <1>0, <1>1 DEF FutureEmpty
    <3> QED BY <1>0, <3>1 DEF LastEvent
  <2> QED BY <1>0, <1>1, <1>3, <2>1, <2>2
<1> QED BY <1>2, <1>3

(***************************************************************************)
(* A transition of finding f inside a transaction: what UpsertOne and      *)
(* ResolveOne have in common.  The rank is that of the finding afterwards. *)
(***************************************************************************)
Announces(f, t, rank) ==
  /\ ServerOf[f] \in servers
  /\ status' = [status EXCEPT ![f] = status'[f]] /\ status'[f] # "absent"
  /\ severity' = [severity EXCEPT ![f] = rank]
  /\ QueueFindingNotification(f, t, rank)
  /\ UNCHANGED configVars
  /\ t = "resolved" <=> status'[f] = "resolved"

LEMMA AnnounceHistory ==
  ASSUME StoreTypeOK, FutureEmpty, RowsRefer, HistoryFits, TruthTold,
         NEW f \in Fingerprint, NEW t \in Transition, NEW rank \in Rank, Announces(f, t, rank)
  PROVE  FutureEmpty' /\ RowsRefer' /\ HistoryFits' /\ TruthTold'
<1> USE FindingStoreAssumption
<1>0. /\ servers' = servers /\ quiet' = quiet /\ dest' = dest /\ routes' = routes /\ edits' = edits
      /\ QueueFindingNotification(f, t, rank)
      /\ EnabledDestinations' = EnabledDestinations
      /\ ExplicitRouting' = ExplicitRouting
      /\ \A g \in Fingerprint : g # f => status'[g] = status[g] /\ severity'[g] = severity[g]
      /\ severity'[f] = rank /\ status'[f] # "absent" /\ ServerOf[f] \in servers
      /\ t = "resolved" <=> status'[f] = "resolved"
  BY DEF Announces, configVars, EnabledDestinations, ExplicitRouting, StoreTypeOK
<1>1. CASE Targets(f, t, rank) = {}
  <2>1. event' = event /\ nextEvent' = nextEvent /\ rows' = rows
    BY <1>0, <1>1 DEF QueueFindingNotification, queueVars
  <2>2. RowsRefer'
    BY <1>0, <2>1 DEF RowsRefer, EventExists, Live
  <2>3. TruthTold'
    <3> SUFFICES ASSUME edits' = 0
                 PROVE  /\ quiet' = {}
                        /\ ~ExplicitRouting'
                        /\ \A g \in Fingerprint : \A e \in Event :
                             LastEvent(e, g)' /\ severity'[g] >= HighRank /\ EnabledDestinations' # {} =>
                                (event'[e].type = "resolved" <=> status'[g] = "resolved")
      BY DEF TruthTold
    <3>1. quiet = {} /\ ~ExplicitRouting
      BY <1>0 DEF TruthTold
    <3>2. rank >= HighRank => EnabledDestinations = {}
      BY <1>1, <3>1 DEF Targets
    <3>3. \A e \in Event, g \in Fingerprint : LastEvent(e, g)' <=> LastEvent(e, g)
      BY <2>1 DEF LastEvent
    <3> QED BY <1>0, <2>1, <3>1, <3>2, <3>3 DEF TruthTold
  <2> QED BY <2>1, <2>2, <2>3 DEF FutureEmpty, HistoryFits
<1>2. CASE Targets(f, t, rank) # {}
  <2>1. /\ nextEvent \in Event
        /\ event' = [event EXCEPT ![nextEvent] = [finding |-> f, type |-> t]]
        /\ nextEvent' = nextEvent + 1
        /\ HistoryFits'
        /\ \A k \in Live(rows') : /\ k \in Key
                                  /\ k \in Live(rows) \/ (k[1] = nextEvent /\ dest[k[2]] = "enabled")
    BY <1>0, <1>2, QueuedHistory
  <2>2. FutureEmpty'
    BY <2>1 DEF FutureEmpty, StoreTypeOK, Event
  <2>3. RowsRefer'
    <3> SUFFICES ASSUME NEW k \in Live(rows')
                 PROVE  dest'[k[2]] \in {"enabled", "disabled"} /\ EventExists(k[1])'
      BY DEF RowsRefer
    <3>0. k \in Key /\ k[1] \in Event
      BY <2>1 DEF Key
    <3>1. CASE k \in Live(rows)
      <4>1. dest[k[2]] \in {"enabled", "disabled"} /\ EventExists(k[1])
        BY <3>1 DEF RowsRefer
      <4>2. k[1] < nextEvent
        BY <3>0, <4>1, LiveIsPast DEF EventExists
      <4>3. event'[k[1]] = event[k[1]]
        BY <2>1, <3>0, <4>2 DEF StoreTypeOK, Event
      <4> QED BY <1>0, <4>1, <4>3 DEF EventExists
    <3>2. CASE k[1] = nextEvent /\ dest[k[2]] = "enabled"
      <4>1. event'[k[1]].finding = f
        BY <2>1, <3>2 DEF StoreTypeOK
      <4> QED BY <1>0, <3>2, <4>1 DEF EventExists
    <3> QED BY <2>1, <3>1, <3>2
  <2>4. TruthTold'
    <3> SUFFICES ASSUME edits' = 0
                 PROVE  /\ quiet' = {}
                        /\ ~ExplicitRouting'
                        /\ \A g \in Fingerprint : \A e \in Event :
                             LastEvent(e, g)' /\ severity'[g] >= HighRank /\ EnabledDestinations' # {} =>
                                (event'[e].type = "resolved" <=> status'[g] = "resolved")
      BY DEF TruthTold
    <3>1. ASSUME NEW g \in Fingerprint, NEW e \in Event, LastEvent(e, g)'
          PROVE  /\ g # f => LastEvent(e, g) /\ event'[e] = event[e]
                 /\ g = f => event'[e].type = t
      <4>1. event'[e].finding = g /\ \A x \in Event : x > e => event'[x].finding # g
        BY <3>1 DEF LastEvent
      <4>2. /\ event'[nextEvent].finding = f /\ event'[nextEvent].type = t
            /\ \A x \in Event : x # nextEvent => event'[x] = event[x]
        BY <2>1 DEF StoreTypeOK
      <4> QED BY <2>1, <4>1, <4>2, LastEventStep
    <3> QED BY <1>0, <3>1 DEF TruthTold
  <2> QED BY <2>1, <2>2, <2>3, <2>4
<1> QED BY <1>1, <1>2

(* A finding that is reported again without news: nobody is told. *)
LEMMA SilentUpsertHistory ==
  ASSUME StoreTypeOK, TxConsistent, FutureEmpty, RowsRefer, HistoryFits, TruthTold,
         NEW f \in Fingerprint, UpsertOne(f), EventType(f) = "none"
  PROVE  FutureEmpty' /\ RowsRefer' /\ HistoryFits' /\ TruthTold'
<1> USE FindingStoreAssumption
<1>0. /\ servers' = servers /\ quiet' = quiet /\ dest' = dest /\ routes' = routes /\ edits' = edits
      /\ event' = event /\ nextEvent' = nextEvent /\ rows' = rows
      /\ status' = [status EXCEPT ![f] = IF @ = "acknowledged" THEN @ ELSE "active"]
      /\ severity' = [severity EXCEPT ![f] = report[f]]
  BY DEF UpsertOne, queueVars, configVars
<1>1. /\ status[f] \in OpenStatus /\ status'[f] \in OpenStatus
      /\ report[f] <= severity[f] /\ severity[f] \in Int /\ report[f] \in Int
      /\ \A g \in Fingerprint : g # f => status'[g] = status[g] /\ severity'[g] = severity[g]
      /\ severity'[f] = report[f]
  BY <1>0 DEF EventType, StoreTypeOK, OpenStatus, Rank
<1>2. RowsRefer'
  BY <1>0, <1>1 DEF RowsRefer, EventExists, Live, OpenStatus
<1>3. TruthTold'
  <2>1. /\ EnabledDestinations' = EnabledDestinations
        /\ ExplicitRouting' = ExplicitRouting
        /\ \A e \in Event, g \in Fingerprint : LastEvent(e, g)' <=> LastEvent(e, g)
    BY <1>0 DEF EnabledDestinations, ExplicitRouting, LastEvent
  <2>2. /\ status[f] # "resolved" /\ status'[f] # "resolved"
        /\ severity'[f] >= HighRank => severity[f] >= HighRank
    BY <1>1 DEF OpenStatus, HighRank
  <2> QED BY <1>0, <1>1, <2>1, <2>2 DEF TruthTold
<1> QED BY <1>0, <1>2, <1>3 DEF FutureEmpty, HistoryFits

(* Nothing the history refers to changes, rows at most disappear. *)
LEMMA SameHistory ==
  ASSUME FutureEmpty, RowsRefer, HistoryFits, TruthTold,
         UNCHANGED <<servers, status, severity, quiet, dest, routes, edits, event, nextEvent>>,
         Live(rows') \subseteq Live(rows)
  PROVE  FutureEmpty' /\ RowsRefer' /\ HistoryFits' /\ TruthTold'
<1>1. FutureEmpty'
  BY DEF FutureEmpty
<1>2. RowsRefer'
  BY DEF RowsRefer, EventExists
<1>3. HistoryFits'
  BY FitsMonotone DEF HistoryFits
<1>4. TruthTold'
  <2>1. /\ EnabledDestinations' = EnabledDestinations
        /\ ExplicitRouting' = ExplicitRouting
        /\ \A e \in Event, g \in Fingerprint : LastEvent(e, g)' <=> LastEvent(e, g)
    BY DEF EnabledDestinations, ExplicitRouting, LastEvent
  <2> QED BY <2>1 DEF TruthTold
<1> QED BY <1>1, <1>2, <1>3, <1>4

LEMMA ReconcileKeepsHInv ==
  ASSUME StoreTypeOK, HInv, Reconcile
  PROVE  HInv'
<1> USE FindingStoreAssumption
<1>0. TxConsistent /\ FutureEmpty /\ RowsRefer /\ HistoryFits /\ TruthTold
  BY DEF HInv
<1>1. ASSUME NEW s \in Server, NEW r \in [Fingerprint -> Severities \cup {0}], BeginUpsert(s, r)
      PROVE  HInv'
  <2>1. TxConsistent'
    BY <1>1 DEF BeginUpsert, TxConsistent, configVars, Idle
  <2>2. /\ UNCHANGED <<servers, status, severity, quiet, dest, routes, edits, event, nextEvent>>
        /\ rows' = rows
    BY <1>1 DEF BeginUpsert, findingVars, configVars, queueVars
  <2> QED BY <1>0, <2>1, <2>2, SameHistory DEF HInv
<1>2. ASSUME NEW f \in Fingerprint, UpsertOne(f)
      PROVE  HInv'
  <2>1. TxConsistent'
    BY <1>0, <1>2 DEF UpsertOne, TxConsistent, configVars, Idle
  <2>2. CASE EventType(f) = "none"
    BY <1>0, <1>2, <2>1, <2>2, SilentUpsertHistory DEF HInv
  <2>3. CASE EventType(f) # "none"
    <3>1. EventType(f) \in Transition /\ EventType(f) # "resolved" /\ report[f] \in Rank
      BY <2>3 DEF EventType, Transition, StoreTypeOK
    <3>2. ServerOf[f] \in servers
      <4>1. report[f] # 0 /\ ServerOf[f] = txServer
        BY <1>0, <1>2 DEF UpsertOne, TxConsistent
      <4> QED BY <1>0, <4>1 DEF TxConsistent, Idle
    <3>3. /\ status' = [status EXCEPT ![f] = status'[f]]
          /\ status'[f] # "absent" /\ status'[f] # "resolved"
      BY <1>2 DEF UpsertOne, StoreTypeOK
    <3>4. Announces(f, EventType(f), report[f])
      BY <1>2, <2>3, <3>1, <3>2, <3>3 DEF UpsertOne, Announces
    <3> QED BY <1>0, <2>1, <3>1, <3>4, AnnounceHistory DEF HInv
  <2> QED BY <2>2, <2>3
<1>3. ASSUME NEW f \in Fingerprint, ResolveOne(f)
      PROVE  HInv'
  <2>1. TxConsistent'
    BY <1>0, <1>3 DEF ResolveOne, TxConsistent, configVars, txVars, Idle
  <2>2. "resolved" \in Transition /\ severity[f] \in Rank
    BY DEF Transition, StoreTypeOK
  <2>3. ServerOf[f] \in servers
    BY <1>0, <1>3 DEF ResolveOne, Stale, TxConsistent
  <2>4. /\ status' = [status EXCEPT ![f] = status'[f]] /\ status'[f] = "resolved"
        /\ severity' = [severity EXCEPT ![f] = severity[f]]
    BY <1>3 DEF ResolveOne, StoreTypeOK
  <2>5. Announces(f, "resolved", severity[f])
    BY <1>3, <2>3, <2>4 DEF ResolveOne, Announces
  <2> QED BY <1>0, <2>1, <2>2, <2>5, AnnounceHistory DEF HInv
<1>4. CASE CommitUpsert
  <2>1. TxConsistent'
    BY <1>0, <1>4 DEF CommitUpsert, TxConsistent, configVars, Idle
  <2>2. /\ UNCHANGED <<servers, status, severity, quiet, dest, routes, edits, event, nextEvent>>
        /\ rows' = rows
    BY <1>4 DEF CommitUpsert, findingVars, configVars, queueVars
  <2> QED BY <1>0, <2>1, <2>2, SameHistory DEF HInv
<1> QED BY <1>1, <1>2, <1>3, <1>4 DEF Reconcile

LEMMA OperateKeepsHInv ==
  ASSUME StoreTypeOK, HInv, Operate
  PROVE  HInv'
<1> USE FindingStoreAssumption
<1>0. TxConsistent /\ FutureEmpty /\ RowsRefer /\ HistoryFits /\ TruthTold
  BY DEF HInv
<1>1. ASSUME NEW f \in Fingerprint, NEW new \in OpenStatus, SetFindingStatus(f, new)
      PROVE  HInv'
  <2>1. /\ UNCHANGED <<servers, severity, quiet, dest, routes, edits, event, nextEvent, rows>>
        /\ UNCHANGED <<txServer, report, todo>>
        /\ status' = [status EXCEPT ![f] = new]
        /\ status[f] \in OpenStatus
    BY <1>1 DEF SetFindingStatus, configVars, queueVars, txVars
  <2>2. /\ \A g \in Fingerprint : g # f => status'[g] = status[g]
        /\ status'[f] = new /\ new # "absent" /\ new # "resolved" /\ status[f] # "resolved"
    BY <2>1 DEF StoreTypeOK, OpenStatus
  <2>3. TxConsistent'
    BY <1>0, <2>1 DEF TxConsistent, Idle
  <2>4. RowsRefer'
    BY <1>0, <2>1, <2>2 DEF RowsRefer, EventExists
  <2>5. TruthTold'
    <3>1. /\ EnabledDestinations' = EnabledDestinations
          /\ ExplicitRouting' = ExplicitRouting
          /\ \A e \in Event, g \in Fingerprint : LastEvent(e, g)' <=> LastEvent(e, g)
      BY <2>1 DEF EnabledDestinations, ExplicitRouting, LastEvent
    <3> QED BY <1>0, <2>1, <2>2, <3>1 DEF TruthTold
  <2> QED BY <1>0, <2>1, <2>3, <2>4, <2>5 DEF HInv, FutureEmpty, HistoryFits
<1>2. ASSUME Edit, UNCHANGED txVars,
             servers' \subseteq servers,
             \A s \in servers \ servers' : \A f \in Fingerprint : report[f] # 0 => ServerOf[f] # s,
             event' = event, nextEvent' = nextEvent, Live(rows') \subseteq Live(rows), RowsRefer'
      PROVE  HInv'
  <2>1. edits' # 0 /\ Idle
    BY <1>2 DEF Edit, StoreTypeOK
  <2>2. TxConsistent'
    BY <1>0, <1>2, <2>1 DEF TxConsistent, Idle, txVars
  <2>3. HistoryFits'
    BY <1>0, <1>2, FitsMonotone DEF HistoryFits
  <2>4. TruthTold' /\ FutureEmpty'
    BY <1>0, <1>2, <2>1 DEF TruthTold, FutureEmpty
  <2> QED BY <1>2, <2>2, <2>3, <2>4 DEF HInv
<1>3. ASSUME NEW d \in Destination, NEW new \in {"enabled", "disabled"},
             \/ CreateNotificationDestination(d, new) \/ UpdateNotificationDestination(d, new)
      PROVE  HInv'
  <2>1. /\ dest' = [dest EXCEPT ![d] = new] /\ Edit /\ UNCHANGED txVars
        /\ UNCHANGED <<servers, status, event, nextEvent, rows>>
    BY <1>3 DEF CreateNotificationDestination, UpdateNotificationDestination, SaveDestination,
                findingVars, queueVars
  <2>2. RowsRefer'
    BY <1>0, <2>1 DEF RowsRefer, EventExists, StoreTypeOK
  <2> QED BY <1>2, <2>1, <2>2
<1>4. ASSUME NEW d \in Destination, DeleteDestination(d)
      PROVE  HInv'
  <2>1. /\ dest' = [dest EXCEPT ![d] = "deleted"] /\ Edit /\ UNCHANGED txVars
        /\ UNCHANGED <<servers, status, event, nextEvent>>
        /\ rows' = [k \in Key |-> IF k[2] = d THEN NoRow ELSE rows[k]]
    BY <1>4 DEF DeleteDestination, findingVars
  <2>2. \A k \in Live(rows') : k \in Live(rows) /\ k[2] # d /\ k[2] \in Destination
    BY <2>1 DEF Live, NoRow, NewRow, Key
  <2>3. RowsRefer'
    BY <1>0, <2>1, <2>2 DEF RowsRefer, EventExists, StoreTypeOK
  <2> QED BY <1>2, <2>1, <2>2, <2>3
<1>5. ASSUME \/ \E f \in Fingerprint : ToggleControl(f)
             \/ \E r \in RouteId : DeleteRoute(r)
             \/ \E r \in RouteId, shape \in RouteShapes : SaveRoute(r, shape)
      PROVE  HInv'
  <2>1. /\ Edit /\ UNCHANGED txVars
        /\ UNCHANGED <<servers, status, dest, event, nextEvent, rows>>
    BY <1>5 DEF ToggleControl, DeleteRoute, SaveRoute, findingVars, queueVars
  <2>2. RowsRefer'
    BY <1>0, <2>1 DEF RowsRefer, EventExists
  <2> QED BY <1>2, <2>1, <2>2
<1>6. ASSUME NEW s \in Server, DeleteServer(s)
      PROVE  HInv'
  <2>1. /\ Edit /\ UNCHANGED txVars /\ UNCHANGED <<dest, event, nextEvent>>
        /\ servers' = servers \ {s}
        /\ status' = [f \in Fingerprint |-> IF ServerOf[f] = s THEN "absent" ELSE status[f]]
        /\ rows' = [k \in Key |-> IF event[k[1]].finding \in FindingsOf(s) THEN NoRow ELSE rows[k]]
    BY <1>6 DEF DeleteServer
  <2>2. \A k \in Live(rows') : k \in Live(rows) /\ event[k[1]].finding \notin FindingsOf(s)
    BY <2>1 DEF Live, NoRow, NewRow
  <2>3. RowsRefer'
    <3> SUFFICES ASSUME NEW k \in Live(rows')
                 PROVE  dest'[k[2]] \in {"enabled", "disabled"} /\ EventExists(k[1])'
      BY DEF RowsRefer
    <3>1. dest[k[2]] \in {"enabled", "disabled"} /\ EventExists(k[1])
      BY <1>0, <2>2 DEF RowsRefer
    <3>2. ServerOf[event[k[1]].finding] # s
      BY <2>2, <3>1 DEF FindingsOf, EventExists
    <3> QED BY <2>1, <3>1, <3>2 DEF EventExists
  <2>4. \A f \in Fingerprint : report[f] # 0 => ServerOf[f] # s
    BY <1>0, <2>1 DEF TxConsistent, Edit, Idle
  <2> QED BY <1>2, <2>1, <2>2, <2>3, <2>4
<1> QED
  BY <1>1, <1>3, <1>4, <1>5, <1>6
  DEF Operate, CreateNotificationRoute, UpdateNotificationRoute

(* The updates of a caller change rows only, and keep the rows there are. *)
LEMMA RecordKeepsRows ==
  ASSUME IInv, HistoryFits, NEW c \in Caller, NEW k \in Key, RecordFindingNotification(c, k)
  PROVE  /\ \A j \in Key : j # k /\ j \in Live(rows) => rows'[j] = rows[j]
         /\ \A j \in Key : j # k /\ j \notin Live(rows) => rows'[j].status = "none"
         /\ rows[k].status # "none" => rows'[k] = Recorded(rows[k], pc[c] = "sent")
         /\ rows[k].status = "none" => rows'[k] = rows[k]
         /\ Live(rows') \subseteq Live(rows)
<1> USE FindingStoreAssumption
<1> DEFINE new == Recorded(rows[k], pc[c] = "sent")
           rs == [rows EXCEPT ![k] = new]
<1>0. /\ TypeOK /\ RowShape /\ BatchesAreOwed
      /\ rows \in [Key -> Row] /\ k \in batch[c] /\ NoRow.status = "none"
  BY DEF IInv, TypeOK, StoreTypeOK, RecordFindingNotification, IsNext, NoRow, NewRow
<1>1. CASE rows[k].status = "none"
  <2>1. rows' = rows
    BY <1>1 DEF RecordFindingNotification
  <2> QED BY <1>1, <2>1 DEF Live
<1>2. CASE rows[k].status # "none"
  <2>1. rows' = Prune(rs)
    BY <1>2 DEF RecordFindingNotification
  <2>2. new.status # "none"
    BY <1>0, <1>2, OwedRow, RecordedShape
  <2>3. rs[k] = new /\ \A j \in Key : j # k => rs[j] = rows[j]
    BY <1>0
  <2>4. Live(rs) = Live(rows)
    BY <1>2, <2>2, <2>3 DEF Live
  <2> HIDE DEF rs
  <2>5. \A j \in Live(rows) : rows'[j] = rs[j]
    BY <2>1, <2>4, PruneNothing DEF HistoryFits
  <2>6. ASSUME NEW j \in Key, j \notin Live(rows)
        PROVE  rows'[j].status = "none"
    <3>1. j # k /\ rs[j].status = "none"
      BY <1>2, <2>3, <2>6 DEF Live
    <3> QED BY <1>0, <2>1, <3>1, PruneRemoves
  <2>7. k \in Live(rows)
    BY <1>2 DEF Live
  <2>8. Live(rows') \subseteq Live(rows)
    BY <2>6 DEF Live
  <2> QED BY <1>2, <2>3, <2>5, <2>6, <2>7, <2>8
<1> QED BY <1>1, <1>2

LEMMA InitHInv == Init => HInv
<1> SUFFICES ASSUME Init PROVE HInv
  OBVIOUS
<1> USE FindingStoreAssumption DEF Init, StoreInit
<1>1. TxConsistent
  BY DEF TxConsistent, Idle
<1>2. FutureEmpty
  BY DEF FutureEmpty
<1>3. Live(rows) = {}
  BY DEF Live, NoRow, NewRow
<1>4. RowsRefer /\ HistoryFits
  BY <1>3, FS_EmptySet DEF RowsRefer, HistoryFits
<1>5. TruthTold
  <2>1. NoEvent.finding \notin Fingerprint /\ NoRoute.state = "absent"
    BY DEF NoEvent, NoRoute
  <2>2. \A e \in Event, g \in Fingerprint : ~LastEvent(e, g)
    BY <2>1 DEF LastEvent
  <2>3. ~ExplicitRouting /\ quiet = {}
    BY <2>1 DEF ExplicitRouting
  <2> QED BY <2>2, <2>3 DEF TruthTold
<1> QED BY <1>1, <1>2, <1>4, <1>5 DEF HInv

LEMMA StepHInv == IInv /\ HInv /\ [Next]_vars => HInv'
<1> SUFFICES ASSUME IInv, HInv, [Next]_vars PROVE HInv'
  OBVIOUS
<1>0. /\ TxConsistent /\ FutureEmpty /\ RowsRefer /\ HistoryFits /\ TruthTold
      /\ StoreTypeOK
  BY DEF HInv, IInv, TypeOK
<1>1. CASE Reconcile
  BY <1>0, <1>1, ReconcileKeepsHInv
<1>2. CASE Operate
  BY <1>0, <1>2, OperateKeepsHInv
<1>3. ASSUME UNCHANGED <<findingVars, configVars, event, nextEvent, txVars>>,
             Live(rows') \subseteq Live(rows)
      PROVE  HInv'
  <2>1. TxConsistent'
    BY <1>0, <1>3 DEF TxConsistent, Idle, configVars, txVars
  <2>2. UNCHANGED <<servers, status, severity, quiet, dest, routes, edits, event, nextEvent>>
    BY <1>3 DEF findingVars, configVars
  <2> QED BY <1>0, <1>3, <2>1, <2>2, SameHistory DEF HInv
<1>4. CASE Tick
  <2>1. \A k \in Key : rows'[k].status = rows[k].status
    BY <1>4 DEF Tick, Later
  <2> QED BY <1>3, <1>4, <2>1 DEF Tick, Live
<1>5. ASSUME NEW c \in Caller, NEW k \in Key, RecordFindingNotification(c, k)
      PROVE  HInv'
  <2>1. Live(rows') \subseteq Live(rows)
    BY <1>0, <1>5, RecordKeepsRows
  <2> QED BY <1>3, <1>5, <2>1 DEF RecordFindingNotification
<1>6. CASE UNCHANGED storeVars
  BY <1>3, <1>6 DEF storeVars, queueVars
<1>7. ASSUME NEW c \in Caller,
             \/ CallDispatchPending(c) \/ LockAndLoad(c) \/ Unlock(c) \/ LoadFails(c)
             \/ \E k \in Key : Send(c, k) \/ LookupFails(c, k) \/ RecordFails(c, k)
      PROVE  HInv'
  BY <1>6, <1>7
  DEF CallDispatchPending, LockAndLoad, Unlock, LoadFails, Send, LookupFails, RecordFails
<1>8. CASE Restart \/ UNCHANGED vars
  BY <1>6, <1>8 DEF Restart, vars
<1> QED BY <1>1, <1>2, <1>4, <1>5, <1>7, <1>8 DEF Next, StoreNext, Dispatch

(***************************************************************************)
(* The second inductive invariant, about what is stored and announced.     *)
(***************************************************************************)
THEOREM HistoryInvariance == Spec => []HInv
  BY InitHInv, StepHInv, Invariance, PTL DEF Spec

(***************************************************************************)
(* The delivery history stays within its bound and refers to destinations, *)
(* servers and findings that exist.                                        *)
(***************************************************************************)
THEOREM HistoryIsBounded == Spec => []HistoryBounded
<1>1. IInv /\ HInv => HistoryBounded
  <2> SUFFICES ASSUME IInv, HInv, NEW k \in Live(rows)
               PROVE  /\ dest[k[2]] \in {"enabled", "disabled"}
                      /\ k[1] < nextEvent
                      /\ event[k[1]].finding # NoFinding
                      /\ ServerOf[event[k[1]].finding] \in servers
                      /\ status[event[k[1]].finding] # "absent"
    BY DEF HistoryBounded, HInv, HistoryFits
  <2>1. /\ dest[k[2]] \in {"enabled", "disabled"} /\ EventExists(k[1])
        /\ FutureEmpty /\ StoreTypeOK
    BY DEF HInv, RowsRefer, IInv, TypeOK
  <2>2. k[1] \in Event
    BY DEF Live, Key
  <2>3. k[1] < nextEvent
    BY <2>1, <2>2, LiveIsPast DEF EventExists
  <2> QED BY <2>1, <2>3, FindingStoreAssumption DEF EventExists
<1> QED BY <1>1, Invariance, HistoryInvariance, PTL

(***************************************************************************)
(* What subscribers were told last about a severe finding is the truth.    *)
(***************************************************************************)
THEOREM TruthIsTold == Spec => []SubscribersToldTruth
<1>1. HInv => SubscribersToldTruth
  <2> SUFFICES ASSUME HInv, edits = 0, NEW f \in Fingerprint, NEW d \in EnabledDestinations,
                      NEW e \in ToldLast(f, d), severity[f] >= HighRank
               PROVE  event[e].type = "resolved" <=> status[f] = "resolved"
    BY DEF SubscribersToldTruth
  <2>1. e \in Event /\ LastEvent(e, f) /\ EnabledDestinations # {}
    BY DEF ToldLast, LastEvent
  <2> QED BY <2>1 DEF HInv, TruthTold
<1> QED BY <1>1, HistoryInvariance, PTL

(***************************************************************************)
(* A reconciliation touches findings of its own server only, keeps         *)
(* acknowledgements and alone leads into and out of "resolved".            *)
(***************************************************************************)
THEOREM TriageIsRespected == Spec => TriageRespected
<1> DEFINE OK == \A f \in Fingerprint : status'[f] # status[f] =>
                    IF Idle
                    THEN \/ {status[f], status'[f]} \subseteq OpenStatus
                         \/ status'[f] = "absent"
                    ELSE /\ ServerOf[f] = txServer
                         /\ status'[f] = "resolved" <=> report[f] = 0
                         /\ status[f] = "acknowledged" => status'[f] = "resolved"
<1>1. ASSUME IInv, HInv, Next PROVE OK
  <2>0. StoreTypeOK /\ TxConsistent
    BY <1>1 DEF IInv, TypeOK, HInv
  <2>1. ASSUME NEW f \in Fingerprint, UpsertOne(f) PROVE OK
    <3>1. /\ status' = [status EXCEPT ![f] = IF @ = "acknowledged" THEN @ ELSE "active"]
          /\ report[f] # 0 /\ ServerOf[f] = txServer
      BY <2>0, <2>1 DEF UpsertOne, TxConsistent
    <3>2. ~Idle
      BY <3>1, FindingStoreAssumption DEF Idle
    <3> QED BY <2>0, <3>1, <3>2 DEF StoreTypeOK
  <2>2. ASSUME NEW f \in Fingerprint, ResolveOne(f) PROVE OK
    BY <2>0, <2>2 DEF ResolveOne, Stale, StoreTypeOK
  <2>3. ASSUME NEW f \in Fingerprint, NEW new \in OpenStatus, SetFindingStatus(f, new) PROVE OK
    BY <2>0, <2>3 DEF SetFindingStatus, StoreTypeOK
  <2>4. ASSUME NEW s \in Server, DeleteServer(s) PROVE OK
    BY <2>0, <2>4 DEF DeleteServer, Edit
  <2>5. CASE status' = status
    BY <2>5
  <2>6. ASSUME NEW s \in Server, NEW r \in [Fingerprint -> Severities \cup {0}], BeginUpsert(s, r)
        PROVE  status' = status
    BY <2>6 DEF BeginUpsert, findingVars
  <2>7. CommitUpsert \/ Tick => status' = status
    BY DEF CommitUpsert, Tick, findingVars
  <2>8. ASSUME NEW d \in Destination, NEW new \in {"enabled", "disabled"},
               \/ CreateNotificationDestination(d, new) \/ UpdateNotificationDestination(d, new)
               \/ DeleteDestination(d)
        PROVE  status' = status
    BY <2>8 DEF CreateNotificationDestination, UpdateNotificationDestination, SaveDestination,
                DeleteDestination, findingVars
  <2>9. ASSUME NEW r \in RouteId,
               \/ \E shape \in RouteShapes : CreateNotificationRoute(r, shape) \/ UpdateNotificationRoute(r, shape)
               \/ DeleteRoute(r)
        PROVE  status' = status
    BY <2>9
    DEF CreateNotificationRoute, UpdateNotificationRoute, SaveRoute, DeleteRoute, findingVars
  <2>10. ASSUME NEW f \in Fingerprint, ToggleControl(f)
         PROVE  status' = status
    BY <2>10 DEF ToggleControl, findingVars
  <2>11. ASSUME NEW c \in Caller, Dispatch(c)
         PROVE  status' = status
    BY <2>11 DEF Dispatch, CallDispatchPending, LockAndLoad, Unlock, LoadFails, Send, LookupFails,
                 RecordFails, RecordFindingNotification, storeVars, findingVars
  <2>12. Restart => status' = status
    BY DEF Restart, storeVars, findingVars
  <2> HIDE DEF OK
  <2>13. CASE Reconcile
    BY <2>1, <2>2, <2>5, <2>6, <2>7, <2>13 DEF Reconcile
  <2>14. CASE Operate
    BY <2>3, <2>4, <2>5, <2>8, <2>9, <2>10, <2>14 DEF Operate
  <2> QED BY <1>1, <2>5, <2>7, <2>11, <2>12, <2>13, <2>14 DEF Next, StoreNext
<1>2. IInv /\ HInv /\ [Next]_vars => [OK]_vars
  <2> HIDE DEF OK
  <2> QED BY <1>1
<1> QED BY <1>2, Invariance, HistoryInvariance, PTL DEF Spec, TriageRespected

-----------------------------------------------------------------------------
(***************************************************************************)
(* The refinement.  The entry of a delivery depends on its status, its     *)
(* attempts and on whether its event was created.                          *)
(***************************************************************************)
StateOf(st) == CASE st = "none" -> "gone"
                 [] st \in {"pending", "retry"} -> "owed"
                 [] st = "cooldown" -> "skipped"
                 [] OTHER -> st

LEMMA EntryValue ==
  ASSUME IInv, NEW k \in Key
  PROVE  /\ k[1] >= nextEvent => OutboxEntry(k) = Outbox!Future
         /\ ~(k[1] >= nextEvent) =>
              OutboxEntry(k) = [state |-> StateOf(rows[k].status), tries |-> rows[k].attempts]
         /\ OutboxEntry(k) \in Outbox!Entry
<1>1. rows[k] \in Row /\ rows[k].status \in RowStatus /\ rows[k].attempts \in 0..MaxAttempts
  BY DEF IInv, TypeOK, StoreTypeOK, Row
<1>2. k[1] >= nextEvent => rows[k].attempts = 0
  BY DEF IInv, LockDiscipline, NoRow, NewRow
<1>3. StateOf(rows[k].status) \in {"gone", "owed", "skipped", "delivered", "failed"}
  BY <1>1 DEF StateOf, RowStatus
<1>4. CASE k[1] >= nextEvent
  BY <1>1, <1>2, <1>4 DEF OutboxEntry, Outbox!Future, Outbox!Entry
<1>5. CASE ~(k[1] >= nextEvent)
  <2>1. OutboxEntry(k) = [state |-> StateOf(rows[k].status), tries |-> rows[k].attempts]
    BY <1>5 DEF OutboxEntry, StateOf
  <2> QED BY <1>1, <1>3, <1>5, <2>1 DEF Outbox!Entry
<1> QED BY <1>4, <1>5

EntryIsRow ==
  \A k \in Key :
    /\ k[1] >= nextEvent => OutboxEntry(k) = Outbox!Future
    /\ ~(k[1] >= nextEvent) =>
         OutboxEntry(k) = [state |-> StateOf(rows[k].status), tries |-> rows[k].attempts]
    /\ OutboxEntry(k) \in Outbox!Entry

LEMMA EntriesAreRows == IInv => EntryIsRow
  BY EntryValue DEF EntryIsRow

LEMMA EntriesStayRows == IInv' => EntryIsRow'
  BY EntriesAreRows, PTL

LEMMA StoreRefines ==
  ASSUME IInv, IInv', StoreNext, UNCHANGED dispatchVars
  PROVE  Outbox!AnnounceOrDrop
<1> USE FindingStoreAssumption
<1>0. /\ EntryIsRow /\ EntryIsRow' /\ StoreEffect
      /\ nextEvent \in Int /\ nextEvent' \in Int /\ nextEvent' \in {nextEvent, nextEvent + 1}
  BY EntriesAreRows, EntriesStayRows, StoreStep DEF IInv, TypeOK, StoreTypeOK, StoreEffect
<1>1. ASSUME NEW k \in Key
      PROVE  \/ OutboxEntry(k)' = OutboxEntry(k)
             \/ OutboxEntry(k)' = Outbox!Gone
             \/ /\ OutboxEntry(k) = Outbox!Future
                /\ OutboxEntry(k)' \in {Outbox!Owed, Outbox!Skipped}
  <2>0. k[1] \in Int
    BY KeyType
  <2>1. CASE k[1] >= nextEvent'
    <3>1. k[1] >= nextEvent
      BY <1>0, <2>0, <2>1
    <3> QED BY <1>0, <2>1, <3>1 DEF EntryIsRow
  <2>2. CASE ~(k[1] >= nextEvent') /\ ~(k[1] >= nextEvent)
    <3>1. /\ OutboxEntry(k) = [state |-> StateOf(rows[k].status), tries |-> rows[k].attempts]
          /\ OutboxEntry(k)' = [state |-> StateOf(rows'[k].status), tries |-> rows'[k].attempts]
      BY <1>0, <2>2 DEF EntryIsRow
    <3>2. k[1] # nextEvent
      BY <1>0, <2>0, <2>2
    <3>3. CASE rows'[k] = rows[k] \/ Aged(rows[k], rows'[k])
      BY <3>1, <3>3 DEF Aged
    <3>4. CASE rows'[k] = NoRow
      BY <3>1, <3>4 DEF NoRow, NewRow, StateOf, Outbox!Gone
    <3> QED BY <1>0, <3>2, <3>3, <3>4 DEF StoreEffect
  <2>3. CASE ~(k[1] >= nextEvent') /\ k[1] >= nextEvent
    <3>1. /\ OutboxEntry(k) = Outbox!Future
          /\ OutboxEntry(k)' = [state |-> StateOf(rows'[k].status), tries |-> rows'[k].attempts]
      BY <1>0, <2>3 DEF EntryIsRow
    <3>2. rows[k] = NoRow
      BY <2>3 DEF IInv, LockDiscipline
    <3>3. CASE Fresh(rows'[k])
      <4>1. rows'[k].status \in {"pending", "cooldown"} /\ rows'[k].attempts = 0
        BY <3>3, FreshShape
      <4> QED BY <3>1, <4>1 DEF StateOf, Outbox!Owed, Outbox!Skipped
    <3>4. CASE rows'[k] = NoRow \/ Aged(rows[k], rows'[k])
      <4>1. rows'[k].status = "none" /\ rows'[k].attempts = 0
        BY <3>2, <3>4 DEF NoRow, NewRow, Aged
      <4> QED BY <3>1, <4>1 DEF StateOf, Outbox!Gone
    <3> QED BY <1>0, <3>2, <3>3, <3>4 DEF StoreEffect
  <2> QED BY <2>1, <2>2, <2>3
<1>2. \A k \in Key : OutboxEntry(k)' \in Outbox!Entry
  BY <1>0 DEF EntryIsRow
<1> QED BY <1>1, <1>2 DEF Outbox!AnnounceOrDrop

LEMMA RecordRefines ==
  ASSUME IInv, IInv', HistoryFits, NEW c \in Caller, NEW k \in Key, RecordFindingNotification(c, k)
  PROVE  \/ Outbox!Attempt(k)
         \/ [j \in Key |-> OutboxEntry(j)]' = [j \in Key |-> OutboxEntry(j)]
<1> USE FindingStoreAssumption
<1>0. /\ EntryIsRow /\ EntryIsRow'
      /\ nextEvent \in Int /\ nextEvent' = nextEvent
      /\ TypeOK /\ RowShape /\ BatchesAreOwed /\ LockDiscipline
      /\ k \in batch[c] /\ k[1] \in Int
  <2>1. EntryIsRow /\ EntryIsRow'
    BY EntriesAreRows, EntriesStayRows
  <2>2. nextEvent \in Int /\ TypeOK /\ RowShape /\ BatchesAreOwed /\ LockDiscipline
    BY DEF IInv, TypeOK, StoreTypeOK
  <2>3. k \in batch[c] /\ k[1] \in Int /\ nextEvent' = nextEvent
    BY KeyType DEF RecordFindingNotification, IsNext
  <2> QED BY <2>1, <2>2, <2>3
<1>1. ~(k[1] >= nextEvent)
  BY <1>0 DEF LockDiscipline
<1>2. ASSUME NEW j \in Key, j # k
      PROVE  OutboxEntry(j)' = OutboxEntry(j)
  <2>1. CASE j[1] >= nextEvent
    BY <1>0, <2>1 DEF EntryIsRow
  <2>2. CASE ~(j[1] >= nextEvent)
    <3>1. rows'[j].status = rows[j].status /\ rows'[j].attempts = rows[j].attempts
      <4>1. CASE j \in Live(rows)
        BY <1>2, <4>1, RecordKeepsRows
      <4>2. CASE j \notin Live(rows)
        <5>1. rows[j].status = "none" /\ rows'[j].status = "none"
          BY <1>2, <4>2, RecordKeepsRows DEF Live
        <5>2. RowShape /\ RowShape'
          BY DEF IInv
        <5> QED BY <5>1, <5>2 DEF RowShape
      <4> QED BY <4>1, <4>2
    <3> QED BY <1>0, <2>2, <3>1 DEF EntryIsRow
  <2> QED BY <2>1, <2>2
<1>3. CASE rows[k].status = "none"
  <2>1. rows'[k] = rows[k]
    BY <1>3, RecordKeepsRows
  <2>2. OutboxEntry(k)' = OutboxEntry(k)
    BY <1>0, <1>1, <2>1 DEF EntryIsRow
  <2> QED BY <1>2, <2>2
<1>4. CASE rows[k].status # "none"
  <2> DEFINE new == Recorded(rows[k], pc[c] = "sent")
  <2>1. rows'[k] = new
    BY <1>4, RecordKeepsRows
  <2>2. /\ rows[k] \in Row /\ rows[k].attempts < MaxAttempts /\ rows[k].attempts \in Nat
        /\ rows[k].status \in {"pending", "retry"}
    BY <1>0, <1>4, OwedRow DEF BatchesAreOwed, Row
  <2>3. /\ new.attempts = rows[k].attempts + 1
        /\ \/ new.status = "delivered"
           \/ new.status = "failed" /\ rows[k].attempts + 1 = MaxAttempts
           \/ new.status = "retry" /\ rows[k].attempts + 1 # MaxAttempts
    BY <2>2 DEF Recorded
  <2> HIDE DEF new
  <2>4. /\ OutboxEntry(k) = [state |-> "owed", tries |-> rows[k].attempts]
        /\ OutboxEntry(k)' = [state |-> StateOf(new.status), tries |-> rows[k].attempts + 1]
    BY <1>0, <1>1, <2>1, <2>2, <2>3 DEF EntryIsRow, StateOf
  <2>5. /\ StateOf(new.status) \in {"owed", "delivered", "failed"}
        /\ StateOf(new.status) = "failed" <=>
             (StateOf(new.status) # "delivered" /\ rows[k].attempts + 1 = MaxAttempts)
    BY <2>3 DEF StateOf
  <2>6. [j \in Key |-> OutboxEntry(j)]' =
          [[j \in Key |-> OutboxEntry(j)] EXCEPT ![k] =
             [state |-> StateOf(new.status), tries |-> rows[k].attempts + 1]]
    BY <1>2, <2>4
  <2>7. Outbox!Attempt(k)
    <3> DEFINE box == [j \in Key |-> OutboxEntry(j)]
               st == StateOf(new.status)
    <3>1. box[k].state = "owed" /\ box[k].tries = rows[k].attempts
      BY <2>4
    <3>2. box' = [box EXCEPT ![k] = [state |-> st, tries |-> box[k].tries + 1]]
      BY <2>6, <3>1
    <3>3. st = "failed" <=> (st # "delivered" /\ box[k].tries + 1 = MaxAttempts)
      BY <2>5, <3>1
    <3> HIDE DEF st
    <3>4. st \in {"owed", "delivered", "failed"}
      BY <2>5 DEF st
    <3> QED BY <2>2, <3>1, <3>2, <3>3, <3>4 DEF Outbox!Attempt
  <2> QED BY <2>7
<1> QED BY <1>3, <1>4

(* Steps that leave the store alone leave every entry alone. *)
LEMMA StoreStutters ==
  ASSUME UNCHANGED storeVars
  PROVE  [j \in Key |-> OutboxEntry(j)]' = [j \in Key |-> OutboxEntry(j)]
  BY DEF storeVars, queueVars, OutboxEntry

(***************************************************************************)
(* The dispatcher implements the outbox: for every delivery, whatever the  *)
(* callers, faults, retention and deletions do, it is queued at most once, *)
(* attempted at most MaxAttempts times, settled for good and never back    *)
(* once it is dropped.                                                     *)
(***************************************************************************)
THEOREM DispatcherImplementsOutbox == Spec => ImplementsOutbox
<1>1. Init => Outbox!OutboxInit
  <2> SUFFICES ASSUME Init, NEW k \in Key PROVE OutboxEntry(k) = Outbox!Future
    BY DEF Outbox!OutboxInit
  <2>1. k[1] >= nextEvent /\ rows[k].attempts = 0
    BY FindingStoreAssumption DEF Init, StoreInit, Key, Event, NoRow, NewRow
  <2> QED BY <2>1 DEF OutboxEntry, Outbox!Future
<1>2. IInv /\ IInv' /\ HInv /\ [Next]_vars =>
        [Outbox!OutboxNext]_(Outbox!outboxVars)
  <2> SUFFICES ASSUME IInv, IInv', HInv, [Next]_vars
               PROVE  \/ Outbox!OutboxNext
                      \/ [j \in Key |-> OutboxEntry(j)]' = [j \in Key |-> OutboxEntry(j)]
    BY DEF Outbox!outboxVars
  <2>1. CASE StoreNext /\ UNCHANGED dispatchVars
    BY <2>1, StoreRefines DEF Outbox!OutboxNext
  <2>2. ASSUME NEW c \in Caller, NEW k \in Key, RecordFindingNotification(c, k)
        PROVE  \/ Outbox!OutboxNext
               \/ [j \in Key |-> OutboxEntry(j)]' = [j \in Key |-> OutboxEntry(j)]
    <3>1. \/ Outbox!Attempt(k)
          \/ [j \in Key |-> OutboxEntry(j)]' = [j \in Key |-> OutboxEntry(j)]
      BY <2>2, RecordRefines DEF HInv
    <3> QED BY <3>1 DEF Outbox!OutboxNext
  <2>3. CASE UNCHANGED storeVars
    BY <2>3, StoreStutters
  <2>4. ASSUME NEW c \in Caller, Dispatch(c),
               ~\E k \in Key : RecordFindingNotification(c, k)
        PROVE  UNCHANGED storeVars
    BY <2>4 DEF Dispatch, CallDispatchPending, LockAndLoad, Unlock, LoadFails, Send, LookupFails,
                RecordFails
  <2>5. Restart \/ UNCHANGED vars => UNCHANGED storeVars
    BY DEF Restart, vars
  <2> QED BY <2>1, <2>2, <2>3, <2>4, <2>5 DEF Next
<1> QED BY <1>1, <1>2, Invariance, HistoryInvariance, PTL
        DEF Spec, ImplementsOutbox, Outbox!OutboxSpec
==============================================================================
