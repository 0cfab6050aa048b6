----------------------------- MODULE Dispatcher -----------------------------
(***************************************************************************)
(* The notification dispatcher on top of FindingStore.  Every collection   *)
(* cycle ends with a call of DispatchPending, and cycles of several        *)
(* servers and resources run concurrently, so several callers meet at the  *)
(* mutex that DispatchPending holds while it works through a batch.  The   *)
(* process may crash and restart at any step; the store survives.          *)
(***************************************************************************)
EXTENDS FindingStore

CONSTANTS
    Caller,         \* collection cycles that may call DispatchPending at once
    BatchLimit,     \* deliveries loaded by one call (50)
    MaxFaults       \* bound: crashes and failures to record an attempt

NoCaller == "none"

ASSUME DispatcherAssumption ==
    /\ NoCaller \notin Caller
    /\ BatchLimit \in Nat \ {0}
    /\ MaxFaults \in Nat

VARIABLES
    lock,           \* the holder of dispatchMu, or NoCaller
    pc,             \* [Caller -> "idle", "waiting", "sending", "sent", "unsent"]
    batch,          \* [Caller -> SUBSET Key]: items the call has yet to record
    sends,          \* [Key -> Nat]: requests made for a delivery (history)
    faults          \* crashes and records lost so far

dispatchVars == <<lock, pc, batch, sends, faults>>
vars == <<storeVars, dispatchVars>>

(* ORDER BY created_at, destination_id *)
Before(j, k) == j[1] < k[1] \/ (j[1] = k[1] /\ j[2] < k[2])
IsNext(k, B) == k \in B /\ \A j \in B \ {k} : Before(k, j)

(* Mutant of Undelivered: only failed deliveries are filtered out. *)
NotFailed(k) == rows[k].status \in {"pending", "retry", "delivered", "cooldown"}

Undelivered(k) == rows[k].status \in {"pending", "retry"}
Due == {k \in Key : /\ Undelivered(k)
                    /\ rows[k].attempts < MaxAttempts
                    /\ rows[k].wait = 0}

PendingFindingNotifications ==
    {k \in Due : Cardinality({j \in Due : Before(j, k)}) < BatchLimit}

-----------------------------------------------------------------------------
(* A cycle reaches its call and asks for the mutex. *)
CallDispatchPending(c) ==
    /\ pc[c] = "idle"
    /\ pc' = [pc EXCEPT ![c] = "waiting"]
    /\ UNCHANGED <<storeVars, lock, batch, sends, faults>>

(* Mutant of Locked: DispatchPending without its mutex. *)
NeverLocked == FALSE

Locked == lock # NoCaller

LockAndLoad(c) ==
    /\ pc[c] = "waiting"
    /\ ~Locked
    /\ Idle
    /\ lock' = c
    /\ batch' = [batch EXCEPT ![c] = PendingFindingNotifications]
    /\ pc' = [pc EXCEPT ![c] = "sending"]
    /\ UNCHANGED <<storeVars, sends, faults>>

(* The batch cannot be loaded: the mutex is held and released for nothing. *)
LoadFails(c) ==
    /\ pc[c] = "waiting"
    /\ ~Locked
    /\ faults < MaxFaults
    /\ faults' = faults + 1
    /\ pc' = [pc EXCEPT ![c] = "idle"]
    /\ UNCHANGED <<storeVars, lock, batch, sends>>

(***************************************************************************)
(* The request for the next item of the batch.  Nobody looks at the row    *)
(* again, nor at whether the destination is still enabled.  A request that *)
(* fails may still have reached its target.                                *)
(***************************************************************************)
Send(c, k) ==
    /\ pc[c] = "sending"
    /\ IsNext(k, batch[c])
    /\ dest[k[2]] \in {"enabled", "disabled"}
    /\ sends' = [sends EXCEPT ![k] = @ + 1]
    /\ \E outcome \in {"sent", "unsent"} : pc' = [pc EXCEPT ![c] = outcome]
    /\ UNCHANGED <<storeVars, lock, batch, faults>>

(* The destination is gone or cannot be read: an attempt without a request. *)
LookupFails(c, k) ==
    /\ pc[c] = "sending"
    /\ IsNext(k, batch[c])
    /\ pc' = [pc EXCEPT ![c] = "unsent"]
    /\ UNCHANGED <<storeVars, lock, batch, sends, faults>>

Backoff(attempts) == attempts * attempts

(* Mutant of Recorded: attempts and backoff change places in the update. *)
RecordedSwapped(row, ok) ==
    LET n == row.attempts + 1 IN
    IF ok THEN [status |-> "delivered", attempts |-> Backoff(n), wait |-> 0, age |-> 0]
    ELSE IF n >= MaxAttempts
         THEN [status |-> "failed", attempts |-> Backoff(n), wait |-> 0, age |-> 0]
         ELSE [status |-> "retry", attempts |-> Backoff(n), wait |-> n, age |-> 0]

(* Mutant of Recorded: gives up one attempt too late. *)
RecordedLate(row, ok) ==
    LET n == row.attempts + 1 IN
    IF ok THEN [status |-> "delivered", attempts |-> n, wait |-> 0, age |-> 0]
    ELSE IF n > MaxAttempts
         THEN [status |-> "failed", attempts |-> n, wait |-> 0, age |-> 0]
         ELSE [status |-> "retry", attempts |-> n, wait |-> Backoff(n), age |-> 0]

Recorded(row, ok) ==
    LET n == row.attempts + 1 IN
    IF ok THEN [status |-> "delivered", attempts |-> n, wait |-> 0, age |-> 0]
    ELSE IF n >= MaxAttempts
         THEN [status |-> "failed", attempts |-> n, wait |-> 0, age |-> 0]
         ELSE [status |-> "retry", attempts |-> n, wait |-> Backoff(n), age |-> 0]

(* A row that is gone is not updated. *)
RecordFindingNotification(c, k) ==
    /\ pc[c] \in {"sent", "unsent"}
    /\ IsNext(k, batch[c])
    /\ Idle
    /\ rows' = IF rows[k].status = "none" THEN rows
               ELSE Prune([rows EXCEPT ![k] = Recorded(@, pc[c] = "sent")])
    /\ batch' = [batch EXCEPT ![c] = @ \ {k}]
    /\ pc' = [pc EXCEPT ![c] = "sending"]
    /\ UNCHANGED <<findingVars, configVars, event, nextEvent, txVars, lock, sends, faults>>

(* The update fails, which is only logged: the row still owes its delivery. *)
RecordFails(c, k) ==
    /\ pc[c] \in {"sent", "unsent"}
    /\ IsNext(k, batch[c])
    /\ faults < MaxFaults
    /\ faults' = faults + 1
    /\ batch' = [batch EXCEPT ![c] = @ \ {k}]
    /\ pc' = [pc EXCEPT ![c] = "sending"]
    /\ UNCHANGED <<storeVars, lock, sends>>

Unlock(c) ==
    /\ pc[c] = "sending"
    /\ batch[c] = {}
    /\ lock' = NoCaller
    /\ pc' = [pc EXCEPT ![c] = "idle"]
    /\ UNCHANGED <<storeVars, batch, sends, faults>>

(* The process dies and starts again: what it held in memory is lost. *)
Restart ==
    /\ faults < MaxFaults
    /\ Idle
    /\ \E c \in Caller : pc[c] # "idle"
    /\ faults' = faults + 1
    /\ lock' = NoCaller
    /\ pc' = [c \in Caller |-> "idle"]
    /\ batch' = [c \in Caller |-> {}]
    /\ UNCHANGED <<storeVars, sends>>

-----------------------------------------------------------------------------
Init ==
    /\ StoreInit
    /\ lock = NoCaller
    /\ pc = [c \in Caller |-> "idle"]
    /\ batch = [c \in Caller |-> {}]
    /\ sends = [k \in Key |-> 0]
    /\ faults = 0

Dispatch(c) ==
    \/ CallDispatchPending(c)
    \/ LockAndLoad(c)
    \/ LoadFails(c)
    \/ \E k \in Key : \/ Send(c, k)
                      \/ LookupFails(c, k)
                      \/ RecordFindingNotification(c, k)
                      \/ RecordFails(c, k)
    \/ Unlock(c)

Next ==
    \/ StoreNext /\ UNCHANGED dispatchVars
    \/ \E c \in Caller : Dispatch(c)
    \/ Restart

Spec == Init /\ [][Next]_vars

(***************************************************************************)
(* Collection cycles keep running while the process is up, so every caller *)
(* keeps calling and its call keeps moving; its statements get their turn  *)
(* between the short transactions of other cycles (strong fairness).  Time *)
(* passes and an open transaction finishes.  Findings, operators, crashes  *)
(* and failures owe nothing.                                               *)
(***************************************************************************)
FinishUpsert ==
    /\ \/ \E f \in Fingerprint : UpsertOne(f) \/ ResolveOne(f)
       \/ CommitUpsert
    /\ UNCHANGED dispatchVars

Fairness ==
    /\ \A c \in Caller : SF_vars(Dispatch(c))
    /\ WF_vars(Tick /\ UNCHANGED dispatchVars)
    /\ WF_vars(FinishUpsert)

FairSpec == Spec /\ Fairness

-----------------------------------------------------------------------------
(* Types of every variable. *)
TypeOK ==
    /\ StoreTypeOK
    /\ lock \in Caller \cup {NoCaller}
    /\ pc \in [Caller -> {"idle", "waiting", "sending", "sent", "unsent"}]
    /\ batch \in [Caller -> SUBSET Key]
    /\ sends \in [Key -> Nat]
    /\ faults \in 0..MaxFaults

(***************************************************************************)
(* The columns of a delivery agree with each other: a delivery that was    *)
(* not attempted or that is settled waits for nothing, one to be retried   *)
(* has been attempted but not too often, one is failed exactly when its    *)
(* attempts are used up without success (RecordFindingNotification).       *)
(***************************************************************************)
RowShape ==
    \A k \in Key : LET row == rows[k] IN
        /\ row.status \in {"none", "pending", "cooldown"} => row.attempts = 0
        /\ row.status = "retry" => row.attempts \in 1..MaxAttempts - 1
        /\ row.status = "delivered" => row.attempts > 0
        /\ row.status = "failed" => row.attempts = MaxAttempts
        /\ row.status # "retry" => row.wait = 0
        /\ row.wait <= Backoff(row.attempts)

(***************************************************************************)
(* A call works on a batch only while it holds dispatchMu, its batch holds *)
(* deliveries of events that were created, and nothing was requested or    *)
(* stored for an event still to be created.                                *)
(***************************************************************************)
LockDiscipline ==
    /\ \A c \in Caller : IF pc[c] \in {"idle", "waiting"} THEN batch[c] = {} ELSE lock = c
    /\ \A c \in Caller : \A k \in batch[c] : k[1] < nextEvent
    /\ \A k \in Key : k[1] >= nextEvent => rows[k] = NoRow /\ sends[k] = 0

(***************************************************************************)
(* dispatchMu keeps concurrent cycles from delivering the same row twice:  *)
(* the requests made for a delivery are the attempts on record, plus the   *)
(* one under way, plus the ones whose record a fault lost.  In particular  *)
(* no delivery is requested more than MaxAttempts + MaxFaults times.       *)
(***************************************************************************)
UnderWay(k) == \E c \in Caller : pc[c] \in {"sent", "unsent"} /\ IsNext(k, batch[c])

SendsAccounted ==
    \A k \in Key : rows[k].status # "none" =>
        sends[k] <= rows[k].attempts + faults + (IF UnderWay(k) THEN 1 ELSE 0)

(***************************************************************************)
(* A request is only ever made for a delivery still owed, or for one that  *)
(* was deleted after the batch was loaded: never for one already           *)
(* delivered, failed or skipped (PendingFindingNotifications under the     *)
(* mutex of DispatchPending).                                              *)
(***************************************************************************)
BatchesAreOwed ==
    \A c \in Caller : \A k \in batch[c] :
        rows[k].status \in {"none", "pending", "retry"}

(***************************************************************************)
(* The history is bounded and refers to what exists: at most Keep rows, of *)
(* destinations that were not deleted and findings of servers that exist   *)
(* (the prune of queueFindingNotification and the foreign keys).           *)
(***************************************************************************)
HistoryBounded ==
    /\ Cardinality(Live(rows)) <= Keep
    /\ \A k \in Live(rows) :
        /\ dest[k[2]] \in {"enabled", "disabled"}
        /\ k[1] < nextEvent
        /\ event[k[1]].finding # NoFinding
        /\ ServerOf[event[k[1]].finding] \in servers
        /\ status[event[k[1]].finding] # "absent"

(***************************************************************************)
(* What subscribers were told last about a finding is the truth about it,  *)
(* as long as it stays severe enough for the default routing and nobody    *)
(* changed the configuration: the newest delivery of a finding announces   *)
(* its resolution exactly when the finding is resolved (UpsertFindings     *)
(* queues in the transaction that changes the status).                     *)
(***************************************************************************)
ToldLast(f, d) == {e \in Event : /\ event[e].finding = f
                                 /\ rows[<<e, d>>].status # "none"
                                 /\ \A x \in Event : x > e => event[x].finding # f}

SubscribersToldTruth ==
    edits = 0 =>
        \A f \in Fingerprint : \A d \in EnabledDestinations : \A e \in ToldLast(f, d) :
            severity[f] >= HighRank =>
                (event[e].type = "resolved" <=> status[f] = "resolved")

(***************************************************************************)
(* A reconciliation touches findings of its own server only, never undoes  *)
(* an acknowledgement, and is the only way into and out of "resolved"      *)
(* (UpsertFindings and the guard of SetFindingStatus).                     *)
(***************************************************************************)
TriageRespected ==
    [][\A f \in Fingerprint : status'[f] # status[f] =>
        IF Idle
        THEN \/ {status[f], status'[f]} \subseteq OpenStatus
             \/ status'[f] = "absent"
        ELSE /\ ServerOf[f] = txServer
             /\ status'[f] = "resolved" <=> report[f] = 0
             /\ status[f] = "acknowledged" => status'[f] = "resolved"]_vars

(* The row of a delivery as the promised entry of the outbox. *)
OutboxEntry(k) ==
    [state |-> IF k[1] >= nextEvent THEN "future"
               ELSE CASE rows[k].status = "none" -> "gone"
                      [] rows[k].status \in {"pending", "retry"} -> "owed"
                      [] rows[k].status = "cooldown" -> "skipped"
                      [] OTHER -> rows[k].status,
     tries |-> rows[k].attempts]

Outbox == INSTANCE NotificationOutbox
            WITH Delivery <- Key, box <- [k \in Key |-> OutboxEntry(k)]

(***************************************************************************)
(* Queue, mutex, batches, faults, retention and deletions together keep    *)
(* the promise of NotificationOutbox for every delivery.                   *)
(***************************************************************************)
ImplementsOutbox == Outbox!OutboxSpec

(***************************************************************************)
(* Every delivery that is owed is in the end delivered, given up or        *)
(* deleted: the batch limit and the order of PendingFindingNotifications   *)
(* starve nobody, and no caller is stuck at the mutex forever.             *)
(***************************************************************************)
EveryDeliverySettles == \A k \in Key : Undelivered(k) ~> ~Undelivered(k)
=============================================================================
