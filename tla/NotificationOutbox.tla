------------------------- MODULE NotificationOutbox -------------------------
(***************************************************************************)
(* What the notification queue promises for one delivery, that is for one  *)
(* event addressed to one destination: it is queued at most once, it is    *)
(* attempted at most MaxAttempts times, a delivery that was delivered,     *)
(* skipped or given up never changes again, and once a delivery is dropped *)
(* it never comes back.  Nothing is said of collectors, locks, batches,    *)
(* backoff or retention: those belong to the implementation, the modules   *)
(* FindingStore and Dispatcher.                                            *)
(***************************************************************************)
EXTENDS Naturals

CONSTANTS
    Delivery,      \* every delivery there may ever be
    MaxAttempts    \* attempts after which a delivery is given up

VARIABLE
    box            \* [Delivery -> Entry]

Entry == [state : {"future", "owed", "delivered", "failed", "skipped", "gone"},
          tries : 0..MaxAttempts]

Future  == [state |-> "future",  tries |-> 0]
Owed    == [state |-> "owed",    tries |-> 0]
Skipped == [state |-> "skipped", tries |-> 0]
Gone    == [state |-> "gone",    tries |-> 0]

OutboxInit == box = [k \in Delivery |-> Future]

(***************************************************************************)
(* An event is announced: future deliveries are queued, skipped because    *)
(* of a cooldown or not made at all, and retention may drop old ones.      *)
(* Retention, the deletion of a destination and the deletion of a server   *)
(* only drop.                                                              *)
(***************************************************************************)
AnnounceOrDrop ==
    box' \in [Delivery -> Entry] /\ \A k \in Delivery :
        \/ box'[k] = box[k]
        \/ box'[k] = Gone
        \/ box[k] = Future /\ box'[k] \in {Owed, Skipped}

(***************************************************************************)
(* One delivery that is owed is attempted, and the outcome is recorded.    *)
(***************************************************************************)
Attempt(k) ==
    /\ box[k].state = "owed"
    /\ box[k].tries < MaxAttempts
    /\ \E outcome \in {"owed", "delivered", "failed"} :
        /\ outcome = "failed" <=> (outcome # "delivered" /\ box[k].tries + 1 = MaxAttempts)
        /\ box' = [box EXCEPT ![k] = [state |-> outcome, tries |-> box[k].tries + 1]]

OutboxNext == AnnounceOrDrop \/ \E k \in Delivery : Attempt(k)

outboxVars == <<box>>

OutboxSpec == OutboxInit /\ [][OutboxNext]_outboxVars
=============================================================================
