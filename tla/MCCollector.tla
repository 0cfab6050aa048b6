---------------------------- MODULE MCCollector ----------------------------
(* Small instances of Collector for TLC. *)
EXTENDS Collector

(* Sections are numbered in the order of collect. *)
Queries == 1
Locks == 2
Tables == 3
Settings == 4

Owners == [k \in Section |-> CASE k = Queries -> "standard"
                               [] k = Locks -> "fast"
                               [] k = Tables -> "slow"
                               [] k = Settings -> "metadata"]
=============================================================================
