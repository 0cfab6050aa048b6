------------------------ MODULE MCCollectionStatus ------------------------
(* Small instances of CollectionStatus for TLC. *)
EXTENDS CollectionStatus

Owners ==
    [k \in Section |-> [locks |-> "fast", tables |-> "slow", configuration |-> "metadata"][k]]
Intervals == [r \in Resource |-> 1]
=============================================================================
