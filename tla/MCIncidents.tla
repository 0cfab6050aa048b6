----------------------------- MODULE MCIncidents -----------------------------
(* Small instances of Incidents for TLC. *)
EXTENDS Incidents

(* A chain of relations: 1 with 2, 2 with 3 through a resource; 4 is like 1. *)
Categories == [f \in Finding |-> CASE f = 2 -> "queries" [] f = 3 -> "tables" [] OTHER -> "locks"]
Resources == [f \in Finding |-> IF f \in {2, 3} THEN "orders" ELSE ""]
=============================================================================
