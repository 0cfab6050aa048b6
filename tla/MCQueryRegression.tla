------------------------- MODULE MCQueryRegression -------------------------
(* Small instances of QueryRegression for TLC. *)
EXTENDS QueryRegression

(* 80 ms, 160 ms and 100 ms a call. *)
Normal == [calls |-> 20, mean |-> 80000]
Slow == [calls |-> 20, mean |-> 160000]
(* Too few calls for an interval of its own; two periods of it are enough. *)
Quiet == [calls |-> 10, mean |-> 80000]
(* Many calls, somewhat slower: after an eviction its counters soon overtake. *)
Drift == [calls |-> 120, mean |-> 100000]

Loads == {Normal, Slow, Quiet, Drift}
=============================================================================
