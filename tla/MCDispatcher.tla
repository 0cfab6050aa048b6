---------------------------- MODULE MCDispatcher ----------------------------
(* Small instances of Dispatcher for TLC. *)
EXTENDS Dispatcher

CONSTANTS s1, s2, f1, f2, r1

OnOneServer == [f \in {f1} |-> s1]

OnTwoServers == [f \in {f1, f2} |-> IF f = f1 THEN s1 ELSE s2]

(* A rule for everything with a cooldown, one for new problems, a disabled one. *)
Everything == [NoRoute EXCEPT !.state = "enabled", !.dests = {1}, !.cooldown = 1]
NewProblems == [NoRoute EXCEPT !.state = "enabled", !.dests = {1},
                               !.severities = {2}, !.transitions = {"new", "reopened"},
                               !.scope = {f1}]
Disabled == [NoRoute EXCEPT !.state = "disabled", !.dests = {1}]
Shapes == {Everything, NewProblems, Disabled}
=============================================================================
