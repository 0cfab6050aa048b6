----------------------------- MODULE MCControls -----------------------------
(* Small instances of OperatorControls for TLC. *)
EXTENDS OperatorControls

(* Server 1 has a tag that may be spelled in two ways, 1 before 2 (lower case). *)
Tags == [s \in Server |-> IF s = 1 THEN {2} ELSE {}]
InLowerCase == [t \in Spelling |-> 2]
Servers == [f \in Finding |-> 1]
Rules == [f \in Finding |-> 1]

(* Two instants in a second; its text puts the whole second last. *)
HalfSeconds == [t \in Time |-> t \div 2]
WholeLast == [t \in Time |-> 1 - (t % 2)]

(* One window for a server, one for a tag; the last suppression is not valid. *)
SomeWindows == {[server |-> 1, tag |-> 0, rules |-> Rule], [server |-> 0, tag |-> 1, rules |-> {1}]}
SomeSuppressions == {[finding |-> 1, rule |-> 0, server |-> 0, tag |-> 0],
                     [finding |-> 0, rule |-> 1, server |-> 0, tag |-> 0]}

(* A value for each kind of scope; the last one may meet a profile halfway. *)
SomeOverrides == {[rule |-> 1, scope |-> [type |-> "server", value |-> 1], value |-> 1],
                  [rule |-> 1, scope |-> [type |-> "tag", value |-> 1], value |-> 2],
                  [rule |-> 2, scope |-> [type |-> "global", value |-> 0], value |-> 3]}

(* A profile of every rule. *)
OneProfile == {[rule \in Rule |-> 4]}
=============================================================================
