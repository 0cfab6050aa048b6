-------------------------- MODULE MCChangeHistory --------------------------
(* Small instances of ChangeHistory for TLC. *)
EXTENDS ChangeHistory, TLC

At(sec, frac) == [s |-> sec, f |-> frac]

(* Half a second and 55 hundredths: the later one sorts first. *)
Clock == <<At(10, <<5>>), At(10, <<5, 5>>), At(12, <<>>), At(13, <<5>>)>>

SettingSymmetry == Permutations(Setting)
=============================================================================
