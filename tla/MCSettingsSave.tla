--------------------------- MODULE MCSettingsSave ---------------------------
(* Small instances of SettingsSave for TLC.                                  *)
EXTENDS SettingsSave

TwoValues == {"a", "b"}

Bounds(op, crash, fault, power, errors) ==
    [op |-> op, crash |-> crash, fault |-> fault, power |-> power, link |-> errors]

Power      == Bounds(3, 1, 2, 2, 1)
LateOnly   == Bounds(3, 0, 0, 0, 0)
=============================================================================
