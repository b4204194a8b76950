----------------------------- MODULE MCMqttQueue -----------------------------
(***************************************************************************)
(* Small instances of MqttQueue for TLC: two configurations between which  *)
(* the depth, the retries and the full queue action change, or one.        *)
(***************************************************************************)
EXTENDS MqttQueue

\* The full queue action "ignore new", and less room.
IgnoreNew == [depth |-> 1, retries |-> 2, oldest |-> FALSE]

\* "Delete oldest", and fewer retries.
DeleteOldest == [depth |-> 2, retries |-> 1, oldest |-> TRUE]

BothConfigs == {IgnoreNew, DeleteOldest}

OneConfig == {IgnoreNew}

=============================================================================
