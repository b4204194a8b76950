---------------------------- MODULE MCDelayQueue ----------------------------
(***************************************************************************)
(* Small instances of DelayQueue for TLC: up to three samples of one or two *)
(* values, queues of depth one and two, one or two retries.                 *)
(***************************************************************************)
EXTENDS DelayQueue

Settings(depths, retries, oldest) ==
    [depth : depths, retries : retries, oldest : oldest]

\* Full queue action "ignore new"; depth 0 is "not configured".
IgnoreNew == Settings({0, 1}, {0, 2}, {FALSE})

\* Both full queue actions.
BothActions == Settings({1, 2}, {1}, BOOLEAN)

\* The second value of even samples, and all values of the third one, are NaN.
SomeInvalid ==
    [s \in SampleIds |-> IF s = 3 THEN ValueIds
                         ELSE IF s % 2 = 0 THEN {2} ELSE {}]

=============================================================================
