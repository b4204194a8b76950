---------------------------- MODULE MCScheduler ----------------------------
(***************************************************************************)
(* A small instance of Scheduler for TLC: a job of its own and one that    *)
(* other code restarts, one task, and a clock of ten values.               *)
(***************************************************************************)
EXTENDS Scheduler

StepOfJob == [j \in Jobs |-> 2]

IntervalChoices == {0, 2}

=============================================================================
