---------------------------- MODULE MCQueueTimer ----------------------------
(***************************************************************************)
(* Small instances of QueueTimer for TLC: a clock of 16 values, so that it *)
(* wraps many times, and intervals shorter and longer than the fall-back.  *)
(***************************************************************************)
EXTENDS QueueTimer

Intervals == {1, 3}

=============================================================================
