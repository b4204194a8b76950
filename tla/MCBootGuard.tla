----------------------------- MODULE MCBootGuard -----------------------------
(***************************************************************************)
(* Small instances of BootGuard for TLC: two tasks, a controller and a     *)
(* notification, of which at most two are broken.                          *)
(***************************************************************************)
EXTENDS BootGuard

Sound == [i \in Items |-> "none"]

\* One item crashes the unit, in setup() or in loop().
OneDefect == {[Sound EXCEPT ![i] = s] : i \in Items, s \in Stages}

\* As before, or two tasks do.
SomeDefects ==
    OneDefect \cup {[i \in Items |-> IF i \in Tasks THEN s ELSE "none"] :
                       s \in Stages}

=============================================================================
