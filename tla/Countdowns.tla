------------------------------ MODULE Countdowns ------------------------------
(***************************************************************************)
(* What the timers of rules promise: a timer that is set fires, once, when *)
(* its time has been spent, the time it was paused for not counted, and    *)
(* not before; it does not stop unless it fires or a command is given.     *)
(*                                                                         *)
(* Firing, the commands that set or clear timers, and the rules that are   *)
(* run for a pause or a resumption can be seen from outside.  Commands     *)
(* those rules have for their own timer meddle with it: it is paused or    *)
(* resumed all the same, or stays cleared if it was to be paused.          *)
(***************************************************************************)
EXTENDS TimeCalc

CONSTANTS
    Timers,     \* the timers
    Durations,  \* the times they are set to
    MaxLate     \* bound: how late a timer may be

VARIABLES
    now,      \* millis()
    mode,     \* "off", "running", "pause" (rules for it are run), "paused" or
              \* "resume" (rules for it are run)
    left,     \* the time left, negative when it is late
    meddled,  \* timers whose rules had commands for them since
    firing,   \* the timer that has fired and whose rules are run, or 0
    ordered   \* what the last step has set a timer to, 0 to clear it

vars == <<now, mode, left, meddled, firing, ordered>>

Order(t, d) == [timer |-> t, time |-> d]
NoOrder     == Order(0, 0)

Init ==
    /\ now \in ULong
    /\ mode = [t \in Timers |-> "off"] /\ left = [t \in Timers |-> 0]
    /\ meddled = {} /\ firing = 0 /\ ordered = NoOrder

Become(t, m, n) ==
    /\ mode' = [mode EXCEPT ![t] = m]
    /\ left' = [left EXCEPT ![t] = n]

\* A timer that would end when millis() is 0 is lost: 0 stands for "off".
Start(t, d) ==
    IF Plus(now, d) = 0 THEN Become(t, "off", 0) ELSE Become(t, "running", d)

InRules(t) == mode[t] \in {"pause", "resume"}

Set(t, d) ==
    /\ ~InRules(t)
    /\ IF d > 0 THEN Start(t, d) ELSE Become(t, "off", 0)
    /\ ordered' = Order(t, d)
    /\ UNCHANGED <<now, meddled, firing>>

Meddle(t) ==
    /\ InRules(t)
    /\ meddled' = meddled \cup {t}
    /\ ordered' \in {NoOrder} \cup {Order(t, d) : d \in Durations}
    /\ UNCHANGED <<now, mode, left, firing>>

Pause(t) ==
    /\ mode[t] = "running" /\ left[t] > 0 /\ Become(t, "pause", left[t])
    /\ ordered' = NoOrder
    /\ UNCHANGED <<now, meddled, firing>>

Paused(t) ==
    /\ mode[t] = "pause"
    /\ \/ Become(t, "paused", left[t])
       \/ t \in meddled /\ Become(t, "off", 0)
    /\ meddled' = meddled \ {t}
    /\ ordered' = NoOrder
    /\ UNCHANGED <<now, firing>>

Resume(t) ==
    /\ mode[t] = "paused" /\ Become(t, "resume", left[t])
    /\ ordered' = NoOrder
    /\ UNCHANGED <<now, meddled, firing>>

Resumed(t) ==
    /\ mode[t] = "resume"
    /\ \/ Start(t, left[t])
       \/ t \in meddled /\ \E d \in 0..HalfMax : Start(t, d)
    /\ meddled' = meddled \ {t}
    /\ ordered' = NoOrder
    /\ UNCHANGED <<now, firing>>

Fire(t) ==
    /\ mode[t] = "running" /\ left[t] <= 0 /\ firing = 0
    /\ Become(t, "off", 0)
    /\ firing' = t
    /\ ordered' = NoOrder
    /\ UNCHANGED <<now, meddled>>

\* The rules for a timer that has fired are at an end, or nothing was done
\* about timers.
Go == firing' \in {firing, 0} /\ ordered' = NoOrder
        /\ UNCHANGED <<now, mode, left, meddled>>

Pass ==
    /\ now' = Plus(now, 1)
    /\ left' = [t \in Timers |->
                  IF mode[t] = "running" THEN left[t] - 1 ELSE left[t]]
    /\ \A t \in Timers : left'[t] >= -MaxLate
    /\ ordered' = NoOrder
    /\ UNCHANGED <<mode, meddled, firing>>

Next ==
    \/ \E t \in Timers, d \in Durations : Set(t, d)
    \/ \E t \in Timers : \/ Meddle(t) \/ Pause(t) \/ Paused(t)
                         \/ Resume(t) \/ Resumed(t) \/ Fire(t)
    \/ Go \/ Pass

Spec == Init /\ [][Next]_vars

=============================================================================
