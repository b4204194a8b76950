------------------------------- MODULE Alarms -------------------------------
(***************************************************************************)
(* What the scheduler promises to whoever sets a timer: one alarm per id,  *)
(* that can be moved but not be lost, and goes off once, not before it is  *)
(* due and not after a later one.  One handler runs at a time.  The list   *)
(* of timers and how it is kept in order are hidden.                       *)
(***************************************************************************)
EXTENDS TimeCalc

CONSTANTS
    Ids,     \* what can be scheduled (the mixed ids of the code)
    Nobody   \* no handler runs

VARIABLES
    now,     \* millis()
    due,     \* due[id]: when the alarm goes off, or NotSet
    serving  \* the id whose handler runs, or Nobody

NotSet == -1

IsSet(id) == due[id] # NotSet

Init ==
    /\ now \in ULong
    /\ due \in [Ids -> ULong \cup {NotSet}]
    /\ serving = Nobody

\* Alarms are set or moved, any number at once.
Register ==
    /\ due' \in [Ids -> ULong \cup {NotSet}]
    /\ \A id \in Ids : IsSet(id) => due'[id] # NotSet
    /\ UNCHANGED <<now, serving>>

\* An alarm goes off; it may be set again for the next time at once.
GoOff(id) ==
    /\ serving = Nobody
    /\ IsSet(id)
    /\ timeOutReached(due[id], now)
    /\ \A other \in Ids :
         IsSet(other) => timePassedSince(due[id], now)
                           >= timePassedSince(due[other], now)
    /\ due' \in [Ids -> ULong \cup {NotSet}]
    /\ \A other \in Ids \ {id} : due'[other] = due[other]
    /\ serving' = id
    /\ UNCHANGED now

Return ==
    /\ serving # Nobody
    /\ serving' = Nobody
    /\ UNCHANGED <<now, due>>

Tick ==
    /\ now' = Plus(now, 1)
    /\ UNCHANGED <<due, serving>>

Next ==
    \/ Register
    \/ \E id \in Ids : GoOff(id)
    \/ Return
    \/ Tick

Spec == Init /\ [][Next]_<<now, due, serving>>

=============================================================================
