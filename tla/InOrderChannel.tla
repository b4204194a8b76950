--------------------------- MODULE InOrderChannel ---------------------------
(***************************************************************************)
(* What a controller's queue promises to the server: values of samples may *)
(* be missing, but those that are acknowledged were offered before, come   *)
(* in the order in which they were taken, and come only once.              *)
(***************************************************************************)
EXTENDS Integers

CONSTANTS
    MaxSamples,  \* bound: number of samples
    Values       \* values of one sample

VARIABLES
    offered,     \* number of samples taken so far
    got          \* the acknowledged <<sample, value>> pairs

Precedes(p, q) == p[1] < q[1] \/ (p[1] = q[1] /\ p[2] < q[2])

Init == offered = 0 /\ got = {}

Offer ==
    /\ offered < MaxSamples
    /\ offered' = offered + 1

Acknowledge(p) ==
    /\ \A q \in got : Precedes(q, p)
    /\ got' = got \cup {p}

AcknowledgeAny == \E p \in (1..offered) \X (1..Values) : Acknowledge(p)

\* A full queue is processed before it takes the next sample: both at once.
Next ==
    \/ Offer /\ UNCHANGED got
    \/ AcknowledgeAny /\ UNCHANGED offered
    \/ Offer /\ AcknowledgeAny

Spec == Init /\ [][Next]_<<offered, got>>

=============================================================================
