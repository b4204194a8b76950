----------------------------- MODULE Conditionals -----------------------------
(***************************************************************************)
(* What "if", "elseif", "else" and "endif" mean in a block of rules: a     *)
(* command runs if it is in the branch taken of every "if" around it, and  *)
(* not behind more than MaxIf of them.                                     *)
(***************************************************************************)
EXTENDS Integers

CONSTANT MaxIf  \* RULES_IF_MAX_NESTING_LEVEL

VARIABLES
    inRule,  \* the block of an event that matches
    depth,   \* number of "if"s around this line
    branch,  \* what has become of each of them, outermost first
    line,    \* what the last line was
    ran      \* it was a command that ran

vars == <<inRule, depth, branch, line, ran>>

(***************************************************************************)
(* "active": its first condition that is true was the last one.            *)
(* "waiting": none was true so far.  "done": one was true before.          *)
(* "other": in its "else", for want of a true one.                         *)
(* "dead": in a branch that is not taken, or nested too deep.              *)
(***************************************************************************)
Status == {"active", "waiting", "done", "other", "dead"}

Taken(b) == b \in {"active", "other"}

Runs == inRule /\ \A i \in 1..depth : Taken(branch[i])

Init ==
    /\ inRule = FALSE
    /\ depth = 0 /\ branch = [i \in 1..0 |-> "dead"]
    /\ line = "other" /\ ran = FALSE

\* A rule of several lines, a rule of one line, the end of a rule.
Begin(matches) ==
    /\ inRule' = matches
    /\ depth' = 0 /\ branch' = [i \in 1..0 |-> "dead"]
    /\ line' = "other" /\ ran' = FALSE

SingleLine(runs) ==
    /\ inRule' = FALSE
    /\ depth' = 0 /\ branch' = [i \in 1..0 |-> "dead"]
    /\ line' = "other" /\ ran' = runs

End == SingleLine(FALSE)

Command ==
    /\ line' = "command" /\ ran' = Runs
    /\ UNCHANGED <<inRule, depth, branch>>

Other(kind) == line' = kind /\ ran' = FALSE /\ UNCHANGED inRule

If(holds) ==
    /\ Other("if")
    /\ inRule
    /\ depth' = depth + 1
    /\ branch' = [i \in 1..(depth + 1) |->
                    IF i <= depth THEN branch[i]
                    ELSE IF ~Runs \/ depth >= MaxIf THEN "dead"
                    ELSE IF holds THEN "active" ELSE "waiting"]

Become(kind, status) ==
    /\ Other(kind)
    /\ depth > 0
    /\ depth' = depth
    /\ branch' = [branch EXCEPT ![depth] = status]

\* An "elseif" or "else" behind "else" belongs to that.
Elseif(holds) ==
    Become("elseif",
           CASE branch[depth] = "active"  -> "done"
             [] branch[depth] = "waiting" ->
                  IF holds THEN "active" ELSE "waiting"
             [] OTHER                     -> branch[depth])

Else ==
    Become("else",
           CASE branch[depth] = "active"  -> "done"
             [] branch[depth] = "waiting" -> "other"
             [] OTHER                     -> branch[depth])

Endif ==
    /\ Other("endif")
    /\ depth > 0
    /\ depth' = depth - 1
    /\ branch' = [i \in 1..(depth - 1) |-> branch[i]]

\* Lines outside of rules, and those that have no "if" to belong to.
Nothing ==
    /\ \/ Other("other")
       \/ depth = 0 /\ (Other("elseif") \/ Other("else") \/ Other("endif"))
    /\ UNCHANGED <<depth, branch>>

Next ==
    \/ \E b \in BOOLEAN : Begin(b) \/ SingleLine(b)
    \/ End \/ Command
    \/ \E b \in BOOLEAN : If(b) \/ Elseif(b)
    \/ Else \/ Endif \/ Nothing

Spec == Init /\ [][Next]_vars

=============================================================================
