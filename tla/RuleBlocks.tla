------------------------------ MODULE RuleBlocks ------------------------------
(***************************************************************************)
(* The interpreter of rules: rulesProcessingFile(), line by line, with     *)
(* parseCompleteNonCommentLine() and processMatchedRule().                 *)
(*                                                                         *)
(* A file is any sequence of lines, well-formed or not; comments and empty *)
(* lines are left out.  Whether a trigger matches and whether a condition  *)
(* holds is up to the event and the values of the moment: any Boolean.     *)
(* What a command does is not modelled, but for nested events, which have  *)
(* an interpreter of their own (see RuleEvents, whose names differ from    *)
(* those of this module, since RulesProofs extends both).                  *)
(***************************************************************************)
EXTENDS Integers

CONSTANTS
    MaxIf,    \* RULES_IF_MAX_NESTING_LEVEL
    MaxFake   \* bound: the largest fakeIfBlock, which is a byte

ASSUME RuleBlocksAssumption == MaxIf \in Nat \ {0} /\ MaxFake \in Nat

VARIABLES
    match,        \* the event matches the rule
    codeBlock,    \* between "on ... do" and "endon"
    condition,    \* the last condition of each "if"
    ifBranche,    \* FALSE when a later branch than the condition's is read
    ifBlock,      \* number of "if"s with a condition
    fakeIfBlock,  \* number of "if"s within that have none
    line,         \* history: what the last line was
    ran           \* history: ... and that it was a command that ran

blocksVars == <<match, codeBlock, condition, ifBranche, ifBlock, fakeIfBlock,
                line, ran>>

Levels == 1..MaxIf

\* The arrays are not initialised.
BlocksInit ==
    /\ match = FALSE /\ codeBlock = FALSE
    /\ condition \in [Levels -> BOOLEAN]
    /\ ifBranche \in [Levels -> BOOLEAN]
    /\ ifBlock = 0 /\ fakeIfBlock = 0
    /\ line = "other" /\ ran = FALSE

Read(kind, runs) == line' = kind /\ ran' = runs

-----------------------------------------------------------------------------
\* processMatchedRule()

\* Only the innermost "if" is looked at.
IsCommand ==
    /\ fakeIfBlock = 0
    /\ ifBlock = 0 \/ condition[ifBlock] = ifBranche[ifBlock]

\* Mutant: the nesting level is not limited.
IfCounted(holds) ==
    IF IsCommand
    THEN /\ ifBlock' = ifBlock + 1
         /\ condition' = [condition EXCEPT ![ifBlock + 1] = holds]
         /\ ifBranche' = [ifBranche EXCEPT ![ifBlock + 1] = TRUE]
         /\ UNCHANGED fakeIfBlock
    ELSE /\ fakeIfBlock' = fakeIfBlock + 1
         /\ UNCHANGED <<condition, ifBranche, ifBlock>>

\* Mutant: an "if" is evaluated in a branch that is not taken, too.
IfEverywhere(holds) ==
    IF ifBlock < MaxIf /\ fakeIfBlock = 0
    THEN /\ ifBlock' = ifBlock + 1
         /\ condition' = [condition EXCEPT ![ifBlock + 1] = holds]
         /\ ifBranche' = [ifBranche EXCEPT ![ifBlock + 1] = TRUE]
         /\ UNCHANGED fakeIfBlock
    ELSE /\ fakeIfBlock < MaxFake
         /\ fakeIfBlock' = fakeIfBlock + 1
         /\ UNCHANGED <<condition, ifBranche, ifBlock>>

If(holds) ==
    IF ifBlock < MaxIf /\ IsCommand
    THEN /\ ifBlock' = ifBlock + 1
         /\ condition' = [condition EXCEPT ![ifBlock + 1] = holds]
         /\ ifBranche' = [ifBranche EXCEPT ![ifBlock + 1] = TRUE]
         /\ UNCHANGED fakeIfBlock
    ELSE /\ fakeIfBlock < MaxFake
         /\ fakeIfBlock' = fakeIfBlock + 1
         /\ UNCHANGED <<condition, ifBranche, ifBlock>>

\* Mutant: the condition is evaluated although one was true before.
ElseifAgain(holds) ==
    /\ IF ifBlock > 0 /\ fakeIfBlock = 0
       THEN condition' = [condition EXCEPT ![ifBlock] = holds]
       ELSE UNCHANGED condition
    /\ UNCHANGED <<ifBranche, ifBlock, fakeIfBlock>>

Elseif(holds) ==
    /\ IF ifBlock > 0 /\ fakeIfBlock = 0 /\ ifBranche[ifBlock]
       THEN IF condition[ifBlock]
            THEN /\ ifBranche' = [ifBranche EXCEPT ![ifBlock] = FALSE]
                 /\ UNCHANGED condition
            ELSE /\ condition' = [condition EXCEPT ![ifBlock] = holds]
                 /\ UNCHANGED ifBranche
       ELSE UNCHANGED <<condition, ifBranche>>
    /\ UNCHANGED <<ifBlock, fakeIfBlock>>

\* Without an "if" it writes to what lies before the array: the other array,
\* or memory that is not modelled.
Else ==
    /\ \/ /\ fakeIfBlock = 0 /\ ifBlock > 0
          /\ ifBranche' = [ifBranche EXCEPT ![ifBlock] = FALSE]
          /\ UNCHANGED condition
       \/ /\ fakeIfBlock = 0 /\ ifBlock = 0
          /\ condition' \in {condition, [condition EXCEPT ![MaxIf] = FALSE]}
          /\ UNCHANGED ifBranche
       \/ /\ fakeIfBlock > 0
          /\ UNCHANGED <<condition, ifBranche>>
    /\ UNCHANGED <<ifBlock, fakeIfBlock>>

Endif ==
    /\ IF fakeIfBlock > 0
       THEN fakeIfBlock' = fakeIfBlock - 1 /\ UNCHANGED ifBlock
       ELSE /\ ifBlock' = IF ifBlock > 0 THEN ifBlock - 1 ELSE 0
            /\ UNCHANGED fakeIfBlock
    /\ UNCHANGED <<condition, ifBranche>>

\* An action in a rule that matches.
NoIfs == UNCHANGED <<condition, ifBranche, ifBlock, fakeIfBlock>>

Matched ==
    \/ \E holds \in BOOLEAN : If(holds) /\ Read("if", FALSE)
    \/ \E holds \in BOOLEAN : Elseif(holds) /\ Read("elseif", FALSE)
    \/ Else /\ Read("else", FALSE)
    \/ Endif /\ Read("endif", FALSE)
    \/ NoIfs /\ Read("command", IsCommand)

-----------------------------------------------------------------------------
\* parseCompleteNonCommentLine()

\* "on <trigger> do".
OnBlock ==
    /\ ~codeBlock
    /\ match' \in BOOLEAN
    /\ codeBlock' = TRUE
    /\ ifBlock' = 0 /\ fakeIfBlock' = 0
    /\ Read("other", FALSE)
    /\ UNCHANGED <<condition, ifBranche>>

\* "on <trigger> do <action>", whose action may begin an "if" that has no end.
OnLine ==
    /\ ~codeBlock
    /\ match' \in BOOLEAN
    /\ codeBlock' = FALSE
    /\ fakeIfBlock' = 0
    /\ \/ /\ match'
          /\ ifBlock' = 1
          /\ \E holds \in BOOLEAN :
               condition' = [condition EXCEPT ![1] = holds]
          /\ ifBranche' = [ifBranche EXCEPT ![1] = TRUE]
          /\ Read("other", FALSE)
       \/ /\ ifBlock' = 0
          /\ Read("other", match')
          /\ UNCHANGED <<condition, ifBranche>>

\* A line outside of blocks: nothing, or behind a rule of one line that matches
\* an empty action, which changes nothing.
Outside ==
    /\ ~codeBlock
    /\ Read("other", FALSE)
    /\ UNCHANGED <<match, codeBlock, condition, ifBranche, ifBlock,
                   fakeIfBlock>>

InBlock ==
    /\ codeBlock
    /\ UNCHANGED <<match, codeBlock>>
    /\ \/ match /\ Matched
       \/ ~match /\ NoIfs /\ Read("other", FALSE)

Endon ==
    /\ codeBlock
    /\ codeBlock' = FALSE /\ match' = FALSE
    /\ ifBlock' = 0 /\ fakeIfBlock' = 0
    /\ Read("other", FALSE)
    /\ UNCHANGED <<condition, ifBranche>>

\* The end of the file, and the next run.
NextFile ==
    /\ match' = FALSE /\ codeBlock' = FALSE
    /\ ifBlock' = 0 /\ fakeIfBlock' = 0
    /\ Read("other", FALSE)
    /\ condition' \in [Levels -> BOOLEAN]
    /\ ifBranche' \in [Levels -> BOOLEAN]

NextLine == OnBlock \/ OnLine \/ Outside \/ InBlock \/ Endon \/ NextFile

BlocksSpec == BlocksInit /\ [][NextLine]_blocksVars

-----------------------------------------------------------------------------
\* Both arrays are only used within their bounds, but for a stray "else".
BlocksTypeOK ==
    /\ match \in BOOLEAN /\ codeBlock \in BOOLEAN /\ ran \in BOOLEAN
    /\ line \in {"if", "elseif", "else", "endif", "command", "other"}
    /\ condition \in [Levels -> BOOLEAN] /\ ifBranche \in [Levels -> BOOLEAN]
    /\ ifBlock \in 0..MaxIf /\ fakeIfBlock \in 0..MaxFake

\* While an "if" is nested in a branch, that branch is taken: the check of the
\* innermost one stands for all of them.  An open "if" without condition is in
\* a branch that is not taken, or too deep.
OuterBranchesTaken ==
    match /\ codeBlock =>
        /\ \A i \in 1..(ifBlock - 1) : condition[i] = ifBranche[i]
        /\ fakeIfBlock > 0 =>
             \/ ifBlock = MaxIf
             \/ ifBlock > 0 /\ condition[ifBlock] # ifBranche[ifBlock]

\* The interpreter does what "if", "elseif", "else" and "endif" mean, for files
\* with any lines in any order (see Conditionals).
InRule == match /\ codeBlock
Depth  == IF InRule THEN ifBlock + fakeIfBlock ELSE 0
Branch ==
    [i \in 1..Depth |->
       IF i > ifBlock THEN "dead"
       ELSE IF ifBranche[i]
         THEN IF condition[i] THEN "active" ELSE "waiting"
         ELSE IF condition[i] THEN "done" ELSE "other"]

Meaning ==
    INSTANCE Conditionals
    WITH inRule <- InRule, depth <- Depth, branch <- Branch

ImplementsConditionals == Meaning!Spec

=============================================================================
