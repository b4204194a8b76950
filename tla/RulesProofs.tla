----------------------------- MODULE RulesProofs -----------------------------
(***************************************************************************)
(* Proofs about the two halves of the rules engine, RuleBlocks and         *)
(* RuleEvents.                                                             *)
(*                                                                         *)
(* RuleBlocks: for every limit of the nesting and every file, the arrays   *)
(* are used within their bounds, the check of the innermost "if" is        *)
(* enough, and the lines mean what Conditionals says.                      *)
(*                                                                         *)
(* RuleEvents: the level of nested events, for every limit and number of   *)
(* timers, and the refinement of the timers of rules: they are countdowns, *)
(* for every word size of millis() and every nesting of events.            *)
(***************************************************************************)
EXTENDS RuleBlocks, RuleEvents, FiniteSetTheorems, SequenceTheorems, TLAPS

(***************************************************************************)
(* RuleBlocks                                                              *)
(***************************************************************************)

LEMMA ConstantTypes == MaxIf \in Nat /\ MaxIf > 0 /\ MaxFake \in Nat
  BY RuleBlocksAssumption

\* The type in two parts, as the provers need them.
Flags ==
    /\ match \in BOOLEAN /\ codeBlock \in BOOLEAN /\ ran \in BOOLEAN
    /\ line \in {"if", "elseif", "else", "endif", "command", "other"}

Arrays ==
    /\ condition \in [Levels -> BOOLEAN] /\ ifBranche \in [Levels -> BOOLEAN]
    /\ ifBlock \in 0..MaxIf /\ fakeIfBlock \in 0..MaxFake

LEMMA TypeParts == BlocksTypeOK <=> Flags /\ Arrays
  BY DEF BlocksTypeOK, Flags, Arrays

LEMMA IsCommandType == IsCommand \in BOOLEAN
  BY DEF IsCommand

LEMMA FlagsNext == Flags /\ [NextLine]_blocksVars => Flags'
<1> SUFFICES ASSUME Flags, [NextLine]_blocksVars PROVE Flags'
  OBVIOUS
<1>1. CASE OnBlock
  BY <1>1, Zenon DEF Flags, OnBlock, Read
<1>2. CASE OnLine
  BY <1>2, Zenon DEF Flags, OnLine, Read
<1>3. CASE Outside
  BY <1>3, Zenon DEF Flags, Outside, Read
<1>4. CASE InBlock
  <2>1. ASSUME Matched PROVE ran' \in BOOLEAN /\ Flags'
    BY <2>1, <1>4, IsCommandType, Zenon DEF Flags, InBlock, Matched, Read
  <2>2. ASSUME Read("other", FALSE) PROVE Flags'
    BY <2>2, <1>4, Zenon DEF Flags, InBlock, Read
  <2> QED
    BY <2>1, <2>2, <1>4 DEF InBlock
<1>5. CASE Endon
  BY <1>5, Zenon DEF Flags, Endon, Read
<1>6. CASE NextFile
  BY <1>6, Zenon DEF Flags, NextFile, Read
<1>7. CASE UNCHANGED blocksVars
  BY <1>7, Zenon DEF Flags, blocksVars
<1> QED
  BY <1>1, <1>2, <1>3, <1>4, <1>5, <1>6, <1>7 DEF NextLine

\* Each kind of line of a rule that matches stays within the bounds.
LEMMA ArraysMatched == ASSUME Arrays, Matched PROVE Arrays'
<1>1. ASSUME NEW holds \in BOOLEAN, If(holds) PROVE Arrays'
  <2>1. CASE ifBlock < MaxIf /\ IsCommand
    <3>1. /\ ifBlock' = ifBlock + 1 /\ fakeIfBlock' = fakeIfBlock
          /\ condition' = [condition EXCEPT ![ifBlock + 1] = holds]
          /\ ifBranche' = [ifBranche EXCEPT ![ifBlock + 1] = TRUE]
      BY <1>1, <2>1 DEF If
    <3> QED
      BY <2>1, <3>1, ConstantTypes DEF Arrays, Levels
  <2>2. CASE ~(ifBlock < MaxIf /\ IsCommand)
    <3>1. /\ fakeIfBlock < MaxFake /\ fakeIfBlock' = fakeIfBlock + 1
          /\ UNCHANGED <<condition, ifBranche, ifBlock>>
      BY <1>1, <2>2 DEF If
    <3> QED
      BY <3>1, ConstantTypes DEF Arrays
  <2> QED
    BY <2>1, <2>2
<1>2. ASSUME NEW holds \in BOOLEAN, Elseif(holds) PROVE Arrays'
  BY <1>2, ConstantTypes DEF Arrays, Elseif, Levels
<1>3. ASSUME Else PROVE Arrays'
  BY <1>3, ConstantTypes DEF Arrays, Else, Levels
<1>4. ASSUME Endif PROVE Arrays'
  BY <1>4, ConstantTypes DEF Arrays, Endif
<1>5. ASSUME NoIfs PROVE Arrays'
  BY <1>5 DEF Arrays, NoIfs
<1> QED
  BY <1>1, <1>2, <1>3, <1>4, <1>5 DEF Matched

LEMMA ArraysNext == Arrays /\ [NextLine]_blocksVars => Arrays'
<1> SUFFICES ASSUME Arrays, [NextLine]_blocksVars PROVE Arrays'
  OBVIOUS
<1>1. CASE OnBlock
  BY <1>1, ConstantTypes DEF Arrays, OnBlock
<1>2. CASE OnLine
  <2>1. fakeIfBlock' = 0 /\ ifBlock' \in {0, 1}
    BY <1>2 DEF OnLine
  <2>2. \/ \E holds \in BOOLEAN :
             /\ condition' = [condition EXCEPT ![1] = holds]
             /\ ifBranche' = [ifBranche EXCEPT ![1] = TRUE]
        \/ UNCHANGED <<condition, ifBranche>>
    BY <1>2, Zenon DEF OnLine
  <2>3. ifBlock' \in 0..MaxIf /\ fakeIfBlock' \in 0..MaxFake
    BY <2>1, ConstantTypes
  <2>4. /\ condition' \in [Levels -> BOOLEAN]
        /\ ifBranche' \in [Levels -> BOOLEAN]
    BY <2>2 DEF Arrays
  <2> QED
    BY <2>3, <2>4 DEF Arrays
<1>3. CASE Outside
  BY <1>3 DEF Arrays, Outside
<1>4. CASE InBlock
  BY <1>4, ArraysMatched DEF Arrays, InBlock, NoIfs
<1>5. CASE Endon
  BY <1>5, ConstantTypes DEF Arrays, Endon
<1>6. CASE NextFile
  BY <1>6, ConstantTypes DEF Arrays, NextFile
<1>7. CASE UNCHANGED blocksVars
  BY <1>7 DEF Arrays, blocksVars
<1> QED
  BY <1>1, <1>2, <1>3, <1>4, <1>5, <1>6, <1>7 DEF NextLine

LEMMA TypeInit == BlocksInit => BlocksTypeOK
<1> SUFFICES ASSUME BlocksInit PROVE Flags /\ Arrays
  BY TypeParts
<1>1. Flags
  BY Zenon DEF BlocksInit, Flags
<1>2. Arrays
  BY ConstantTypes DEF BlocksInit, Arrays
<1> QED
  BY <1>1, <1>2

LEMMA TypeNext == BlocksTypeOK /\ [NextLine]_blocksVars => BlocksTypeOK'
  BY FlagsNext, ArraysNext DEF BlocksTypeOK, Flags, Arrays

\* The two arrays of processMatchedRule() are never used beyond their bounds,
\* whatever the file holds, but by an "else" without "if".
THEOREM WithinBounds == BlocksSpec => []BlocksTypeOK
  BY TypeInit, TypeNext, PTL DEF BlocksSpec

-----------------------------------------------------------------------------
LEMMA OuterInit == BlocksInit => OuterBranchesTaken
  BY DEF BlocksInit, OuterBranchesTaken

LEMMA OuterMatched ==
  ASSUME BlocksTypeOK, OuterBranchesTaken, match, codeBlock, Matched,
         UNCHANGED <<match, codeBlock>>
  PROVE  OuterBranchesTaken'
<1>1. ASSUME NEW holds \in BOOLEAN, If(holds)
      PROVE  OuterBranchesTaken'
  BY <1>1, ConstantTypes
  DEF BlocksTypeOK, OuterBranchesTaken, If, IsCommand, Levels
<1>2. ASSUME NEW holds \in BOOLEAN, Elseif(holds)
      PROVE  OuterBranchesTaken'
  BY <1>2, ConstantTypes DEF BlocksTypeOK, OuterBranchesTaken, Elseif, Levels
<1>3. ASSUME Else
      PROVE  OuterBranchesTaken'
  BY <1>3, ConstantTypes DEF BlocksTypeOK, OuterBranchesTaken, Else, Levels
<1>4. ASSUME Endif
      PROVE  OuterBranchesTaken'
  BY <1>4, ConstantTypes DEF BlocksTypeOK, OuterBranchesTaken, Endif, Levels
<1>5. ASSUME NoIfs
      PROVE  OuterBranchesTaken'
  BY <1>5 DEF BlocksTypeOK, OuterBranchesTaken, NoIfs
<1> QED
  BY <1>1, <1>2, <1>3, <1>4, <1>5 DEF Matched

LEMMA OuterNext ==
  BlocksTypeOK /\ OuterBranchesTaken /\ [NextLine]_blocksVars
    => OuterBranchesTaken'
<1> SUFFICES ASSUME BlocksTypeOK, OuterBranchesTaken, [NextLine]_blocksVars
             PROVE  OuterBranchesTaken'
  OBVIOUS
<1>1. CASE OnBlock
  BY <1>1 DEF OuterBranchesTaken, OnBlock
<1>2. CASE OnLine
  BY <1>2 DEF OuterBranchesTaken, OnLine
<1>3. CASE Outside
  BY <1>3 DEF OuterBranchesTaken, Outside
<1>4. CASE InBlock
  BY <1>4, OuterMatched DEF InBlock, OuterBranchesTaken
<1>5. CASE Endon
  BY <1>5 DEF OuterBranchesTaken, Endon
<1>6. CASE NextFile
  BY <1>6 DEF OuterBranchesTaken, NextFile
<1>7. CASE UNCHANGED blocksVars
  BY <1>7 DEF OuterBranchesTaken, blocksVars
<1> QED
  BY <1>1, <1>2, <1>3, <1>4, <1>5, <1>6, <1>7 DEF NextLine

\* It is enough that processMatchedRule() looks at the innermost "if".
THEOREM InnermostIsEnough == BlocksSpec => []OuterBranchesTaken
  BY TypeInit, TypeNext, OuterInit, OuterNext, PTL DEF BlocksSpec

-----------------------------------------------------------------------------
\* What has become of the i-th "if".
StatusAt(i) ==
    IF i > ifBlock THEN "dead"
    ELSE IF ifBranche[i]
      THEN IF condition[i] THEN "active" ELSE "waiting"
      ELSE IF condition[i] THEN "done" ELSE "other"

LEMMA BranchIs == Branch = [i \in 1..Depth |-> StatusAt(i)]
  BY DEF Branch, StatusAt

LEMMA BranchIsNext == Branch' = [i \in 1..Depth' |-> StatusAt(i)']
  BY DEF Branch, StatusAt

LEMMA NoBranch == Depth = 0 => Branch = [i \in 1..0 |-> "dead"]
  BY BranchIs

LEMMA NoBranchNext == Depth' = 0 => Branch' = [i \in 1..0 |-> "dead"]
  BY BranchIsNext

\* A command runs just if it is in the branch taken of every "if" around it.
LEMMA InnermostDecides ==
  ASSUME BlocksTypeOK, OuterBranchesTaken, InRule
  PROVE  Meaning!Runs <=> IsCommand
<1>1. Depth = ifBlock + fakeIfBlock
  BY DEF Depth
<1>2. \A i \in 1..ifBlock :
        Meaning!Taken(StatusAt(i)) <=> condition[i] = ifBranche[i]
  <2> SUFFICES ASSUME NEW i \in 1..ifBlock
               PROVE  Meaning!Taken(StatusAt(i)) <=> condition[i] = ifBranche[i]
    OBVIOUS
  <2>1. i \in Levels /\ ~(i > ifBlock)
    BY ConstantTypes DEF BlocksTypeOK, Levels
  <2>2. condition[i] \in BOOLEAN /\ ifBranche[i] \in BOOLEAN
    BY <2>1 DEF BlocksTypeOK
  <2> QED
    BY <2>1, <2>2 DEF Meaning!Taken, StatusAt
<1>3. Meaning!Runs <=> \A i \in 1..Depth : Meaning!Taken(StatusAt(i))
  BY BranchIs DEF Meaning!Runs
<1>4. CASE fakeIfBlock = 0
  BY <1>1, <1>2, <1>3, <1>4
  DEF BlocksTypeOK, OuterBranchesTaken, InRule, IsCommand
<1>5. CASE fakeIfBlock # 0
  <2>1. ifBlock + 1 \in 1..Depth /\ StatusAt(ifBlock + 1) = "dead"
    BY <1>1, <1>5 DEF BlocksTypeOK, StatusAt
  <2>2. ~Meaning!Taken("dead")
    BY DEF Meaning!Taken
  <2> QED
    BY <1>3, <1>5, <2>1, <2>2 DEF IsCommand
<1> QED
  BY <1>4, <1>5

LEMMA MeaningInit == BlocksInit => Meaning!Init
<1> SUFFICES ASSUME BlocksInit PROVE Meaning!Init
  OBVIOUS
<1>1. InRule = FALSE /\ Depth = 0
  BY DEF BlocksInit, InRule, Depth
<1> QED
  BY <1>1, NoBranch DEF BlocksInit, Meaning!Init

\* The steps that leave or enter a block, and the lines of one that does not
\* match.
LEMMA MeaningOutside ==
  ASSUME BlocksTypeOK, Flags'
  PROVE  /\ OnBlock => Meaning!Begin(match')
         /\ OnLine => Meaning!SingleLine(match') \/ Meaning!End
         /\ Outside \/ Endon \/ NextFile => Meaning!End
         /\ InBlock /\ ~match => Meaning!End
<1>1. ASSUME OnBlock PROVE Meaning!Begin(match')
  <2>1. InRule' = match' /\ Depth' = 0
    BY <1>1 DEF OnBlock, InRule, Depth, Flags
  <2> QED
    BY <1>1, <2>1, NoBranchNext DEF OnBlock, Read, Meaning!Begin
<1>2. ASSUME ~codeBlock' PROVE InRule' = FALSE /\ Depth' = 0
  BY <1>2 DEF InRule, Depth
<1>3. ASSUME OnLine PROVE Meaning!SingleLine(match') \/ Meaning!End
  <2>1. InRule' = FALSE /\ Depth' = 0
    BY <1>2, <1>3 DEF OnLine
  <2>2. line' = "other" /\ ran' \in {match', FALSE}
    BY <1>3, Zenon DEF OnLine, Read
  <2> QED
    BY <2>1, <2>2, NoBranchNext DEF Meaning!SingleLine, Meaning!End
<1>4. ASSUME Outside \/ Endon \/ NextFile PROVE Meaning!End
  <2>1. Outside => ~codeBlock' /\ Read("other", FALSE)
    <3> SUFFICES ASSUME Outside PROVE ~codeBlock' /\ Read("other", FALSE)
      OBVIOUS
    <3>1. ~codeBlock /\ Read("other", FALSE)
      BY DEF Outside
    <3>2. codeBlock' = codeBlock
      BY DEF Outside
    <3> QED
      BY <3>1, <3>2
  <2>2. Endon \/ NextFile => ~codeBlock' /\ Read("other", FALSE)
    BY DEF Endon, NextFile
  <2> QED
    BY <1>2, <1>4, <2>1, <2>2, NoBranchNext
       DEF Read, Meaning!SingleLine, Meaning!End
<1>5. ASSUME InBlock, ~match PROVE Meaning!End
  <2>1. ~match' /\ Read("other", FALSE)
    BY <1>5 DEF InBlock
  <2>2. InRule' = FALSE /\ Depth' = 0
    BY <2>1 DEF InRule, Depth
  <2> QED
    BY <2>1, <2>2, NoBranchNext DEF Read, Meaning!SingleLine, Meaning!End
<1> QED
  BY <1>1, <1>3, <1>4, <1>5

\* The index is bound, so that the prime is not about it.
LEMMA MeaningIf ==
  ASSUME BlocksTypeOK, BlocksTypeOK', OuterBranchesTaken, InRule, InRule',
         NEW holds \in BOOLEAN, If(holds), Read("if", FALSE)
  PROVE  Meaning!If(holds)
<1> DEFINE new == IF ~Meaning!Runs \/ Depth >= MaxIf THEN "dead"
                  ELSE IF holds THEN "active" ELSE "waiting"
<1>1. Depth = ifBlock + fakeIfBlock /\ Depth' = ifBlock' + fakeIfBlock'
  BY DEF Depth
<1>2. Meaning!Runs <=> IsCommand
  BY InnermostDecides
<1>3. /\ Depth' = Depth + 1
      /\ \A i \in {Depth + 1} : StatusAt(i)' = new
      /\ \A i \in 1..Depth : StatusAt(i)' = StatusAt(i)
  <2>1. CASE ifBlock < MaxIf /\ IsCommand
    <3>1. /\ ifBlock' = ifBlock + 1 /\ fakeIfBlock' = fakeIfBlock
          /\ condition' = [condition EXCEPT ![ifBlock + 1] = holds]
          /\ ifBranche' = [ifBranche EXCEPT ![ifBlock + 1] = TRUE]
      BY <2>1 DEF If
    <3>2. fakeIfBlock = 0 /\ Depth = ifBlock /\ ifBlock + 1 \in Levels
      BY <1>1, <2>1, ConstantTypes DEF BlocksTypeOK, IsCommand, Levels
    <3>a. condition'[ifBlock + 1] = holds /\ ifBranche'[ifBlock + 1] = TRUE
      BY <3>1, <3>2 DEF BlocksTypeOK
    <3>b. \A i \in 1..ifBlock : i \in Levels /\ i # ifBlock + 1
      BY <2>1, ConstantTypes DEF BlocksTypeOK, Levels
    <3>3. \A i \in 1..ifBlock : /\ condition'[i] = condition[i]
                               /\ ifBranche'[i] = ifBranche[i]
      BY <3>1, <3>b DEF BlocksTypeOK
    <3>4. new = IF holds THEN "active" ELSE "waiting"
      BY <1>2, <2>1, <3>2, ConstantTypes DEF BlocksTypeOK
    <3>5. ASSUME NEW i, i = ifBlock + 1
          PROVE  StatusAt(i)' = IF holds THEN "active" ELSE "waiting"
      <4>1. ~(i > ifBlock')
        BY <3>1, <3>5 DEF BlocksTypeOK
      <4>2. condition'[i] = holds /\ ifBranche'[i]
        BY <3>a, <3>5
      <4> QED
        BY <4>1, <4>2 DEF StatusAt
    <3>6. \A i \in 1..ifBlock : StatusAt(i)' = StatusAt(i)
      <4>1. \A i \in 1..ifBlock : ~(i > ifBlock) /\ ~(i > ifBlock')
        BY <3>1 DEF BlocksTypeOK
      <4> QED
        BY <4>1, <3>3, Zenon DEF StatusAt
    <3> QED
      BY <1>1, <3>1, <3>2, <3>4, <3>5, <3>6 DEF BlocksTypeOK
  <2>2. CASE ~(ifBlock < MaxIf /\ IsCommand)
    <3>1. /\ fakeIfBlock' = fakeIfBlock + 1
          /\ UNCHANGED <<condition, ifBranche, ifBlock>>
      BY <2>2 DEF If
    <3>2. new = "dead"
      BY <1>1, <1>2, <2>2, ConstantTypes DEF BlocksTypeOK
    <3>3. Depth + 1 > ifBlock
      BY <1>1 DEF BlocksTypeOK
    <3> QED
      BY <1>1, <3>1, <3>2, <3>3 DEF BlocksTypeOK, StatusAt
  <2> QED
    BY <2>1, <2>2
<1>4. Branch' = [i \in 1..(Depth + 1) |->
                   IF i <= Depth THEN Branch[i] ELSE new]
  <2>1. Depth \in Nat
    BY <1>1 DEF BlocksTypeOK
  <2>2. \A i \in 1..(Depth + 1) :
          StatusAt(i)' = IF i <= Depth THEN Branch[i] ELSE new
    <3> SUFFICES ASSUME NEW i \in 1..(Depth + 1)
                 PROVE  StatusAt(i)' = IF i <= Depth THEN Branch[i] ELSE new
      OBVIOUS
    <3> HIDE DEF new
    <3>1. CASE i <= Depth
      <4>1. i \in 1..Depth
        BY <2>1, <3>1
      <4>2. Branch[i] = StatusAt(i)
        BY <4>1, BranchIs
      <4> QED
        BY <1>3, <3>1, <4>1, <4>2
    <3>2. CASE ~(i <= Depth)
      <4>1. i \in {Depth + 1}
        BY <2>1, <3>2
      <4> QED
        BY <1>3, <3>2, <4>1
    <3> QED
      BY <3>1, <3>2
  <2> QED
    BY <1>3, <2>2, BranchIsNext
<1> QED
  BY <1>3, <1>4 DEF Read, Meaning!If, Meaning!Other

LEMMA MeaningElseif ==
  ASSUME BlocksTypeOK, BlocksTypeOK', InRule, InRule', NEW holds \in BOOLEAN,
         Elseif(holds), Read("elseif", FALSE)
  PROVE  Meaning!Elseif(holds) \/ Meaning!Nothing
<1> DEFINE new == CASE Branch[Depth] = "active"  -> "done"
                    [] Branch[Depth] = "waiting" ->
                         IF holds THEN "active" ELSE "waiting"
                    [] OTHER                     -> Branch[Depth]
<1>1. Depth = ifBlock + fakeIfBlock /\ Depth' = Depth
  BY DEF Depth, Elseif
<1>2. CASE Depth = 0
  <2>1. Branch' = Branch
    BY <1>1, <1>2, NoBranch, NoBranchNext
  <2> QED
    BY <1>1, <1>2, <2>1 DEF Read, Meaning!Nothing, Meaning!Other
<1>3. CASE Depth # 0
  <2>1. Depth \in Nat \ {0} /\ Depth \in 1..Depth
    BY <1>1, <1>3 DEF BlocksTypeOK
  <2>2. Branch[Depth] = StatusAt(Depth)
    BY <2>1, BranchIs
  <2>3. \A i \in 1..Depth :
          StatusAt(i)' = IF i = Depth THEN new ELSE StatusAt(i)
    <3>1. CASE fakeIfBlock = 0
      <4>1. Depth = ifBlock /\ ifBlock \in Levels /\ ~(ifBlock > ifBlock)
        BY <1>1, <2>1, <3>1, ConstantTypes DEF BlocksTypeOK, Levels
      <4>2. condition[ifBlock] \in BOOLEAN /\ ifBranche[ifBlock] \in BOOLEAN
        BY <4>1 DEF BlocksTypeOK
      <4>3. \A i \in 1..Depth : i \in Levels /\ ~(i > ifBlock)
        BY <4>1, ConstantTypes DEF BlocksTypeOK, Levels
      <4>4. ifBlock' = ifBlock
        BY DEF Elseif
      <4>5. ASSUME NEW i \in 1..Depth, i # Depth
            PROVE  StatusAt(i)' = StatusAt(i)
        <5>1. condition'[i] = condition[i] /\ ifBranche'[i] = ifBranche[i]
          BY <4>1, <4>3, <4>5 DEF Elseif, BlocksTypeOK
        <5> QED
          BY <4>4, <5>1 DEF StatusAt
      <4>6. ASSUME NEW i, i = Depth
            PROVE  StatusAt(i)' = new
        <5>1. CASE ~ifBranche[ifBlock]
          <6>1. UNCHANGED <<condition, ifBranche, ifBlock>>
            BY <4>1, <5>1, <2>1 DEF Elseif
          <6>2. StatusAt(i)' = StatusAt(i)
            BY <6>1 DEF StatusAt
          <6>3. StatusAt(i) \in {"done", "other"}
            BY <4>1, <4>6, <5>1 DEF StatusAt
          <6> QED
            BY <2>2, <4>6, <6>2, <6>3
        <5>2. CASE ifBranche[ifBlock] /\ condition[ifBlock]
          <6>1. /\ ifBranche' = [ifBranche EXCEPT ![ifBlock] = FALSE]
                /\ condition' = condition
            BY <2>1, <3>1, <4>1, <5>2 DEF Elseif
          <6>2. ~ifBranche'[i] /\ condition'[i] /\ ~(i > ifBlock')
            BY <4>1, <4>4, <4>6, <5>2, <6>1 DEF BlocksTypeOK
          <6>3. StatusAt(i)' = "done"
            BY <6>2 DEF StatusAt
          <6>4. StatusAt(i) = "active"
            BY <4>1, <4>6, <5>2 DEF StatusAt
          <6> QED
            BY <2>2, <4>6, <6>3, <6>4
        <5>3. CASE ifBranche[ifBlock] /\ ~condition[ifBlock]
          <6>1. /\ condition' = [condition EXCEPT ![ifBlock] = holds]
                /\ ifBranche' = ifBranche
            BY <2>1, <3>1, <4>1, <5>3 DEF Elseif
          <6>2. /\ ifBranche'[i] /\ (condition'[i] <=> holds)
                /\ ~(i > ifBlock')
            BY <4>1, <4>4, <4>6, <5>3, <6>1 DEF BlocksTypeOK
          <6>3. StatusAt(i)' = IF holds THEN "active" ELSE "waiting"
            BY <6>2 DEF StatusAt
          <6>4. StatusAt(i) = "waiting"
            BY <4>1, <4>6, <5>3 DEF StatusAt
          <6> QED
            BY <2>2, <4>6, <6>3, <6>4
        <5> QED
          BY <5>1, <5>2, <5>3
      <4> QED
        BY <4>5, <4>6
    <3>2. CASE fakeIfBlock # 0
      <4>1. UNCHANGED <<condition, ifBranche, ifBlock>>
        BY <3>2 DEF Elseif
      <4>2. \A i \in 1..Depth : StatusAt(i)' = StatusAt(i)
        BY <4>1 DEF StatusAt
      <4>3. Depth > ifBlock
        BY <1>1, <3>2 DEF BlocksTypeOK
      <4>4. StatusAt(Depth) = "dead"
        BY <4>3 DEF StatusAt
      <4> QED
        BY <2>2, <4>2, <4>4
    <3> QED
      BY <3>1, <3>2
  <2>4. Branch' = [Branch EXCEPT ![Depth] = new]
    <3> HIDE DEF new
    <3> QED
      BY <1>1, <2>1, <2>3, BranchIs, BranchIsNext
  <2> QED
    BY <1>1, <2>1, <2>4
       DEF Read, Meaning!Elseif, Meaning!Become, Meaning!Other
<1> QED
  BY <1>2, <1>3

LEMMA MeaningElse ==
  ASSUME BlocksTypeOK, BlocksTypeOK', InRule, InRule', Else,
         Read("else", FALSE)
  PROVE  Meaning!Else \/ Meaning!Nothing
<1> DEFINE new == CASE Branch[Depth] = "active"  -> "done"
                    [] Branch[Depth] = "waiting" -> "other"
                    [] OTHER                     -> Branch[Depth]
<1>1. Depth = ifBlock + fakeIfBlock /\ Depth' = Depth /\ ifBlock' = ifBlock
  BY DEF Depth, Else
<1>2. CASE Depth = 0
  <2>1. Branch' = Branch
    BY <1>1, <1>2, NoBranch, NoBranchNext
  <2> QED
    BY <1>1, <1>2, <2>1 DEF Read, Meaning!Nothing, Meaning!Other
<1>3. CASE Depth # 0
  <2>1. Depth \in Nat \ {0} /\ Depth \in 1..Depth
    BY <1>1, <1>3 DEF BlocksTypeOK
  <2>2. Branch[Depth] = StatusAt(Depth)
    BY <2>1, BranchIs
  <2>3. \A i \in 1..Depth :
          StatusAt(i)' = IF i = Depth THEN new ELSE StatusAt(i)
    <3>1. CASE fakeIfBlock = 0
      <4>1. Depth = ifBlock /\ ifBlock \in Levels /\ ~(ifBlock > ifBlock)
        BY <1>1, <2>1, <3>1, ConstantTypes DEF BlocksTypeOK, Levels
      <4>2. /\ ifBranche' = [ifBranche EXCEPT ![ifBlock] = FALSE]
            /\ condition' = condition
        BY <2>1, <3>1, <4>1 DEF Else
      <4>3. \A i \in 1..Depth : i \in Levels /\ ~(i > ifBlock)
        BY <4>1, ConstantTypes DEF BlocksTypeOK, Levels
      <4>4. ASSUME NEW i \in 1..Depth, i # Depth
            PROVE  StatusAt(i)' = StatusAt(i)
        <5>1. ifBranche'[i] = ifBranche[i]
          BY <4>1, <4>2, <4>3, <4>4 DEF BlocksTypeOK
        <5> QED
          BY <1>1, <4>2, <5>1 DEF StatusAt
      <4>5. ASSUME NEW i, i = Depth
            PROVE  StatusAt(i)' = new
        <5>1. /\ ~ifBranche'[i] /\ condition'[i] = condition[i]
              /\ ~(i > ifBlock') /\ ~(i > ifBlock)
          BY <1>1, <4>1, <4>2, <4>5 DEF BlocksTypeOK
        <5>2. StatusAt(i)' = IF condition[i] THEN "done" ELSE "other"
          BY <5>1 DEF StatusAt
        <5>3. Branch[Depth] = StatusAt(i)
          BY <2>2, <4>5
        <5> QED
          BY <5>1, <5>2, <5>3 DEF StatusAt
      <4> QED
        BY <4>4, <4>5
    <3>2. CASE fakeIfBlock # 0
      <4>1. UNCHANGED <<condition, ifBranche, ifBlock>>
        BY <3>2 DEF Else
      <4>2. \A i \in 1..Depth : StatusAt(i)' = StatusAt(i)
        BY <4>1 DEF StatusAt
      <4>3. Depth > ifBlock
        BY <1>1, <3>2 DEF BlocksTypeOK
      <4>4. StatusAt(Depth) = "dead"
        BY <4>3 DEF StatusAt
      <4> QED
        BY <2>2, <4>2, <4>4
    <3> QED
      BY <3>1, <3>2
  <2>4. Branch' = [Branch EXCEPT ![Depth] = new]
    <3> HIDE DEF new
    <3> QED
      BY <1>1, <2>1, <2>3, BranchIs, BranchIsNext
  <2> QED
    BY <1>1, <2>1, <2>4
       DEF Read, Meaning!Else, Meaning!Become, Meaning!Other
<1> QED
  BY <1>2, <1>3

LEMMA MeaningEndif ==
  ASSUME BlocksTypeOK, BlocksTypeOK', InRule, InRule', Endif,
         Read("endif", FALSE)
  PROVE  Meaning!Endif \/ Meaning!Nothing
<1>1. Depth = ifBlock + fakeIfBlock /\ Depth' = ifBlock' + fakeIfBlock'
  BY DEF Depth
<1>2. ifBlock \in Nat /\ fakeIfBlock \in Nat
  BY ConstantTypes DEF BlocksTypeOK
<1>3. Depth' = IF Depth > 0 THEN Depth - 1 ELSE 0
  <2>1. CASE fakeIfBlock > 0
    <3>1. fakeIfBlock' = fakeIfBlock - 1 /\ ifBlock' = ifBlock
      BY <2>1 DEF Endif
    <3> QED
      BY <1>1, <1>2, <2>1, <3>1
  <2>2. CASE ~(fakeIfBlock > 0)
    <3>1. /\ fakeIfBlock' = fakeIfBlock
          /\ ifBlock' = IF ifBlock > 0 THEN ifBlock - 1 ELSE 0
      BY <2>2 DEF Endif
    <3> QED
      BY <1>1, <1>2, <2>2, <3>1
  <2> QED
    BY <2>1, <2>2
<1>4. CASE Depth = 0
  <2>1. Depth' = 0
    BY <1>4, <1>3
  <2>2. Branch' = Branch
    BY <1>4, <2>1, NoBranch, NoBranchNext
  <2> QED
    BY <1>4, <2>1, <2>2 DEF Read, Meaning!Nothing, Meaning!Other
<1>5. CASE Depth # 0
  <2>1. Depth \in Nat \ {0} /\ Depth' = Depth - 1
    BY <1>1, <1>5, <1>2, <1>3
  <2>2. \A i \in 1..(Depth - 1) : (i > ifBlock') = (i > ifBlock)
    BY <1>1, <2>1 DEF BlocksTypeOK, Endif
  <2>3. \A i \in 1..(Depth - 1) : StatusAt(i)' = StatusAt(i)
    BY <2>2 DEF StatusAt, Endif
  <2>4. \A i \in 1..(Depth - 1) : i \in 1..Depth
    BY <2>1
  <2>5. Branch' = [i \in 1..(Depth - 1) |-> Branch[i]]
    BY <2>1, <2>3, <2>4, BranchIs, BranchIsNext
  <2> QED
    BY <2>1, <2>5 DEF Read, Meaning!Endif, Meaning!Other
<1> QED
  BY <1>4, <1>5

LEMMA MeaningCommand ==
  ASSUME BlocksTypeOK, OuterBranchesTaken, InRule, InRule', NoIfs,
         Read("command", IsCommand)
  PROVE  Meaning!Command
<1>1. Depth' = Depth
  BY DEF Depth, NoIfs
<1>2. Branch' = Branch
  BY <1>1, BranchIs, BranchIsNext DEF StatusAt, NoIfs
<1>3. line' = "command" /\ ran' = IsCommand
  BY DEF Read
<1>4. IsCommand = Meaning!Runs
  <2>1. Meaning!Runs \in BOOLEAN
    BY DEF Meaning!Runs
  <2> QED
    BY <2>1, IsCommandType, InnermostDecides
<1>5. InRule' = InRule
  BY DEF InRule
<1> QED
  BY <1>1, <1>2, <1>3, <1>4, <1>5 DEF Meaning!Command

LEMMA MeaningNext ==
  BlocksTypeOK /\ BlocksTypeOK' /\ OuterBranchesTaken /\ [NextLine]_blocksVars
    => [Meaning!Next]_(Meaning!vars)
<1> SUFFICES ASSUME BlocksTypeOK, BlocksTypeOK', OuterBranchesTaken,
                    [NextLine]_blocksVars
             PROVE  [Meaning!Next]_(Meaning!vars)
  OBVIOUS
<1>1. Flags' /\ match' \in BOOLEAN
  BY DEF BlocksTypeOK, Flags
<1>2. CASE OnBlock \/ OnLine \/ Outside \/ Endon \/ NextFile
  BY <1>1, <1>2, MeaningOutside DEF Meaning!Next
<1>3. CASE InBlock
  <2>1. CASE ~match
    BY <1>1, <1>3, <2>1, MeaningOutside DEF Meaning!Next
  <2>2. CASE match
    <3>1. Matched /\ codeBlock /\ UNCHANGED <<match, codeBlock>>
      BY <1>3, <2>2 DEF InBlock
    <3>2. InRule /\ InRule'
      BY <2>2, <3>1 DEF InRule
    <3>3. ASSUME NEW holds \in BOOLEAN, If(holds), Read("if", FALSE)
          PROVE  Meaning!Next
      BY <3>2, <3>3, MeaningIf DEF Meaning!Next
    <3>4. ASSUME NEW holds \in BOOLEAN, Elseif(holds), Read("elseif", FALSE)
          PROVE  Meaning!Next
      BY <3>2, <3>4, MeaningElseif DEF Meaning!Next
    <3>5. ASSUME Else, Read("else", FALSE)
          PROVE  Meaning!Next
      BY <3>2, <3>5, MeaningElse DEF Meaning!Next
    <3>6. ASSUME Endif, Read("endif", FALSE)
          PROVE  Meaning!Next
      BY <3>2, <3>6, MeaningEndif DEF Meaning!Next
    <3>7. ASSUME NoIfs, Read("command", IsCommand)
          PROVE  Meaning!Next
      BY <3>2, <3>7, MeaningCommand DEF Meaning!Next
    <3> QED
      BY <3>1, <3>3, <3>4, <3>5, <3>6, <3>7 DEF Matched
  <2> QED
    BY <2>1, <2>2
<1>4. CASE UNCHANGED blocksVars
  <2>1. InRule' = InRule /\ Depth' = Depth /\ Branch' = Branch
    BY <1>4 DEF blocksVars, InRule, Depth, Branch
  <2> QED
    BY <1>4, <2>1 DEF blocksVars, Meaning!vars
<1> QED
  BY <1>2, <1>3, <1>4 DEF NextLine

\* Whatever the lines of a file and the conditions, the interpreter, with its
\* counters, does what "if", "elseif", "else" and "endif" mean.
THEOREM BlocksAreConditionals == BlocksSpec => ImplementsConditionals
<1>1. BlocksSpec => []BlocksTypeOK
  BY WithinBounds
<1>2. BlocksSpec => []OuterBranchesTaken
  BY InnermostIsEnough
<1> QED
  BY <1>1, <1>2, MeaningInit, MeaningNext, PTL
     DEF BlocksSpec, ImplementsConditionals, Meaning!Spec

-----------------------------------------------------------------------------
(***************************************************************************)
(* RuleEvents                                                              *)
(***************************************************************************)

-----------------------------------------------------------------------------
\* Arithmetic of millis().

LEMMA PlusType ==
    ASSUME NEW t \in ULong, NEW d \in ULong
    PROVE  Plus(t, d) \in ULong
BY TimeCalcAssumption, SMT DEF Plus, ULong, ULongMax

LEMMA ULongFacts ==
    /\ 0 \in ULong /\ 1 \in ULong /\ Durations \subseteq 0..HalfMax
    /\ 0..HalfMax \subseteq ULong
    /\ \A x \in Long : x < 0 => -x \in ULong
BY TimeCalcAssumption, RuleEventsAssumption, SMT DEF ULong, ULongMax, Long

LEMMA TimeDiffType ==
    ASSUME NEW p \in ULong, NEW n \in ULong
    PROVE  timeDiff(p, n) \in Long
BY TimeCalcAssumption, SMT
DEF timeDiff, AsLong, Negated, Long, ULong, ULongMax

\* A time set ahead is that far ahead.
LEMMA TimeDiffAhead ==
    ASSUME NEW t \in ULong, NEW d \in 0..HalfMax
    PROVE  timeDiff(t, Plus(t, d)) = d
BY TimeCalcAssumption, SMT
DEF timeDiff, Plus, AsLong, Negated, ULong, ULongMax

\* What is ahead by as much is passed by its negation.
LEMMA TimeDiffBack ==
    ASSUME NEW p \in ULong, NEW n \in ULong,
           timeDiff(p, n) \in (-HalfMax)..HalfMax
    PROVE  timeDiff(n, p) = -timeDiff(p, n)
BY TimeCalcAssumption, SMT
DEF timeDiff, AsLong, Negated, ULong, ULongMax

\* A tick of the clock brings a time one nearer.
LEMMA TimeDiffTick ==
    ASSUME NEW p \in ULong, NEW n \in ULong,
           timeDiff(p, n) \in (-HalfMax)..HalfMax
    PROVE  timeDiff(Plus(p, 1), n) = timeDiff(p, n) - 1
BY TimeCalcAssumption, SMT
DEF timeDiff, Plus, AsLong, Negated, ULong, ULongMax

-----------------------------------------------------------------------------
\* The stack.

ThenType ==
    {Nothing}
      \cup [do : {"fire", "pause", "resume"}, timer : Timers,
            left : 0..HalfMax]
FrameType ==
    [open : BOOLEAN, files : Nat, lines : Nat, bg : BOOLEAN, then : ThenType]

OpenFiles == {i \in 1..Len(frames) : frames[i].open}

\* Calls are made with a file open, or from the background tasks, which are
\* not run again by the calls made from there.
StackInv ==
    /\ frames \in Seq(FrameType)
    /\ \A i \in 1..(Len(frames) - 1) : frames[i].open \/ frames[i].bg
    /\ \A i, j \in 1..Len(frames) : frames[i].bg /\ frames[j].bg => i = j
    /\ level \in 0..MaxNesting /\ failures \in 0..MaxFailures
    /\ level = failures + Cardinality(OpenFiles)

\* The callers of what a command calls are the frames, but for the number of
\* commands left, and whether the last one runs the background tasks.
AreCallers(c) ==
    /\ c \in Seq(FrameType)
    /\ Len(c) = Len(frames)
    /\ \A i \in 1..Len(frames) :
         /\ c[i].open = frames[i].open /\ c[i].then = frames[i].then
         /\ c[i].open \/ c[i].bg
    /\ \A i, j \in 1..Len(frames) : c[i].bg /\ c[j].bg => i = j

LEMMA NoCallers ==
    ASSUME frames = <<>> PROVE AreCallers(<<>>)
BY SMT DEF AreCallers

LEMMA OpenFinite ==
    ASSUME frames \in Seq(FrameType)
    PROVE  /\ IsFiniteSet(OpenFiles) /\ Cardinality(OpenFiles) \in Nat
           /\ OpenFiles \subseteq 1..Len(frames) /\ Len(frames) \in Nat
<1>1. Len(frames) \in Nat /\ OpenFiles \subseteq 1..Len(frames)
  BY DEF OpenFiles
<1>2. IsFiniteSet(1..Len(frames))
  BY <1>1, FS_Interval, SMT
<1>3. IsFiniteSet(OpenFiles)
  BY <1>1, <1>2, FS_Subset
<1> QED
  BY <1>1, <1>3, FS_CardinalityType

LEMMA TopType ==
    ASSUME frames \in Seq(FrameType), frames # <<>>
    PROVE  /\ Len(frames) \in Nat \ {0}
           /\ Top = frames[Len(frames)] /\ Top \in FrameType
BY SMT DEF Top

LEMMA CallersType ==
    ASSUME frames \in Seq(FrameType), frames # <<>>
    PROVE  /\ Callers \in Seq(FrameType)
           /\ Len(Callers) = Len(frames) - 1
           /\ \A i \in 1..(Len(frames) - 1) : Callers[i] = frames[i]
<1> DEFINE n == Len(frames)
<1>1. n \in Nat \ {0} /\ \A i \in 1..(n - 1) : frames[i] \in FrameType
  BY TopType, SMT
<1>2. (n - 1) \in Int /\ (n - 1) - 1 + 1 = n - 1
  BY <1>1, SMT
<1> HIDE DEF n
<1>3. /\ SubSeq(frames, 1, n - 1) \in Seq(FrameType)
      /\ Len(SubSeq(frames, 1, n - 1)) =
            IF 1 <= n - 1 THEN (n - 1) - 1 + 1 ELSE 0
      /\ \A i \in 1..((n - 1) - 1 + 1) :
            SubSeq(frames, 1, n - 1)[i] = frames[1 + i - 1]
  BY <1>1, <1>2, SubSeqProperties, SMT
<1>4. Len(SubSeq(frames, 1, n - 1)) = n - 1
  BY <1>1, <1>3, SMT
<1>5. \A i \in 1..(n - 1) : 1 + i - 1 = i
  BY <1>1, SMT
<1> QED
  BY <1>2, <1>3, <1>4, <1>5 DEF Callers, n

\* The innermost frame is replaced.
LEMMA Replaced ==
    ASSUME frames \in Seq(FrameType), frames # <<>>, NEW e \in FrameType
    PROVE  LET s == Append(Callers, e) IN
           /\ s \in Seq(FrameType) /\ Len(s) = Len(frames)
           /\ \A i \in 1..(Len(frames) - 1) : s[i] = frames[i]
           /\ s[Len(frames)] = e
<1> DEFINE n == Len(frames)
<1>1. n \in Nat \ {0}
  BY TopType
<1>2. /\ Callers \in Seq(FrameType) /\ Len(Callers) = n - 1
      /\ \A i \in 1..(n - 1) : Callers[i] = frames[i]
  BY CallersType
<1> HIDE DEF n
<1>3. /\ Append(Callers, e) \in Seq(FrameType)
      /\ Len(Append(Callers, e)) = n
      /\ \A i \in 1..(n - 1) : Append(Callers, e)[i] = frames[i]
      /\ Append(Callers, e)[n] = e
  BY <1>1, <1>2, SMT
<1> QED
  BY <1>3 DEF n

LEMMA Indices ==
    ASSUME NEW n \in Nat \ {0}
    PROVE  1..n = 1..(n - 1) \cup {n} /\ n \notin 1..(n - 1)
BY SMT

\* Frames that are changed keep what they are for.
LEMMA LineFrame ==
    ASSUME NEW f \in FrameType, f.lines > 0, NEW b \in BOOLEAN
    PROVE  LET e == [f EXCEPT !.lines = @ - 1, !.bg = b] IN
           e \in FrameType /\ e.open = f.open /\ e.then = f.then /\ e.bg = b
<1>1. PICK x \in Nat : x = f.lines - 1
  BY SMT DEF FrameType
<1> DEFINE e == [f EXCEPT !.lines = x, !.bg = b]
<1>2. e \in FrameType
  BY DEF FrameType
<1>3. e.open = f.open
  BY DEF FrameType
<1>4. e.then = f.then
  BY DEF FrameType
<1>5. e.bg = b
  BY DEF FrameType
<1> QED
  BY <1>1, <1>2, <1>3, <1>4, <1>5, Zenon

LEMMA FileFrame ==
    ASSUME NEW f \in FrameType, f.files > 0
    PROVE  LET e == [f EXCEPT !.files = @ - 1] IN
           /\ e \in FrameType /\ e.open = f.open /\ e.then = f.then
           /\ e.bg = f.bg
<1>1. PICK x \in Nat : x = f.files - 1
  BY SMT DEF FrameType
<1> DEFINE e == [f EXCEPT !.files = x]
<1>2. e \in FrameType
  BY DEF FrameType
<1>3. e.open = f.open
  BY DEF FrameType
<1>4. e.then = f.then
  BY DEF FrameType
<1>5. e.bg = f.bg
  BY DEF FrameType
<1> QED
  BY <1>1, <1>2, <1>3, <1>4, <1>5, Zenon

LEMMA OpenFrame ==
    ASSUME NEW f \in FrameType, f.files > 0
    PROVE  LET e == [f EXCEPT !.open = TRUE, !.files = @ - 1] IN
           /\ e \in FrameType /\ e.open = TRUE /\ e.then = f.then
           /\ e.bg = f.bg
<1>1. PICK x \in Nat : x = f.files - 1
  BY SMT DEF FrameType
<1> DEFINE e == [f EXCEPT !.open = TRUE, !.files = x]
<1>2. e \in FrameType
  BY DEF FrameType
<1>3. e.open = TRUE
  BY DEF FrameType
<1>4. e.then = f.then
  BY DEF FrameType
<1>5. e.bg = f.bg
  BY DEF FrameType
<1> QED
  BY <1>1, <1>2, <1>3, <1>4, <1>5, Zenon

LEMMA ClosedFrame ==
    ASSUME NEW f \in FrameType
    PROVE  LET e == [f EXCEPT !.open = FALSE, !.bg = FALSE] IN
           /\ e \in FrameType /\ e.open = FALSE /\ e.then = f.then
           /\ e.bg = FALSE
<1> DEFINE e == [f EXCEPT !.open = FALSE, !.bg = FALSE]
<1>2. e \in FrameType
  BY DEF FrameType
<1>3. e.open = FALSE
  BY DEF FrameType
<1>4. e.then = f.then
  BY DEF FrameType
<1>5. e.bg = FALSE
  BY DEF FrameType
<1> QED
  BY <1>2, <1>3, <1>4, <1>5, Zenon

LEMMA LineCallers ==
    ASSUME StackInv, frames # <<>>, Top.open, Top.lines > 0
    PROVE  AreCallers(Append(Callers, [Top EXCEPT !.lines = @ - 1,
                                                  !.bg = FALSE]))
<1> DEFINE e == [Top EXCEPT !.lines = @ - 1, !.bg = FALSE]
           n == Len(frames)
           s == Append(Callers, e)
<1>1. frames \in Seq(FrameType) /\ n \in Nat \ {0} /\ Top = frames[n]
      /\ Top \in FrameType
  BY TopType DEF StackInv
<1>2. /\ e \in FrameType /\ e.open = Top.open /\ e.then = Top.then
      /\ e.bg = FALSE
  BY <1>1, LineFrame
<1> HIDE DEF e
<1>3. /\ s \in Seq(FrameType) /\ Len(s) = n /\ s[n] = e
      /\ \A i \in 1..(n - 1) : s[i] = frames[i]
  BY <1>1, <1>2, Replaced
<1> HIDE DEF s
<1>4. 1..n = 1..(n - 1) \cup {n}
  BY <1>1, Indices
<1>5. \A i \in 1..n : /\ s[i].open = frames[i].open
                      /\ s[i].then = frames[i].then
                      /\ s[i].open \/ s[i].bg
  BY <1>1, <1>2, <1>3, <1>4 DEF StackInv
<1>6. \A i, j \in 1..n : s[i].bg /\ s[j].bg => i = j
  BY <1>2, <1>3, <1>4 DEF StackInv
<1>7. AreCallers(s)
  BY <1>3, <1>5, <1>6 DEF AreCallers
<1> QED
  BY <1>7 DEF s, e

LEMMA BackgroundCallers ==
    ASSUME StackInv, frames # <<>>, Top.lines > 0,
           \A i \in 1..(Len(frames) - 1) : ~frames[i].bg
    PROVE  AreCallers(Append(Callers, [Top EXCEPT !.lines = @ - 1,
                                                  !.bg = TRUE]))
<1> DEFINE e == [Top EXCEPT !.lines = @ - 1, !.bg = TRUE]
           n == Len(frames)
           s == Append(Callers, e)
<1>1. frames \in Seq(FrameType) /\ n \in Nat \ {0} /\ Top = frames[n]
      /\ Top \in FrameType
  BY TopType DEF StackInv
<1>2. /\ e \in FrameType /\ e.open = Top.open /\ e.then = Top.then
      /\ e.bg = TRUE
  BY <1>1, LineFrame
<1> HIDE DEF e
<1>3. /\ s \in Seq(FrameType) /\ Len(s) = n /\ s[n] = e
      /\ \A i \in 1..(n - 1) : s[i] = frames[i]
  BY <1>1, <1>2, Replaced
<1> HIDE DEF s
<1>4. 1..n = 1..(n - 1) \cup {n}
  BY <1>1, Indices
<1>5. \A i \in 1..n : /\ s[i].open = frames[i].open
                      /\ s[i].then = frames[i].then
                      /\ s[i].open \/ s[i].bg
  BY <1>1, <1>2, <1>3, <1>4 DEF StackInv
<1>6. \A i, j \in 1..n : s[i].bg /\ s[j].bg => i = j
  BY <1>3, <1>4
<1>7. AreCallers(s)
  BY <1>3, <1>5, <1>6 DEF AreCallers
<1> QED
  BY <1>7 DEF s, e


-----------------------------------------------------------------------------
\* What the steps do to the stack.

\* A frame was put on the stack, to be followed by then.
Pushed(then) ==
    /\ Len(frames') = Len(frames) + 1
    /\ frames'[Len(frames) + 1].then = then
    /\ \A i \in 1..Len(frames) : frames'[i].then = frames[i].then

Popped ==
    /\ Len(frames') = Len(frames) - 1
    /\ \A i \in 1..(Len(frames) - 1) : frames'[i].then = frames[i].then

SameThen ==
    /\ Len(frames') = Len(frames)
    /\ \A i \in 1..Len(frames) : frames'[i].then = frames[i].then

LEMMA CallStep ==
    ASSUME StackInv, NEW c, AreCallers(c), NEW then \in ThenType,
           Call(c, then)
    PROVE  StackInv' /\ Pushed(then)
<1> DEFINE n == Len(frames)
<1>1. PICK files \in 0..MaxFiles : frames' = Append(c, Frame(files, then))
  BY DEF Call
<1> DEFINE e == Frame(files, then)
<1>2. /\ e \in FrameType /\ e.open = FALSE /\ e.bg = FALSE
      /\ e.then = then
  BY RuleEventsAssumption, SMT DEF Frame, FrameType
<1>3. n \in Nat /\ c \in Seq(FrameType) /\ Len(c) = n
  BY DEF StackInv, AreCallers
<1>4. frames' = Append(c, e)
  BY <1>1
<1> HIDE DEF e
<1>5. /\ frames' \in Seq(FrameType) /\ Len(frames') = n + 1
      /\ \A i \in 1..n : frames'[i] = c[i]
      /\ frames'[n + 1] = e
  BY <1>2, <1>3, <1>4, SMT
<1>6. 1..(n + 1) = 1..n \cup {n + 1} /\ (n + 1) - 1 = n
  BY <1>3, SMT
<1>7. \A i \in 1..n : /\ frames'[i].open = frames[i].open
                      /\ frames'[i].then = frames[i].then
                      /\ frames'[i].open \/ frames'[i].bg
  BY <1>5 DEF AreCallers
<1>8. \A i, j \in 1..(n + 1) : frames'[i].bg /\ frames'[j].bg => i = j
  BY <1>2, <1>5, <1>6 DEF AreCallers
<1>9. OpenFiles' = OpenFiles
  <2>1. OpenFiles' = {i \in 1..(n + 1) : frames'[i].open}
    BY <1>5 DEF OpenFiles
  <2> QED
    BY <1>2, <1>5, <1>6, <1>7, <2>1 DEF OpenFiles
<1>10. Pushed(then)
  BY <1>2, <1>5, <1>7 DEF Pushed
<1>11. /\ level' \in 0..MaxNesting /\ failures' \in 0..MaxFailures
       /\ level' = failures' + Cardinality(OpenFiles')
  BY <1>9 DEF Call, StackInv
<1> QED
  BY <1>5, <1>6, <1>7, <1>8, <1>10, <1>11 DEF StackInv

LEMMA NoCallStep ==
    ASSUME StackInv, NEW c, AreCallers(c), NoCall(c)
    PROVE  StackInv' /\ SameThen
<1> DEFINE n == Len(frames)
<1>1. n \in Nat /\ frames' = c /\ level' = level /\ failures' = failures
  BY DEF StackInv, NoCall
<1>2. /\ frames' \in Seq(FrameType) /\ Len(frames') = n
      /\ \A i \in 1..n : /\ frames'[i].open = frames[i].open
                         /\ frames'[i].then = frames[i].then
                         /\ frames'[i].open \/ frames'[i].bg
      /\ \A i, j \in 1..n : frames'[i].bg /\ frames'[j].bg => i = j
  BY <1>1 DEF AreCallers
<1>3. OpenFiles' = OpenFiles
  BY <1>2 DEF OpenFiles
<1>4. 1..(n - 1) \subseteq 1..n
  BY <1>1, SMT
<1> QED
  BY <1>1, <1>2, <1>3, <1>4 DEF StackInv, SameThen

LEMMA OpenStep ==
    ASSUME StackInv, OpenFile
    PROVE  StackInv' /\ SameThen
<1> DEFINE n == Len(frames)
<1>1. /\ frames \in Seq(FrameType) /\ frames # <<>> /\ n \in Nat \ {0}
      /\ Top = frames[n] /\ Top \in FrameType /\ ~Top.open /\ Top.files > 0
  BY TopType DEF StackInv, OpenFile
<1>2. PICK e \in FrameType, o \in BOOLEAN :
        /\ frames' = Append(Callers, e)
        /\ e.open = o /\ e.bg = Top.bg /\ e.then = Top.then
        /\ level' \in 0..MaxNesting /\ failures' \in 0..MaxFailures
        /\ level' - failures' = level - failures + IF o THEN 1 ELSE 0
  <2> DEFINE refused == [Top EXCEPT !.files = @ - 1]
             opened  == [Top EXCEPT !.open = TRUE, !.files = @ - 1]
  <2>1. /\ refused \in FrameType /\ refused.open = FALSE
        /\ refused.then = Top.then /\ refused.bg = Top.bg
    BY <1>1, FileFrame DEF FrameType
  <2>2. /\ opened \in FrameType /\ opened.open = TRUE
        /\ opened.then = Top.then /\ opened.bg = Top.bg
    BY <1>1, OpenFrame
  <2>3. level \in 0..MaxNesting /\ failures \in 0..MaxFailures
    BY DEF StackInv
  <2>4. CASE TopBecomes(refused) /\ UNCHANGED <<level, failures>>
    <3>1. level' - failures' = level - failures + IF FALSE THEN 1 ELSE 0
      BY <2>3, <2>4, RuleEventsAssumption, SMT
    <3> QED
      BY <2>1, <2>3, <2>4, <3>1, Zenon DEF TopBecomes
  <2>5. CASE /\ level < MaxNesting /\ level' = level + 1
             /\ TopBecomes(opened) /\ UNCHANGED failures
    <3>1. /\ level' - failures' = level - failures + IF TRUE THEN 1 ELSE 0
          /\ level' \in 0..MaxNesting /\ failures' \in 0..MaxFailures
      BY <2>3, <2>5, RuleEventsAssumption, SMT
    <3> QED
      BY <2>2, <2>5, <3>1, Zenon DEF TopBecomes
  <2>6. CASE /\ level < MaxNesting /\ failures < MaxFailures
             /\ level' = level + 1 /\ failures' = failures + 1
             /\ TopBecomes(refused)
    <3>1. /\ level' - failures' = level - failures + IF FALSE THEN 1 ELSE 0
          /\ level' \in 0..MaxNesting /\ failures' \in 0..MaxFailures
      BY <2>3, <2>6, RuleEventsAssumption, SMT
    <3> QED
      BY <2>1, <2>6, <3>1, Zenon DEF TopBecomes
  <2> QED
    BY <2>4, <2>5, <2>6 DEF OpenFile
<1>3. e.open = o /\ e.bg = Top.bg /\ e.then = Top.then
  BY <1>2
<1>4. frames' = Append(Callers, e)
  BY <1>2
<1>5. /\ frames' \in Seq(FrameType) /\ Len(frames') = n /\ frames'[n] = e
      /\ \A i \in 1..(n - 1) : frames'[i] = frames[i]
  BY <1>1, <1>3, <1>4, Replaced
<1>6. 1..n = 1..(n - 1) \cup {n} /\ n \notin 1..(n - 1)
  BY <1>1, Indices
<1>7. \A i \in 1..n : /\ frames'[i].then = frames[i].then
                      /\ frames'[i].bg = frames[i].bg
  BY <1>1, <1>3, <1>5, <1>6
<1>8. level' = failures' + Cardinality(OpenFiles')
  <2>1. n \notin OpenFiles /\ IsFiniteSet(OpenFiles)
        /\ Cardinality(OpenFiles) \in Nat
    BY <1>1, OpenFinite DEF OpenFiles
  <2>2. OpenFiles' = IF o THEN OpenFiles \cup {n} ELSE OpenFiles
    <3>1. OpenFiles' = {i \in 1..n : frames'[i].open}
      BY <1>5 DEF OpenFiles
    <3> QED
      BY <1>1, <1>3, <1>5, <1>6, <3>1 DEF OpenFiles
  <2>3. Cardinality(OpenFiles') =
            Cardinality(OpenFiles) + IF o THEN 1 ELSE 0
    <3>1. Cardinality(OpenFiles \cup {n}) = Cardinality(OpenFiles) + 1
      BY <2>1, FS_AddElement
    <3> QED
      BY <2>1, <2>2, <3>1, SMT
  <2>4. level = failures + Cardinality(OpenFiles) /\ level \in Nat
        /\ failures \in Nat /\ level' \in Nat /\ failures' \in Nat
    BY <1>2, RuleEventsAssumption, SMT DEF StackInv
  <2> QED
    BY <1>2, <2>1, <2>3, <2>4, SMT
<1> QED
  BY <1>2, <1>5, <1>6, <1>7, <1>8 DEF StackInv, SameThen

LEMMA CloseStep ==
    ASSUME StackInv, CloseFile
    PROVE  StackInv' /\ SameThen
<1> DEFINE n == Len(frames)
           e == [Top EXCEPT !.open = FALSE, !.bg = FALSE]
<1>1. /\ frames \in Seq(FrameType) /\ frames # <<>> /\ n \in Nat \ {0}
      /\ Top = frames[n] /\ Top \in FrameType /\ Top.open
  BY TopType DEF StackInv, CloseFile
<1>3. /\ e \in FrameType /\ e.open = FALSE /\ e.bg = FALSE
      /\ e.then = Top.then
  BY <1>1, ClosedFrame
<1>4. frames' = Append(Callers, e) /\ level' = level - 1
      /\ failures' = failures
  BY DEF TopBecomes, CloseFile
<1> HIDE DEF e
<1>5. /\ frames' \in Seq(FrameType) /\ Len(frames') = n /\ frames'[n] = e
      /\ \A i \in 1..(n - 1) : frames'[i] = frames[i]
  BY <1>1, <1>3, <1>4, Replaced
<1>6. 1..n = 1..(n - 1) \cup {n} /\ n \notin 1..(n - 1)
  BY <1>1, Indices
<1>7. \A i \in 1..n : /\ frames'[i].then = frames[i].then
                      /\ frames'[i].bg => frames[i].bg
  BY <1>1, <1>3, <1>5, <1>6
<1>8. /\ level' = failures' + Cardinality(OpenFiles')
      /\ level' \in 0..MaxNesting /\ failures' \in 0..MaxFailures
  <2>1. n \in OpenFiles /\ IsFiniteSet(OpenFiles)
        /\ Cardinality(OpenFiles) \in Nat
    BY <1>1, <1>6, OpenFinite DEF OpenFiles
  <2>2. OpenFiles' = OpenFiles \ {n}
    <3>1. OpenFiles' = {i \in 1..n : frames'[i].open}
      BY <1>5 DEF OpenFiles
    <3> QED
      BY <1>1, <1>3, <1>5, <1>6, <3>1 DEF OpenFiles
  <2>3. Cardinality(OpenFiles') = Cardinality(OpenFiles) - 1
    BY <2>1, <2>2, FS_RemoveElement
  <2>4. Cardinality(OpenFiles') \in Nat
    BY <2>1, <2>2, FS_RemoveElement, FS_CardinalityType
  <2>5. level = failures + Cardinality(OpenFiles)
        /\ level \in 0..MaxNesting /\ failures \in 0..MaxFailures
    BY DEF StackInv
  <2> QED
    BY <1>4, <2>1, <2>3, <2>4, <2>5, RuleEventsAssumption, SMT
<1> QED
  BY <1>5, <1>6, <1>7, <1>8 DEF StackInv, SameThen

LEMMA PopStep ==
    ASSUME StackInv, EndOfRules
    PROVE  StackInv' /\ Popped
<1> DEFINE n == Len(frames)
<1>1. /\ frames \in Seq(FrameType) /\ frames # <<>> /\ n \in Nat \ {0}
      /\ Top = frames[n] /\ ~Top.open
  BY TopType DEF StackInv, EndOfRules
<1>2. /\ frames' \in Seq(FrameType) /\ Len(frames') = n - 1
      /\ \A i \in 1..(n - 1) : frames'[i] = frames[i]
  BY <1>1, CallersType DEF EndOfRules
<1>3. /\ 1..n = 1..(n - 1) \cup {n}
      /\ 1..((n - 1) - 1) \subseteq 1..(n - 1)
  BY <1>1, SMT
<1>4. OpenFiles' = OpenFiles
  <2>1. OpenFiles' = {i \in 1..(n - 1) : frames'[i].open}
    BY <1>2 DEF OpenFiles
  <2> QED
    BY <1>1, <1>2, <1>3, <2>1 DEF OpenFiles
<1>5. level' = level /\ failures' = failures
  BY DEF EndOfRules
<1> QED
  BY <1>2, <1>3, <1>4, <1>5 DEF StackInv, Popped

LEMMA StackUnchanged ==
    ASSUME StackInv, UNCHANGED <<frames, level, failures>>
    PROVE  StackInv' /\ SameThen
BY DEF StackInv, OpenFiles, SameThen


-----------------------------------------------------------------------------
\* Each timer and the frames that pause or resume it.

OwnFrames(t) == {i \in 1..Len(frames) : Own(frames[i], t)}

Outermost(t, i) == i \in OwnFrames(t) /\ \A j \in OwnFrames(t) : i <= j

\* A timer that runs is not later than it may be.  Of the frames for a timer
\* one is the outermost; there is but one, which finds the timer as it was,
\* unless it had commands since.
TimerOK(t) ==
    /\ Active(t) => timeDiff(now, timestamp[t]) \in (-MaxLate)..HalfMax
    /\ OwnFrames(t) # {} => \E i \in OwnFrames(t) : Outermost(t, i)
    /\ t \in meddled => OwnFrames(t) # {}
    /\ t \notin meddled => \A i, j \in OwnFrames(t) : i = j
    /\ t \notin meddled => \A i \in OwnFrames(t) :
         /\ frames[i].then.do = "pause" => timestamp[t] # 0
         /\ frames[i].then.do = "resume" =>
               interval[t] = frames[i].then.left

TimersInv == \A t \in Timers : TimerOK(t)

TypeInv ==
    /\ now \in ULong
    /\ timestamp \in [Timers -> ULong] /\ interval \in [Timers -> 0..HalfMax]
    /\ paused \in [Timers -> BOOLEAN]
    /\ waiting \in 0..MaxQueue
    /\ scan \in 0..LastTimer
    /\ meddled \subseteq Timers
    /\ ordered \in [timer : {0} \cup Timers, time : {0} \cup Durations]

OwnKept(t) ==
    /\ OwnFrames(t)' = OwnFrames(t)
    /\ \A i \in OwnFrames(t) : frames'[i].then = frames[i].then

Untouched(t) ==
    /\ OwnKept(t)
    /\ t \in meddled' <=> t \in meddled
    /\ timestamp'[t] = timestamp[t]
    /\ interval'[t] = interval[t]
    /\ paused'[t] = paused[t]

LEMMA OwnRules == \A t : InOwnRules(t) <=> OwnFrames(t) # {}
BY DEF InOwnRules, OwnFrames

LEMMA SameKept ==
    ASSUME SameThen, NEW t PROVE OwnKept(t)
BY DEF SameThen, OwnKept, OwnFrames, Own

LEMMA PushKept ==
    ASSUME frames \in Seq(FrameType), NEW then, Pushed(then), NEW t
    PROVE  LET n == Len(frames) + 1 IN
           /\ n \notin OwnFrames(t) /\ \A i \in OwnFrames(t) : i <= n
           /\ frames'[n].then = then
           /\ \A i \in OwnFrames(t) : frames'[i].then = frames[i].then
           /\ OwnFrames(t)' = IF then.do \in {"pause", "resume"}
                                    /\ then.timer = t
                              THEN OwnFrames(t) \cup {n} ELSE OwnFrames(t)
<1> DEFINE n == Len(frames)
<1>1. n \in Nat /\ 1..(n + 1) = 1..n \cup {n + 1} /\ n + 1 \notin 1..n
      /\ \A i \in 1..n : i <= n + 1
  BY SMT
<1>2. /\ Len(frames') = n + 1 /\ frames'[n + 1].then = then
      /\ \A i \in 1..n : frames'[i].then = frames[i].then
  BY DEF Pushed
<1> HIDE DEF n
<1>3. OwnFrames(t)' = {i \in 1..(n + 1) : Own(frames'[i], t)}
  BY <1>2 DEF OwnFrames
<1>4. OwnFrames(t) = {i \in 1..n : Own(frames[i], t)}
  BY DEF OwnFrames, n
<1>5. \A i \in 1..n : Own(frames'[i], t) <=> Own(frames[i], t)
  BY <1>2 DEF Own
<1>6. Own(frames'[n + 1], t) <=>
        then.do \in {"pause", "resume"} /\ then.timer = t
  BY <1>2 DEF Own
<1>7. OwnFrames(t)' = IF Own(frames'[n + 1], t)
                      THEN OwnFrames(t) \cup {n + 1} ELSE OwnFrames(t)
  BY <1>1, <1>3, <1>4, <1>5
<1> QED
  BY <1>1, <1>2, <1>4, <1>6, <1>7 DEF n

LEMMA PopKept ==
    ASSUME frames \in Seq(FrameType), frames # <<>>, Popped, NEW t
    PROVE  LET n == Len(frames) IN
           /\ \A i \in OwnFrames(t) : i <= n
           /\ \A i \in OwnFrames(t) \ {n} : frames'[i].then = frames[i].then
           /\ OwnFrames(t)' = OwnFrames(t) \ {n}
           /\ n \in OwnFrames(t) <=> Own(Top, t)
<1> DEFINE n == Len(frames)
<1>1. n \in Nat \ {0} /\ Top = frames[n]
  BY TopType
<1>2. 1..n = 1..(n - 1) \cup {n} /\ n \notin 1..(n - 1) /\ n \in 1..n
      /\ \A i \in 1..n : i <= n
  BY <1>1, SMT
<1>3. /\ Len(frames') = n - 1
      /\ \A i \in 1..(n - 1) : frames'[i].then = frames[i].then
  BY DEF Popped
<1> HIDE DEF n
<1>4. OwnFrames(t)' = {i \in 1..(n - 1) : Own(frames'[i], t)}
  BY <1>3 DEF OwnFrames
<1>5. OwnFrames(t) = {i \in 1..n : Own(frames[i], t)}
  BY DEF OwnFrames, n
<1>6. \A i \in 1..(n - 1) : Own(frames'[i], t) <=> Own(frames[i], t)
  BY <1>3 DEF Own
<1>7. OwnFrames(t)' = OwnFrames(t) \ {n}
  BY <1>2, <1>4, <1>5, <1>6
<1>8. n \in OwnFrames(t) <=> Own(Top, t)
  BY <1>1, <1>2, <1>5
<1>9. \A i \in OwnFrames(t) : i <= n /\ (i # n => i \in 1..(n - 1))
  BY <1>2, <1>5
<1> QED
  BY <1>3, <1>7, <1>8, <1>9 DEF n

-----------------------------------------------------------------------------
\* What the countdown of a timer is.

IdleView(t) ==
    OwnFrames(t) = {} =>
        /\ timestamp[t] = 0 => Mode[t] = "off" /\ Left[t] = 0
        /\ timestamp[t] # 0 /\ paused[t] =>
             Mode[t] = "paused" /\ Left[t] = interval[t]
        /\ Active(t) => /\ Mode[t] = "running"
                        /\ Left[t] = timeDiff(now, timestamp[t])

OwnView(t) ==
    \A i : Outermost(t, i) =>
        /\ Mode[t] = frames[i].then.do /\ Left[t] = frames[i].then.left
        /\ Mode[t] \in {"pause", "resume"}

Views == \A t \in Timers : IdleView(t) /\ OwnView(t)

LEMMA ViewNow == StackInv => Views
<1> SUFFICES ASSUME StackInv, NEW t \in Timers PROVE IdleView(t) /\ OwnView(t)
  BY DEF Views
<1>1. ASSUME OwnFrames(t) = {}
      PROVE  /\ timestamp[t] = 0 => Mode[t] = "off" /\ Left[t] = 0
             /\ timestamp[t] # 0 /\ paused[t] =>
                  Mode[t] = "paused" /\ Left[t] = interval[t]
             /\ Active(t) => /\ Mode[t] = "running"
                             /\ Left[t] = timeDiff(now, timestamp[t])
  <2>1. ~InOwnRules(t)
    BY <1>1, OwnRules
  <2> QED
    BY <2>1 DEF Mode, Left, Active
<1>2. ASSUME NEW i, Outermost(t, i)
      PROVE  /\ Mode[t] = frames[i].then.do /\ Left[t] = frames[i].then.left
             /\ Mode[t] \in {"pause", "resume"}
  <2>1. i \in 1..Len(frames) /\ Len(frames) \in Nat /\ Own(frames[i], t)
    BY <1>2 DEF Outermost, OwnFrames, StackInv
  <2>2. InOwnRules(t)
    BY <2>1 DEF InOwnRules
  <2>3. \A j \in 1..(i - 1) : ~Own(frames[j], t)
    <3>1. ASSUME NEW j \in 1..(i - 1), Own(frames[j], t) PROVE FALSE
      <4>1. j \in 1..Len(frames) /\ ~(i <= j)
        BY <2>1, SMT
      <4> QED
        BY <1>2, <3>1, <4>1 DEF Outermost, OwnFrames
    <3> QED
      BY <3>1
  <2>4. ASSUME NEW k \in 1..Len(frames), Own(frames[k], t),
               \A j \in 1..(k - 1) : ~Own(frames[j], t)
        PROVE  k = i
    <3>1. i <= k
      BY <1>2, <2>4 DEF Outermost, OwnFrames
    <3>2. ~(i \in 1..(k - 1))
      BY <2>1, <2>4
    <3> QED
      BY <2>1, <3>1, <3>2, SMT
  <2>5. OwnCall(t) = i
    BY <2>1, <2>3, <2>4 DEF OwnCall
  <2> QED
    BY <2>1, <2>2, <2>5 DEF Mode, Left, Own
<1> QED
  BY <1>1, <1>2 DEF IdleView, OwnView

LEMMA ViewNext == StackInv' => Views'
BY ViewNow, PTL

AreFunctions ==
    Mode = [t \in Timers |-> Mode[t]] /\ Left = [t \in Timers |-> Left[t]]

LEMMA FunctionsNow == AreFunctions
<1>1. Mode = [t \in Timers |-> Mode[t]]
  BY DEF Mode
<1>2. Left = [t \in Timers |-> Left[t]]
  BY DEF Left
<1> QED
  BY <1>1, <1>2 DEF AreFunctions

LEMMA FunctionsNext == AreFunctions'
BY FunctionsNow, PTL

LEMMA UntouchedStep ==
    ASSUME StackInv, StackInv', NEW t \in Timers, TimerOK(t), Untouched(t),
           now' = now
    PROVE  TimerOK(t)' /\ Mode'[t] = Mode[t] /\ Left'[t] = Left[t]
<1>1. /\ OwnFrames(t)' = OwnFrames(t)
      /\ \A i \in OwnFrames(t) : frames'[i].then = frames[i].then
      /\ t \in meddled' <=> t \in meddled
      /\ timestamp'[t] = timestamp[t] /\ interval'[t] = interval[t]
      /\ paused'[t] = paused[t] /\ now' = now
  BY DEF Untouched, OwnKept
<1>2. /\ \A i : Outermost(t, i)' <=> Outermost(t, i)
      /\ Active(t)' <=> Active(t)
  BY <1>1 DEF Outermost, Active
<1>3. TimerOK(t)'
  BY <1>1, <1>2 DEF TimerOK
<1>4. IdleView(t) /\ IdleView(t)' /\ OwnView(t) /\ OwnView(t)'
  BY ViewNow, ViewNext DEF Views
<1>5. CASE OwnFrames(t) = {}
  <2>1. timestamp[t] = 0 \/ (timestamp[t] # 0 /\ paused[t]) \/ Active(t)
    BY DEF Active
  <2> QED
    BY <1>1, <1>2, <1>3, <1>4, <1>5, <2>1 DEF IdleView
<1>6. CASE OwnFrames(t) # {}
  <2>1. PICK i \in OwnFrames(t) : Outermost(t, i)
    BY <1>6 DEF TimerOK
  <2>2. Outermost(t, i)'
    BY <1>2, <2>1
  <2> QED
    BY <1>1, <1>3, <1>4, <2>1, <2>2 DEF OwnView
<1> QED
  BY <1>5, <1>6


\* No timer is touched.
LEMMA AllUntouched ==
    ASSUME StackInv, StackInv', TimersInv, now' = now,
           \A t \in Timers : Untouched(t)
    PROVE  TimersInv' /\ UNCHANGED <<Mode, Left>>
<1>1. \A t \in Timers :
         TimerOK(t)' /\ Mode'[t] = Mode[t] /\ Left'[t] = Left[t]
  BY UntouchedStep DEF TimersInv
<1>2. Mode' = [t \in Timers |-> Mode'[t]] /\ Mode = [t \in Timers |-> Mode[t]]
  BY FunctionsNow, FunctionsNext DEF AreFunctions
<1>3. Left' = [t \in Timers |-> Left'[t]] /\ Left = [t \in Timers |-> Left[t]]
  BY FunctionsNow, FunctionsNext DEF AreFunctions
<1>4. TimersInv'
  BY <1>1 DEF TimersInv
<1>5. Mode' = Mode
  BY <1>1, <1>2
<1>6. Left' = Left
  BY <1>1, <1>3
<1> QED
  BY <1>4, <1>5, <1>6

\* A step that touches one timer.
LEMMA OneTouched ==
    ASSUME StackInv, StackInv', TimersInv, now' = now,
           NEW t \in Timers, TimerOK(t)',
           \A u \in Timers \ {t} : Untouched(u)
    PROVE  /\ TimersInv'
           /\ Promised!Become(t, Mode'[t], Left'[t])
           /\ Mode'[t] = Mode[t] /\ Left'[t] = Left[t] =>
                UNCHANGED <<Mode, Left>>
<1>1. \A u \in Timers \ {t} :
         TimerOK(u)' /\ Mode'[u] = Mode[u] /\ Left'[u] = Left[u]
  BY UntouchedStep DEF TimersInv
<1>2. TimersInv'
  BY <1>1 DEF TimersInv
<1>3. Mode' = [u \in Timers |-> Mode'[u]] /\ Mode = [u \in Timers |-> Mode[u]]
  BY FunctionsNow, FunctionsNext DEF AreFunctions
<1>4. Left' = [u \in Timers |-> Left'[u]] /\ Left = [u \in Timers |-> Left[u]]
  BY FunctionsNow, FunctionsNext DEF AreFunctions
<1>5. Mode' = [Mode EXCEPT ![t] = Mode'[t]]
  BY <1>1, <1>3
<1>6. Left' = [Left EXCEPT ![t] = Left'[t]]
  BY <1>1, <1>4
<1>7. ASSUME Mode'[t] = Mode[t], Left'[t] = Left[t]
      PROVE  Mode' = Mode /\ Left' = Left
  <2>1. \A u \in Timers : Mode'[u] = Mode[u] /\ Left'[u] = Left[u]
    BY <1>1, <1>7
  <2> QED
    BY <2>1, <1>3, <1>4
<1> QED
  BY <1>2, <1>5, <1>6, <1>7 DEF Promised!Become

LEMMA SetTouches ==
    ASSUME TypeInv, NEW t \in Timers, NEW stamp, NEW int, NEW isPaused,
           SetTimer(t, stamp, int, isPaused)
    PROVE  /\ timestamp'[t] = stamp /\ interval'[t] = int
           /\ paused'[t] = isPaused
           /\ \A u \in Timers \ {t} : /\ timestamp'[u] = timestamp[u]
                                      /\ interval'[u] = interval[u]
                                      /\ paused'[u] = paused[u]
BY DEF SetTimer, TypeInv

LEMMA SetTyped ==
    ASSUME TypeInv, NEW t \in Timers, NEW stamp \in ULong,
           NEW int \in 0..HalfMax, NEW isPaused \in BOOLEAN,
           SetTimer(t, stamp, int, isPaused)
    PROVE  /\ timestamp' \in [Timers -> ULong]
           /\ interval' \in [Timers -> 0..HalfMax]
           /\ paused' \in [Timers -> BOOLEAN]
BY DEF SetTimer, TypeInv

\* The arithmetic of the abstract specification is the same.
LEMMA SamePlus ==
    /\ \A a, b : Promised!Plus(a, b) = Plus(a, b)
    /\ Promised!ULong = ULong
BY DEF Promised!Plus, Plus, Promised!ULong, ULong, Promised!ULongMax, ULongMax

\* A timer that is started, or is lost because it would end at 0.
LEMMA Started ==
    ASSUME StackInv', NEW t \in Timers, now \in ULong,
           NEW d \in 0..HalfMax, now' = now, OwnFrames(t)' = {},
           timestamp'[t] = Plus(now, d), ~paused'[t], t \notin meddled',
           interval'[t] \in 0..HalfMax
    PROVE  /\ TimerOK(t)'
           /\ Promised!Become(t, Mode'[t], Left'[t]) => Promised!Start(t, d)
<1>1. timeDiff(now', timestamp'[t]) = d
  BY TimeDiffAhead
<1>2. d \in (-MaxLate)..HalfMax
  BY RuleEventsAssumption, TimeCalcAssumption, SMT
<1>3. TimerOK(t)'
  BY <1>1, <1>2 DEF TimerOK
<1>4. IdleView(t)'
  BY ViewNext DEF Views
<1>5. CASE Plus(now, d) = 0
  <2>1. Mode'[t] = "off" /\ Left'[t] = 0
    BY <1>4, <1>5 DEF IdleView
  <2> QED
    BY <1>3, <1>5, <2>1, SamePlus DEF Promised!Start
<1>6. CASE Plus(now, d) # 0
  <2>1. Active(t)'
    BY <1>6 DEF Active
  <2>2. Mode'[t] = "running" /\ Left'[t] = d
    BY <1>1, <1>4, <2>1 DEF IdleView
  <2> QED
    BY <1>3, <1>6, <2>2, SamePlus DEF Promised!Start
<1> QED
  BY <1>5, <1>6

\* A timer that is off.
LEMMA Off ==
    ASSUME StackInv', NEW t \in Timers, OwnFrames(t)' = {},
           timestamp'[t] = 0, t \notin meddled'
    PROVE  TimerOK(t)' /\ Mode'[t] = "off" /\ Left'[t] = 0
<1>1. TimerOK(t)'
  BY DEF TimerOK, Active
<1>2. IdleView(t)'
  BY ViewNext DEF Views
<1> QED
  BY <1>1, <1>2 DEF IdleView

\* The countdown of a timer that runs is what the code reads.
LEMMA RunningLeft ==
    ASSUME TypeInv, NEW t \in Timers, TimerOK(t), Active(t)
    PROVE  /\ timePassedSince(timestamp[t], now) = -timeDiff(now, timestamp[t])
           /\ timeDiff(now, timestamp[t]) \in (-MaxLate)..HalfMax
           /\ timeDiff(now, timestamp[t]) \in (-HalfMax)..HalfMax
<1> DEFINE a == timeDiff(now, timestamp[t])
<1>1. now \in ULong /\ timestamp[t] \in ULong
  BY DEF TypeInv
<1>2. a \in (-MaxLate)..HalfMax
  BY DEF TimerOK
<1>3. a \in (-HalfMax)..HalfMax
  BY <1>2, RuleEventsAssumption, TimeCalcAssumption, SMT
<1>4. timeDiff(timestamp[t], now) = -a
  BY <1>1, <1>3, TimeDiffBack
<1> QED
  BY <1>2, <1>3, <1>4 DEF timePassedSince


-----------------------------------------------------------------------------
\* The timer that has fired and whose rules are run.

LEMMA FiredSame ==
    ASSUME StackInv, StackInv', SameThen
    PROVE  Fired' = Fired
<1>1. Len(frames) \in Nat /\ Len(frames') = Len(frames)
  BY DEF StackInv, SameThen
<1>2. frames' = <<>> <=> frames = <<>>
  BY <1>1, SMT DEF StackInv
<1>3. frames # <<>> => frames'[1].then = frames[1].then
  <2>1. frames # <<>> => 1 \in 1..Len(frames)
    BY SMT DEF StackInv
  <2> QED
    BY <2>1 DEF SameThen
<1> QED
  BY <1>2, <1>3 DEF Fired

LEMMA FiredPush ==
    ASSUME StackInv, StackInv', NEW then, Pushed(then)
    PROVE  /\ then.do # "fire" => Fired' = Fired
           /\ frames = <<>> =>
                Fired = 0 /\ (then.do = "fire" => Fired' = then.timer)
<1>1. Len(frames) \in Nat /\ Len(frames') = Len(frames) + 1
  BY DEF StackInv, Pushed
<1>2. frames' # <<>>
  BY <1>1, SMT DEF StackInv
<1>3. frames # <<>> => frames'[1].then = frames[1].then
  <2>1. frames # <<>> => 1 \in 1..Len(frames)
    BY SMT DEF StackInv
  <2> QED
    BY <2>1 DEF Pushed
<1>4. frames = <<>> => frames'[1].then = then
  <2>1. frames = <<>> => Len(frames) + 1 = 1
    BY SMT
  <2> QED
    BY <2>1 DEF Pushed
<1> QED
  BY <1>2, <1>3, <1>4 DEF Fired

LEMMA FiredPop ==
    ASSUME StackInv, StackInv', Popped, frames # <<>>
    PROVE  /\ Fired' \in {Fired, 0}
           /\ Top.then.do # "fire" => Fired' = Fired
<1>1. /\ Len(frames) \in Nat \ {0} /\ Len(frames') = Len(frames) - 1
      /\ Top = frames[Len(frames)]
  BY TopType DEF StackInv, Popped
<1>2. CASE Len(frames) = 1
  <2>1. frames' = <<>> /\ Fired' = 0
    BY <1>1, <1>2, SMT DEF Fired, StackInv
  <2> QED
    BY <1>1, <1>2, <2>1 DEF Fired
<1>3. CASE Len(frames) # 1
  <2>1. 1 \in 1..(Len(frames) - 1) /\ frames' # <<>>
    BY <1>1, <1>3, SMT DEF StackInv
  <2>2. frames'[1].then = frames[1].then
    BY <2>1 DEF Popped
  <2> QED
    BY <2>1, <2>2 DEF Fired
<1> QED
  BY <1>2, <1>3

-----------------------------------------------------------------------------
\* Every step is one of the countdowns.

Refines ==
    /\ TimersInv'
    /\ \/ Promised!Next
       \/ UNCHANGED <<now, Mode, Left, meddled, Fired, ordered>>

LEMMA SameOrders ==
    /\ Promised!NoOrder = NoOrder
    /\ \A t, d : Promised!Order(t, d) = Order(t, d)
BY DEF Promised!NoOrder, Promised!Order, NoOrder, Order

\* Nothing was done about timers.
LEMMA IdleRefines ==
    ASSUME StackInv, StackInv', TimersInv, UNCHANGED <<now, timers, meddled>>,
           ordered' = NoOrder, \A t \in Timers : OwnKept(t),
           Fired' \in {Fired, 0}
    PROVE  Refines
<1>1. \A t \in Timers : Untouched(t)
  BY DEF Untouched, timers
<1>2. TimersInv' /\ UNCHANGED <<Mode, Left>>
  BY <1>1, AllUntouched
<1>3. Promised!Go
  BY <1>2, SameOrders DEF Promised!Go
<1> QED
  BY <1>2, <1>3 DEF Refines, Promised!Next

\* A command for a timer whose own rules are run.
LEMMA MeddleRefines ==
    ASSUME StackInv, StackInv', TimersInv, now' = now, NEW t \in Timers,
           OwnFrames(t) # {}, meddled' = meddled \cup {t},
           OwnFrames(t) \subseteq OwnFrames(t)',
           \A i \in OwnFrames(t) :
             /\ frames'[i].then = frames[i].then
             /\ \A j \in OwnFrames(t)' \ OwnFrames(t) : i <= j,
           Active(t)' => timeDiff(now', timestamp'[t]) \in (-MaxLate)..HalfMax,
           \A u \in Timers \ {t} : Untouched(u),
           Fired' = Fired,
           ordered' \in {NoOrder} \cup {Order(t, d) : d \in Durations}
    PROVE  Refines
<1>1. TimerOK(t)
  BY DEF TimersInv
<1>2. PICK i \in OwnFrames(t) : Outermost(t, i)
  BY <1>1 DEF TimerOK
<1>3. Outermost(t, i)'
  BY <1>2 DEF Outermost
<1>4. TimerOK(t)'
  BY <1>3 DEF TimerOK, Outermost
<1>5. OwnView(t) /\ OwnView(t)'
  BY ViewNow, ViewNext DEF Views
<1>6. Mode'[t] = Mode[t] /\ Left'[t] = Left[t] /\ Mode[t] \in {"pause", "resume"}
  BY <1>2, <1>3, <1>5 DEF OwnView
<1>7. TimersInv' /\ UNCHANGED <<Mode, Left>>
  BY <1>4, <1>6, OneTouched
<1>8. Promised!Meddle(t)
  BY <1>6, <1>7, SameOrders DEF Promised!Meddle, Promised!InRules
<1> QED
  BY <1>7, <1>8 DEF Refines, Promised!Next

LEMMA SetRefines ==
    ASSUME TypeInv, StackInv, TimersInv, NEW c, AreCallers(c),
           NEW t \in Timers, TimerSet(t, c), now' = now
    PROVE  Refines
<1>1. StackInv' /\ (\A u : OwnKept(u)) /\ Fired' = Fired
  <2>1. StackInv' /\ SameThen
    BY NoCallStep DEF TimerSet
  <2> QED
    BY <2>1, SameKept, FiredSame
<1>2. PICK d \in Durations :
         /\ IF d > 0 THEN SetTimer(t, Plus(now, d), d, FALSE)
                     ELSE SetTimer(t, 0, 0, FALSE)
         /\ ordered' = Order(t, d)
  BY DEF TimerSet
<1>3. d \in 0..HalfMax /\ now \in ULong /\ 0 \in 0..HalfMax
  BY ULongFacts, TimeCalcAssumption, SMT DEF TypeInv
<1>4. /\ timestamp'[t] = IF d > 0 THEN Plus(now, d) ELSE 0
      /\ interval'[t] = IF d > 0 THEN d ELSE 0
      /\ paused'[t] = FALSE
      /\ \A u \in Timers \ {t} : /\ timestamp'[u] = timestamp[u]
                                 /\ interval'[u] = interval[u]
                                 /\ paused'[u] = paused[u]
  <2>1. PICK stamp, int :
          /\ stamp = IF d > 0 THEN Plus(now, d) ELSE 0
          /\ int = IF d > 0 THEN d ELSE 0
    OBVIOUS
  <2>2. SetTimer(t, stamp, int, FALSE)
    BY <1>2, <2>1
  <2>3. /\ timestamp'[t] = stamp /\ interval'[t] = int
        /\ paused'[t] = FALSE
        /\ \A u \in Timers \ {t} : /\ timestamp'[u] = timestamp[u]
                                   /\ interval'[u] = interval[u]
                                   /\ paused'[u] = paused[u]
    BY <2>2, SetTouches, Zenon
  <2> QED
    BY <2>1, <2>3, Zenon
<1>5. \A u \in Timers \ {t} : Untouched(u)
  BY <1>1, <1>4 DEF Untouched, TimerSet, Meddle
<1>6. TimerOK(t)
  BY DEF TimersInv
<1>7. CASE OwnFrames(t) = {}
  <2>1. meddled' = meddled /\ t \notin meddled /\ OwnFrames(t)' = {}
    BY <1>1, <1>6, <1>7, OwnRules DEF TimerSet, Meddle, TimerOK, OwnKept
  <2>2. ~Promised!InRules(t)
    <3>1. IdleView(t)
      BY ViewNow DEF Views
    <3>2. Mode[t] \in {"off", "paused", "running"}
      BY <1>7, <3>1 DEF IdleView, Active
    <3> QED
      BY <3>2 DEF Promised!InRules
  <2>3. CASE d > 0
    <3>1. TimerOK(t)' /\ (Promised!Become(t, Mode'[t], Left'[t])
                            => Promised!Start(t, d))
      BY <1>1, <1>3, <1>4, <2>1, <2>3, Started
    <3>2. TimersInv' /\ Promised!Start(t, d)
      BY <1>1, <1>5, <3>1, OneTouched
    <3>3. Promised!Set(t, d)
      BY <1>1, <1>2, <2>1, <2>2, <2>3, <3>2, SameOrders DEF Promised!Set
    <3> QED
      BY <3>2, <3>3 DEF Refines, Promised!Next
  <2>4. CASE ~(d > 0)
    <3>1. TimerOK(t)' /\ Mode'[t] = "off" /\ Left'[t] = 0
      BY <1>1, <1>4, <2>1, <2>4, Off
    <3>2. TimersInv' /\ Promised!Become(t, "off", 0)
      BY <1>1, <1>5, <3>1, OneTouched
    <3>3. Promised!Set(t, d)
      BY <1>1, <1>2, <2>1, <2>2, <2>4, <3>2, SameOrders DEF Promised!Set
    <3> QED
      BY <3>2, <3>3 DEF Refines, Promised!Next
  <2> QED
    BY <2>3, <2>4
<1>8. CASE OwnFrames(t) # {}
  <2>1. meddled' = meddled \cup {t}
    BY <1>8, OwnRules DEF TimerSet, Meddle
  <2>2. ASSUME Active(t)'
        PROVE  timeDiff(now', timestamp'[t]) \in (-MaxLate)..HalfMax
    <3>1. d > 0
      BY <1>4, <2>2 DEF Active
    <3>2. timeDiff(now', timestamp'[t]) = d
      BY <1>3, <1>4, <3>1, TimeDiffAhead
    <3> QED
      BY <1>3, <3>2, RuleEventsAssumption, TimeCalcAssumption, SMT
  <2> QED
    BY <1>1, <1>2, <1>5, <1>8, <2>1, <2>2, MeddleRefines DEF OwnKept
<1> QED
  BY <1>7, <1>8

\* The time left that TimerPause reads.
LEMMA PauseReads ==
    ASSUME TypeInv, NEW t \in Timers, TimerOK(t), Active(t),
           timePassedSince(timestamp[t], now) < 0
    PROVE  LET a == timeDiff(now, timestamp[t]) IN
           /\ a = -timePassedSince(timestamp[t], now)
           /\ a \in 0..HalfMax /\ a > 0
           /\ Pausing(t, a) \in ThenType
<1> DEFINE a == timeDiff(now, timestamp[t])
<1>1. /\ timePassedSince(timestamp[t], now) = -a
      /\ a \in (-HalfMax)..HalfMax
  BY RunningLeft
<1> HIDE DEF a
<1>2. a = -timePassedSince(timestamp[t], now) /\ a \in 0..HalfMax /\ a > 0
  BY <1>1, TimeCalcAssumption, SMT
<1>3. Pausing(t, a) \in ThenType
  BY <1>2 DEF ThenType, Pausing
<1> QED
  BY <1>2, <1>3 DEF a

LEMMA ThensTyped ==
    /\ Nothing \in ThenType
    /\ \A t \in Timers : Firing(t) \in ThenType
    /\ TypeInv => \A t \in Timers : Resuming(t) \in ThenType
<1>1. 0 \in 0..HalfMax
  BY TimeCalcAssumption, SMT
<1> QED
  BY <1>1 DEF ThenType, Firing, Resuming, TypeInv

\* A call for the pause or the resumption of a timer.
LEMMA OwnCallRefines ==
    ASSUME StackInv, TimersInv, NEW c, AreCallers(c), NEW t \in Timers,
           NEW then \in ThenType, then.do \in {"pause", "resume"},
           then.timer = t, Call(c, then),
           UNCHANGED <<now, timers>>, Meddle(t), ordered' = NoOrder,
           then.do = "pause" => timestamp[t] # 0,
           then.do = "resume" => interval[t] = then.left,
           OwnFrames(t) = {} =>
             (Promised!Become(t, then.do, then.left) /\ Fired' = Fired
                /\ meddled' = meddled => Promised!Next)
    PROVE  Refines
<1>0. PICK n \in Nat : n = Len(frames) + 1
  BY SMT DEF StackInv
<1>1. StackInv' /\ Pushed(then) /\ frames \in Seq(FrameType)
  BY CallStep DEF StackInv
<1>2. Fired' = Fired
  BY <1>1, FiredPush
<1>3. \A u \in Timers \ {t} : OwnKept(u)
  BY <1>1, PushKept DEF OwnKept
<1>4. \A u \in Timers \ {t} : Untouched(u)
  BY <1>3 DEF Untouched, timers, Meddle
<1>5. /\ n \notin OwnFrames(t) /\ \A i \in OwnFrames(t) : i <= n
      /\ frames'[n].then = then
      /\ \A i \in OwnFrames(t) : frames'[i].then = frames[i].then
      /\ OwnFrames(t)' = OwnFrames(t) \cup {n}
  BY <1>0, <1>1, PushKept
<1>7. TimerOK(t)
  BY DEF TimersInv
<1>8. Active(t)' => timeDiff(now', timestamp'[t]) \in (-MaxLate)..HalfMax
  BY <1>7 DEF Active, TimerOK, timers
<1>9. CASE OwnFrames(t) = {}
  <2>1. meddled' = meddled /\ t \notin meddled
    BY <1>7, <1>9, OwnRules DEF Meddle, TimerOK
  <2>2. OwnFrames(t)' = {n} /\ n <= n
    BY <1>0, <1>5, <1>9, SMT
  <2>3. Outermost(t, n)'
    BY <2>2 DEF Outermost
  <2>4. TimerOK(t)'
    BY <1>5, <1>8, <2>1, <2>2, <2>3 DEF TimerOK, timers
  <2>5. Mode'[t] = then.do /\ Left'[t] = then.left
    <3>1. OwnView(t)'
      BY <1>1, ViewNext DEF Views
    <3> QED
      BY <1>5, <2>3, <3>1 DEF OwnView
  <2>6. TimersInv' /\ Promised!Become(t, then.do, then.left)
    BY <1>1, <1>4, <2>4, <2>5, OneTouched
  <2> QED
    BY <1>2, <1>9, <2>1, <2>6 DEF Refines
<1>10. CASE OwnFrames(t) # {}
  <2>1. meddled' = meddled \cup {t}
    BY <1>10, OwnRules DEF Meddle
  <2> QED
    BY <1>1, <1>2, <1>4, <1>5, <1>8, <1>10, <2>1, MeddleRefines
<1> QED
  BY <1>9, <1>10

\* Commands that do nothing about a timer, or run other rules.
LEMMA OtherRefines ==
    ASSUME StackInv, TimersInv, NEW c, AreCallers(c),
           NoCall(c) \/ Call(c, Nothing),
           UNCHANGED <<now, timers, meddled>>, ordered' = NoOrder
    PROVE  Refines
<1>1. CASE NoCall(c)
  <2>1. StackInv' /\ SameThen
    BY <1>1, NoCallStep
  <2> QED
    BY <2>1, SameKept, FiredSame, IdleRefines
<1>2. CASE Call(c, Nothing)
  <2>1. StackInv' /\ Pushed(Nothing) /\ frames \in Seq(FrameType)
    BY <1>2, CallStep, ThensTyped DEF StackInv
  <2>2. Nothing.do = "nothing"
    BY DEF Nothing
  <2>3. \A t \in Timers : OwnKept(t)
    BY <2>1, <2>2, PushKept DEF OwnKept
  <2>4. Fired' = Fired
    BY <2>1, <2>2, FiredPush
  <2> QED
    BY <2>1, <2>3, <2>4, IdleRefines
<1> QED
  BY <1>1, <1>2

LEMMA PauseRefines ==
    ASSUME TypeInv, StackInv, TimersInv, NEW c, AreCallers(c),
           NEW t \in Timers, TimerPause(t, c), now' = now
    PROVE  Refines
<1> DEFINE delta == timePassedSince(timestamp[t], now)
           a     == timeDiff(now, timestamp[t])
           then  == Pausing(t, a)
<1>1. UNCHANGED timers /\ ordered' = NoOrder
  BY DEF TimerPause
<1>2. CASE ~paused[t] /\ timestamp[t] # 0 /\ delta < 0
  <2>1. TimerOK(t) /\ Active(t)
    BY <1>2 DEF TimersInv, Active
  <2>2. a = -delta /\ a \in 0..HalfMax /\ a > 0 /\ then \in ThenType
    BY <1>2, <2>1, PauseReads
  <2>3. Call(c, then) /\ Meddle(t)
    BY <1>2, <2>2 DEF TimerPause
  <2>4. then.do = "pause" /\ then.timer = t /\ then.left = a
    BY DEF Pausing
  <2>5. ASSUME OwnFrames(t) = {}, Promised!Become(t, "pause", a),
               Fired' = Fired, meddled' = meddled
        PROVE  Promised!Next
    <3>1. IdleView(t)
      BY ViewNow DEF Views
    <3>2. Mode[t] = "running" /\ Left[t] = a
      BY <2>1, <2>5, <3>1 DEF IdleView
    <3>3. Promised!Pause(t)
      BY <1>1, <2>2, <2>5, <3>2, SameOrders DEF Promised!Pause
    <3> QED
      BY <3>3 DEF Promised!Next
  <2> HIDE DEF then, a
  <2> QED
    BY <1>1, <1>2, <2>2, <2>3, <2>4, <2>5, OwnCallRefines
<1>3. CASE ~(~paused[t] /\ timestamp[t] # 0 /\ delta < 0)
  <2>1. NoCall(c) /\ meddled' = meddled
    BY <1>3 DEF TimerPause
  <2> QED
    BY <1>1, <2>1, OtherRefines
<1> QED
  BY <1>2, <1>3

LEMMA ResumeRefines ==
    ASSUME TypeInv, StackInv, TimersInv, NEW c, AreCallers(c),
           NEW t \in Timers, TimerResume(t, c), now' = now
    PROVE  Refines
<1> DEFINE then == Resuming(t)
<1>1. UNCHANGED timers /\ ordered' = NoOrder
  BY DEF TimerResume
<1>2. CASE paused[t] /\ interval[t] > 0 /\ timestamp[t] # 0
  <2>1. Call(c, then) /\ Meddle(t) /\ then \in ThenType
    BY <1>2, ThensTyped DEF TimerResume
  <2>2. /\ then.do = "resume" /\ then.timer = t
        /\ then.left = interval[t]
    BY DEF Resuming
  <2>3. ASSUME OwnFrames(t) = {},
               Promised!Become(t, "resume", interval[t]),
               Fired' = Fired, meddled' = meddled
        PROVE  Promised!Next
    <3>1. IdleView(t)
      BY ViewNow DEF Views
    <3>2. Mode[t] = "paused" /\ Left[t] = interval[t]
      BY <1>2, <2>3, <3>1 DEF IdleView
    <3>3. Promised!Resume(t)
      BY <1>1, <2>3, <3>2, SameOrders DEF Promised!Resume
    <3> QED
      BY <3>3 DEF Promised!Next
  <2> HIDE DEF then
  <2> QED
    BY <1>1, <2>1, <2>2, <2>3, OwnCallRefines
<1>3. CASE ~(paused[t] /\ interval[t] > 0 /\ timestamp[t] # 0)
  <2>1. NoCall(c) /\ meddled' = meddled
    BY <1>3 DEF TimerResume
  <2> QED
    BY <1>1, <2>1, OtherRefines
<1> QED
  BY <1>2, <1>3

LEMMA CommandRefines ==
    ASSUME TypeInv, StackInv, TimersInv, NEW c, AreCallers(c), Command(c),
           now' = now
    PROVE  Refines
<1>1. ASSUME NEW t \in Timers,
             TimerSet(t, c) \/ TimerPause(t, c) \/ TimerResume(t, c)
      PROVE  Refines
  BY <1>1, SetRefines, PauseRefines, ResumeRefines
<1>2. CASE Event(c)
  BY <1>2, OtherRefines DEF Event
<1>3. CASE AsyncEvent(c)
  BY <1>3, OtherRefines DEF AsyncEvent
<1> QED
  BY <1>1, <1>2, <1>3, Zenon DEF Command


\* A call that pauses or resumes a timer returns.
LEMMA OwnEndRefines ==
    ASSUME TypeInv, StackInv, StackInv', TimersInv, now' = now,
           NEW n \in Nat, NEW t \in Timers, NEW then, n \in OwnFrames(t),
           \A i \in OwnFrames(t) : i <= n,
           frames[n].then = then, OwnFrames(t)' = OwnFrames(t) \ {n},
           \A i \in OwnFrames(t) \ {n} : frames'[i].then = frames[i].then,
           \A u \in Timers \ {t} : OwnKept(u),
           meddled' = IF OwnFrames(t) \ {n} = {} THEN meddled \ {t}
                                                 ELSE meddled,
           Fired' = Fired, ordered' = NoOrder,
           then.do \in {"pause", "resume"}, then.left \in 0..HalfMax,
           then.do = "pause" => SetTimer(t, timestamp[t], then.left, TRUE),
           then.do = "resume" =>
             SetTimer(t, Plus(now, interval[t]), interval[t], FALSE)
    PROVE  Refines
<1>1. TimerOK(t) /\ now \in ULong /\ interval[t] \in 0..HalfMax
  BY DEF TimersInv, TypeInv
<1>2. \A u \in Timers \ {t} : /\ timestamp'[u] = timestamp[u]
                              /\ interval'[u] = interval[u]
                              /\ paused'[u] = paused[u]
  <2>1. CASE then.do = "pause"
    BY <2>1, SetTouches, Zenon
  <2>2. CASE then.do = "resume"
    BY <2>2, SetTouches, Zenon
  <2> QED
    BY <2>1, <2>2
<1>3. \A u \in Timers \ {t} : Untouched(u)
  BY <1>2 DEF Untouched
<1>4. then.do = "pause" =>
        /\ timestamp'[t] = timestamp[t] /\ interval'[t] = then.left
        /\ paused'[t]
  BY DEF SetTimer, TypeInv
<1>5. then.do = "resume" =>
        /\ timestamp'[t] = Plus(now, interval[t])
        /\ interval'[t] = interval[t] /\ ~paused'[t]
  BY DEF SetTimer, TypeInv
<1>6. CASE OwnFrames(t) \ {n} # {}
  <2>1. meddled' = meddled /\ t \in meddled
    BY <1>1, <1>6 DEF TimerOK
  <2>2. PICK i \in OwnFrames(t) : Outermost(t, i)
    BY <1>1 DEF TimerOK
  <2>3. i # n
    <3>1. PICK j \in OwnFrames(t) : j # n
      BY <1>6
    <3>2. i <= j /\ j <= n /\ i <= n
      BY <2>2 DEF Outermost
    <3>3. j \in Int
      BY DEF OwnFrames
    <3> QED
      BY <3>1, <3>2, <3>3, SMT
  <2>4. Outermost(t, i)' /\ frames'[i].then = frames[i].then
    BY <2>2, <2>3 DEF Outermost
  <2>5. Active(t)' => timeDiff(now', timestamp'[t]) \in (-MaxLate)..HalfMax
    <3>1. SUFFICES ASSUME Active(t)'
                   PROVE  timeDiff(now', timestamp'[t]) \in (-MaxLate)..HalfMax
      OBVIOUS
    <3>2. timestamp'[t] = Plus(now, interval[t])
      BY <1>4, <1>5, <3>1 DEF Active
    <3>3. timeDiff(now', timestamp'[t]) = interval[t]
      BY <1>1, <3>2, TimeDiffAhead
    <3> QED
      BY <1>1, <3>3, RuleEventsAssumption, TimeCalcAssumption, SMT
  <2>6. TimerOK(t)'
    BY <2>1, <2>4, <2>5 DEF TimerOK, Outermost
  <2>7. OwnView(t) /\ OwnView(t)'
    BY ViewNow, ViewNext DEF Views
  <2>8. Mode'[t] = Mode[t] /\ Left'[t] = Left[t]
    BY <2>2, <2>4, <2>7 DEF OwnView
  <2>9. TimersInv' /\ UNCHANGED <<Mode, Left>>
    BY <1>3, <2>6, <2>8, OneTouched
  <2>10. Promised!Go
    BY <2>1, <2>9, SameOrders DEF Promised!Go
  <2> QED
    BY <2>9, <2>10 DEF Refines, Promised!Next
<1>7. CASE OwnFrames(t) \ {n} = {}
  <2>1. OwnFrames(t)' = {} /\ meddled' = meddled \ {t} /\ t \notin meddled'
    BY <1>7
  <2>2. Mode[t] = then.do /\ Left[t] = then.left
    <3>1. Outermost(t, n)
      BY <1>1, <1>7 DEF TimerOK, Outermost
    <3>2. OwnView(t)
      BY ViewNow DEF Views
    <3> QED
      BY <3>1, <3>2 DEF OwnView
  <2>3. CASE then.do = "pause"
    <3>1. TimerOK(t)'
      BY <1>4, <2>1, <2>3 DEF TimerOK, Active
    <3>2. TimersInv' /\ Promised!Become(t, Mode'[t], Left'[t])
      BY <1>3, <3>1, OneTouched
    <3>3. IdleView(t)'
      BY ViewNext DEF Views
    <3>4. CASE timestamp[t] = 0
      <4>1. Mode'[t] = "off" /\ Left'[t] = 0
        BY <1>4, <2>1, <2>3, <3>3, <3>4 DEF IdleView
      <4>2. t \in meddled
        BY <1>1, <2>3, <3>4 DEF TimerOK
      <4>3. Promised!Paused(t)
        BY <2>1, <2>2, <2>3, <3>2, <4>1, <4>2, SameOrders
        DEF Promised!Paused
      <4> QED
        BY <3>2, <4>3 DEF Refines, Promised!Next
    <3>5. CASE timestamp[t] # 0
      <4>1. Mode'[t] = "paused" /\ Left'[t] = then.left
        BY <1>4, <2>1, <2>3, <3>3, <3>5 DEF IdleView
      <4>2. Promised!Paused(t)
        BY <2>1, <2>2, <2>3, <3>2, <4>1, SameOrders DEF Promised!Paused
      <4> QED
        BY <3>2, <4>2 DEF Refines, Promised!Next
    <3> QED
      BY <3>4, <3>5
  <2>4. CASE then.do = "resume"
    <3>1. TimerOK(t)' /\ (Promised!Become(t, Mode'[t], Left'[t])
                            => Promised!Start(t, interval[t]))
      BY <1>1, <1>5, <2>1, <2>4, Started
    <3>2. TimersInv' /\ Promised!Start(t, interval[t])
      BY <1>3, <3>1, OneTouched
    <3>3. t \notin meddled => interval[t] = then.left
      BY <1>1, <2>4 DEF TimerOK
    <3>4. Promised!Resumed(t)
      BY <1>1, <2>1, <2>2, <2>4, <3>2, <3>3, SameOrders
      DEF Promised!Resumed
    <3> QED
      BY <3>2, <3>4 DEF Refines, Promised!Next
  <2> QED
    BY <2>3, <2>4
<1> QED
  BY <1>6, <1>7

LEMMA EndRefines ==
    ASSUME TypeInv, StackInv, TimersInv, EndOfRules PROVE Refines
<1>0. PICK n \in Nat : n = Len(frames)
  BY DEF StackInv
<1>1. /\ StackInv' /\ Popped /\ frames \in Seq(FrameType) /\ frames # <<>>
      /\ Return(Top.then) /\ now' = now /\ ordered' = NoOrder
  BY PopStep DEF EndOfRules, StackInv
<1>2. Top.then \in ThenType /\ Top = frames[n]
  BY <1>0, <1>1, TopType DEF FrameType
<1>3. /\ \A u : \A i \in OwnFrames(u) : i <= n
      /\ \A u : \A i \in OwnFrames(u) \ {n} : frames'[i].then = frames[i].then
      /\ \A u : OwnFrames(u)' = OwnFrames(u) \ {n}
      /\ \A u : n \in OwnFrames(u) <=> Own(Top, u)
  BY <1>0, <1>1, PopKept
<1>4. /\ Fired' \in {Fired, 0}
      /\ Top.then.do # "fire" => Fired' = Fired
  BY <1>1, FiredPop
<1>5. meddled' = {u \in meddled : OwnFrames(u) \ {n} # {}}
  <2>1. \A u : (\E i \in 1..(n - 1) : Own(frames[i], u)) <=>
                 OwnFrames(u) \ {n} # {}
    <3>1. n \in Nat \ {0}
      BY <1>0, <1>1, TopType
    <3>2. 1..n = 1..(n - 1) \cup {n} /\ n \notin 1..(n - 1)
      BY <3>1, Indices
    <3> QED
      BY <1>0, <3>2 DEF OwnFrames
  <2> QED
    BY <1>0, <2>1 DEF EndOfRules
<1>6. ASSUME NEW u \in Timers, ~Own(Top, u)
      PROVE  OwnKept(u) /\ (u \in meddled' <=> u \in meddled)
  <2>1. OwnFrames(u) \ {n} = OwnFrames(u)
    BY <1>3, <1>6
  <2>2. u \in meddled => OwnFrames(u) # {}
    BY DEF TimersInv, TimerOK
  <2> QED
    BY <1>3, <1>5, <2>1, <2>2 DEF OwnKept
<1>7. meddled \subseteq Timers /\ meddled' \subseteq Timers
  BY <1>5 DEF TypeInv
<1>8. CASE ~(Top.then.do \in {"pause", "resume"})
  <2>1. UNCHANGED timers
    BY <1>1, <1>8 DEF Return
  <2>2. \A u \in Timers : ~Own(Top, u)
    BY <1>8 DEF Own
  <2>3. meddled' = meddled /\ \A u \in Timers : OwnKept(u)
    BY <1>6, <1>7, <2>2
  <2> QED
    BY <1>1, <1>4, <2>1, <2>3, IdleRefines
<1>9. CASE Top.then.do \in {"pause", "resume"}
  <2>1. /\ Top.then \in [do : {"fire", "pause", "resume"}, timer : Timers,
                         left : 0..HalfMax]
    <3>1. Top.then # Nothing
      BY <1>9 DEF Nothing
    <3> QED
      BY <1>2, <3>1 DEF ThenType
  <2>2. PICK t \in Timers : t = Top.then.timer
    BY <2>1
  <2>3. Own(Top, t) /\ n \in OwnFrames(t)
    BY <1>3, <1>9, <2>2 DEF Own
  <2>4. \A u \in Timers \ {t} : ~Own(Top, u)
    BY <2>2 DEF Own
  <2>5. meddled' = IF OwnFrames(t) \ {n} = {} THEN meddled \ {t} ELSE meddled
    BY <1>5, <1>6, <1>7, <2>4
  <2>6. PICK then : then = Top.then
    OBVIOUS
  <2>7. /\ then.do = "pause" => SetTimer(t, timestamp[t], then.left, TRUE)
        /\ then.do = "resume" =>
             SetTimer(t, Plus(now, interval[t]), interval[t], FALSE)
    BY <1>1, <2>2, <2>6 DEF Return
  <2>8. /\ frames[n].then = then /\ then.left \in 0..HalfMax
        /\ then.do \in {"pause", "resume"}
    BY <1>2, <1>9, <2>1, <2>6
  <2>9. Fired' = Fired
    BY <1>4, <1>9
  <2> QED
    BY <1>1, <1>3, <1>6, <2>3, <2>4, <2>5, <2>7, <2>8, <2>9, OwnEndRefines
<1> QED
  BY <1>8, <1>9

\* rulesTimers() fires the timer it looks at when it is due.
LEMMA ScanRefines ==
    ASSUME TypeInv, StackInv, TimersInv, ScanTimer
    PROVE  Refines
<1>0. PICK t \in Timers : t = scan
  <2>1. scan \in Timers
    BY SMT DEF TypeInv, ScanTimer, Timers
  <2> QED
    BY <2>1
<1>1. /\ frames = <<>> /\ AreCallers(<<>>) /\ ordered' = NoOrder
      /\ UNCHANGED <<now, interval, paused, meddled>>
  BY NoCallers DEF ScanTimer
<1>2. CASE Due(t)
  <2>1. /\ timestamp' = [timestamp EXCEPT ![t] = 0]
        /\ Call(<<>>, Firing(t)) /\ Firing(t) \in ThenType
    BY <1>0, <1>2, ThensTyped DEF ScanTimer
  <2>2. StackInv' /\ Pushed(Firing(t)) /\ frames \in Seq(FrameType)
    BY <1>1, <2>1, CallStep DEF StackInv
  <2>3. Firing(t).do = "fire" /\ Firing(t).timer = t
    BY DEF Firing
  <2>4. \A u \in Timers : OwnKept(u)
    BY <2>2, <2>3, PushKept DEF OwnKept
  <2>5. Fired = 0 /\ Fired' = t
    BY <1>1, <2>2, <2>3, FiredPush
  <2>6. OwnFrames(t) = {} /\ OwnFrames(t)' = {}
    <3>1. OwnFrames(t) = {}
      BY <1>1, SMT DEF OwnFrames
    <3> QED
      BY <2>4, <3>1 DEF OwnKept
  <2>7. timestamp'[t] = 0 /\ \A u \in Timers \ {t} : Untouched(u)
    BY <1>1, <2>1, <2>4 DEF Untouched, TypeInv
  <2>8. TimerOK(t)
    BY DEF TimersInv
  <2>9. t \notin meddled'
    BY <1>1, <2>6, <2>8 DEF TimerOK
  <2>10. TimerOK(t)' /\ Mode'[t] = "off" /\ Left'[t] = 0
    BY <2>2, <2>6, <2>7, <2>9, Off
  <2>11. Mode[t] = "running" /\ Left[t] <= 0
    <3>1. Active(t) /\ timePassedSince(timestamp[t], now) >= 0
      BY <1>2 DEF Due, timeOutReached
    <3>2. IdleView(t)
      BY ViewNow DEF Views
    <3>3. Mode[t] = "running" /\ Left[t] = timeDiff(now, timestamp[t])
      BY <2>6, <3>1, <3>2 DEF IdleView
    <3>4. /\ timePassedSince(timestamp[t], now) = -timeDiff(now, timestamp[t])
          /\ timeDiff(now, timestamp[t]) \in (-HalfMax)..HalfMax
      BY <2>8, <3>1, RunningLeft
    <3> QED
      BY <3>1, <3>3, <3>4, TimeCalcAssumption, SMT
  <2>12. TimersInv' /\ Promised!Become(t, "off", 0)
    BY <1>1, <2>2, <2>7, <2>10, OneTouched
  <2>13. Promised!Fire(t)
    BY <1>1, <2>5, <2>11, <2>12, SameOrders DEF Promised!Fire
  <2> QED
    BY <2>12, <2>13 DEF Refines, Promised!Next
<1>3. CASE ~Due(t)
  <2>1. UNCHANGED timers /\ NoCall(<<>>)
    BY <1>0, <1>1, <1>3 DEF ScanTimer, timers
  <2> QED
    BY <1>1, <2>1, OtherRefines
<1> QED
  BY <1>2, <1>3

\* Time passes for the timers that run.
LEMMA TickRefines ==
    ASSUME TypeInv, StackInv, TimersInv, Tick
    PROVE  Refines
<1>1. /\ UNCHANGED <<timers, frames, meddled>> /\ now' = Plus(now, 1)
      /\ now \in ULong /\ ordered' = NoOrder
      /\ StackInv' /\ SameThen
  BY StackUnchanged DEF Tick, TypeInv
<1>2. Fired' = Fired
  BY <1>1, FiredSame
<1>3. \A t \in Timers : /\ OwnFrames(t)' = OwnFrames(t)
                        /\ timestamp'[t] = timestamp[t]
                        /\ interval'[t] = interval[t]
                        /\ paused'[t] = paused[t]
                        /\ Active(t)' <=> Active(t)
                        /\ \A i : Outermost(t, i)' <=> Outermost(t, i)
  BY <1>1 DEF OwnFrames, timers, Active, Outermost
<1>4. ASSUME NEW t \in Timers, Active(t)
      PROVE  /\ timeDiff(now', timestamp'[t]) = timeDiff(now, timestamp[t]) - 1
             /\ timeDiff(now', timestamp'[t]) \in (-MaxLate)..HalfMax
  <2>1. TimerOK(t) /\ timestamp[t] \in ULong
    BY DEF TimersInv, TypeInv
  <2>2. /\ timePassedSince(timestamp[t], now) = -timeDiff(now, timestamp[t])
        /\ timeDiff(now, timestamp[t]) \in (-MaxLate)..HalfMax
        /\ timeDiff(now, timestamp[t]) \in (-HalfMax)..HalfMax
    BY <1>4, <2>1, RunningLeft
  <2>3. timePassedSince(timestamp[t], now) < MaxLate
    BY <1>4 DEF Tick
  <2>4. timeDiff(now', timestamp'[t]) = timeDiff(now, timestamp[t]) - 1
    BY <1>1, <1>3, <2>1, <2>2, TimeDiffTick
  <2> QED
    BY <2>2, <2>3, <2>4, RuleEventsAssumption, TimeCalcAssumption, SMT
<1>5. ASSUME NEW t \in Timers PROVE TimerOK(t)'
  <2>1. TimerOK(t)
    BY DEF TimersInv
  <2>2. Active(t)' => timeDiff(now', timestamp'[t]) \in (-MaxLate)..HalfMax
    BY <1>3, <1>4
  <2>3. OwnFrames(t)' # {} => \E i \in OwnFrames(t)' : Outermost(t, i)'
    BY <1>3, <2>1 DEF TimerOK
  <2> QED
    BY <1>1, <1>3, <2>1, <2>2, <2>3 DEF TimerOK
<1>6. ASSUME NEW t \in Timers
      PROVE  /\ Mode'[t] = Mode[t]
             /\ Left'[t] = IF Mode[t] = "running" THEN Left[t] - 1 ELSE Left[t]
             /\ Left'[t] >= -MaxLate
  <2>1. TimerOK(t) /\ interval[t] \in 0..HalfMax
    BY DEF TimersInv, TypeInv
  <2>2. /\ \A x \in 0..HalfMax : x >= -MaxLate
        /\ \A x \in (-MaxLate)..HalfMax : x >= -MaxLate
        /\ 0 \in 0..HalfMax
    BY RuleEventsAssumption, TimeCalcAssumption, SMT
  <2>3. IdleView(t) /\ IdleView(t)' /\ OwnView(t) /\ OwnView(t)'
    BY <1>1, ViewNow, ViewNext DEF Views
  <2>4. CASE OwnFrames(t) # {}
    <3>1. PICK i \in OwnFrames(t) : Outermost(t, i)
      BY <2>1, <2>4 DEF TimerOK
    <3>2. Outermost(t, i)' /\ frames'[i] = frames[i]
      BY <1>1, <1>3, <3>1
    <3>3. /\ Mode'[t] = Mode[t] /\ Left'[t] = Left[t]
          /\ Mode[t] # "running" /\ Left[t] = frames[i].then.left
      BY <2>3, <3>1, <3>2 DEF OwnView
    <3>4. frames[i].then.left \in 0..HalfMax
      <4>1. i \in 1..Len(frames) /\ frames[i] \in FrameType
        BY <3>1, SMT DEF OwnFrames, StackInv
      <4>2. frames[i].then \in ThenType /\ Nothing.left = 0
        BY <4>1 DEF FrameType, Nothing
      <4> QED
        BY <2>2, <4>2 DEF ThenType
    <3> QED
      BY <2>2, <3>3, <3>4
  <2>5. CASE OwnFrames(t) = {} /\ Active(t)
    <3>1. /\ Mode[t] = "running" /\ Left[t] = timeDiff(now, timestamp[t])
          /\ Mode'[t] = "running" /\ Left'[t] = timeDiff(now', timestamp'[t])
      BY <1>3, <2>3, <2>5 DEF IdleView
    <3> QED
      BY <1>4, <2>2, <2>5, <3>1
  <2>6. CASE OwnFrames(t) = {} /\ timestamp[t] = 0
    <3>1. /\ Mode[t] = "off" /\ Left[t] = 0
          /\ Mode'[t] = "off" /\ Left'[t] = 0
      BY <1>3, <2>3, <2>6 DEF IdleView
    <3> QED
      BY <2>2, <3>1
  <2>7. CASE OwnFrames(t) = {} /\ timestamp[t] # 0 /\ paused[t]
    <3>1. /\ Mode[t] = "paused" /\ Left[t] = interval[t]
          /\ Mode'[t] = "paused" /\ Left'[t] = interval[t]
      BY <1>3, <2>3, <2>7 DEF IdleView
    <3> QED
      BY <2>1, <2>2, <3>1
  <2> QED
    BY <2>4, <2>5, <2>6, <2>7 DEF Active
<1>7. TimersInv'
  BY <1>5 DEF TimersInv
<1>8. /\ Mode' = [t \in Timers |-> Mode'[t]]
      /\ Mode = [t \in Timers |-> Mode[t]]
      /\ Left' = [t \in Timers |-> Left'[t]]
  BY FunctionsNow, FunctionsNext DEF AreFunctions
<1>9. Mode' = Mode
  BY <1>6, <1>8
<1>10. Left' = [t \in Timers |-> IF Mode[t] = "running"
                                 THEN Left[t] - 1 ELSE Left[t]]
  BY <1>6, <1>8
<1>11. Promised!Pass
  BY <1>1, <1>2, <1>6, <1>9, <1>10, SamePlus, SameOrders DEF Promised!Pass
<1> QED
  BY <1>7, <1>11 DEF Refines, Promised!Next


-----------------------------------------------------------------------------
\* The types.

TypeStep ==
    /\ timestamp' \in [Timers -> ULong] /\ interval' \in [Timers -> 0..HalfMax]
    /\ paused' \in [Timers -> BOOLEAN]
    /\ waiting' \in 0..MaxQueue
    /\ meddled' \subseteq Timers
    /\ ordered' \in [timer : {0} \cup Timers, time : {0} \cup Durations]

LEMMA NoOrderType ==
    NoOrder \in [timer : {0} \cup Timers, time : {0} \cup Durations]
BY DEF NoOrder, Order

LEMMA CommandTypes ==
    ASSUME TypeInv, NEW c, Command(c)
    PROVE  TypeStep
<1>1. ASSUME NEW t \in Timers, TimerSet(t, c) PROVE TypeStep
  <2>1. PICK d \in Durations :
          /\ IF d > 0 THEN SetTimer(t, Plus(now, d), d, FALSE)
                      ELSE SetTimer(t, 0, 0, FALSE)
          /\ ordered' = Order(t, d)
    BY <1>1 DEF TimerSet
  <2>2. /\ d \in 0..HalfMax /\ d \in ULong /\ now \in ULong
        /\ 0 \in ULong /\ 0 \in 0..HalfMax /\ FALSE \in BOOLEAN
    BY ULongFacts, TimeCalcAssumption, SMT DEF TypeInv
  <2>3. Plus(now, d) \in ULong
    BY <2>2, PlusType
  <2>4. /\ timestamp' \in [Timers -> ULong]
        /\ interval' \in [Timers -> 0..HalfMax]
        /\ paused' \in [Timers -> BOOLEAN]
    <3>1. CASE d > 0
      BY <2>1, <2>2, <2>3, <3>1, SetTyped
    <3>2. CASE ~(d > 0)
      BY <2>1, <2>2, <3>2, SetTyped
    <3> QED
      BY <3>1, <3>2
  <2>5. ordered' \in [timer : {0} \cup Timers, time : {0} \cup Durations]
    BY <2>1 DEF Order
  <2> QED
    BY <1>1, <2>4, <2>5 DEF TypeStep, TypeInv, TimerSet, Meddle
<1>2. ASSUME NEW t \in Timers, TimerPause(t, c) \/ TimerResume(t, c)
      PROVE  TypeStep
  BY <1>2, NoOrderType DEF TypeStep, TypeInv, TimerPause, TimerResume, Meddle,
                           timers
<1>3. CASE Event(c)
  BY <1>3, NoOrderType DEF TypeStep, TypeInv, Event, timers
<1>4. CASE AsyncEvent(c)
  <2>1. waiting' \in 0..MaxQueue
    BY <1>4, RuleEventsAssumption, SMT DEF AsyncEvent, TypeInv
  <2> QED
    BY <1>4, <2>1, NoOrderType DEF TypeStep, TypeInv, AsyncEvent, timers
<1> QED
  BY <1>1, <1>2, <1>3, <1>4, Zenon DEF Command

LEMMA ReturnTypes ==
    ASSUME TypeInv, NEW then \in ThenType, Return(then)
    PROVE  /\ timestamp' \in [Timers -> ULong]
           /\ interval' \in [Timers -> 0..HalfMax]
           /\ paused' \in [Timers -> BOOLEAN]
<1>1. CASE then.do \notin {"pause", "resume"}
  <2>1. UNCHANGED timers
    BY <1>1 DEF Return
  <2> QED
    BY <2>1 DEF TypeInv, timers
<1>2. CASE then.do \in {"pause", "resume"}
  <2>1. then.timer \in Timers /\ then.left \in 0..HalfMax
    <3>1. then # Nothing
      BY <1>2 DEF Nothing
    <3> QED
      BY <3>1 DEF ThenType
  <2>2. /\ now \in ULong /\ timestamp[then.timer] \in ULong
        /\ interval[then.timer] \in 0..HalfMax
        /\ TRUE \in BOOLEAN /\ FALSE \in BOOLEAN
    BY <2>1 DEF TypeInv
  <2>3. Plus(now, interval[then.timer]) \in ULong
    BY <2>2, ULongFacts, PlusType
  <2>4. CASE then.do = "pause"
    BY <2>1, <2>2, <2>4, SetTyped DEF Return
  <2>5. CASE then.do = "resume"
    BY <2>1, <2>2, <2>3, <2>5, SetTyped DEF Return
  <2> QED
    BY <1>2, <2>4, <2>5
<1> QED
  BY <1>1, <1>2

-----------------------------------------------------------------------------
\* The invariant, and the theorems.

IInv == TypeInv /\ StackInv /\ TimersInv

LEMMA IInvInit == Init => IInv /\ Promised!Init
<1> SUFFICES ASSUME Init PROVE IInv /\ Promised!Init
  OBVIOUS
<1>1. frames = <<>> /\ Len(frames) = 0 /\ frames \in Seq(FrameType)
  BY DEF Init
<1>2. \A t : OwnFrames(t) = {}
  BY <1>1, SMT DEF OwnFrames
<1>3. 0 \in 0..HalfMax /\ 0 \in ULong
  BY ULongFacts, TimeCalcAssumption, SMT
<1>4. TypeInv
  BY <1>3, NoOrderType, RuleEventsAssumption, SMT DEF Init, TypeInv
<1>5. StackInv
  <2>1. OpenFiles = {}
    BY <1>1, SMT DEF OpenFiles
  <2>2. Cardinality(OpenFiles) = 0
    BY <2>1, FS_EmptySet
  <2>3. 1..Len(frames) = {} /\ 1..(Len(frames) - 1) = {}
    BY <1>1, SMT
  <2> QED
    BY <1>1, <2>2, <2>3, RuleEventsAssumption, SMT DEF Init, StackInv
<1>6. TimersInv
  BY <1>2 DEF Init, TimersInv, TimerOK, Active
<1>7. \A t \in Timers : Mode[t] = "off" /\ Left[t] = 0
  BY <1>2, <1>5, ViewNow DEF Views, IdleView, Init
<1>8. Mode = [t \in Timers |-> Mode[t]] /\ Left = [t \in Timers |-> Left[t]]
  BY FunctionsNow DEF AreFunctions
<1>9. Mode = [t \in Timers |-> "off"] /\ Left = [t \in Timers |-> 0]
  BY <1>7, <1>8
<1>10. Fired = 0
  BY <1>1 DEF Fired
<1> QED
  BY <1>4, <1>5, <1>6, <1>9, <1>10, SamePlus, SameOrders
  DEF Init, IInv, Promised!Init

LEMMA IInvStep ==
    IInv /\ [Next]_vars => IInv' /\ [Promised!Next]_(Promised!vars)
<1> SUFFICES ASSUME TypeInv, StackInv, TimersInv, [Next]_vars
             PROVE  TypeInv' /\ StackInv' /\ Refines
  BY DEF IInv, Refines, Promised!vars
<1>1. ASSUME NEW c, AreCallers(c), Command(c), UNCHANGED <<now, scan>>
      PROVE  TypeInv' /\ StackInv' /\ Refines
  <2>1. TypeInv'
    BY <1>1, CommandTypes DEF TypeStep, TypeInv
  <2>2. Refines
    BY <1>1, CommandRefines
  <2>3. StackInv'
    <3>1. ASSUME NEW t \in Timers, TimerSet(t, c) PROVE StackInv'
      BY <1>1, <3>1, NoCallStep DEF TimerSet
    <3>2. ASSUME NEW t \in Timers, TimerPause(t, c) PROVE StackInv'
      <4>1. CASE ~paused[t] /\ timestamp[t] # 0
                   /\ timePassedSince(timestamp[t], now) < 0
        <5> DEFINE a == timeDiff(now, timestamp[t])
        <5>1. TimerOK(t) /\ Active(t)
          BY <4>1 DEF TimersInv, Active
        <5>2. /\ a = -timePassedSince(timestamp[t], now)
              /\ Pausing(t, a) \in ThenType
          BY <4>1, <5>1, PauseReads
        <5>3. Call(c, Pausing(t, a))
          BY <3>2, <4>1, <5>2 DEF TimerPause
        <5> QED
          BY <1>1, <5>2, <5>3, CallStep
      <4>2. CASE ~(~paused[t] /\ timestamp[t] # 0
                     /\ timePassedSince(timestamp[t], now) < 0)
        BY <1>1, <3>2, <4>2, NoCallStep DEF TimerPause
      <4> QED
        BY <4>1, <4>2
    <3>3. ASSUME NEW t \in Timers, TimerResume(t, c) PROVE StackInv'
      BY <1>1, <3>3, ThensTyped, CallStep, NoCallStep DEF TimerResume
    <3>4. CASE Event(c)
      BY <1>1, <3>4, ThensTyped, CallStep DEF Event
    <3>5. CASE AsyncEvent(c)
      BY <1>1, <3>5, NoCallStep DEF AsyncEvent
    <3> QED
      BY <1>1, <3>1, <3>2, <3>3, <3>4, <3>5, Zenon DEF Command
  <2> QED
    BY <2>1, <2>2, <2>3
<1>2. CASE OtherCommand
  <2>1. AreCallers(<<>>)
    BY <1>2, NoCallers DEF OtherCommand, Idle
  <2> QED
    BY <1>1, <1>2, <2>1 DEF OtherCommand
<1>3. CASE RunLine
  <2> DEFINE c == Append(Callers, [Top EXCEPT !.lines = @ - 1, !.bg = FALSE])
  <2>1. AreCallers(c)
    BY <1>3, LineCallers DEF RunLine
  <2>2. Command(c) /\ UNCHANGED <<now, scan>>
    BY <1>3 DEF RunLine
  <2> HIDE DEF c
  <2> QED
    BY <1>1, <2>1, <2>2
<1>4. CASE BackgroundCommand
  <2> DEFINE c == Append(Callers, [Top EXCEPT !.lines = @ - 1, !.bg = TRUE])
  <2>1. AreCallers(c)
    BY <1>4, BackgroundCallers DEF BackgroundCommand
  <2>2. Command(c) /\ UNCHANGED <<now, scan>>
    BY <1>4 DEF BackgroundCommand
  <2> HIDE DEF c
  <2> QED
    BY <1>1, <2>1, <2>2
<1>5. CASE OpenFile \/ CloseFile
  <2>1. /\ StackInv' /\ SameThen /\ ordered' = NoOrder
        /\ UNCHANGED <<now, timers, waiting, scan, meddled>>
    BY <1>5, OpenStep, CloseStep DEF OpenFile, CloseFile
  <2>2. Refines
    BY <2>1, SameKept, FiredSame, IdleRefines
  <2>3. TypeInv'
    BY <2>1, NoOrderType DEF TypeInv, timers
  <2> QED
    BY <2>1, <2>2, <2>3
<1>6. CASE EndOfRules
  <2>1. StackInv' /\ Refines
    BY <1>6, PopStep, EndRefines
  <2>2. Top.then \in ThenType /\ Return(Top.then)
    BY <1>6, TopType DEF EndOfRules, FrameType, StackInv
  <2>3. /\ UNCHANGED <<now, waiting, scan>> /\ ordered' = NoOrder
        /\ meddled' \subseteq Timers
    BY <1>6 DEF EndOfRules, TypeInv
  <2>4. TypeInv'
    BY <2>2, <2>3, ReturnTypes, NoOrderType DEF TypeInv
  <2> QED
    BY <2>1, <2>4
<1>7. CASE ProcessNextEvent
  <2>1. /\ AreCallers(<<>>) /\ Call(<<>>, Nothing) /\ ordered' = NoOrder
        /\ UNCHANGED <<now, timers, scan, meddled>>
    BY <1>7, NoCallers DEF ProcessNextEvent, Idle
  <2>2. StackInv'
    BY <2>1, ThensTyped, CallStep
  <2>3. Refines
    BY <2>1, OtherRefines
  <2>4. waiting' \in 0..MaxQueue
    BY <1>7, RuleEventsAssumption, SMT DEF ProcessNextEvent, TypeInv
  <2>5. TypeInv'
    BY <2>1, <2>4, NoOrderType DEF TypeInv, timers
  <2> QED
    BY <2>2, <2>3, <2>5
<1>8. CASE RulesTimers
  <2>1. /\ UNCHANGED <<now, timers, waiting, frames, level, failures, meddled>>
        /\ ordered' = NoOrder /\ scan' = 1
    BY <1>8 DEF RulesTimers
  <2>2. StackInv' /\ SameThen
    BY <2>1, StackUnchanged
  <2>3. Refines
    BY <2>1, <2>2, SameKept, FiredSame, IdleRefines
  <2>4. 1 \in 0..LastTimer
    BY RuleEventsAssumption, SMT
  <2>5. TypeInv'
    BY <2>1, <2>4, NoOrderType DEF TypeInv, timers
  <2> QED
    BY <2>2, <2>3, <2>5
<1>9. CASE ScanTimer
  <2>1. Refines
    BY <1>9, ScanRefines
  <2>2. AreCallers(<<>>)
    BY <1>9, NoCallers DEF ScanTimer
  <2>3. scan \in Timers
    BY <1>9, SMT DEF TypeInv, ScanTimer, Timers
  <2>4. StackInv'
    BY <1>9, <2>2, <2>3, ThensTyped, CallStep, NoCallStep DEF ScanTimer
  <2>5. scan' \in 0..LastTimer
    BY <1>9, RuleEventsAssumption, SMT DEF ScanTimer, TypeInv
  <2>6. timestamp' \in [Timers -> ULong]
    BY <1>9, ULongFacts DEF ScanTimer, TypeInv
  <2>7. TypeInv'
    BY <1>9, <2>5, <2>6, NoOrderType DEF TypeInv, ScanTimer
  <2> QED
    BY <2>1, <2>4, <2>7
<1>10. CASE Tick
  <2>1. Refines
    BY <1>10, TickRefines
  <2>2. StackInv'
    BY <1>10, StackUnchanged DEF Tick
  <2>3. now' \in ULong
    BY <1>10, ULongFacts, PlusType DEF Tick, TypeInv
  <2>4. TypeInv'
    BY <1>10, <2>3, NoOrderType DEF TypeInv, Tick, timers
  <2> QED
    BY <2>1, <2>2, <2>4
<1>11. CASE UNCHANGED vars
  <2>1. UNCHANGED <<now, timers, waiting, frames, level, scan, failures,
                    meddled, ordered>>
    BY <1>11 DEF vars
  <2>2. StackInv' /\ SameThen
    BY <2>1, StackUnchanged
  <2>3. \A t \in Timers : Untouched(t)
    BY <2>1, <2>2, SameKept DEF Untouched, timers
  <2>4. TimersInv' /\ UNCHANGED <<Mode, Left>> /\ Fired' = Fired
    BY <2>1, <2>2, <2>3, AllUntouched, FiredSame
  <2>5. TypeInv'
    BY <2>1 DEF TypeInv, timers
  <2> QED
    BY <2>1, <2>2, <2>4, <2>5 DEF Refines
<1> QED
  BY <1>2, <1>3, <1>4, <1>5, <1>6, <1>7, <1>8, <1>9, <1>10, <1>11 DEF Next

LEMMA IInvAlways == Spec => []IInv
BY IInvInit, IInvStep, PTL DEF Spec

\* The level is the number of files being read, and of failures to open one,
\* however events are nested and whichever rules they run.
THEOREM LevelIsKept == Spec => []LevelIsNesting
<1>1. IInv => LevelIsNesting
  BY DEF IInv, StackInv, OpenFiles, LevelIsNesting
<1> QED
  BY <1>1, IInvAlways, PTL

\* The timers of rules are countdowns, for every word size of millis(), number
\* of timers and nesting of events: they fire when their time has been spent,
\* once, and do not stop unless they fire, a command is given, or they would
\* end when millis() is 0.
THEOREM TimersAreCountdowns == Spec => ImplementsCountdowns
BY IInvAlways, IInvInit, IInvStep, PTL
DEF Spec, ImplementsCountdowns, Promised!Spec

\* The state keeps its type, and the calls of rulesProcessing() are never
\* nested deeper than two more than the limit for files.
THEOREM TypeCorrect == Spec => []TypeOK
<1>1. ASSUME IInv PROVE TypeOK
  <2>1. TypeInv /\ StackInv
    BY <1>1 DEF IInv
  <2> DEFINE n == Len(frames)
             Background == {i \in 1..n : frames[i].bg}
  <2>2. n \in Nat /\ frames \in Seq(FrameType)
    BY <2>1 DEF StackInv
  <2>3. /\ IsFiniteSet(OpenFiles) /\ Cardinality(OpenFiles) \in Nat
        /\ Cardinality(OpenFiles) <= MaxNesting
    <3>1. IsFiniteSet(OpenFiles) /\ Cardinality(OpenFiles) \in Nat
      BY <2>2, OpenFinite
    <3> QED
      BY <2>1, <3>1, RuleEventsAssumption, SMT DEF StackInv
  <2>4. /\ IsFiniteSet(Background) /\ Cardinality(Background) \in Nat
        /\ Cardinality(Background) <= 1
    <3>1. CASE Background = {}
      BY <3>1, FS_EmptySet
    <3>2. CASE Background # {}
      <4>1. PICK i : i \in Background
        BY <3>2
      <4>2. Background = {i}
        BY <2>1, <4>1 DEF StackInv
      <4>3. IsFiniteSet({i}) /\ Cardinality({i}) = 1
        BY FS_Singleton, Zenon
      <4> HIDE DEF Background
      <4> QED
        BY <4>2, <4>3, SMT
    <3> QED
      BY <3>1, <3>2
  <2>5. n - 1 <= Cardinality(OpenFiles \cup Background)
    <3>1. 1..(n - 1) \subseteq OpenFiles \cup Background
      <4>1. 1..(n - 1) \subseteq 1..n
        BY <2>2, SMT
      <4> QED
        BY <2>1, <4>1 DEF StackInv, OpenFiles
    <3>2. IsFiniteSet(OpenFiles \cup Background)
      BY <2>3, <2>4, FS_Union
    <3>3. /\ Cardinality(1..(n - 1)) <= Cardinality(OpenFiles \cup Background)
          /\ Cardinality(OpenFiles \cup Background) \in Nat
      BY <3>1, <3>2, FS_Subset, FS_CardinalityType
    <3>4. Cardinality(1..(n - 1)) = IF 1 > n - 1 THEN 0 ELSE (n - 1) - 1 + 1
      <4>1. 1 \in Int /\ n - 1 \in Int
        BY <2>2, SMT
      <4> QED
        BY <4>1, FS_Interval
    <3> HIDE DEF n, Background
    <3> QED
      BY <2>2, <3>3, <3>4, SMT
  <2>6. Cardinality(OpenFiles \cup Background) <=
            Cardinality(OpenFiles) + Cardinality(Background)
        /\ Cardinality(OpenFiles \cup Background) \in Int
    <3>1. Cardinality(OpenFiles \cup Background) =
            Cardinality(OpenFiles) + Cardinality(Background)
              - Cardinality(OpenFiles \cap Background)
      BY <2>3, <2>4, FS_Union
    <3>2. Cardinality(OpenFiles \cap Background) \in Nat
      <4>1. IsFiniteSet(OpenFiles \cap Background)
        BY <2>3, FS_Subset
      <4> QED
        BY <4>1, FS_CardinalityType
    <3> HIDE DEF Background
    <3> QED
      BY <2>3, <2>4, <3>1, <3>2, SMT
  <2>7. n <= MaxNesting + 2
    <3> HIDE DEF n, Background
    <3> QED
      BY <2>2, <2>3, <2>4, <2>5, <2>6, RuleEventsAssumption, SMT
  <2> QED
    BY <2>1, <2>7 DEF TypeOK, TypeInv, StackInv
<1> QED
  BY <1>1, IInvAlways, PTL

=============================================================================
