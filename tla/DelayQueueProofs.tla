-------------------------- MODULE DelayQueueProofs --------------------------
(***************************************************************************)
(* Theorems about DelayQueue for every value of its constants.             *)
(***************************************************************************)
EXTENDS DelayQueue, SequenceTheorems, WellFoundedInduction, TLAPS

-----------------------------------------------------------------------------
\* What pop_front() leaves.
LEMMA PopFront ==
    ASSUME NEW S, NEW q \in Seq(S), q # <<>>
    PROVE  /\ Head(q) = q[1] /\ Head(q) \in S
           /\ Len(q) \in Nat /\ Len(q) > 0
           /\ Tail(q) \in Seq(S)
           /\ Len(Tail(q)) = Len(q) - 1
           /\ \A i \in 1..Len(Tail(q)) : Tail(q)[i] = q[i + 1]
BY HeadTailProperties, SMT

\* What k calls of pop_front() leave.
LEMMA PopMany ==
    ASSUME NEW S, NEW q \in Seq(S), NEW k \in 0..Len(q)
    PROVE  LET kept == SubSeq(q, k + 1, Len(q)) IN
           /\ kept \in Seq(S)
           /\ Len(kept) = Len(q) - k
           /\ \A i \in 1..Len(kept) : kept[i] = q[k + i]
<1> DEFINE kept == SubSeq(q, k + 1, Len(q))
<1>1. Len(q) \in Nat /\ k \in Nat
  BY LenProperties, SMT
<1>2. \A i \in (k + 1)..Len(q) : q[i] \in S
  BY <1>1, ElementOfSeq, SMT
<1>3. kept \in Seq(S) /\ Len(kept) = Len(q) - k
  BY <1>1, <1>2, SubSeqProperties, SMT
<1>4. \A i \in 1..Len(kept) : kept[i] = q[k + i]
  BY <1>1, <1>3, SMT
<1> QED
  BY <1>3, <1>4

\* What emplace_back() adds.
LEMMA PushBack ==
    ASSUME NEW S, NEW q \in Seq(S), NEW e \in S
    PROVE  /\ Append(q, e) \in Seq(S)
           /\ Append(q, e) # <<>>
           /\ Len(Append(q, e)) = Len(q) + 1
           /\ Append(q, e)[Len(q) + 1] = e
           /\ \A i \in 1..Len(q) : Append(q, e)[i] = q[i]
BY AppendProperties, SMT

-----------------------------------------------------------------------------
\* The type invariant is inductive with the bound on attempt while an element
\* is being sent.
SendingHasRetries == sending # None => attempt <= MaxRetries

TypeInv == TypeOK /\ SendingHasRetries

LEMMA ConfiguredType ==
    ASSUME NEW s \in SettingsType
    PROVE  Configured(s) \in SettingsType /\ Configured(s).depth > 0
BY DelayQueueAssumption, SMT DEF SettingsType, Configured

LEMMA DefaultCfgType == DefaultCfg \in SettingsType /\ DefaultCfg.depth > 0
BY DelayQueueAssumption, SMT DEF SettingsType, DefaultCfg

LEMMA InitCfgType ==
    ASSUME NEW c \in SettingsType, c.depth > 0,
           NEW s \in SettingsType, NEW i \in InitCfgs(c, s)
    PROVE  i \in SettingsType /\ i.depth > 0
BY ConfiguredType DEF InitCfgs

LEMMA TypeInit == Init => TypeInv
<1> SUFFICES ASSUME Init PROVE TypeInv
  OBVIOUS
<1>1. cfg \in SettingsType /\ cfg.depth > 0
  BY DelayQueueAssumption, DefaultCfgType, InitCfgType DEF Init
<1>2. queue \in Seq(SampleIds)
  BY EmptySeq DEF Init
<1>3. attempt \in 0..(MaxRetries + 1) /\ offered \in 0..MaxSamples
  BY DelayQueueAssumption, SMT DEF Init
<1>4. valuesSent \in [SampleIds -> 0..Values] /\ tries \in [SampleIds -> Nat]
  BY DelayQueueAssumption, SMT DEF Init
<1>5. fate \in [SampleIds -> Fates]
  BY DEF Init, Fates
<1> QED
  BY <1>1, <1>2, <1>3, <1>4, <1>5, DelayQueueAssumption
  DEF Init, TypeInv, TypeOK, SendingHasRetries

\* markProcessed() keeps its part of the type invariant.
LEMMA MarkProcessedType ==
    ASSUME TypeInv, sending # None, NEW done \in BOOLEAN, MarkProcessed(done)
    PROVE  /\ queue' \in Seq(SampleIds)
           /\ attempt' \in 0..(MaxRetries + 1)
           /\ fate' \in [SampleIds -> Fates]
<1>1. CASE queue = <<>>
  BY <1>1 DEF MarkProcessed, TypeInv, TypeOK
<1>2. CASE queue # <<>> /\ done
  <2>1. Tail(queue) \in Seq(SampleIds) /\ Head(queue) \in SampleIds
    BY <1>2, PopFront DEF TypeInv, TypeOK
  <2>2. queue' = Tail(queue) /\ attempt' = 0
          /\ fate' = [fate EXCEPT ![Head(queue)] = "sent"]
    BY <1>2, Zenon DEF MarkProcessed
  <2>3. fate' \in [SampleIds -> Fates]
    BY <2>1, <2>2 DEF TypeInv, TypeOK, Fates
  <2>4. attempt' \in 0..(MaxRetries + 1)
    BY <2>2, DelayQueueAssumption, SMT
  <2> QED
    BY <2>1, <2>2, <2>3, <2>4
<1>3. CASE queue # <<>> /\ ~done
  <2>1. attempt' = attempt + 1 /\ queue' = queue /\ fate' = fate
    BY <1>3, Zenon DEF MarkProcessed
  <2>2. attempt' \in 0..(MaxRetries + 1)
    BY <2>1, DelayQueueAssumption, SMT DEF TypeInv, TypeOK, SendingHasRetries
  <2> QED
    BY <2>1, <2>2 DEF TypeInv, TypeOK
<1> QED
  BY <1>1, <1>2, <1>3

LEMMA TypeStep == TypeInv /\ [Next]_vars => TypeInv'
<1> SUFFICES ASSUME TypeInv, [Next]_vars PROVE TypeInv'
  OBVIOUS
<1> USE DelayQueueAssumption
<1>1. CASE AddIfRoom
  <2>1. offered' \in SampleIds /\ offered' \in 0..MaxSamples
    BY <1>1, SMT DEF AddIfRoom, CanOffer, TypeInv, TypeOK, SampleIds
  <2>2. queue' \in Seq(SampleIds)
    <3>1. Append(queue, offered') \in Seq(SampleIds)
      BY <2>1, PushBack, Zenon DEF TypeInv, TypeOK
    <3> QED
      BY <1>1, <3>1, Zenon DEF AddIfRoom, TypeInv, TypeOK
  <2>3. fate' \in [SampleIds -> Fates]
    BY <1>1, <2>1 DEF AddIfRoom, TypeInv, TypeOK, Fates
  <2>4. UNCHANGED <<valuesSent, attempt, cfg, settings, net, sending, passed,
                    tries>>
    BY <1>1 DEF AddIfRoom
  <2>5. TypeOK'
    BY <2>1, <2>2, <2>3, <2>4 DEF TypeInv, TypeOK
  <2> QED
    BY <2>4, <2>5 DEF TypeInv, SendingHasRetries
<1>2. ASSUME NEW k \in 0..Len(queue), AddForced(k) PROVE TypeInv'
  <2>1. offered' \in SampleIds /\ offered' \in 0..MaxSamples
    BY <1>2, SMT DEF AddForced, CanOffer, TypeInv, TypeOK, SampleIds
  <2>2. SubSeq(queue, k + 1, Len(queue)) \in Seq(SampleIds)
    BY PopMany DEF TypeInv, TypeOK
  <2>3. queue' \in Seq(SampleIds)
    BY <1>2, <2>1, <2>2, PushBack DEF AddForced
  <2>4. fate' \in [SampleIds -> Fates]
    BY <1>2, Zenon DEF AddForced, TypeInv, TypeOK, Fates
  <2> QED
    BY <1>2, <2>1, <2>3, <2>4 DEF AddForced, TypeInv, TypeOK, SendingHasRetries
<1>3. ASSUME GetNext
      PROVE  /\ NextQueue \in Seq(SampleIds) /\ queue' = NextQueue
             /\ attempt' \in 0..MaxRetries
             /\ fate' \in [SampleIds -> Fates]
  <2>1. Tail(queue) \in Seq(SampleIds) /\ Head(queue) \in SampleIds
    BY <1>3, PopFront DEF GetNext, TypeInv, TypeOK
  <2>2. cfg.retries \in 0..MaxRetries
    BY DEF TypeInv, TypeOK, SettingsType
  <2> QED
    BY <1>3, <2>1, <2>2, SMT DEF GetNext, NextQueue, GiveUp, TypeInv, TypeOK, Fates
<1>4. CASE Process
  <2>1. cfg' \in SettingsType /\ cfg'.depth > 0
    BY <1>4, ConfiguredType DEF Process, GetNext, TypeInv, TypeOK
  <2>2. sending' \in SampleIds \cup {None}
    <3>1. CASE NextQueue = <<>>
      BY <1>4, <3>1 DEF Process, TypeInv, TypeOK
    <3>2. CASE NextQueue # <<>>
      <4>1. NextQueue \in Seq(SampleIds)
        BY <1>4, <1>3 DEF Process
      <4>2. Head(NextQueue) \in SampleIds
        BY <3>2, <4>1, PopFront
      <4> QED
        BY <1>4, <3>2, <4>2 DEF Process
    <3> QED
      BY <3>1, <3>2
  <2>3. /\ queue' \in Seq(SampleIds) /\ attempt' \in 0..(MaxRetries + 1)
        /\ fate' \in [SampleIds -> Fates] /\ attempt' <= MaxRetries
    BY <1>4, <1>3, DelayQueueAssumption, SMT DEF Process
  <2>4. UNCHANGED <<valuesSent, settings, net, offered, passed, tries>>
    BY <1>4 DEF Process, GetNext
  <2> QED
    BY <2>1, <2>2, <2>3, <2>4 DEF TypeInv, TypeOK, SendingHasRetries
<1>5. CASE ProcessNoMemory
  <2>1. /\ queue' \in Seq(SampleIds) /\ attempt' \in 0..(MaxRetries + 1)
        /\ fate' \in [SampleIds -> Fates] /\ attempt' <= MaxRetries
    BY <1>5, <1>3, DelayQueueAssumption, SMT DEF ProcessNoMemory
  <2>2. /\ UNCHANGED <<valuesSent, settings, net, offered, passed, tries>>
        /\ UNCHANGED <<cfg, sending>>
    BY <1>5 DEF ProcessNoMemory, GetNext
  <2> QED
    BY <2>1, <2>2 DEF TypeInv, TypeOK, SendingHasRetries
<1>6. CASE NothingToSend
  <2>1. sending # None /\ MarkProcessed(TRUE)
    BY <1>6 DEF NothingToSend, ReturnFromSend
  <2>2. Values \in 0..Values
    BY SMT
  <2>3. valuesSent' \in [SampleIds -> 0..Values]
    BY <1>6, <2>2 DEF NothingToSend, TypeInv, TypeOK
  <2>4. queue' \in Seq(SampleIds) /\ attempt' \in 0..(MaxRetries + 1)
          /\ fate' \in [SampleIds -> Fates]
    BY <2>1, MarkProcessedType
  <2> QED
    BY <1>6, <2>3, <2>4
    DEF NothingToSend, ReturnFromSend, TypeInv, TypeOK, SendingHasRetries
<1>7. CASE SendSucceeds
  <2>1. PICK v \in NextValue(sending) :
          /\ valuesSent' = [valuesSent EXCEPT ![sending] = v]
          /\ passed' = passed \cup {<<sending, v>>}
          /\ MarkProcessed(v = Values)
          /\ tries' = IF v = Values
                        THEN tries ELSE [tries EXCEPT ![sending] = @ + 1]
    BY <1>7 DEF SendSucceeds
  <2>2. sending \in SampleIds /\ v \in ValueIds
    BY <1>7 DEF SendSucceeds, ReturnFromSend, NextValue, Unsent, TypeInv, TypeOK
  <2>3. valuesSent' \in [SampleIds -> 0..Values]
    BY <2>1, <2>2, SMT DEF ValueIds, TypeInv, TypeOK
  <2>4. passed' \subseteq SampleIds \X ValueIds
    BY <2>1, <2>2 DEF TypeInv, TypeOK
  <2>5. tries' \in [SampleIds -> Nat]
    BY <2>1, <2>2, SMT DEF TypeInv, TypeOK
  <2>6. queue' \in Seq(SampleIds) /\ attempt' \in 0..(MaxRetries + 1)
          /\ fate' \in [SampleIds -> Fates]
    <3>1. (v = Values) \in BOOLEAN /\ sending # None
      BY <1>7 DEF SendSucceeds, ReturnFromSend
    <3> QED
      BY <3>1, <2>1, MarkProcessedType
  <2> QED
    BY <1>7, <2>3, <2>4, <2>5, <2>6
    DEF SendSucceeds, ReturnFromSend, TypeInv, TypeOK, SendingHasRetries
<1>8. CASE SendFails
  <2>1. sending \in SampleIds /\ sending # None
    BY <1>8 DEF SendFails, ReturnFromSend, TypeInv, TypeOK
  <2>2. tries' \in [SampleIds -> Nat]
    BY <1>8, <2>1, SMT DEF SendFails, TypeInv, TypeOK
  <2>3. queue' \in Seq(SampleIds) /\ attempt' \in 0..(MaxRetries + 1)
          /\ fate' \in [SampleIds -> Fates]
    BY <1>8, <2>1, MarkProcessedType DEF SendFails
  <2> QED
    BY <1>8, <2>2, <2>3
    DEF SendFails, ReturnFromSend, TypeInv, TypeOK, SendingHasRetries
<1>9. ASSUME NEW victim \in InQueue(queue) \cup {None}, NEW done \in BOOLEAN,
             SendReturnsToFreedElement(victim, done)
      PROVE  TypeInv'
  <2>1. sending \in SampleIds /\ sending # None
    BY <1>9 DEF SendReturnsToFreedElement, ReturnFromSend, TypeInv, TypeOK
  <2>2. valuesSent' \in [SampleIds -> 0..Values]
    <3>1. CASE victim = None \/ valuesSent[victim] >= Values
      BY <1>9, <3>1 DEF SendReturnsToFreedElement, TypeInv, TypeOK
    <3>2. CASE ~(victim = None \/ valuesSent[victim] >= Values)
      <4>1. victim \in SampleIds
        BY <1>9, <3>2, ElementOfSeq DEF InQueue, TypeInv, TypeOK
      <4>2. valuesSent[victim] + 1 \in 0..Values
        BY <3>2, <4>1, SMT DEF TypeInv, TypeOK
      <4> QED
        BY <1>9, <3>2, <4>2 DEF SendReturnsToFreedElement, TypeInv, TypeOK
    <3> QED
      BY <3>1, <3>2
  <2>3. passed' \subseteq SampleIds \X ValueIds
    BY <1>9, <2>1
    DEF SendReturnsToFreedElement, NextValue, Unsent, TypeInv, TypeOK
  <2>4. queue' \in Seq(SampleIds) /\ attempt' \in 0..(MaxRetries + 1)
          /\ fate' \in [SampleIds -> Fates]
    BY <1>9, <2>1, MarkProcessedType DEF SendReturnsToFreedElement
  <2> QED
    BY <1>9, <2>2, <2>3, <2>4
    DEF SendReturnsToFreedElement, ReturnFromSend, TypeInv, TypeOK,
        SendingHasRetries
<1>10. CASE SaveSettings
  <2>1. settings' \in SettingsType
    BY <1>10 DEF SaveSettings
  <2>2. cfg' \in SettingsType /\ cfg'.depth > 0
    BY <1>10, <2>1, InitCfgType DEF SaveSettings, TypeInv, TypeOK
  <2> QED
    BY <1>10, <2>1, <2>2
    DEF SaveSettings, TypeInv, TypeOK, SendingHasRetries
<1>11. CASE NetworkChange
  BY <1>11 DEF NetworkChange, TypeInv, TypeOK, SendingHasRetries
<1>12. CASE Reboot
  <2>1. cfg' \in SettingsType /\ cfg'.depth > 0
    BY <1>12, DefaultCfgType, InitCfgType DEF Reboot, TypeInv, TypeOK
  <2>2. fate' \in [SampleIds -> Fates]
    BY <1>12, Zenon DEF Reboot, TypeInv, TypeOK, Fates
  <2>3. queue' \in Seq(SampleIds) /\ attempt' \in 0..(MaxRetries + 1)
    <3>1. 0 \in 0..(MaxRetries + 1)
      BY SMT
    <3> QED
      BY <1>12, <3>1, EmptySeq DEF Reboot
  <2> QED
    BY <1>12, <2>1, <2>2, <2>3
    DEF Reboot, TypeInv, TypeOK, SendingHasRetries
<1>13. CASE UNCHANGED vars
  BY <1>13 DEF vars, TypeInv, TypeOK, SendingHasRetries
<1> QED
  BY <1>1, <1>2, <1>4, <1>5, <1>6, <1>7, <1>8, <1>9, <1>10, <1>11, <1>12, <1>13
  DEF Next, AddToQueue, FinishSend

\* Every variable keeps its type; in particular attempt, a byte in the code,
\* never exceeds max_retries + 1, whatever is saved, evicted or re-entered.
THEOREM TypeCorrect == Spec => []TypeOK
<1>1. TypeInv => TypeOK
  BY DEF TypeInv
<1> QED
  BY TypeInit, TypeStep, <1>1, PTL DEF Spec

-----------------------------------------------------------------------------
\* The order of the queue.  Ordered is what pop_front() and emplace_back()
\* preserve; OrderInv adds where evicted samples and the sample being sent are.
Ordered(q) == \A i, j \in 1..Len(q) : i < j => q[i] < q[j]

OrderInv ==
    /\ Ordered(queue)
    /\ \A s \in InQueue(queue) : s <= offered
    /\ \A s \in SampleIds : fate[s] = "queued" => s \in InQueue(queue)
    /\ \A t \in SampleIds : fate[t] = "evicted" =>
         t <= offered /\ \A s \in InQueue(queue) : t < s
    /\ sending # None =>
         sending <= offered /\ \A s \in InQueue(queue) : sending <= s

LEMMA OrderedTail ==
    ASSUME NEW q \in Seq(SampleIds), q # <<>>, Ordered(q)
    PROVE  /\ Ordered(Tail(q))
           /\ Head(q) \in InQueue(q)
           /\ \A s \in InQueue(Tail(q)) : Head(q) < s
           /\ \A s \in InQueue(q) : s = Head(q) \/ s \in InQueue(Tail(q))
           /\ InQueue(Tail(q)) \subseteq InQueue(q)
<1>1. /\ Head(q) = q[1] /\ Len(q) \in Nat /\ Len(q) > 0
      /\ Len(Tail(q)) = Len(q) - 1
      /\ \A i \in 1..Len(Tail(q)) : Tail(q)[i] = q[i + 1]
  BY PopFront
<1>2. Ordered(Tail(q))
  BY <1>1, SMT DEF Ordered
<1>3. Head(q) \in InQueue(q)
  BY <1>1, SMT DEF InQueue
<1>4. ASSUME NEW s \in InQueue(Tail(q))
      PROVE  Head(q) < s /\ s \in InQueue(q)
  <2>1. PICK i \in 1..Len(Tail(q)) : s = Tail(q)[i]
    BY <1>4 DEF InQueue
  <2>2. s = q[i + 1] /\ i + 1 \in 1..Len(q) /\ 1 < i + 1
    BY <1>1, <2>1, SMT
  <2>3. 1 \in 1..Len(q)
    BY <1>1, SMT
  <2> QED
    BY <1>1, <2>2, <2>3 DEF Ordered, InQueue
<1>5. ASSUME NEW s \in InQueue(q)
      PROVE  s = Head(q) \/ s \in InQueue(Tail(q))
  <2>1. PICK i \in 1..Len(q) : s = q[i]
    BY <1>5 DEF InQueue
  <2>2. CASE i = 1
    BY <1>1, <2>1, <2>2
  <2>3. CASE i # 1
    <3>1. i - 1 \in 1..Len(Tail(q)) /\ Tail(q)[i - 1] = q[i]
      BY <1>1, <2>3, SMT
    <3> QED
      BY <2>1, <3>1 DEF InQueue
  <2> QED
    BY <2>2, <2>3
<1> QED
  BY <1>2, <1>3, <1>4, <1>5

LEMMA OrderedSuffix ==
    ASSUME NEW q \in Seq(SampleIds), Ordered(q), NEW k \in 0..Len(q)
    PROVE  LET kept == SubSeq(q, k + 1, Len(q))
               gone == SubSeq(q, 1, k) IN
           /\ Ordered(kept)
           /\ InQueue(kept) \subseteq InQueue(q)
           /\ InQueue(gone) \subseteq InQueue(q)
           /\ \A s \in InQueue(gone), t \in InQueue(kept) : s < t
           /\ \A s \in InQueue(q) : s \in InQueue(gone) \/ s \in InQueue(kept)
<1> DEFINE kept == SubSeq(q, k + 1, Len(q))
           gone == SubSeq(q, 1, k)
<1>1. /\ kept \in Seq(SampleIds) /\ Len(kept) = Len(q) - k
      /\ \A i \in 1..Len(kept) : kept[i] = q[k + i]
  BY PopMany
<1>2. Len(q) \in Nat /\ k \in Nat /\ k <= Len(q)
  BY LenProperties, SMT
<1>3. Len(gone) = k /\ \A i \in 1..k : gone[i] = q[i]
  BY <1>2, SMT
<1> HIDE DEF kept, gone
<1>4. Ordered(kept)
  BY <1>1, <1>2, SMT DEF Ordered
<1>5. ASSUME NEW s \in InQueue(kept)
      PROVE  \E i \in 1..Len(q) : i > k /\ s = q[i]
  <2>1. PICK i \in 1..Len(kept) : s = kept[i]
    BY <1>5 DEF InQueue
  <2>2. k + i \in 1..Len(q) /\ k + i > k /\ s = q[k + i]
    BY <1>1, <1>2, <2>1, SMT
  <2> QED
    BY <2>2
<1>6. ASSUME NEW s \in InQueue(gone)
      PROVE  \E i \in 1..Len(q) : i <= k /\ s = q[i]
  <2>1. PICK i \in 1..Len(gone) : s = gone[i]
    BY <1>6 DEF InQueue
  <2>2. i \in 1..Len(q) /\ i <= k /\ s = q[i]
    BY <1>2, <1>3, <2>1, SMT
  <2> QED
    BY <2>2
<1>7. ASSUME NEW s \in InQueue(gone), NEW t \in InQueue(kept)
      PROVE  s < t
  <2>1. PICK i \in 1..Len(q) : i <= k /\ s = q[i]
    BY <1>6
  <2>2. PICK j \in 1..Len(q) : j > k /\ t = q[j]
    BY <1>5
  <2>3. i < j
    BY <1>2, <2>1, <2>2, SMT
  <2> QED
    BY <2>1, <2>2, <2>3 DEF Ordered
<1>8. ASSUME NEW s \in InQueue(q)
      PROVE  s \in InQueue(gone) \/ s \in InQueue(kept)
  <2>1. PICK i \in 1..Len(q) : s = q[i]
    BY <1>8 DEF InQueue
  <2>2. CASE i <= k
    <3>1. i \in 1..Len(gone) /\ s = gone[i]
      BY <1>2, <1>3, <2>1, <2>2, SMT
    <3> QED
      BY <3>1 DEF InQueue
  <2>3. CASE i > k
    <3>1. i - k \in 1..Len(kept) /\ s = kept[i - k]
      BY <1>1, <1>2, <2>1, <2>3, SMT
    <3> QED
      BY <3>1 DEF InQueue
  <2> QED
    BY <1>2, <2>2, <2>3, SMT
<1>9. InQueue(kept) \subseteq InQueue(q) /\ InQueue(gone) \subseteq InQueue(q)
  BY <1>5, <1>6 DEF InQueue
<1> QED
  BY <1>4, <1>7, <1>8, <1>9 DEF kept, gone

LEMMA OrderedAppend ==
    ASSUME NEW q \in Seq(SampleIds), Ordered(q), NEW e \in SampleIds,
           \A s \in InQueue(q) : s < e
    PROVE  /\ Ordered(Append(q, e))
           /\ InQueue(Append(q, e)) = InQueue(q) \cup {e}
<1> DEFINE r == Append(q, e)
<1>1. /\ Len(r) = Len(q) + 1 /\ r[Len(q) + 1] = e
      /\ \A i \in 1..Len(q) : r[i] = q[i]
  BY PushBack
<1>2. Len(q) \in Nat
  BY LenProperties
<1> HIDE DEF r
<1>3. ASSUME NEW i \in 1..Len(r), NEW j \in 1..Len(r), i < j
      PROVE  r[i] < r[j]
  <2>1. i \in 1..Len(q) /\ r[i] = q[i] /\ q[i] \in InQueue(q)
    BY <1>1, <1>2, <1>3, SMT DEF InQueue
  <2>2. CASE j = Len(q) + 1
    BY <1>1, <2>1, <2>2
  <2>3. CASE j # Len(q) + 1
    <3>1. j \in 1..Len(q) /\ r[j] = q[j]
      BY <1>1, <1>2, <2>3, SMT
    <3> QED
      BY <1>3, <2>1, <3>1 DEF Ordered
  <2> QED
    BY <2>2, <2>3
<1>4. InQueue(r) = InQueue(q) \cup {e}
  <2>1. ASSUME NEW s \in InQueue(r) PROVE s \in InQueue(q) \cup {e}
    <3>1. PICK i \in 1..Len(r) : s = r[i]
      BY <2>1 DEF InQueue
    <3>2. i \in 1..Len(q) \/ i = Len(q) + 1
      BY <1>1, <1>2, SMT
    <3> QED
      BY <1>1, <3>1, <3>2 DEF InQueue
  <2>2. ASSUME NEW s \in InQueue(q) PROVE s \in InQueue(r)
    <3>1. PICK i \in 1..Len(q) : s = q[i]
      BY <2>2 DEF InQueue
    <3>2. i \in 1..Len(r) /\ s = r[i]
      BY <1>1, <1>2, <3>1, SMT
    <3> QED
      BY <3>2 DEF InQueue
  <2>3. e \in InQueue(r)
    <3>1. Len(q) + 1 \in 1..Len(r)
      BY <1>1, <1>2, SMT
    <3> QED
      BY <1>1, <3>1 DEF InQueue
  <2> QED
    BY <2>1, <2>2, <2>3
<1> QED
  BY <1>3, <1>4 DEF r, Ordered

LEMMA OrderInit == Init => OrderInv
BY DelayQueueAssumption, SMT DEF Init, OrderInv, Ordered, InQueue, SampleIds

\* A sample that is offered is newer than everything in the queue.
LEMMA OfferedIsNewest ==
    ASSUME TypeInv, OrderInv, offered < MaxSamples
    PROVE  /\ offered + 1 \in SampleIds
           /\ \A s \in InQueue(queue) : s < offered + 1
<1>1. InQueue(queue) \subseteq SampleIds
  BY ElementOfSeq DEF InQueue, TypeInv, TypeOK
<1> QED
  BY <1>1, DelayQueueAssumption, SMT DEF OrderInv, TypeInv, TypeOK, SampleIds

\* pop_front() of an ordered queue.
LEMMA PopKeepsOrder ==
    ASSUME TypeInv, OrderInv, queue # <<>>, queue' = Tail(queue),
           NEW f \in Fates \ {"queued", "evicted"},
           fate' = [fate EXCEPT ![Head(queue)] = f],
           offered' = offered,
           sending' = sending \/ sending' = None
           \/ (Tail(queue) # <<>> /\ sending' = Head(Tail(queue)))
    PROVE  OrderInv'
<1>1. /\ queue \in Seq(SampleIds) /\ Head(queue) \in SampleIds
      /\ Tail(queue) \in Seq(SampleIds)
  BY PopFront DEF TypeInv, TypeOK
<1>2. Ordered(queue) /\ fate \in [SampleIds -> Fates]
  BY DEF OrderInv, TypeInv, TypeOK
<1>3. /\ Ordered(Tail(queue))
      /\ \A s \in InQueue(queue) : s = Head(queue) \/ s \in InQueue(Tail(queue))
      /\ InQueue(Tail(queue)) \subseteq InQueue(queue)
  BY <1>1, <1>2, OrderedTail
<1>4. \A s \in SampleIds : fate'[s] = "queued" => s \in InQueue(queue')
  BY <1>2, <1>3 DEF OrderInv
<1>5. \A t \in SampleIds : fate'[t] = "evicted" =>
         t <= offered' /\ \A s \in InQueue(queue') : t < s
  BY <1>2, <1>3 DEF OrderInv
<1>6. ASSUME sending' # None
      PROVE  sending' <= offered' /\ \A s \in InQueue(queue') : sending' <= s
  <2>1. CASE sending' = sending
    BY <1>3, <1>6, <2>1 DEF OrderInv
  <2>2. CASE Tail(queue) # <<>> /\ sending' = Head(Tail(queue))
    <3>1. /\ Head(Tail(queue)) \in InQueue(Tail(queue))
          /\ \A s \in InQueue(Tail(Tail(queue))) : Head(Tail(queue)) < s
          /\ \A s \in InQueue(Tail(queue)) :
               s = Head(Tail(queue)) \/ s \in InQueue(Tail(Tail(queue)))
      BY <1>1, <1>3, <2>2, OrderedTail
    <3>2. InQueue(Tail(queue)) \subseteq SampleIds
      BY <1>1, ElementOfSeq DEF InQueue
    <3>3. ASSUME NEW s \in InQueue(Tail(queue))
          PROVE  Head(Tail(queue)) <= s
      <4> DEFINE h == Head(Tail(queue))
      <4>1. h \in Int /\ s \in Int
        <5>1. SampleIds \subseteq Int
          BY SMT DEF SampleIds
        <5> QED
          BY <3>1, <3>2, <5>1, Zenon
      <4>2. s = h \/ h < s
        BY <3>1
      <4> HIDE DEF h
      <4>3. h <= s
        BY <4>1, <4>2, SMT
      <4> QED
        BY <4>3 DEF h
    <3>4. Head(Tail(queue)) <= offered
      BY <1>3, <3>1 DEF OrderInv
    <3> QED
      BY <2>2, <3>3, <3>4
  <2> QED
    BY <1>6, <2>1, <2>2
<1>7. \A s \in InQueue(queue') : s <= offered'
  BY <1>3 DEF OrderInv
<1> QED
  BY <1>3, <1>4, <1>5, <1>6, <1>7 DEF OrderInv

\* A step that leaves the queue alone and forgets the element being sent.
LEMMA SameQueueKeepsOrder ==
    ASSUME OrderInv, queue' = queue, offered' = offered, fate' = fate,
           \/ sending' = sending
           \/ sending' = None
    PROVE  OrderInv'
BY DEF OrderInv

LEMMA MarkProcessedKeepsOrder ==
    ASSUME TypeInv, OrderInv, NEW done \in BOOLEAN, MarkProcessed(done),
           ReturnFromSend
    PROVE  OrderInv'
<1>1. offered' = offered /\ sending' = None
  BY DEF ReturnFromSend
<1>2. CASE queue # <<>> /\ done
  <2>1. queue' = Tail(queue) /\ fate' = [fate EXCEPT ![Head(queue)] = "sent"]
    BY <1>2, Zenon DEF MarkProcessed
  <2>2. "sent" \in Fates \ {"queued", "evicted"}
    BY DEF Fates
  <2> QED
    BY <1>1, <1>2, <2>1, <2>2, PopKeepsOrder
<1>3. CASE ~(queue # <<>> /\ done)
  <2>1. queue' = queue /\ fate' = fate
    BY <1>3, Zenon DEF MarkProcessed
  <2> QED
    BY <1>1, <2>1, SameQueueKeepsOrder
<1> QED
  BY <1>2, <1>3

LEMMA OrderStep == TypeInv /\ OrderInv /\ [Next]_vars => OrderInv'
<1> SUFFICES ASSUME TypeInv, OrderInv, [Next]_vars PROVE OrderInv'
  OBVIOUS
<1> USE DelayQueueAssumption
<1>1. CASE AddIfRoom
  <2>1. /\ offered' = offered + 1 /\ offered' \in SampleIds
        /\ \A s \in InQueue(queue) : s < offered'
        /\ sending' = sending
    BY <1>1, OfferedIsNewest DEF AddIfRoom, CanOffer
  <2>2. CASE queue' = Append(queue, offered')
             /\ fate' = [fate EXCEPT ![offered'] = "queued"]
    <3>1. Ordered(queue') /\ InQueue(queue') = InQueue(queue) \cup {offered'}
      BY <2>1, <2>2, OrderedAppend DEF OrderInv, TypeInv, TypeOK
    <3>2. offered < offered' /\ offered \in Nat /\ InQueue(queue) \subseteq SampleIds
      BY <2>1, ElementOfSeq, SMT DEF InQueue, TypeInv, TypeOK
    <3>3. \A s \in InQueue(queue') : s <= offered'
      BY <3>1, <3>2, <2>1, SMT DEF OrderInv, SampleIds
    <3>4. \A s \in SampleIds : fate'[s] = "queued" => s \in InQueue(queue')
      BY <2>2, <3>1 DEF OrderInv, TypeInv, TypeOK
    <3>5. ASSUME NEW t \in SampleIds, fate'[t] = "evicted"
          PROVE  t <= offered' /\ \A s \in InQueue(queue') : t < s
      <4>1. fate[t] = "evicted"
        BY <2>1, <2>2, <3>5 DEF TypeInv, TypeOK
      <4>2. t <= offered /\ \A s \in InQueue(queue) : t < s
        BY <4>1 DEF OrderInv
      <4>3. t < offered'
        BY <2>1, <3>2, <4>2, SMT DEF SampleIds
      <4> QED
        BY <3>1, <4>2, <4>3, <2>1, SMT DEF SampleIds
    <3>6. ASSUME sending' # None
          PROVE  sending' <= offered' /\ \A s \in InQueue(queue') : sending' <= s
      <4>1. sending <= offered /\ \A s \in InQueue(queue) : sending <= s
        BY <2>1, <3>6 DEF OrderInv
      <4>2. sending <= offered'
        BY <2>1, <3>2, <3>6, <4>1, SMT DEF SampleIds, TypeInv, TypeOK
      <4> QED
        BY <2>1, <3>1, <4>1, <4>2
    <3> QED
      BY <3>1, <3>3, <3>4, <3>5, <3>6 DEF OrderInv
  <2>3. CASE queue' = queue /\ fate' = [fate EXCEPT ![offered'] = "refused"]
    <3>1. offered < offered' /\ offered \in Nat /\ InQueue(queue) \subseteq SampleIds
      BY <2>1, ElementOfSeq, SMT DEF InQueue, TypeInv, TypeOK
    <3>2. \A s \in InQueue(queue') : s <= offered'
      BY <2>1, <2>3, <3>1, SMT DEF SampleIds
    <3>3. \A s \in SampleIds : fate'[s] \in {"queued", "evicted"} => fate'[s] = fate[s]
      BY <2>3 DEF TypeInv, TypeOK
    <3>4. \A t \in SampleIds : t <= offered => t <= offered'
      BY <2>1, <3>1, SMT DEF SampleIds
    <3>5. sending # None => sending <= offered'
      BY <3>4 DEF OrderInv, TypeInv, TypeOK
    <3> QED
      BY <2>1, <2>3, <3>2, <3>3, <3>4, <3>5 DEF OrderInv
  <2> QED
    BY <1>1, <2>2, <2>3, Zenon DEF AddIfRoom
<1>2. ASSUME NEW k \in 0..Len(queue), AddForced(k) PROVE OrderInv'
  <2> DEFINE kept == SubSeq(queue, k + 1, Len(queue))
             gone == SubSeq(queue, 1, k)
  <2>1. /\ offered' = offered + 1 /\ offered' \in SampleIds
        /\ \A s \in InQueue(queue) : s < offered'
        /\ sending' = sending
        /\ queue' = Append(kept, offered')
        /\ fate' = [s \in SampleIds |->
                       IF s = offered' THEN "queued"
                       ELSE IF s \in InQueue(gone) THEN "evicted" ELSE fate[s]]
    BY <1>2, OfferedIsNewest DEF AddForced, CanOffer
  <2>2. /\ Ordered(kept)
        /\ InQueue(kept) \subseteq InQueue(queue)
        /\ InQueue(gone) \subseteq InQueue(queue)
        /\ \A s \in InQueue(gone), t \in InQueue(kept) : s < t
        /\ \A s \in InQueue(queue) : s \in InQueue(gone) \/ s \in InQueue(kept)
    BY OrderedSuffix DEF OrderInv, TypeInv, TypeOK
  <2>3. kept \in Seq(SampleIds)
    BY PopMany DEF TypeInv, TypeOK
  <2> HIDE DEF kept, gone
  <2>4. Ordered(queue') /\ InQueue(queue') = InQueue(kept) \cup {offered'}
    BY <2>1, <2>2, <2>3, OrderedAppend
  <2>5. offered < offered' /\ offered \in Nat /\ InQueue(queue) \subseteq SampleIds
    BY <2>1, ElementOfSeq, SMT DEF InQueue, TypeInv, TypeOK
  <2>6. \A s \in InQueue(queue') : s <= offered'
    BY <2>1, <2>2, <2>4, <2>5, SMT DEF SampleIds
  <2>7. ASSUME NEW s \in SampleIds, fate'[s] = "queued" PROVE s \in InQueue(queue')
    BY <2>1, <2>2, <2>4, <2>7 DEF OrderInv
  <2>8. ASSUME NEW t \in SampleIds, fate'[t] = "evicted"
        PROVE  t <= offered' /\ \A s \in InQueue(queue') : t < s
    <3>1. CASE t \in InQueue(gone)
      <4>1. t < offered' /\ \A s \in InQueue(kept) : t < s
        BY <2>1, <2>2, <3>1
      <4>2. t <= offered'
        BY <2>1, <4>1, SMT DEF SampleIds
      <4> QED
        BY <2>4, <4>1, <4>2
    <3>2. CASE t \notin InQueue(gone)
      <4>1. fate[t] = "evicted"
        BY <2>1, <2>8, <3>2
      <4>2. t <= offered /\ \A s \in InQueue(queue) : t < s
        BY <4>1 DEF OrderInv
      <4>3. t < offered' /\ t <= offered'
        BY <2>1, <2>5, <4>2, SMT DEF SampleIds
      <4> QED
        BY <2>2, <2>4, <4>2, <4>3
    <3> QED
      BY <3>1, <3>2
  <2>9. ASSUME sending' # None
        PROVE  sending' <= offered' /\ \A s \in InQueue(queue') : sending' <= s
    <3>1. sending <= offered /\ \A s \in InQueue(queue) : sending <= s
      BY <2>1, <2>9 DEF OrderInv
    <3>2. sending <= offered'
      BY <2>1, <2>5, <2>9, <3>1, SMT DEF SampleIds, TypeInv, TypeOK
    <3> QED
      BY <2>1, <2>2, <2>4, <3>1, <3>2
  <2> QED
    BY <2>4, <2>6, <2>7, <2>8, <2>9 DEF OrderInv
<1>3. ASSUME GetNext, sending' = None \/ (NextQueue # <<>> /\ sending' = Head(NextQueue))
      PROVE  OrderInv'
  <2>1. CASE GiveUp
    <3>1. /\ queue # <<>> /\ queue' = Tail(queue) /\ offered' = offered
          /\ fate' = [fate EXCEPT ![Head(queue)] = "exhausted"]
          /\ NextQueue = Tail(queue)
      BY <1>3, <2>1 DEF GetNext, NextQueue
    <3>2. "exhausted" \in Fates \ {"queued", "evicted"}
      BY DEF Fates
    <3> QED
      BY <1>3, <3>1, <3>2, PopKeepsOrder
  <2>2. CASE ~GiveUp
    <3>1. /\ queue # <<>> /\ queue' = queue /\ offered' = offered /\ fate' = fate
          /\ NextQueue = queue
      BY <1>3, <2>2 DEF GetNext, NextQueue
    <3>2. CASE sending' = None
      BY <3>1, <3>2, SameQueueKeepsOrder
    <3>3. CASE sending' = Head(queue)
      <4>1. queue \in Seq(SampleIds) /\ Ordered(queue)
        BY DEF OrderInv, TypeInv, TypeOK
      <4>2. /\ Head(queue) \in InQueue(queue)
            /\ \A s \in InQueue(Tail(queue)) : Head(queue) < s
            /\ \A s \in InQueue(queue) : s = Head(queue) \/ s \in InQueue(Tail(queue))
        BY <3>1, <4>1, OrderedTail
      <4>3. InQueue(queue) \subseteq SampleIds
        BY <4>1, ElementOfSeq DEF InQueue
      <4>4. \A s \in InQueue(queue) : Head(queue) <= s
        BY <4>2, <4>3, SMT DEF SampleIds
      <4> QED
        BY <3>1, <3>3, <4>2, <4>4 DEF OrderInv
    <3> QED
      BY <1>3, <3>1, <3>2, <3>3
  <2> QED
    BY <2>1, <2>2
<1>4. CASE Process
  <2>1. GetNext /\ (sending' = None \/ (NextQueue # <<>> /\ sending' = Head(NextQueue)))
    BY <1>4 DEF Process, GetNext
  <2> QED
    BY <2>1, <1>3
<1>5. CASE ProcessNoMemory
  <2>1. GetNext /\ sending' = None
    BY <1>5 DEF ProcessNoMemory, GetNext
  <2> QED
    BY <2>1, <1>3
<1>6. CASE NothingToSend
  BY <1>6, MarkProcessedKeepsOrder DEF NothingToSend
<1>7. CASE SendSucceeds
  <2>1. PICK v \in NextValue(sending) : MarkProcessed(v = Values)
    BY <1>7 DEF SendSucceeds
  <2>2. (v = Values) \in BOOLEAN /\ ReturnFromSend
    BY <1>7 DEF SendSucceeds
  <2> QED
    BY <2>1, <2>2, MarkProcessedKeepsOrder
<1>8. CASE SendFails
  BY <1>8, MarkProcessedKeepsOrder DEF SendFails
<1>9. ASSUME NEW victim \in InQueue(queue) \cup {None}, NEW done \in BOOLEAN,
             SendReturnsToFreedElement(victim, done)
      PROVE  OrderInv'
  BY <1>9, MarkProcessedKeepsOrder DEF SendReturnsToFreedElement
<1>10. CASE SaveSettings
  BY <1>10, SameQueueKeepsOrder DEF SaveSettings
<1>11. CASE NetworkChange
  BY <1>11, SameQueueKeepsOrder DEF NetworkChange
<1>12. CASE Reboot
  <2>1. /\ queue' = <<>> /\ sending' = None /\ offered' = offered
        /\ fate' = [s \in SampleIds |->
                       IF s \in InQueue(queue) THEN "lost" ELSE fate[s]]
    BY <1>12 DEF Reboot
  <2>2. InQueue(<<>>) = {} /\ Ordered(<<>>)
    BY SMT DEF InQueue, Ordered
  <2> QED
    BY <2>1, <2>2 DEF OrderInv
<1>13. CASE UNCHANGED vars
  BY <1>13, SameQueueKeepsOrder DEF vars
<1> QED
  BY <1>1, <1>2, <1>4, <1>5, <1>6, <1>7, <1>8, <1>9, <1>10, <1>11, <1>12, <1>13
  DEF Next, AddToQueue, FinishSend

\* Samples leave the queue in the order in which they were offered, and what
\* delete_oldest evicts is older than anything that stays queued.
THEOREM EvictionIsOldestFirst == Spec => []OldestFirst
<1>1. TypeInv /\ OrderInv => OldestFirst
  <2> SUFFICES ASSUME TypeInv, OrderInv PROVE OldestFirst
    OBVIOUS
  <2>1. ASSUME NEW s \in SampleIds, NEW t \in SampleIds,
               s < t, fate[s] = "queued", fate[t] = "evicted"
        PROVE  FALSE
    <3>1. t < s
      BY <2>1 DEF OrderInv
    <3> QED
      BY <2>1, <3>1, SMT DEF SampleIds
  <2> QED
    BY <2>1 DEF OldestFirst, OrderInv, Ordered
<1> QED
  BY TypeInit, TypeStep, OrderInit, OrderStep, <1>1, PTL DEF Spec

-----------------------------------------------------------------------------
\* Without delete_oldest the element that is sent stays in front, so that what
\* markProcessed() counts and removes is that element.

IgnoresNew == \A c \in SettingsChoices : ~c.oldest

\* The settings a queue can use.
InUse == {DefaultCfg} \cup {Configured(c) : c \in SettingsChoices}

\* The values checkDone() has counted were sent.
CountedIsPassed ==
    \A s \in SampleIds : \A v \in ValueIds \ Invalid[s] :
        v <= valuesSent[s] => <<s, v>> \in passed

\* attempt counts attempts for the front element only.
CountsFront ==
    /\ queue = <<>> => attempt = 0
    /\ queue # <<>> => attempt <= tries[Head(queue)]

GivenUpInTime ==
    \A s \in SampleIds :
        fate[s] = "exhausted" => \E c \in InUse : tries[s] > c.retries

FrontInv ==
    /\ settings \in SettingsChoices /\ cfg \in InUse
    /\ InFlightIsFront
    /\ CountsFront
    /\ CountedIsPassed
    /\ SentIsComplete
    /\ GivenUpInTime

LEMMA FrontInit == Init => FrontInv
<1> SUFFICES ASSUME Init PROVE FrontInv
  OBVIOUS
<1>1. settings \in SettingsChoices /\ cfg \in InUse
  BY DEF Init, InitCfgs, InUse
<1>2. CountedIsPassed
  BY SMT DEF Init, CountedIsPassed, ValueIds
<1> QED
  BY <1>1, <1>2 DEF Init, FrontInv, InFlightIsFront, CountsFront,
                    SentIsComplete, GivenUpInTime

LEMMA InUseType == \A c \in InUse : c \in SettingsType
BY DefaultCfgType, ConfiguredType, DelayQueueAssumption DEF InUse

\* No settings of the queue evict anything.
LEMMA InUseIgnoresNew ==
    ASSUME IgnoresNew PROVE \A c \in InUse : ~c.oldest
BY DEF InUse, IgnoresNew, DefaultCfg, Configured

\* The history part of FrontInv, for a step that completes or gives up nothing.
LEMMA SameFates ==
    ASSUME TypeInv, SentIsComplete, GivenUpInTime, passed \subseteq passed',
           \A s \in SampleIds : fate'[s] \in {"sent", "exhausted"}
                                    => fate'[s] = fate[s],
           \A s \in SampleIds : tries'[s] \in Nat /\ tries'[s] >= tries[s]
    PROVE  SentIsComplete' /\ GivenUpInTime'
<1>1. SentIsComplete'
  BY DEF SentIsComplete
<1>2. GivenUpInTime'
  <2> SUFFICES ASSUME NEW s \in SampleIds, fate'[s] = "exhausted"
               PROVE  \E c \in InUse : tries'[s] > c.retries
    BY DEF GivenUpInTime
  <2>1. PICK c \in InUse : tries[s] > c.retries
    BY DEF GivenUpInTime
  <2>2. c.retries \in Nat /\ tries[s] \in Nat
    BY InUseType, DelayQueueAssumption DEF SettingsType, TypeInv, TypeOK
  <2>3. tries'[s] > c.retries
    BY <2>1, <2>2, SMT
  <2> QED
    BY <2>3
<1> QED
  BY <1>1, <1>2

\* do_process has returned for the front element.
LEMMA MarkProcessedFront ==
    ASSUME TypeInv, FrontInv, NEW done \in BOOLEAN, MarkProcessed(done),
           ReturnFromSend, passed \subseteq passed', CountedIsPassed',
           done => /\ tries' = tries
                   /\ \A v \in ValueIds \ Invalid[sending] :
                        <<sending, v>> \in passed',
           ~done => tries' = [tries EXCEPT ![sending] = @ + 1]
    PROVE  FrontInv'
<1>1. /\ queue # <<>> /\ Head(queue) = sending /\ sending \in SampleIds
      /\ UNCHANGED <<settings, cfg>> /\ sending' = None
  BY DEF ReturnFromSend, FrontInv, InFlightIsFront, TypeInv, TypeOK
<1>2. /\ settings' \in SettingsChoices /\ cfg' \in InUse
      /\ InFlightIsFront'
  BY <1>1 DEF FrontInv, InFlightIsFront
<1>3. /\ attempt \in Nat /\ attempt <= tries[sending]
      /\ tries \in [SampleIds -> Nat] /\ fate \in [SampleIds -> Fates]
  BY <1>1, DelayQueueAssumption, SMT
  DEF FrontInv, CountsFront, TypeInv, TypeOK
<1>4. CASE done
  <2>1. /\ queue' = Tail(queue) /\ attempt' = 0 /\ tries' = tries
        /\ fate' = [fate EXCEPT ![sending] = "sent"]
    BY <1>1, <1>4 DEF MarkProcessed
  <2>2. Tail(queue) \in Seq(SampleIds)
    BY <1>1, PopFront DEF TypeInv, TypeOK
  <2>3. CountsFront'
    <3>1. CASE Tail(queue) = <<>>
      BY <2>1, <3>1 DEF CountsFront
    <3>2. CASE Tail(queue) # <<>>
      <4>1. Head(Tail(queue)) \in SampleIds
        BY <2>2, <3>2, PopFront
      <4>2. tries[Head(Tail(queue))] \in Nat
        BY <1>3, <4>1
      <4> QED
        BY <2>1, <3>2, <4>2, SMT DEF CountsFront
    <3> QED
      BY <3>1, <3>2
  <2>4. SentIsComplete'
    <3> SUFFICES ASSUME NEW s \in SampleIds, fate'[s] = "sent",
                        NEW v \in ValueIds \ Invalid[s]
                 PROVE  <<s, v>> \in passed'
      BY DEF SentIsComplete
    <3>1. CASE s = sending
      BY <1>4, <3>1
    <3>2. CASE s # sending
      BY <1>3, <2>1, <3>2 DEF FrontInv, SentIsComplete
    <3> QED
      BY <3>1, <3>2
  <2>5. GivenUpInTime'
    BY <1>3, <2>1 DEF FrontInv, GivenUpInTime
  <2> QED
    BY <1>2, <2>3, <2>4, <2>5 DEF FrontInv
<1>5. CASE ~done
  <2>1. /\ queue' = queue /\ attempt' = attempt + 1 /\ fate' = fate
        /\ tries' = [tries EXCEPT ![sending] = @ + 1]
    BY <1>1, <1>5 DEF MarkProcessed
  <2>2. CountsFront'
    BY <1>1, <1>3, <2>1, SMT DEF CountsFront
  <2>3. \A s \in SampleIds : tries'[s] \in Nat /\ tries'[s] >= tries[s]
    BY <1>3, <2>1, SMT
  <2>4. SentIsComplete' /\ GivenUpInTime'
    BY <2>1, <2>3, SameFates DEF FrontInv
  <2> QED
    BY <1>2, <2>2, <2>4 DEF FrontInv
<1> QED
  BY <1>4, <1>5

\* getNext(): the front element has used its retries, or it stays.
LEMMA GetNextFront ==
    ASSUME TypeInv, FrontInv, GetNext, cfg' \in InUse, InFlightIsFront'
    PROVE  FrontInv'
<1>1. /\ queue # <<>> /\ queue' = NextQueue
      /\ UNCHANGED <<valuesSent, settings, passed, tries>>
      /\ queue \in Seq(SampleIds) /\ Head(queue) \in SampleIds
      /\ tries \in [SampleIds -> Nat] /\ fate \in [SampleIds -> Fates]
  BY PopFront DEF GetNext, TypeInv, TypeOK
<1>2. CountedIsPassed' /\ settings' \in SettingsChoices
  BY <1>1 DEF FrontInv, CountedIsPassed
<1>3. CASE GiveUp
  <2>1. /\ queue' = Tail(queue) /\ attempt' = 0
        /\ fate' = [fate EXCEPT ![Head(queue)] = "exhausted"]
    BY <1>3 DEF GetNext, NextQueue
  <2>2. CountsFront'
    <3>1. CASE Tail(queue) = <<>>
      BY <2>1, <3>1 DEF CountsFront
    <3>2. CASE Tail(queue) # <<>>
      <4>1. Head(Tail(queue)) \in SampleIds
        BY <1>1, <3>2, PopFront
      <4>2. tries[Head(Tail(queue))] \in Nat
        BY <1>1, <4>1
      <4> QED
        BY <1>1, <2>1, <3>2, <4>2, SMT DEF CountsFront
    <3> QED
      BY <3>1, <3>2
  <2>3. SentIsComplete'
    BY <1>1, <2>1 DEF FrontInv, SentIsComplete
  <2>4. tries[Head(queue)] > cfg.retries
    <3>1. attempt \in Nat /\ cfg.retries \in Nat /\ tries[Head(queue)] \in Nat
      BY <1>1, DelayQueueAssumption, SMT DEF TypeInv, TypeOK, SettingsType
    <3>2. attempt > cfg.retries /\ attempt <= tries[Head(queue)]
      BY <1>1, <1>3 DEF GiveUp, FrontInv, CountsFront
    <3> QED
      BY <3>1, <3>2, SMT
  <2>5. GivenUpInTime'
    <3> SUFFICES ASSUME NEW s \in SampleIds, fate'[s] = "exhausted"
                 PROVE  \E c \in InUse : tries'[s] > c.retries
      BY DEF GivenUpInTime
    <3>1. CASE s = Head(queue)
      BY <1>1, <2>4, <3>1 DEF FrontInv
    <3>2. CASE s # Head(queue)
      BY <1>1, <2>1, <3>2 DEF FrontInv, GivenUpInTime
    <3> QED
      BY <3>1, <3>2
  <2> QED
    BY <1>2, <2>2, <2>3, <2>5 DEF FrontInv
<1>4. CASE ~GiveUp
  <2>1. queue' = queue /\ attempt' = attempt /\ fate' = fate
    BY <1>1, <1>4 DEF GetNext, NextQueue
  <2>2. CountsFront' /\ SentIsComplete' /\ GivenUpInTime'
    BY <1>1, <2>1
    DEF FrontInv, CountsFront, SentIsComplete, GivenUpInTime
  <2> QED
    BY <1>2, <2>2 DEF FrontInv
<1> QED
  BY <1>3, <1>4

LEMMA FrontStep ==
    ASSUME IgnoresNew
    PROVE  TypeInv /\ FrontInv /\ [Next]_vars => FrontInv'
<1> SUFFICES ASSUME TypeInv, FrontInv, [Next]_vars PROVE FrontInv'
  OBVIOUS
<1>1. CASE AddIfRoom
  <2>1. /\ UNCHANGED <<valuesSent, attempt, cfg, settings, sending, passed, tries>>
        /\ offered' = offered + 1
        /\ queue \in Seq(SampleIds) /\ fate \in [SampleIds -> Fates]
        /\ tries \in [SampleIds -> Nat] /\ attempt \in Nat
    BY <1>1, DelayQueueAssumption, SMT DEF AddIfRoom, TypeInv, TypeOK
  <2>2. offered' \in SampleIds
    BY <1>1, <2>1, DelayQueueAssumption, SMT
    DEF AddIfRoom, CanOffer, SampleIds, TypeInv, TypeOK
  <2>3. \A s \in SampleIds : fate'[s] \in {"sent", "exhausted"}
                                => fate'[s] = fate[s]
    BY <1>1, <2>1, <2>2 DEF AddIfRoom
  <2>4. SentIsComplete' /\ GivenUpInTime'
    BY <2>1, <2>3, SameFates, SMT DEF FrontInv
  <2>5. CASE queue' = queue
    BY <2>1, <2>4, <2>5
    DEF FrontInv, InFlightIsFront, CountsFront, CountedIsPassed
  <2>6. CASE queue' = Append(queue, offered')
    <3>1. queue' # <<>>
      BY <2>1, <2>2, <2>6, PushBack
    <3>2. CASE queue = <<>>
      <4>1. Head(queue') = offered'
        BY <2>6, <3>2
      <4>2. CountsFront'
        BY <2>1, <2>2, <3>1, <3>2, <4>1, SMT DEF FrontInv, CountsFront
      <4>3. InFlightIsFront'
        BY <2>1, <3>2 DEF FrontInv, InFlightIsFront
      <4> QED
        BY <2>1, <2>4, <4>2, <4>3 DEF FrontInv, CountedIsPassed
    <3>3. CASE queue # <<>>
      <4>1. Head(queue') = Head(queue)
        <5>1. /\ queue'[1] = queue[1] /\ queue' \in Seq(SampleIds)
          BY <2>1, <2>2, <2>6, <3>3, PopFront, PushBack
        <5> QED
          BY <2>1, <3>1, <3>3, <5>1, PopFront
      <4>2. CountsFront' /\ InFlightIsFront'
        BY <2>1, <3>1, <3>3, <4>1 DEF FrontInv, CountsFront, InFlightIsFront
      <4> QED
        BY <2>1, <2>4, <4>2 DEF FrontInv, CountedIsPassed
    <3> QED
      BY <3>2, <3>3
  <2> QED
    BY <1>1, <2>5, <2>6 DEF AddIfRoom
<1>2. ASSUME NEW k \in 0..Len(queue), AddForced(k) PROVE FALSE
  BY <1>2, InUseIgnoresNew DEF AddForced, FrontInv
<1>3. CASE Process
  <2>1. GetNext
    BY <1>3 DEF Process
  <2>2. cfg' \in InUse /\ InFlightIsFront'
    <3>1. CASE NextQueue = <<>>
      BY <1>3, <2>1, <3>1 DEF Process, GetNext, FrontInv, InFlightIsFront
    <3>2. CASE NextQueue # <<>>
      <4>1. /\ queue' = NextQueue /\ cfg' = Configured(settings)
            /\ sending' = Head(NextQueue) \/ sending' = None
        BY <1>3, <3>2 DEF Process, GetNext
      <4> QED
        BY <3>2, <4>1 DEF FrontInv, InUse, InFlightIsFront
    <3> QED
      BY <3>1, <3>2
  <2> QED
    BY <2>1, <2>2, GetNextFront
<1>4. CASE ProcessNoMemory
  <2>1. GetNext /\ cfg' \in InUse /\ InFlightIsFront'
    BY <1>4 DEF ProcessNoMemory, GetNext, FrontInv, InFlightIsFront
  <2> QED
    BY <2>1, GetNextFront
<1>5. ASSUME sending # None
      PROVE  /\ sending \in SampleIds /\ sending \in InQueue(queue)
             /\ valuesSent \in [SampleIds -> 0..Values]
  <2>1. queue # <<>> /\ Head(queue) = sending
    BY <1>5 DEF FrontInv, InFlightIsFront
  <2>2. /\ queue \in Seq(SampleIds) /\ valuesSent \in [SampleIds -> 0..Values]
        /\ sending \in SampleIds
    BY <1>5 DEF TypeInv, TypeOK
  <2>3. sending = queue[1] /\ 1 \in 1..Len(queue)
    BY <2>1, <2>2, PopFront, SMT
  <2> QED
    BY <2>2, <2>3 DEF InQueue
<1>6. CASE NothingToSend
  <2>1. /\ sending # None /\ Unsent(sending) = {} /\ ReturnFromSend
        /\ valuesSent' = [valuesSent EXCEPT ![sending] = Values]
        /\ MarkProcessed(TRUE) /\ passed' = passed /\ tries' = tries
    BY <1>6 DEF NothingToSend, ReturnFromSend
  <2>2. \A v \in ValueIds \ Invalid[sending] : v <= valuesSent[sending]
    BY <1>5, <2>1, DelayQueueAssumption, SMT DEF Unsent, ValueIds
  <2>3. \A v \in ValueIds \ Invalid[sending] : <<sending, v>> \in passed
    BY <1>5, <2>1, <2>2 DEF FrontInv, CountedIsPassed
  <2>4. CountedIsPassed'
    BY <1>5, <2>1, <2>3 DEF FrontInv, CountedIsPassed
  <2> QED
    BY <2>1, <2>3, <2>4, MarkProcessedFront
<1>7. CASE SendSucceeds
  <2>1. sending # None /\ ReturnFromSend
    BY <1>7 DEF SendSucceeds, ReturnFromSend
  <2>2. PICK v \in NextValue(sending) :
          /\ valuesSent' = [valuesSent EXCEPT ![sending] = v]
          /\ passed' = passed \cup {<<sending, v>>}
          /\ MarkProcessed(v = Values)
          /\ tries' = IF v = Values
                        THEN tries ELSE [tries EXCEPT ![sending] = @ + 1]
    BY <1>7 DEF SendSucceeds
  <2>3. /\ v \in ValueIds
        /\ \A w \in ValueIds \ Invalid[sending] :
             w > valuesSent[sending] => v <= w
    BY <2>2 DEF NextValue, Unsent
  <2>4. \A w \in ValueIds \ Invalid[sending] :
          w <= v => <<sending, w>> \in passed'
    <3> SUFFICES ASSUME NEW w \in ValueIds \ Invalid[sending], w <= v, w # v
                 PROVE  <<sending, w>> \in passed
      BY <2>2
    <3>1. valuesSent[sending] \in Nat /\ w \in Nat /\ v \in Nat
      BY <1>5, <2>1, <2>3, DelayQueueAssumption, SMT DEF ValueIds
    <3>2. w <= valuesSent[sending]
      BY <2>3, <3>1, SMT
    <3> QED
      BY <1>5, <2>1, <3>2 DEF FrontInv, CountedIsPassed
  <2>5. CountedIsPassed'
    <3> SUFFICES ASSUME NEW s \in SampleIds, NEW w \in ValueIds \ Invalid[s],
                        w <= valuesSent'[s]
                 PROVE  <<s, w>> \in passed'
      BY DEF CountedIsPassed
    <3>1. CASE s = sending
      BY <1>5, <2>1, <2>2, <2>4, <3>1
    <3>2. CASE s # sending
      BY <1>5, <2>1, <2>2, <3>2 DEF FrontInv, CountedIsPassed
    <3> QED
      BY <3>1, <3>2
  <2>6. v = Values => \A w \in ValueIds \ Invalid[sending] :
                         <<sending, w>> \in passed'
    BY <2>4, DelayQueueAssumption, SMT DEF ValueIds
  <2>7. passed \subseteq passed' /\ (v = Values) \in BOOLEAN
    BY <2>2
  <2> QED
    BY <2>1, <2>2, <2>5, <2>6, <2>7, MarkProcessedFront, Zenon
<1>8. CASE SendFails
  <2>1. /\ ReturnFromSend /\ MarkProcessed(FALSE)
        /\ tries' = [tries EXCEPT ![sending] = @ + 1]
        /\ UNCHANGED <<valuesSent, passed>>
    BY <1>8 DEF SendFails
  <2>2. CountedIsPassed'
    BY <2>1 DEF FrontInv, CountedIsPassed
  <2> QED
    BY <2>1, <2>2, MarkProcessedFront
<1>9. ASSUME NEW victim, NEW done, SendReturnsToFreedElement(victim, done)
      PROVE  FALSE
  BY <1>5, <1>9 DEF SendReturnsToFreedElement, ReturnFromSend
<1>10. CASE SaveSettings
  <2>1. /\ UNCHANGED <<queue, valuesSent, attempt, sending, passed, tries, fate>>
        /\ settings' \in SettingsChoices /\ cfg' \in InitCfgs(cfg, settings')
    BY <1>10 DEF SaveSettings
  <2>2. cfg' \in InUse
    BY <2>1 DEF InitCfgs, InUse, FrontInv
  <2> QED
    BY <2>1, <2>2 DEF FrontInv, InFlightIsFront, CountsFront, CountedIsPassed,
                      SentIsComplete, GivenUpInTime
<1>11. CASE NetworkChange \/ UNCHANGED vars
  BY <1>11 DEF NetworkChange, vars, FrontInv, InFlightIsFront, CountsFront,
               CountedIsPassed, SentIsComplete, GivenUpInTime
<1>12. CASE Reboot
  <2>1. /\ queue' = <<>> /\ attempt' = 0 /\ sending' = None
        /\ UNCHANGED <<valuesSent, settings, passed, tries>>
        /\ cfg' \in InitCfgs(DefaultCfg, settings)
        /\ fate' = [s \in SampleIds |->
                      IF s \in InQueue(queue) THEN "lost" ELSE fate[s]]
    BY <1>12 DEF Reboot
  <2>2. cfg' \in InUse
    BY <2>1 DEF InitCfgs, InUse, FrontInv
  <2>3. SentIsComplete' /\ GivenUpInTime'
    BY <2>1 DEF FrontInv, SentIsComplete, GivenUpInTime
  <2> QED
    BY <2>1, <2>2, <2>3
    DEF FrontInv, InFlightIsFront, CountsFront, CountedIsPassed
<1> QED
  BY <1>1, <1>2, <1>3, <1>4, <1>6, <1>7, <1>8, <1>9, <1>10, <1>11, <1>12
  DEF Next, AddToQueue, FinishSend

LEMMA FrontAlways == ASSUME IgnoresNew PROVE Spec => []FrontInv
<1>1. TypeInv /\ FrontInv /\ [Next]_vars => FrontInv'
  BY FrontStep
<1> QED
  BY TypeInit, TypeStep, FrontInit, <1>1, PTL DEF Spec

\* Without delete_oldest the element whose reply is awaited is still in front
\* when do_process returns, whatever is queued or saved in between.
THEOREM FrontIsSent == ASSUME IgnoresNew PROVE Spec => []InFlightIsFront
<1>1. FrontInv => InFlightIsFront
  BY DEF FrontInv
<1> QED
  BY <1>1, FrontAlways, PTL

\* Without delete_oldest markProcessed(true) removes an element only after each
\* of its valid values was sent with success, whatever is queued in between.
THEOREM SentCompletely == ASSUME IgnoresNew PROVE Spec => []SentIsComplete
<1>1. FrontInv => SentIsComplete
  BY DEF FrontInv
<1> QED
  BY <1>1, FrontAlways, PTL

LEMMA FewestIsLeast ==
    FewestRetries \in Nat /\ \A c \in InUse : FewestRetries <= c.retries
<1> DEFINE Allowed == {Configured(c).retries : c \in SettingsChoices}
                          \cup {DfltRetries}
<1>1. Allowed \subseteq 0..MaxRetries /\ Allowed # {}
  BY ConfiguredType, DelayQueueAssumption, SMT DEF SettingsType
<1>2. \A c \in InUse : c.retries \in Allowed
  BY DEF InUse, DefaultCfg
<1>3. \E r \in Allowed : \A a \in Allowed : r <= a
  <2> DEFINE Less == {p \in Nat \X Nat : p[1] < p[2]}
  <2>1. IsWellFoundedOn(Less, Nat)
    BY NatLessThanWellFounded DEF OpToRel
  <2>2. Allowed \subseteq Nat
    BY <1>1, SMT
  <2> HIDE DEF Less, Allowed
  <2>3. PICK r \in Allowed : \A a \in Allowed : <<a, r>> \notin Less
    BY <1>1, <2>1, <2>2, WFMin
  <2>4. ASSUME NEW a \in Allowed PROVE r <= a
    <3>1. r \in Nat /\ a \in Nat
      BY <2>2, <2>3
    <3>2. a < r => <<a, r>> \in Less
      BY <3>1 DEF Less
    <3> QED
      BY <2>3, <3>1, <3>2, SMT
  <2> QED
    BY <2>4
<1>4. FewestRetries = CHOOSE r \in Allowed : \A a \in Allowed : r <= a
  BY DEF FewestRetries
<1> HIDE DEF Allowed
<1>5. FewestRetries \in Allowed /\ \A a \in Allowed : FewestRetries <= a
  BY <1>3, <1>4
<1>6. FewestRetries \in Nat
  BY <1>1, <1>5, DelayQueueAssumption, SMT
<1> QED
  BY <1>2, <1>5, <1>6

\* Without delete_oldest an element is given up on only after more attempts for
\* it than the fewest retries that any settings allow: attempts for the element
\* before it never count.
THEOREM OwnRetries == ASSUME IgnoresNew PROVE Spec => []GivenUpAfterMaxRetries
<1>1. TypeInv /\ FrontInv => GivenUpAfterMaxRetries
  <2> SUFFICES ASSUME TypeInv, FrontInv, NEW s \in SampleIds,
                      fate[s] = "exhausted"
               PROVE  tries[s] > FewestRetries
    BY DEF GivenUpAfterMaxRetries
  <2>1. PICK c \in InUse : tries[s] > c.retries
    BY DEF FrontInv, GivenUpInTime
  <2>2. FewestRetries <= c.retries
    BY FewestIsLeast
  <2>3. FewestRetries \in Int /\ c.retries \in Int /\ tries[s] \in Int
    BY FewestIsLeast, InUseType, DelayQueueAssumption, SMT
    DEF SettingsType, TypeInv, TypeOK
  <2> QED
    BY <2>1, <2>2, <2>3, SMT
<1>2. Spec => []TypeInv
  BY TypeInit, TypeStep, PTL DEF Spec
<1> QED
  BY <1>1, <1>2, FrontAlways, PTL

-----------------------------------------------------------------------------
\* What the server gets: with either full queue action, and even when the
\* element that is being sent is evicted.

\* What was sent is no newer than what is queued or being sent, and of these
\* elements only values that checkDone() has counted were sent.
PassedInv ==
    \A p \in passed :
        /\ p[1] <= offered
        /\ \A s \in InQueue(queue) : p[1] <= s
        /\ sending # None => p[1] <= sending
        /\ p[1] \in InQueue(queue) \cup {sending} => p[2] <= valuesSent[p[1]]

\* checkDone() only counts on.
Counted ==
    \A s \in SampleIds :
        valuesSent'[s] \in Nat /\ valuesSent[s] <= valuesSent'[s]

\* A step that sends nothing.
LEMMA PassedKept ==
    ASSUME TypeInv, PassedInv, passed' = passed, offered' = offered, Counted,
           InQueue(queue') \subseteq InQueue(queue),
           sending' \in InQueue(queue) \cup {sending, None}
    PROVE  PassedInv'
<1> SUFFICES ASSUME NEW p \in passed
             PROVE  /\ p[1] <= offered
                    /\ \A s \in InQueue(queue') : p[1] <= s
                    /\ sending' # None => p[1] <= sending'
                    /\ p[1] \in InQueue(queue') \cup {sending'}
                         => p[2] <= valuesSent'[p[1]]
  BY DEF PassedInv
<1>1. /\ p[1] \in SampleIds /\ p[2] \in ValueIds
      /\ valuesSent \in [SampleIds -> 0..Values]
  BY DEF TypeInv, TypeOK
<1>2. /\ p[1] <= offered
      /\ \A s \in InQueue(queue) : p[1] <= s
      /\ sending # None => p[1] <= sending
      /\ p[1] \in InQueue(queue) \cup {sending} => p[2] <= valuesSent[p[1]]
  BY DEF PassedInv
<1>3. p[1] \in InQueue(queue') \cup {sending'}
        => p[1] \in InQueue(queue) \cup {sending}
  BY <1>1, SMT DEF None, SampleIds
<1>4. valuesSent[p[1]] <= valuesSent'[p[1]] /\ valuesSent'[p[1]] \in Nat
  BY <1>1 DEF Counted
<1>5. p[2] <= valuesSent[p[1]] => p[2] <= valuesSent'[p[1]]
  <2>1. valuesSent[p[1]] \in Nat /\ p[2] \in Nat
    BY <1>1, DelayQueueAssumption, SMT DEF ValueIds
  <2> QED
    BY <1>4, <2>1, SMT
<1>6. \A s \in InQueue(queue') : p[1] <= s
  BY <1>2
<1>7. sending' # None => p[1] <= sending'
  BY <1>2
<1> QED
  BY <1>2, <1>3, <1>5, <1>6, <1>7, Zenon

\* The element being sent is as new as what was sent before, and its next value
\* is newer.
LEMMA NextIsNewer ==
    ASSUME TypeInv, OrderInv, PassedInv, sending # None,
           NEW v \in NextValue(sending)
    PROVE  /\ sending \in SampleIds /\ sending \in 1..offered /\ v \in ValueIds
           /\ \A q \in passed : Channel!Precedes(q, <<sending, v>>)
<1>1. /\ v \in ValueIds /\ v > valuesSent[sending]
      /\ sending \in SampleIds /\ valuesSent[sending] \in 0..Values
  BY DEF NextValue, Unsent, TypeInv, TypeOK
<1>2. sending \in 1..offered
  <2>1. sending <= offered /\ offered \in 0..MaxSamples
    BY DEF OrderInv, TypeInv, TypeOK
  <2> QED
    BY <1>1, <2>1, DelayQueueAssumption, SMT DEF SampleIds
<1>3. ASSUME NEW q \in passed
      PROVE  q[1] < sending \/ (q[1] = sending /\ q[2] < v)
  <2>1. q[1] \in SampleIds /\ q[2] \in ValueIds
    BY DEF TypeInv, TypeOK
  <2>2. q[1] <= sending /\ (q[1] = sending => q[2] <= valuesSent[sending])
    BY DEF PassedInv
  <2> QED
    BY <1>1, <2>1, <2>2, DelayQueueAssumption, SMT DEF SampleIds, ValueIds
<1> QED
  BY <1>1, <1>2, <1>3 DEF Channel!Precedes

\* A step that sends the next value of the element.
LEMMA PassedSent ==
    ASSUME TypeInv, OrderInv, PassedInv, sending # None,
           NEW v \in NextValue(sending),
           passed' = passed \cup {<<sending, v>>},
           offered' = offered, Counted, sending' = None,
           InQueue(queue') \subseteq InQueue(queue),
           sending \in InQueue(queue') => v <= valuesSent'[sending]
    PROVE  PassedInv'
<1> SUFFICES ASSUME NEW p \in passed'
             PROVE  /\ p[1] <= offered
                    /\ \A s \in InQueue(queue') : p[1] <= s
                    /\ p[1] \in InQueue(queue') \cup {None}
                         => p[2] <= valuesSent'[p[1]]
  BY DEF PassedInv
<1>a. p[1] # None
  <2>1. p \in passed \/ p = <<sending, v>>
    OBVIOUS
  <2>2. p[1] \in SampleIds
    BY <2>1, NextIsNewer DEF TypeInv, TypeOK
  <2> QED
    BY <2>2, SMT DEF None, SampleIds
<1>1. CASE p \in passed
  <2>1. /\ p[1] \in SampleIds /\ p[2] \in ValueIds
        /\ valuesSent \in [SampleIds -> 0..Values]
    BY <1>1 DEF TypeInv, TypeOK
  <2>2. /\ p[1] <= offered
        /\ \A s \in InQueue(queue) : p[1] <= s
        /\ p[1] \in InQueue(queue) => p[2] <= valuesSent[p[1]]
    BY <1>1 DEF PassedInv
  <2>3. p[2] <= valuesSent[p[1]] => p[2] <= valuesSent'[p[1]]
    <3>1. /\ valuesSent[p[1]] \in Nat /\ p[2] \in Nat
          /\ valuesSent[p[1]] <= valuesSent'[p[1]] /\ valuesSent'[p[1]] \in Nat
      BY <2>1, DelayQueueAssumption, SMT DEF ValueIds, Counted
    <3> QED
      BY <3>1, SMT
  <2> QED
    BY <1>a, <2>2, <2>3
<1>2. CASE p = <<sending, v>>
  <2>1. p[1] = sending /\ p[2] = v
    BY <1>2
  <2>2. sending <= offered /\ \A s \in InQueue(queue) : sending <= s
    BY DEF OrderInv
  <2> QED
    BY <1>a, <2>1, <2>2
<1> QED
  BY <1>1, <1>2

LEMMA PassedInit == Init => PassedInv
BY DEF Init, PassedInv

\* The queue after pop_front().
LEMMA TailInQueue ==
    ASSUME TypeInv, OrderInv, queue # <<>>
    PROVE  /\ InQueue(Tail(queue)) \subseteq InQueue(queue)
           /\ Tail(queue) # <<>> => Head(Tail(queue)) \in InQueue(queue)
           /\ Head(queue) \in InQueue(queue)
<1>1. queue \in Seq(SampleIds) /\ Ordered(queue)
  BY DEF OrderInv, TypeInv, TypeOK
<1>2. /\ Ordered(Tail(queue)) /\ Head(queue) \in InQueue(queue)
      /\ InQueue(Tail(queue)) \subseteq InQueue(queue)
  BY <1>1, OrderedTail
<1>3. Tail(queue) \in Seq(SampleIds)
  BY <1>1, PopFront
<1>4. Tail(queue) # <<>> => Head(Tail(queue)) \in InQueue(Tail(queue))
  BY <1>2, <1>3, OrderedTail
<1> QED
  BY <1>2, <1>4

LEMMA MarkProcessedInQueue ==
    ASSUME TypeInv, OrderInv, NEW done \in BOOLEAN, MarkProcessed(done)
    PROVE  InQueue(queue') \subseteq InQueue(queue)
<1>1. queue' = queue \/ (queue # <<>> /\ queue' = Tail(queue))
  BY Zenon DEF MarkProcessed
<1> QED
  BY <1>1, TailInQueue

\* A sample that is offered: it is newer than all that was sent.
LEMMA PassedOffered ==
    ASSUME TypeInv, PassedInv, offered' = offered + 1,
           UNCHANGED <<valuesSent, sending, passed>>,
           InQueue(queue') \subseteq InQueue(queue) \cup {offered'}
    PROVE  PassedInv'
<1> SUFFICES ASSUME NEW p \in passed
             PROVE  /\ p[1] <= offered'
                    /\ \A s \in InQueue(queue') : p[1] <= s
                    /\ sending # None => p[1] <= sending
                    /\ p[1] \in InQueue(queue') \cup {sending}
                         => p[2] <= valuesSent[p[1]]
  BY DEF PassedInv
<1>1. p[1] \in SampleIds /\ offered \in 0..MaxSamples
  BY DEF TypeInv, TypeOK
<1>2. /\ p[1] <= offered
      /\ \A s \in InQueue(queue) : p[1] <= s
      /\ sending # None => p[1] <= sending
      /\ p[1] \in InQueue(queue) \cup {sending} => p[2] <= valuesSent[p[1]]
  BY DEF PassedInv
<1>3. p[1] < offered'
  BY <1>1, <1>2, DelayQueueAssumption, SMT DEF SampleIds
<1>4. p[1] <= offered' /\ p[1] # offered'
  BY <1>1, <1>3, DelayQueueAssumption, SMT DEF SampleIds
<1> QED
  BY <1>2, <1>4

LEMMA PassedStep ==
    TypeInv /\ OrderInv /\ PassedInv /\ [Next]_vars =>
        /\ PassedInv'
        /\ [Channel!Next]_<<offered, passed>>
<1> SUFFICES ASSUME TypeInv, OrderInv, PassedInv, [Next]_vars
             PROVE  PassedInv' /\ [Channel!Next]_<<offered, passed>>
  OBVIOUS
<1>1. \A s \in SampleIds : valuesSent[s] \in 0..Values /\ valuesSent[s] \in Nat
  BY DelayQueueAssumption, SMT DEF TypeInv, TypeOK
<1>2. valuesSent' = valuesSent => Counted
  BY <1>1, SMT DEF Counted
<1>3. CASE AddToQueue
  <2>1. /\ offered < MaxSamples /\ offered' = offered + 1
        /\ UNCHANGED <<valuesSent, sending, passed>>
    BY <1>3 DEF AddToQueue, AddIfRoom, AddForced, CanOffer
  <2>2. /\ offered' \in SampleIds
        /\ \A s \in InQueue(queue) : s < offered'
    BY <2>1, OfferedIsNewest
  <2>3. InQueue(queue') \subseteq InQueue(queue) \cup {offered'}
    <3>1. CASE AddIfRoom
      <4>1. queue' = queue \/ queue' = Append(queue, offered')
        BY <3>1, Zenon DEF AddIfRoom
      <4>2. InQueue(Append(queue, offered')) = InQueue(queue) \cup {offered'}
        BY <2>2, OrderedAppend DEF OrderInv, TypeInv, TypeOK
      <4> QED
        BY <4>1, <4>2
    <3>2. ASSUME NEW k \in 0..Len(queue), AddForced(k)
          PROVE  InQueue(queue') \subseteq InQueue(queue) \cup {offered'}
      <4> DEFINE kept == SubSeq(queue, k + 1, Len(queue))
      <4>1. queue' = Append(kept, offered')
        BY <3>2 DEF AddForced
      <4>2. /\ Ordered(kept) /\ InQueue(kept) \subseteq InQueue(queue)
            /\ kept \in Seq(SampleIds)
        BY OrderedSuffix, PopMany DEF OrderInv, TypeInv, TypeOK
      <4> HIDE DEF kept
      <4>3. InQueue(Append(kept, offered')) = InQueue(kept) \cup {offered'}
        BY <2>2, <4>2, OrderedAppend
      <4> QED
        BY <4>1, <4>2, <4>3
    <3> QED
      BY <1>3, <3>1, <3>2 DEF AddToQueue
  <2>4. PassedInv'
    BY <2>1, <2>3, PassedOffered
  <2>5. Channel!Offer
    BY <2>1 DEF Channel!Offer
  <2> QED
    BY <2>1, <2>4, <2>5 DEF Channel!Next
<1>4. CASE Process \/ ProcessNoMemory
  <2>1. /\ queue # <<>> /\ queue' \in {queue, Tail(queue)}
        /\ UNCHANGED <<valuesSent, offered, passed>>
        /\ \/ sending' \in {sending, None}
           \/ queue' # <<>> /\ sending' = Head(queue')
    BY <1>4 DEF Process, ProcessNoMemory, GetNext, NextQueue
  <2>2. InQueue(queue') \subseteq InQueue(queue)
    BY <2>1, TailInQueue
  <2>3. sending' \in InQueue(queue) \cup {sending, None}
    BY <2>1, TailInQueue
  <2>4. PassedInv'
    BY <1>2, <2>1, <2>2, <2>3, PassedKept
  <2> QED
    BY <2>1, <2>4
<1>5. ASSUME ReturnFromSend, NEW done \in BOOLEAN, MarkProcessed(done), Counted,
             \/ passed' = passed
             \/ \E v \in NextValue(sending) :
                  /\ passed' = passed \cup {<<sending, v>>}
                  /\ sending \in InQueue(queue) => v <= valuesSent'[sending]
      PROVE  PassedInv' /\ [Channel!Next]_<<offered, passed>>
  <2>1. /\ sending # None /\ sending' = None /\ offered' = offered
        /\ InQueue(queue') \subseteq InQueue(queue)
    BY <1>5, MarkProcessedInQueue DEF ReturnFromSend
  <2>2. CASE passed' = passed
    BY <1>5, <2>1, <2>2, PassedKept
  <2>3. CASE passed' # passed
    <3>1. PICK v \in NextValue(sending) :
            /\ passed' = passed \cup {<<sending, v>>}
            /\ sending \in InQueue(queue) => v <= valuesSent'[sending]
      BY <1>5, <2>3
    <3>2. sending \in InQueue(queue') => v <= valuesSent'[sending]
      BY <2>1, <3>1
    <3>3. PassedInv'
      BY <1>5, <2>1, <3>1, <3>2, PassedSent
    <3>4. /\ sending \in 1..offered /\ v \in 1..Values
          /\ \A q \in passed : Channel!Precedes(q, <<sending, v>>)
      BY <2>1, NextIsNewer DEF ValueIds
    <3>5. Channel!AcknowledgeAny
      <4>1. <<sending, v>> \in (1..offered) \X (1..Values)
        BY <3>4
      <4>2. Channel!Acknowledge(<<sending, v>>)
        BY <3>1, <3>4 DEF Channel!Acknowledge
      <4> QED
        BY <4>1, <4>2 DEF Channel!AcknowledgeAny
    <3> QED
      BY <2>1, <3>3, <3>5 DEF Channel!Next
  <2> QED
    BY <2>2, <2>3
<1>6. ASSUME sending # None PROVE sending \in SampleIds
  BY <1>6 DEF TypeInv, TypeOK
<1>7. CASE NothingToSend
  <2>1. /\ ReturnFromSend /\ sending # None /\ MarkProcessed(TRUE)
        /\ passed' = passed
        /\ valuesSent' = [valuesSent EXCEPT ![sending] = Values]
    BY <1>7 DEF NothingToSend, ReturnFromSend
  <2>2. Counted
    BY <1>1, <1>6, <2>1, DelayQueueAssumption, SMT DEF Counted, TypeInv, TypeOK
  <2> QED
    BY <1>5, <2>1, <2>2
<1>8. CASE SendSucceeds
  <2>1. ReturnFromSend /\ sending # None
    BY <1>8 DEF SendSucceeds, ReturnFromSend
  <2>2. PICK v \in NextValue(sending) :
          /\ valuesSent' = [valuesSent EXCEPT ![sending] = v]
          /\ passed' = passed \cup {<<sending, v>>}
          /\ MarkProcessed(v = Values)
    BY <1>8 DEF SendSucceeds
  <2>3. v \in ValueIds /\ v > valuesSent[sending]
    BY <2>2 DEF NextValue, Unsent
  <2>4. Counted /\ v <= valuesSent'[sending]
    BY <1>1, <1>6, <2>1, <2>2, <2>3, DelayQueueAssumption, SMT
    DEF Counted, ValueIds, TypeInv, TypeOK
  <2>5. (v = Values) \in BOOLEAN
    OBVIOUS
  <2> QED
    BY <1>5, <2>1, <2>2, <2>4, <2>5
<1>9. CASE SendFails
  BY <1>2, <1>5, <1>9 DEF SendFails
<1>10. ASSUME NEW victim \in InQueue(queue) \cup {None}, NEW done \in BOOLEAN,
              SendReturnsToFreedElement(victim, done)
       PROVE  PassedInv' /\ [Channel!Next]_<<offered, passed>>
  <2>1. /\ ReturnFromSend /\ MarkProcessed(done) /\ sending \notin InQueue(queue)
        /\ \/ \E v \in NextValue(sending) : passed' = passed \cup {<<sending, v>>}
           \/ passed' = passed
    BY <1>10 DEF SendReturnsToFreedElement
  <2>2. \/ valuesSent' = valuesSent
        \/ valuesSent' = [valuesSent EXCEPT ![victim] = @ + 1]
    BY <1>10 DEF SendReturnsToFreedElement
  <2>3. Counted
    BY <1>1, <1>2, <2>2, SMT DEF Counted, TypeInv, TypeOK
  <2> QED
    BY <1>5, <2>1, <2>3
<1>11. CASE SaveSettings \/ NetworkChange \/ UNCHANGED vars
  <2>1. UNCHANGED <<queue, valuesSent, offered, passed, sending>>
    BY <1>11 DEF SaveSettings, NetworkChange, vars
  <2> QED
    BY <1>2, <2>1, PassedKept
<1>12. CASE Reboot
  <2>1. /\ queue' = <<>> /\ sending' = None
        /\ UNCHANGED <<valuesSent, offered, passed>>
    BY <1>12 DEF Reboot
  <2>2. InQueue(queue') = {}
    BY <2>1, SMT DEF InQueue
  <2> QED
    BY <1>2, <2>1, <2>2, PassedKept
<1> QED
  BY <1>3, <1>4, <1>7, <1>8, <1>9, <1>10, <1>11, <1>12 DEF Next, FinishSend

\* Whatever fails, is retried, evicted (even while it is being sent), saved or
\* lost in between, the values the server acknowledges come in the order in
\* which they were taken, and none twice.
THEOREM QueueIsChannel == Spec => ImplementsChannel
<1>1. Init => Channel!Init
  BY DEF Init, Channel!Init
<1> QED
  BY <1>1, TypeInit, TypeStep, OrderInit, OrderStep, PassedInit, PassedStep, PTL
  DEF Spec, ImplementsChannel, Channel!Spec

=============================================================================
