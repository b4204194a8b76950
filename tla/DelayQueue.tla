------------------------------ MODULE DelayQueue ------------------------------
(***************************************************************************)
(* The delay queue of a controller plugin: ControllerDelayHandlerStruct    *)
(* and the process_cNNN_delay_queue() function its macro generates.        *)
(*                                                                         *)
(* sendData() hands the samples of a task to addToQueue(); a timer of the  *)
(* scheduler (or CPLUGIN_FLUSH) runs process_cNNN_delay_queue(), which     *)
(* tries to send the front element and marks it processed.  A send that    *)
(* waits for the reply of the server runs backgroundtasks(), and a web or  *)
(* UDP request handled there can call sendData() again, before the send    *)
(* returns.                                                                *)
(*                                                                         *)
(* Samples are numbered in the order in which sendData() offers them.  An  *)
(* element carries Values values which are sent one per call (1 for most   *)
(* controllers, up to VARS_PER_TASK for C008, C010, C012 and C015).  Time  *)
(* is left out: QueueTimer models when the queue is processed.             *)
(***************************************************************************)
EXTENDS Integers, Sequences, FiniteSets

CONSTANTS
    MaxSamples,       \* bound: number of samples offered to the queue
    Values,           \* values of one element (valueCount)
    Invalid,          \* Invalid[s]: the values of sample s that are no number
    SettingsChoices,  \* what the user can save as controller settings
    DfltDepth,        \* CONTROLLER_DELAY_QUEUE_DEPTH_DFLT
    DfltRetries,      \* CONTROLLER_DELAY_QUEUE_RETRY_DFLT
    MaxRetries,       \* CONTROLLER_DELAY_QUEUE_RETRY_MAX
    Reentrant         \* TRUE: the reply of the server is waited for

None      == 0
SampleIds == 1..MaxSamples
ValueIds  == 1..Values

\* The part of ControllerSettingsStruct the queue uses.
SettingsType == [depth : Nat, retries : 0..MaxRetries, oldest : BOOLEAN]

ASSUME DelayQueueAssumption ==
    /\ MaxSamples \in Nat
    /\ Values \in Nat \ {0}
    /\ Invalid \in [SampleIds -> SUBSET ValueIds]
    /\ DfltDepth \in Nat \ {0}
    /\ MaxRetries \in Nat
    /\ DfltRetries \in 1..MaxRetries
    /\ SettingsChoices \subseteq SettingsType
    /\ Reentrant \in BOOLEAN

VARIABLES
    queue,       \* sendQueue: the samples in it, front first
    valuesSent,  \* valuesSent of each element
    attempt,     \* failed attempts for the front element
    cfg,         \* max_queue_depth, max_retries, delete_oldest in use
    settings,    \* the controller settings saved in flash
    net,         \* readyToProcess(): the network is connected
    sending,     \* the sample do_process is sending, or None
    offered,     \* number of samples sendData() has offered so far
    passed,      \* history: the <<sample, value>> pairs sent with success
    tries,       \* history: calls of do_process for each sample that left it unfinished
    fate         \* history: how each sample left (or did not enter) the queue

vars == <<queue, valuesSent, attempt, cfg, settings, net, sending, offered,
          passed, tries, fate>>

Fates == {"new", "queued", "refused", "evicted", "exhausted", "sent", "lost"}

InQueue(q) == {q[i] : i \in 1..Len(q)}

-----------------------------------------------------------------------------
\* configureControllerSettings(): zero means "not configured".
Configured(s) ==
    [depth   |-> IF s.depth = 0 THEN DfltDepth ELSE s.depth,
     retries |-> IF s.retries = 0 THEN DfltRetries ELSE s.retries,
     oldest  |-> s.oldest]

\* The constructor of the handler.
DefaultCfg == [depth |-> DfltDepth, retries |-> DfltRetries, oldest |-> FALSE]

\* CPLUGIN_INIT, at boot and after the settings of an enabled controller are
\* saved: most controllers configure their queue (C001 to C008, C016), others
\* keep c until the next call of the process function.
InitCfgs(c, s) == {c, Configured(s)}

Init ==
    /\ queue = <<>>
    /\ valuesSent = [s \in SampleIds |-> 0]
    /\ attempt = 0
    /\ settings \in SettingsChoices
    /\ cfg \in InitCfgs(DefaultCfg, settings)
    /\ net = FALSE
    /\ sending = None
    /\ offered = 0
    /\ passed = {}
    /\ tries = [s \in SampleIds |-> 0]
    /\ fate = [s \in SampleIds |-> "new"]

-----------------------------------------------------------------------------
\* The value do_process sends: the first valid one not sent before; if there
\* is none, the element is done without a connection being made.
Unsent(s) == {v \in ValueIds \ Invalid[s] : v > valuesSent[s]}

\* The set of that one value.
NextValue(s) == {v \in Unsent(s) : \A w \in Unsent(s) : v <= w}

\* Everything runs on one thread: other code runs between two calls of the
\* queue's process function, or inside one, from backgroundtasks(), while it
\* awaits a reply.
OthersRun == sending # None => Reentrant /\ Unsent(sending) # {}

\* sendData() for the next sample.
CanOffer == offered < MaxSamples /\ OthersRun

\* queueFull() also reports a full queue when the heap is low, at any depth.
DepthReached(q) == Len(q) >= cfg.depth

\* Mutant: the new sample is put at the front.
AddInFront ==
    /\ CanOffer
    /\ ~cfg.oldest
    /\ ~DepthReached(queue)
    /\ offered' = offered + 1
    /\ queue' = <<offered'>> \o queue
    /\ fate' = [fate EXCEPT ![offered'] = "queued"]
    /\ UNCHANGED <<valuesSent, attempt, cfg, settings, net, sending, passed,
                   tries>>

\* addToQueue() without delete_oldest; a low heap can refuse any sample.
AddIfRoom ==
    /\ CanOffer
    /\ ~cfg.oldest
    /\ offered' = offered + 1
    /\ \/ /\ ~DepthReached(queue)
          /\ queue' = Append(queue, offered')
          /\ fate' = [fate EXCEPT ![offered'] = "queued"]
       \/ /\ queue' = queue
          /\ fate' = [fate EXCEPT ![offered'] = "refused"]
    /\ UNCHANGED <<valuesSent, attempt, cfg, settings, net, sending, passed,
                   tries>>

\* Mutant: with delete_oldest, the newest queued samples make room.
AddForcedDroppingNewest(k) ==
    LET room == Len(queue) - k
        kept == SubSeq(queue, 1, room) IN
    /\ CanOffer
    /\ cfg.oldest
    /\ ~DepthReached(kept)
    /\ offered' = offered + 1
    /\ queue' = Append(kept, offered')
    /\ fate' = [s \in SampleIds |->
                  IF s = offered' THEN "queued"
                  ELSE IF s \in InQueue(SubSeq(queue, room + 1, Len(queue)))
                    THEN "evicted"
                  ELSE fate[s]]
    /\ UNCHANGED <<valuesSent, attempt, cfg, settings, net, sending, passed,
                   tries>>

\* addToQueue() with delete_oldest: pops k front elements, as many as the
\* depth demands and more while the heap is low, and leaves attempt alone.
AddForced(k) ==
    LET kept == SubSeq(queue, k + 1, Len(queue)) IN
    /\ CanOffer
    /\ cfg.oldest
    /\ ~DepthReached(kept)
    /\ offered' = offered + 1
    /\ queue' = Append(kept, offered')
    /\ fate' = [s \in SampleIds |->
                  IF s = offered' THEN "queued"
                  ELSE IF s \in InQueue(SubSeq(queue, 1, k)) THEN "evicted"
                  ELSE fate[s]]
    /\ UNCHANGED <<valuesSent, attempt, cfg, settings, net, sending, passed,
                   tries>>

AddToQueue == AddIfRoom \/ \E k \in 0..Len(queue) : AddForced(k)

-----------------------------------------------------------------------------
\* Mutant: one attempt too few.
GiveUpEarly == attempt >= cfg.retries

\* Mutant: an element that is never given up on.
NeverGiveUp == FALSE

\* getNext(): give up on the front element when it has used its retries.
GiveUp == attempt > cfg.retries

NextQueue == IF GiveUp THEN Tail(queue) ELSE queue

\* process_cNNN_delay_queue() up to the call of do_process.  It returns early
\* when nothing is left, when the controller settings cannot be allocated,
\* and when the network is not connected.
GetNext ==
    /\ sending = None
    /\ queue # <<>>
    /\ queue' = NextQueue
    /\ attempt' = IF GiveUp THEN 0 ELSE attempt
    /\ fate' = IF GiveUp THEN [fate EXCEPT ![Head(queue)] = "exhausted"]
                         ELSE fate
    /\ UNCHANGED <<valuesSent, settings, net, offered, passed, tries>>

\* Mutant: an element that has used its retries is skipped, but not removed.
ProcessUnlessExhausted ==
    /\ GetNext
    /\ ~GiveUp
    /\ cfg' = Configured(settings)
    /\ sending' = IF net THEN Head(NextQueue) ELSE None

Process ==
    /\ GetNext
    /\ IF NextQueue = <<>>
         THEN UNCHANGED <<cfg, sending>>
         ELSE /\ cfg' = Configured(settings)
              /\ sending' = IF net THEN Head(NextQueue) ELSE None

ProcessNoMemory ==
    /\ GetNext
    /\ NextQueue # <<>>
    /\ UNCHANGED <<cfg, sending>>

-----------------------------------------------------------------------------
\* Mutant: the element is removed whatever do_process returned.
RemoveAlways(done) ==
    IF queue = <<>> THEN UNCHANGED <<queue, attempt, fate>>
    ELSE /\ queue' = Tail(queue)
         /\ attempt' = 0
         /\ fate' = [fate EXCEPT ![Head(queue)] = "sent"]

\* markProcessed()
MarkProcessed(done) ==
    IF queue = <<>> THEN UNCHANGED <<queue, attempt, fate>>
    ELSE IF done
      THEN /\ queue' = Tail(queue)
           /\ attempt' = 0
           /\ fate' = [fate EXCEPT ![Head(queue)] = "sent"]
      ELSE /\ attempt' = attempt + 1
           /\ UNCHANGED <<queue, fate>>

ReturnFromSend ==
    /\ sending # None
    /\ sending' = None
    /\ UNCHANGED <<cfg, settings, net, offered>>

\* No valid value left: checkDone(true) until it returns true.
NothingToSend ==
    /\ ReturnFromSend
    /\ Unsent(sending) = {}
    /\ valuesSent' = [valuesSent EXCEPT ![sending] = Values]
    /\ MarkProcessed(TRUE)
    /\ UNCHANGED <<passed, tries>>

\* The value is sent and checkDone(true) counts it.
SendSucceeds ==
    /\ ReturnFromSend
    /\ sending \in InQueue(queue)
    /\ \E v \in NextValue(sending) :
         /\ valuesSent' = [valuesSent EXCEPT ![sending] = v]
         /\ passed' = passed \cup {<<sending, v>>}
         /\ MarkProcessed(v = Values)
         /\ tries' = IF v = Values
                       THEN tries ELSE [tries EXCEPT ![sending] = @ + 1]

\* No connection, a failed write or no positive reply.
SendFails ==
    /\ ReturnFromSend
    /\ sending \in InQueue(queue)
    /\ Unsent(sending) # {}
    /\ tries' = [tries EXCEPT ![sending] = @ + 1]
    /\ MarkProcessed(FALSE)
    /\ UNCHANGED <<valuesSent, passed>>

\* The element was evicted while it was being sent, and its memory is free:
\* checkDone() counts in whatever is there (possibly an element queued since),
\* and what it returns is arbitrary.
SendReturnsToFreedElement(victim, done) ==
    /\ ReturnFromSend
    /\ sending \notin InQueue(queue)
    /\ \/ \E v \in NextValue(sending) : passed' = passed \cup {<<sending, v>>}
       \/ passed' = passed
    /\ valuesSent' = IF victim = None \/ valuesSent[victim] >= Values
                       THEN valuesSent
                       ELSE [valuesSent EXCEPT ![victim] = @ + 1]
    /\ MarkProcessed(done)
    /\ UNCHANGED tries

FinishSend ==
    \/ NothingToSend
    \/ SendSucceeds
    \/ SendFails
    \/ \E victim \in InQueue(queue) \cup {None}, done \in BOOLEAN :
         SendReturnsToFreedElement(victim, done)

-----------------------------------------------------------------------------
\* The controller page: save, then CPLUGIN_INIT (CPLUGIN_EXIT if disabled).
SaveSettings ==
    /\ OthersRun
    /\ settings' \in SettingsChoices
    /\ cfg' \in InitCfgs(cfg, settings')
    /\ UNCHANGED <<queue, valuesSent, attempt, net, sending, offered, passed,
                   tries, fate>>

NetworkChange ==
    /\ net' = ~net
    /\ UNCHANGED <<queue, valuesSent, attempt, cfg, settings, sending, offered,
                   passed, tries, fate>>

\* A reset: the queue lives in RAM only.
Reboot ==
    /\ queue' = <<>>
    /\ attempt' = 0
    /\ cfg' \in InitCfgs(DefaultCfg, settings)
    /\ net' = FALSE
    /\ sending' = None
    /\ fate' = [s \in SampleIds |->
                  IF s \in InQueue(queue) THEN "lost" ELSE fate[s]]
    /\ UNCHANGED <<valuesSent, settings, offered, passed, tries>>

Next ==
    \/ AddToQueue
    \/ Process
    \/ ProcessNoMemory
    \/ FinishSend
    \/ SaveSettings
    \/ NetworkChange
    \/ Reboot

\* The fall-back timer runs the process function at least every second, and
\* every connect, write and read of a send has a time-out.
Fairness == WF_vars(Process) /\ WF_vars(FinishSend)

Spec == Init /\ [][Next]_vars /\ Fairness

-----------------------------------------------------------------------------
\* Properties

\* The type invariant; attempt stays within max_retries + 1, so the byte that
\* holds it never wraps, whatever settings are saved between two attempts.
TypeOK ==
    /\ queue \in Seq(SampleIds)
    /\ valuesSent \in [SampleIds -> 0..Values]
    /\ attempt \in 0..(MaxRetries + 1)
    /\ cfg \in SettingsType /\ cfg.depth > 0
    /\ settings \in SettingsType
    /\ net \in BOOLEAN
    /\ sending \in SampleIds \cup {None}
    /\ offered \in 0..MaxSamples
    /\ passed \subseteq SampleIds \X ValueIds
    /\ tries \in [SampleIds -> Nat]
    /\ fate \in [SampleIds -> Fates]

\* Samples are queued in the order sendData() offered them, and eviction takes
\* the oldest: no sample older than a queued one is evicted later than it.
OldestFirst ==
    /\ \A i, j \in 1..Len(queue) : i < j => queue[i] < queue[j]
    /\ \A s, t \in SampleIds :
         s < t /\ fate[s] = "queued" => fate[t] # "evicted"

\* The element the reply is awaited for is still the one markProcessed() will
\* remove or count an attempt for.
InFlightIsFront ==
    sending # None => queue # <<>> /\ Head(queue) = sending

\* An element leaves the queue as processed only after each of its valid
\* values was sent with success.
SentIsComplete ==
    \A s \in SampleIds :
        fate[s] = "sent" => \A v \in ValueIds \ Invalid[s] : <<s, v>> \in passed

\* The fewest retries any saved (or the default) settings allow.
FewestRetries ==
    LET Allowed == {Configured(c).retries : c \in SettingsChoices}
                      \cup {DfltRetries}
    IN  CHOOSE r \in Allowed : \A a \in Allowed : r <= a

\* getNext() removes the front element "when max_retries is reached": after
\* max_retries + 1 attempts for this element, not for one queued before it.
GivenUpAfterMaxRetries ==
    \A s \in SampleIds : fate[s] = "exhausted" => tries[s] > FewestRetries

\* What the server is promised, with the queue hidden (see InOrderChannel):
\* the values it gets come in the order they were taken and none twice with
\* success, across failures, retries, evictions and nested calls.
Channel == INSTANCE InOrderChannel WITH got <- passed

ImplementsChannel == Channel!Spec

\* Once the network stays connected no sample stays in the queue for ever,
\* even if every send fails.
QueueDrains ==
    \A s \in SampleIds : (<>[]net) => (fate[s] = "queued" ~> fate[s] # "queued")

=============================================================================
