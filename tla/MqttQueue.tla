------------------------------ MODULE MqttQueue ------------------------------
(***************************************************************************)
(* The MQTT client and its queue of messages.                              *)
(*                                                                         *)
(* Controllers and commands hand messages to MQTTpublish(), a timer of the *)
(* scheduler runs processMQTTdelayQueue(), which publishes the front one,  *)
(* and another runs runPeriodicalMQTT(), which keeps the connection.  The  *)
(* queue is a ControllerDelayHandlerStruct (see DelayQueue), but is not    *)
(* processed by the function the other controllers share, and nothing runs *)
(* while a message is published.                                           *)
(*                                                                         *)
(* Messages are numbered in the order in which they are handed over.  Time *)
(* is left out: runs of the timers come at any time, and settings are      *)
(* saved while messages wait.                                              *)
(***************************************************************************)
EXTENDS Integers, Sequences, FiniteSets

CONSTANTS
    MaxMessages,  \* bound: number of messages
    MaxConnects,  \* bound: number of connections
    MaxResets,    \* bound: number of reboots
    Oversized,    \* messages that do not fit in a packet
    Configs,      \* what configureControllerSettings() makes of any settings
    DefaultCfg,   \* what the constructor of the queue sets
    Threshold     \* Settings.ConnectionFailuresThreshold

Messages == 1..MaxMessages

\* max_queue_depth, max_retries and delete_oldest: zero is replaced by the
\* default.
ConfigType == [depth : Nat \ {0}, retries : Nat \ {0}, oldest : BOOLEAN]

ASSUME MqttQueueAssumption ==
    /\ MaxMessages \in Nat /\ MaxConnects \in Nat /\ MaxResets \in Nat
    /\ Oversized \subseteq Messages
    /\ Configs \subseteq ConfigType /\ DefaultCfg \in Configs
    /\ Threshold \in Nat

VARIABLES
    queue,       \* sendQueue
    attempt,     \* failed attempts for the front message
    cfg,         \* the configuration of the queue in use
    offered,     \* number of messages handed to MQTTpublish() so far
    online,      \* MQTTclient.connected()
    known,       \* MQTTclient_connected
    net,         \* NetworkConnected()
    enabled,     \* there is an enabled MQTT controller
    failures,    \* connectionFailures
    resets,      \* number of reboots
    published,   \* history: messages published with success
    tries,       \* history: failed attempts to publish each waiting message
    netTries,    \* history: those for the front message while net
    gone,        \* history: messages given up
    heirs,       \* history: waiting messages that came to the front with the
                 \* attempts for an evicted one
    connects,    \* history: number of connections to the broker
    announced    \* history: number of events MQTT#Connected

connection == <<online, known, failures, connects, announced>>
messages   == <<queue, attempt, offered, published, tries, netTries, gone,
                heirs>>
vars == <<connection, messages, cfg, net, enabled, resets>>

\* The configurations after a boot, or after the controller page has saved the
\* settings of a controller: CPLUGIN_INIT is called for enabled controllers.
InitCfgs(c, on) == {c} \cup IF on THEN Configs ELSE {}

Init ==
    /\ queue = <<>> /\ attempt = 0 /\ offered = 0
    /\ online = FALSE /\ known = FALSE
    /\ net = FALSE /\ enabled \in BOOLEAN
    /\ cfg \in InitCfgs(DefaultCfg, enabled)
    /\ failures = 0 /\ resets = 0
    /\ published = {} /\ gone = {} /\ heirs = {}
    /\ tries = [m \in Messages |-> 0]
    /\ netTries = 0
    /\ connects = 0 /\ announced = 0

InQueue(q) == {q[i] : i \in 1..Len(q)}

-----------------------------------------------------------------------------
\* One run of processMQTTdelayQueue() on the queue as it is.  s has what the
\* run changes; the connection may break when a message is sent.
State == [queue |-> queue, attempt |-> attempt, published |-> published,
          tries |-> tries, netTries |-> netTries, gone |-> gone,
          heirs |-> heirs, online |-> online, failures |-> failures]

\* getNext(): the front message is given up when it has used its retries.
GetNext(s) ==
    IF s.queue # <<>> /\ s.attempt > cfg.retries
    THEN [s EXCEPT !.queue = Tail(@), !.attempt = 0, !.netTries = 0,
                   !.gone = @ \cup {Head(s.queue)}]
    ELSE s

\* Mutant: the attempts for a message count for the next one as well.
PublishedKeepingCount(s) ==
    [s EXCEPT !.queue = Tail(@), !.netTries = 0,
              !.published = @ \cup {Head(s.queue)},
              !.failures = IF @ > 0 THEN @ - 1 ELSE 0]

\* markProcessed(true)
Published(s) ==
    [s EXCEPT !.queue = Tail(@), !.attempt = 0, !.netTries = 0,
              !.published = @ \cup {Head(s.queue)},
              !.failures = IF @ > 0 THEN @ - 1 ELSE 0]

OneMore(count, m) == [count EXCEPT ![m] = @ + 1]

\* Mutant: attempts count as the comment of CONTROLLER_DELAY_QUEUE_RETRY_MAX
\* says, so that nothing is given up while there is no network.
RefusedUncounted(s, stays) ==
    IF net
    THEN [s EXCEPT !.attempt = @ + 1,
                   !.tries = OneMore(@, Head(s.queue)),
                   !.netTries = @ + 1,
                   !.online = stays]
    ELSE s

\* markProcessed(false): connected or not, the attempt counts.
Refused(s, stays) ==
    [s EXCEPT !.attempt = @ + 1,
              !.tries = OneMore(@, Head(s.queue)),
              !.netTries = IF net THEN @ + 1 ELSE @,
              !.online = stays]

\* The states after one run.
Processed(s) ==
    LET next == GetNext(s) IN
    IF next.queue = <<>> THEN {next}
    ELSE {Refused(next, stays) : stays \in {FALSE, next.online}}
           \cup IF next.online /\ Head(next.queue) \notin Oversized
                THEN {Published(next)} ELSE {}

\* The history of messages that have left the queue is of no more use.
Become(s) ==
    /\ queue' = s.queue /\ attempt' = s.attempt
    /\ published' = s.published /\ gone' = s.gone
    /\ tries' = [m \in Messages |->
                    IF m \in InQueue(s.queue) THEN s.tries[m] ELSE 0]
    /\ netTries' = s.netTries
    /\ heirs' = s.heirs \cap InQueue(s.queue)
    /\ online' = s.online /\ failures' = s.failures

\* TIMER_MQTT_DELAY_QUEUE, and CPLUGIN_FLUSH before a reboot.
ProcessMQTTdelayQueue ==
    /\ \E s \in Processed(State) : Become(s)
    /\ UNCHANGED <<offered, cfg, known, net, enabled, resets,
                   connects, announced>>

\* Mutant: the newest message is published first.
AddedInFront(s, m) == {[s EXCEPT !.queue = <<m>> \o @]}

\* addToQueue() with delete_oldest: k front messages are popped, as many as the
\* depth demands and more while the heap is low, and attempt is left alone.
Evicted(s, k, m) ==
    LET kept == Append(SubSeq(s.queue, k + 1, Len(s.queue)), m) IN
    [s EXCEPT !.queue = kept,
              !.netTries = IF k = 0 THEN @ ELSE 0,
              !.heirs = IF k = 0 \/ s.attempt = 0
                        THEN @ ELSE @ \cup {Head(kept)}]

\* addToQueue(); without delete_oldest a low heap can refuse any message.
AddToQueue(s, m) ==
    IF cfg.oldest
    THEN {Evicted(s, k, m) :
            k \in {i \in 0..Len(s.queue) : Len(s.queue) - i < cfg.depth}}
    ELSE {s} \cup IF Len(s.queue) < cfg.depth
                  THEN {[s EXCEPT !.queue = Append(@, m)]} ELSE {}

\* Mutant: the depth is not looked at.
AddedAnyway(s, m) == {[s EXCEPT !.queue = Append(@, m)]}

\* The states after queueFull() has found room, and the message is added.
AddedIfRoom(s, m) ==
    IF Len(s.queue) < cfg.depth THEN AddToQueue(s, m) ELSE {}

\* MQTTpublish(): if the queue is full, by its depth or for want of heap, it is
\* run once; if it is still full, the message is refused.
MQTTpublish ==
    /\ offered < MaxMessages
    /\ offered' = offered + 1
    /\ \/ \E s \in AddedIfRoom(State, offered') : Become(s)
       \/ \E p \in Processed(State) :
            \E s \in {p} \cup AddedIfRoom(p, offered') : Become(s)
    /\ UNCHANGED <<cfg, known, net, enabled, resets, connects,
                   announced>>

-----------------------------------------------------------------------------
\* The connection.  c has what a run of runPeriodicalMQTT() changes.
Connection == [online |-> online, known |-> known, failures |-> failures,
               connects |-> connects, announced |-> announced]

\* Mutant: a lost connection is not noted.
UpdateOnConnect(c) ==
    IF c.online /\ ~c.known
    THEN [c EXCEPT !.known = TRUE, !.announced = @ + 1]
    ELSE c

\* updateMQTTclient_connected()
Update(c) ==
    IF c.known = c.online THEN c
    ELSE IF c.known THEN [c EXCEPT !.known = FALSE]
    ELSE [c EXCEPT !.known = TRUE, !.announced = @ + 1]

\* count_connection_results(), up to the value that matters.
CountFailure(n) == IF n > Threshold THEN n ELSE n + 1

\* MQTTConnect(), when the broker refuses or does not answer.
ConnectFailed(c) ==
    Update([Update([c EXCEPT !.online = FALSE])
              EXCEPT !.failures = CountFailure(@)])

\* MQTTConnect() with success.  The connection may break again when topics are
\* subscribed, or when the LWT message is published.
Subscribed(c, stays) ==
    LET connected == [Update([c EXCEPT !.online = FALSE])
                        EXCEPT !.online = TRUE, !.connects = @ + 1,
                               !.failures = IF @ > 0 THEN @ - 1 ELSE 0]
    IN  Update([connected EXCEPT !.online = stays])

Connected(c) ==
    LET sub == Subscribed(c, TRUE)
    IN  {sub, Subscribed(c, FALSE), [sub EXCEPT !.online = FALSE]}

\* runPeriodicalMQTT(), by TIMER_MQTT and before a reboot.  MQTTCheck() is only
\* called when MQTTclient.loop() has found no connection; it does nothing when
\* there is no memory, no host configured, or the host cannot be reached.
Periodical(c) ==
    LET noted == Update(c) IN
    IF ~net THEN {noted}
    ELSE IF ~enabled
      THEN {IF c.online THEN Update([c EXCEPT !.online = FALSE]) ELSE c}
    ELSE IF c.online THEN {c}
    ELSE {noted, ConnectFailed(noted)}
           \cup IF c.connects < MaxConnects
                THEN {Update(d) : d \in Connected(noted)} ELSE {}

RunPeriodicalMQTT ==
    /\ \E c \in Periodical(Connection) :
         /\ online' = c.online /\ known' = c.known /\ failures' = c.failures
         /\ connects' = c.connects /\ announced' = c.announced
    /\ UNCHANGED <<messages, cfg, net, enabled, resets>>

\* The broker or the network closes the connection, or a ping stays unanswered.
ConnectionLost ==
    /\ online
    /\ online' = FALSE
    /\ UNCHANGED <<known, failures, connects, announced,
                   messages, cfg, net, enabled, resets>>

\* processGotIP()
GotIP ==
    /\ ~net
    /\ net' = TRUE
    /\ UNCHANGED <<connection, messages, cfg, enabled, resets>>

NetworkLost ==
    /\ net
    /\ net' = FALSE
    /\ UNCHANGED <<connection, messages, cfg, enabled, resets>>

\* The configuration page, when the name of the unit is changed:
\* MQTTDisconnect() if the controllers could tell the broker.
SaveName ==
    /\ LET c == Update([Connection EXCEPT !.online = FALSE])
       IN  online' = c.online /\ known' = c.known
    /\ UNCHANGED <<failures, connects, announced, messages, cfg, net, enabled,
                   resets>>

\* The controller page saves settings, with messages waiting; commands enable
\* and disable a controller and leave the queue as it is.
SaveController ==
    /\ enabled' \in BOOLEAN
    /\ cfg' \in InitCfgs(cfg, enabled')
    /\ UNCHANGED <<connection, messages, net, resets>>

\* runOncePerSecond(), too many failures, or any other reset: what is queued is
\* lost, unless runs before have published it.
Reboot ==
    /\ resets < MaxResets
    /\ resets' = resets + 1
    /\ queue' = <<>> /\ attempt' = 0 /\ netTries' = 0 /\ heirs' = {}
    /\ tries' = [m \in Messages |-> 0]
    /\ online' = FALSE /\ known' = FALSE
    /\ net' = FALSE /\ failures' = 0
    /\ cfg' \in InitCfgs(DefaultCfg, enabled)
    /\ UNCHANGED <<offered, published, gone, enabled, connects, announced>>

Next ==
    \/ MQTTpublish \/ ProcessMQTTdelayQueue
    \/ RunPeriodicalMQTT
    \/ ConnectionLost \/ GotIP \/ NetworkLost
    \/ SaveName \/ SaveController
    \/ Reboot

\* The two timers of the scheduler are set again each time they have run.
Fairness == WF_vars(ProcessMQTTdelayQueue) /\ WF_vars(RunPeriodicalMQTT)

Spec == Init /\ [][Next]_vars /\ Fairness

-----------------------------------------------------------------------------
\* The type invariant, with the bounds of the queue, whatever settings are
\* saved while messages wait: queueFull() and getNext() compare with the
\* settings in use, and what was queued or tried before under others stays.
TypeOK ==
    /\ queue \in Seq(Messages)
    /\ \E c \in Configs : Len(queue) <= c.depth
    /\ attempt \in Nat
    /\ \E c \in Configs : attempt <= c.retries + 1
    /\ cfg \in Configs
    /\ offered \in 0..MaxMessages
    /\ online \in BOOLEAN /\ known \in BOOLEAN
    /\ net \in BOOLEAN /\ enabled \in BOOLEAN
    /\ failures \in 0..(Threshold + 1)
    /\ resets \in 0..MaxResets
    /\ published \subseteq Messages /\ gone \subseteq Messages
    /\ heirs \subseteq Messages
    /\ tries \in [Messages -> Nat] /\ netTries \in Nat
    /\ connects \in 0..MaxConnects /\ announced \in Nat

\* A message is given up when as many attempts for this message have failed as
\* the settings in use allow, whatever happened to those before it and whatever
\* settings were in use then.  Only what eviction has brought to the front may
\* be given up earlier: attempt goes on counting there.
GivenUpAfterRetries ==
    [][\A m \in gone' \ gone : tries[m] > cfg.retries \/ m \in heirs]_vars

\* What the comment of CONTROLLER_DELAY_QUEUE_RETRY_MAX says: "Retries without
\* a connection to wifi do not count as retry."
KeptWhileOffline == [][gone' # gone => netTries > cfg.retries]_vars

\* Rules get the event MQTT#Connected in the step that makes a connection and
\* for no other reason, at most once for each; and a connection that lasts
\* until MQTTConnect() has returned was announced, whoever found out that the
\* one before it was lost, or nobody.
AnnouncedOnce ==
    [][/\ announced' - announced \in 0..(connects' - connects)
       /\ online' /\ ~online => announced' = announced + 1]_vars

\* The broker gets messages in the order in which they were handed over, and
\* none of them twice.
Channel ==
    INSTANCE InOrderChannel
    WITH MaxSamples <- MaxMessages, Values <- 1, got <- published \X {1}

ImplementsChannel == Channel!Spec

\* No message blocks the queue for ever: not one that does not fit in a packet,
\* nor one that waits for a connection that never comes.
QueueDrains ==
    \A m \in Messages : m \in InQueue(queue) ~> m \notin InQueue(queue)

\* While a controller is enabled, MQTTclient_connected follows the connection.
\* (If the controller is disabled when the connection breaks, it does not.)
LossIsNoted == <>[]enabled => (known /\ ~online ~> ~known \/ online)

=============================================================================
