# ESPEasy: specifications, model checks and proofs

ESPEasy is firmware for ESP8266 and ESP32 boards. Tasks read sensors through
plugins, controllers send the values to servers, rules react to events, and a
web server configures it all. There is one thread: `loop()` calls a scheduler
that runs one timer at a time, and whoever waits in a handler calls
`backgroundtasks()`, which serves web, UDP and serial requests in the middle of
it. Callbacks of the WiFi SDK run whenever the loop waits. Time is `millis()`,
32 bits that wrap after 49.7 days. What is hard in this code is not parallelism
but *reentrancy*, *stale state across a wait*, *timers on a clock that wraps*,
*queues at their limit with settings that change*, *events that are lost or
overtake each other* and *resets at any moment*. This directory models those
parts in TLA+, checks small instances with TLC and proves some of the results
with TLAPS.

All source paths below are relative to `src/src/` unless they start with `docs/`
(the repository's own `docs/`).

## 1. Inventory

| Component | State it keeps | Operations | Interacts with | What is hard | What makes it correct | Module |
|---|---|---|---|---|---|---|
| Controller delay queue (`src/ControllerQueue/`, one instance per HTTP/TCP/UDP controller) | list of elements, `attempt`, `lastSend`, limits | `addToQueue`, `getNext`, `markProcessed`, the generated `process_cNNN_delay_queue` | `sendData()` adds; a timer processes; `do_process` talks to the server and runs background tasks | nested calls, eviction, retries, several values per element, settings changed meanwhile | what is removed was sent, what is evicted is oldest, retries count per element, nothing is stuck | `DelayQueue` |
| Timer of the queue (`getNextScheduleTime`, `scheduleNextDelayQueue`, `setIntervalTimer`) | one timer per queue | set after add and after send; fall-back before each run | scheduler | the clock wraps; two setters | minimum interval kept, queue is served in time | `QueueTimer` |
| Time arithmetic (`src/Helpers/ESPEasy_time_calc.cpp`) | none | `timeDiff`, `timePassedSince`, `timeOutReached`, `setNextTimeInterval` | everything | overflow, half range | measures what has passed, intervals neither burst nor stall | `TimeCalc` |
| Scheduler (`Scheduler.ino`, `src/Helpers/msecTimerHandlerStruct.cpp`) | ordered list of timers, system event queue, time of the last event | `handle_schedule`, `setNewTimerAt`, handlers per type | tasks, jobs, plugins, GPIO, events | order under a wrapping clock; chains of timers; events against timers | one timer per id, in order; no chain breaks; nothing starves | `Scheduler` |
| Tasks (`Misc.ino`, `src/Commands/Tasks.cpp`, `WebServer_DevicesPage.ino`) | settings per task | save, clear, enable, disable | scheduler, plugins | commands and forms in the middle of a handler | an enabled task is read, a disabled one is not | `Scheduler` |
| Controllers (`_C0xx.ino`, `Controller.ino`) | settings, connection | `sendData`, `do_process_...` | queue, network | outcome of an attempt | see queue | `DelayQueue` |
| MQTT client and queue (`Controller.ino`, `ESPEasy.ino`) | flags of the connection, queue, count of failures | connect, publish, process queue, notice changes | scheduler, rules, network | connections that break in the middle of connecting; messages without a connection; settings saved and heap that falls while messages wait | messages in order and once, attempts their own, events only for connections and at most one for each | `MqttQueue` |
| RTC memory and controller cache (`ESPEasyRTC.ino`, `_C016.ino`) | metadata and data with checksums, files | write, flush, load at boot, read back | file system | a reset between any two writes | samples survive a reset, once | `RtcCache` |
| Rules engine (`ESPEasyRules.ino`, `src/DataStructs/EventQueue.cpp`) | arrays of conditions and branches, nesting level, event queue | parse a line, match an event, run commands | commands, events | nesting limits, uninitialised arrays, recursion through commands and background tasks | the branch that is executed is the right one; the level comes back | `RuleBlocks`, `RuleEvents` |
| Rule timers (`src/Commands/Timer.cpp`, `rulesTimers()`) | per timer: time stamp, interval, paused | set, pause, resume, expire | rules | rules run in the middle of a command, for the same timer too; the clock wraps | the time left is kept, each timer fires once and not early | `RuleEvents` |
| WiFi events (`ESPEasyWiFiEvent.cpp`, `ESPEasyWifi_ProcessEvent.cpp`, `ESPEasyWifi.cpp`) | flags set by callbacks, status bits | callbacks; processing in the main loop | network users | the order of events is lost, events are missed | the status follows the connection, the unit reconnects | `WiFiEvents` |
| Boot (`ESPEasy.ino`, `ESPEasyStorage.ino`) | counters in RTC memory, settings left out | setup, loop | everything | crash loops, restarts in between, a byte that wraps | what crashes the unit is found and left out, and nothing else | `BootGuard` |
| Plugin and GPIO timers (`Scheduler.ino`) | a map from key to timer data | set, expire | plugins, list of timers | shared keys, two structures | each timer reaches its task | - |
| P2P network (`Networking.ino`, `_C013.ino`) | nodes with ages | send, receive | tasks of other units | lost datagrams | an old node disappears | - |
| Settings storage (`ESPEasyStorage.ino`) | files, one `ExtraTaskSettings` buffer | load, save | all | the buffer is shared | the buffer holds the task it is used for | - |
| Plugins, web pages, time zones, formulas, logging, notifications, GPIO | own data | - | - | hardware, text | see 7 | - |

Components are composed through what they share. `QueueTimer`, `Scheduler` and
`RuleEvents` extend `TimeCalc`, as the code calls its functions. `DelayQueue` and
`MqttQueue` implement the same promise, `InOrderChannel`. The network is an input
of both queues, of `QueueTimer` and of `BootGuard` (`net`): any sequence of
connections and losses, of which what `WiFiEvents` does is one.

## 2. Modules

| Module | Models | Abstract or detailed |
|---|---|---|
| `InOrderChannel` | what a server is promised by a queue | abstract |
| `DelayQueue` | the queue of one controller, without time | implements `InOrderChannel` |
| `MqttQueue` | the MQTT client and its queue, without time | implements `InOrderChannel` |
| `TimeCalc` | the arithmetic of `millis()`, for every word size (`HalfMax`) | used by all timed modules |
| `QueueTimer` | when the queue of one controller is processed | uses `TimeCalc` |
| `Alarms` | what is promised to whoever sets a timer | abstract |
| `Scheduler` | `handle_schedule()` with jobs, tasks and events | implements `Alarms`, uses `TimeCalc` |
| `RtcCache` | the cache of controller C016 in RTC memory and files | |
| `Conditionals` | what `if`, `elseif`, `else` and `endif` mean | abstract |
| `RuleBlocks` | the interpreter of one file of rules | implements `Conditionals` |
| `Countdowns` | what the timers of rules promise | abstract |
| `RuleEvents` | events, nested calls of the interpreter, timers of rules | implements `Countdowns`, uses `TimeCalc` |
| `WiFiEvents` | callbacks and main loop of the WiFi connection | |
| `BootGuard` | the search for what crashes the unit | |
| `DelayQueueProofs`, `MqttQueueProofs`, `QueueTimerProofs`, `SchedulerProofs`, `RtcCacheProofs`, `RulesProofs`, `WiFiEventsProofs`, `BootGuardProofs` | theorems about the module of that name; `RulesProofs` has those about `RuleBlocks` and `RuleEvents`, `QueueTimerProofs` those about `TimeCalc` | |
| `MCDelayQueue`, `MCMqttQueue`, `MCQueueTimer`, `MCScheduler`, `MCBootGuard` | values of constants for TLC | |

An operator whose comment begins with "Mutant" is a plausible mistake in the
definition that follows it. It is used by nothing; put in the place of that
definition it makes TLC report the property named in `PROJECT.json`, which shows
that the property depends on the code.

### DelayQueue

`queue` is `sendQueue` with the samples numbered as `sendData()` offers them,
`attempt` is the counter of failures, `cfg` the limits in use, `settings` what
the user has saved, `net` whether `readyToProcess()` says yes, `sending` the
element `do_process` holds a reference to. `passed`, `tries` and `fate` are
history.

| Action | Code |
|---|---|
| `AddIfRoom`, `AddForced` | `addToQueue()` without and with `delete_oldest`; low heap is a free choice |
| `Process`, `ProcessNoMemory` | `process_cNNN_delay_queue()` up to `do_process`: `getNext()` with its give-up, allocation of the settings, `configureControllerSettings()`, `readyToProcess()` |
| `SendSucceeds`, `SendFails`, `NothingToSend` | `do_process` returns, `checkDone()` counts values, `markProcessed()` |
| `SendReturnsToFreedElement` | the same after the element was evicted: it reads and writes freed memory, so what it counts and returns is arbitrary |
| `SaveSettings` | controller page and `CPLUGIN_INIT`; which controllers configure their queue there is a choice |
| `NetworkChange`, `Reboot` | the network, a reset |

While `sending` is not `None` other actions run only if the controller waits for
a reply (`Reentrant`), because only then `backgroundtasks()` is called.

### QueueTimer

`timer` is the entry of `TIMER_CNNN_DELAY_QUEUE` in the scheduler. The handler
first sets the fall-back interval (`FallbackTimer`) and then either finds the
queue empty, cannot send, or sends; after each of these and after each addition
`Schedule` is `scheduleNextDelayQueue(getNextScheduleTime())`. `elapsed` and
`busy` are history and measure real time, unlike `now` and `lastSend`.

### Scheduler

`timers` is the list `_timer_ids` in its order. `Insert` is
`msecTimerHandlerStruct::insert()`: the old timer of the id goes (`Without`), the
new one is put in front and the list is sorted by a comparison relative to the
present. The sort is stable and the others are in order already, so that the new
timer comes to stand before the first that is no later; `InOrder` says that they
are. `ScheduleAll` is the loop over the tasks that `PluginInit()` and the MQTT
connection share; tasks are the numbers up to `TasksMax`, since the loop goes in
their order.
A pass begins with `StartJob`, `StartTask` or `StartIdle` (what
`handle_schedule()` chooses; the next run is set before the handler's work) and
ends with `FinishTimer` or `FinishIdle`; between them time passes and the
actions of handlers and requests happen: `SaveTask`, `ClearTask`, `EnableTask`,
`DisableTask`, `RequestRead`, `ConnectMQTT`, `Override`, `PostEvent`. The
waiting in `getNextId()` is `Tick` with `serving = Nobody`. `DisableTask` changes
nothing, which is what the code does (see 6).

### MqttQueue

`queue` and `attempt` are those of the queue of messages, `cfg` is its
configuration in use: depth, retries and full queue action. `online` is what the
client says, `known` is `MQTTclient_connected`, what the code last noticed of it.
`tries`, `netTries`, `published`, `gone`, `heirs`, `connects` and `announced` are
history; `heirs` has the messages that eviction has brought to the front with the
attempts of another one, and `connects` counts every connection the broker has
accepted.

| Action | Code |
|---|---|
| `MQTTpublish` | `MQTTpublish()`: `AddedIfRoom` is the check of `MQTT_queueFull()`, which processes a full queue first, and `AddToQueue` is `addToQueue()` after it. Low heap is a free choice in both: a queue may be full at any length, and heap may fall between the two, so that `addToQueue()` refuses the message or evicts from the front (`Evicted`) |
| `ProcessMQTTdelayQueue` | `processMQTTdelayQueue()`: give up, publish, count |
| `RunPeriodicalMQTT` | `runPeriodicalMQTT()` with `MQTTCheck()`, `MQTTConnect()` and each point in it where the connection may break, and `updateMQTTclient_connected()` where it is called |
| `ConnectionLost`, `GotIP`, `NetworkLost` | broker and network |
| `SaveName` | `MQTTDisconnect()`, which the configuration page calls |
| `SaveController` | the controller page, which enables and disables controllers and, by `CPLUGIN_INIT`, gives the queue another configuration while messages wait |
| `Reboot` | a reset; the configuration is that of the constructor, or of `CPLUGIN_INIT` |

Nothing runs while a message is published, so that a run is one step. As in
`DelayQueue`, the model stops where `delete_oldest` would pop from an empty list.

Two flags of the code are left out, since nothing the model has depends on them.
`MQTTCheck()` is called only when the client is not connected. So it always calls
`MQTTConnect()` for a controller that is set (`Controller.ino:293`), whatever
`MQTTclient_should_reconnect` says: that flag decides about a line of the log and
whether controllers publish what they know when the connection is made, which is
`MQTTpublish()` at one of the moments when it may come anyway. And the second try
for the LWT message (`Controller.ino:301-313`), which reads
`MQTTclient_must_send_LWT_connected`, is never reached.

### RtcCache

`buf` and `pos` are `RTC_cache_data` and `writePos`, `meta` and `data` the two
parts of RTC memory, `files` and `fw` the file system and the open file, and
`step` is how far `write()` has come. `accepted`, `gone`, `lost` and `settled`
are history.

| Action | Code |
|---|---|
| `Write`, `Store` | `write()` up to the flush, and the sample put in the buffer |
| `SaveMeta`, `SaveData` | the two writes of `saveRTCcache()`, of the changed cells or of all |
| `Flush`, `FlushFails` | `prepareFileForWrite()`: keep the open file, or find, make room for and open the next one |
| `WriteFile`, `WriteFileFails`, `Clear` | the rest of `flush()`, with partial writes |
| `DeleteCache` | the file list page |
| `Reset`, `PowerFailure` | the constructor after a reset at any step; it can open files, and delete old ones |

A sample is one cell (24 bytes in the code). A checksum is modelled by what it
was computed of, so that it never fits by chance; RTC memory after a power
failure is one value that is nobody's sample (`Junk`), or zeros. Writing RTC
memory does not fail, deleting a file does not fail, and the 16-bit file numbers
do not run out. ESP32 has no RTC cache (`saveRTCcache()` returns false there).
If the file system is full at a cold boot, the buffer is never allocated and the
first sample is written to element 0 of an empty vector: the model stops there
(`allocated`), as the unit does.

### RuleBlocks

The variables are those of `rulesProcessingFile()`: `match`, `codeBlock`, the two
uninitialised arrays `condition` and `ifBranche`, `ifBlock` and `fakeIfBlock`. An
action is a line of the file; any line may follow any other.

| Action | Code |
|---|---|
| `OnBlock`, `OnLine`, `Outside`, `Endon` | `parseCompleteNonCommentLine()` |
| `InBlock` with `If`, `Elseif`, `Else`, `Endif`, `NoIfs` | `processMatchedRule()`; an `else` without `if` writes before the array |
| `NextFile` | the end of the file; the next one begins with arrays of any content |

`Conditionals` keeps one state per open `if` (waiting, active, done, ...) and runs
a command if all of them are active; the code looks at one array element and a
counter. The mapping is `Branch`.

### RuleEvents

`frames` is the stack of calls of `rulesProcessing()`. A frame has the files that
are still to be read and whether one is open, the commands that are left, whether
the background tasks run in it, and what the caller does when the call returns
(`then`): this is where `TimerPause` and `TimerResume` write to the timer what
they have read before. `timestamp`, `interval` and `paused` are `RulesTimer`,
`waiting` is the length of `eventQueue`, `level` is `nestingLevel`, `scan` the loop
of `rulesTimers()`. `meddled` and `ordered` are history: the timers that had
commands in the middle of their own pause or resumption, and what the last step
has set a timer to.

| Action | Code |
|---|---|
| `Call` (in several actions) | the call of `rulesProcessing()`, for an event with rules in some files, or none |
| `OpenFile`, `CloseFile` | `rulesProcessingFile()`: refused beyond the limit of nesting, opened, or failing to open, where the level is not taken back; and its end. One file may fail and the next be opened |
| `RunLine` with `TimerSet`, `TimerPause`, `TimerResume`, `Event`, `AsyncEvent` | commands of rules |
| `BackgroundCommand` | commands from the web or the serial line in `backgroundtasks()`, after each line, in a `Delay`, and at the end of every `rulesProcessing()`, a refused one included; the background tasks do nothing when they are being run already |
| `OtherCommand` | the same from the main loop |
| `EndOfRules` | `rulesProcessing()` returns; `Return` is the rest of the caller |
| `ProcessNextEvent`, `RulesTimers`, `ScanTimer` | the main loop |
| `Tick` | `millis()`, also while rules run |

`Countdowns` has the timers as they look from outside: which timer has fired and
has its rules run (`firing`), and which was ordered (`ordered`), can be observed,
so that a timer cannot fire early, twice, or stop without a reason. Two things
that the code does are part of it: a timer that would end when `millis()` is 0 is
lost (`Start`), and commands for a timer in the middle of its own pause or
resumption are overwritten (`Meddle`): it is paused or resumed all the same, or
stays off if it was to be paused and was cleared.

### WiFiEvents

The ESP8266 build. `pending` has the events that a callback has reported and the
loop has not processed (`processedConnect` and so on are FALSE), `status` the
flags of `wifiStatus`, `link` what the SDK knows, `loc` where the loop is. Note
that the code's "services initialised" is a flag of its own (4, not 1|2 as the
comment at `ESPEasyWifi.cpp:22-25` has it), which replaces the other two.

| Action | Code |
|---|---|
| `Associate`, `GetIP`, `NewAddress`, `DHCPTimeout`, `LinkLost`, `LateDisconnect` | the station and its callbacks (`onConnected()`, `onGotIP()`, `onDHCPTimeout()`, `onDisconnect()`); a callback may be missed |
| `StartPass`, `ProcessDisconnect`, `DisconnectDone`, `OffDone`, `ConnectDone`, `TimeoutDone` | `handle_unprocessedWiFiEvents()`, cut where it waits: callbacks come there |
| `ProcessIP`, `WaitForNetwork`, `GotIPDone` | `processGotIP()`, which waits for the network when the time comes from a server (`NetworkConnected(10)` in `getNtpTime()`): callbacks come there, with both flags set |
| `CheckNetwork` | `WiFiConnected()` with `resetWiFi()` |
| `Timeout` | the time after which an attempt may be repeated |
| `WifiConnect`, `WifiDisconnect` | the commands |
| `ApClient`, `ApClientLeaves` | stations on the access point of the unit |

Assumed of the SDK, from how the code uses it: `WiFi.begin()` does nothing when
the station is connected or connecting; the callback for a connection that the
program has ended comes within the delay of `setWifiMode(WIFI_OFF)`. With a
static address the services may be marked for a while after the link was lost,
until the next check.

### BootGuard

`failed` and `boots` are `RTC.bootFailedCount` and `RTC.bootCounter`, `flash` and
`ram` the enabled items in the file and in `Settings`, `wd` counts the half
minutes after which a boot is taken for a success. `row` is history.

| Action | Code |
|---|---|
| `Boot` with `CountBoot`, `Searching`, `LeaveOut` | `setup()` up to the plugins; a new build saves the settings that were loaded |
| `CrashInSetup`, `SetupDone` | `CPluginInit()`, `NPluginInit()`, `PluginInit()` |
| `Loop`, `RunEach30Seconds`, `CrashInLoop`, `NetworkChange` | `loop()` |
| `Restart`, `PowerFailure`, `Upgrade`, `SavePage`, `ClearRTC` | a reboot or deep sleep, the power, a new build, a page, a command |

## 3. Runs

| Run | Question | Bounds |
|---|---|---|
| `delay_queue_ignore_new` | Is an element sent before it is removed, and are attempts its own? | 3 samples of 2 values, some invalid; depths 0 ("default", 2) and 1, retries 0 and 2: a full queue, a shrinking depth, a value skipped, two failures and the give-up all happen |
| `delay_queue_delete_oldest` | Order, eviction, liveness and the channel, with the action switched at any time | 3 samples of 2 values, depths 1 and 2, 1 retry: an element is evicted in flight and its successors are sent |
| `queue_timer` | Spacing and timeliness on a wrapping clock | clock of 16, intervals 1 and 3 around the fall-back 2, calls up to 2 late, up to 6 (one less than half the range) idle |
| `scheduler` | Order, chains, starvation and the abstract alarms | clock of 10, a job, a job that others restart, a task with interval 0 or 2, two events, handlers of up to 1, timers up to 2 late |
| `rtc_cache` | What do RTC memory and the files hold, and what does a reset load | buffer of 2, files of 3, 9 samples, 3 files, 2 resets: three files fill, the oldest is deleted, and flushes fail half-way. It may stop, since history is bounded |
| `mqtt_queue` | Order, retries, announcements and progress while everything breaks and settings change | 3 messages, the second too large for a packet; two configurations, depth 1 with 2 retries and "ignore new", depth 2 with 1 retry and "delete oldest"; 2 connections, 1 reboot, threshold 0 (the count of failures is capped above it): a message is refused, evicted, given up, given up early and published, the queue is longer and the front tried more often than the configuration in use allows, and a connection is lost and made again |
| `rule_blocks` | Is the interpreter of rules right for any file | the code's limit of 4 nested `if`s, 3 more within them; every outcome of conditions. There is no other bound: files of any length |
| `rule_events` | Nesting, countdowns, and that timers fire | clock of 4, 2 timers set to 1 or cleared, nesting of 1 (3 in the code), 1 file (4), 1 command per event, 1 event in the queue, 1 failure to open the rules, `rulesTimers()` up to 1 late: rules run in the middle of a pause and meddle with the timer they are for, are refused, run commands from the background tasks after that, and the level stays up. More of one bound at a time was checked with less of another: nesting of 2 on a clock of 6 with one timer, and 2 files with nesting of 2 |
| `wifi_events` | Does the status follow the connection, and does the unit reconnect | 4 disturbances (losses, new addresses, timeouts, clients, commands) and 2 missed callbacks, at any moment: two events overtake each other, twice |
| `boot_guard` | What a boot leaves out, and that the culprit is found | 2 tasks, a controller, a notification, every set of them enabled, one defect or both tasks broken, a limit of 1 (10), a byte of 6 values (256): the search passes each item and the byte wraps |
| `mqtt_offline` | finding: attempts without a connection count | 2 messages, depth 1, 2 retries |
| `wifi_retry` | finding: no attempt after an address that cannot be processed | one disturbance, no missed callback |

What the passing runs show:

* `InFlightIsFront`, `SentIsComplete`: with "ignore new", no nesting, setting or
  network change makes `markProcessed()` hit another element than the one sent,
  and no value is skipped. With "delete oldest" neither holds (see 6).
* `GivenUpAfterMaxRetries`: an element that is dropped had its attempts, with
  the same restriction, and by the fewest retries of any settings in use.
* `OldestFirst`: older goes first, however the two full queue actions alternate
  and the depth changes.
* `ImplementsChannel`: the server sees values in order, none acknowledged twice,
  even when elements are freed while they are sent; the broker likewise
  (`MqttQueue`), with queues processed from inside `MQTTpublish()` and reboots.
* `QueueDrains`: if the network stays, each sample leaves the queue, even if
  every attempt fails; a message of the MQTT queue leaves it in any case.
* `ServedInTime`, `SpacedAfterSuccess`, `QueueIsServed`: the next element is sent
  not before its interval, is scheduled not later, and is processed.
* `InOrder`: the list stays sorted as time passes although its order depends on
  the time of sorting; `ImplementsAlarms`: every alarm goes off once, in order,
  not early, and moving one does not lose another.
* `NobodyForgotten`: an enabled task with an interval is in the list at any
  moment, whatever happened in the middle of its own read.
* `JobsWithinStep`, `EventsNotStarved`, `JobsRun`: jobs are never put off by more
  than their interval, events wait no longer than 500 msec and two handlers, and
  jobs run for ever.
* `LoadedIsGenuine`, `RestIsRecoverable`: the two checksums never let a half-done
  save through, and outside a save a reset loads the whole buffer, once each
  cell was saved since the power came on. `LossNeedsTornSave`: a reset takes
  samples only in the middle of a save or before that.
* `NoSampleForgotten`, `OlderIsRepeated`: across failed and partial writes,
  deleted files and resets in the middle of a flush, samples stay, in order
  except for repetitions of what an interrupted flush had already written.
* `GivenUpAfterRetries`, `TypeOK` (`MqttQueue`): a message is given up when more
  of its own attempts have failed than the settings in use allow, whatever was
  saved while it waited. Only a message that eviction has brought to the front
  may be given up earlier, for the attempts of the one evicted. The queue is no
  longer than some of the settings allow, which may not be those in use.
* `AnnouncedOnce`, `LossIsNoted` (`MqttQueue`): rules get `MQTT#Connected` only for
  a connection, at most once for each, and for each that is there when
  `MQTTConnect()` has returned; one that breaks in `subscribe()` before
  `updateMQTTclient_connected()` (`Controller.ino:211-216`) gets none. The event is
  sent only if rules are enabled. While a controller is enabled
  `MQTTclient_connected` does not go on saying that a lost connection is there;
  if the controller is disabled when the connection breaks, it does.
* `OuterBranchesTaken`, `ImplementsConditionals`: looking at the innermost `if` is
  enough, and what runs is what the lines mean, for well-formed files or not.
* `LevelIsNesting`, `TypeOK` (`RuleEvents`): the level of nesting comes back from
  refused, empty and nested files, whatever commands run between, and what is
  above that is failures to open a file, where it is not taken back
  (`ESPEasyRules.ino:182`): after three of these no event is processed until the
  unit restarts, which is what the code does and no property forbids. Calls are
  nested two deeper than the limit: the background tasks at the end of a refused
  call may call once more, and only once.
* `ImplementsCountdowns`, `TimersFire`: rule timers are countdowns, paused from the
  moment `TimerPause` reads the time left, with rules that pause, resume, set and
  clear timers in the middle of each other, and of themselves; they fire once,
  not early, and are not missed. Times are up to half the range of the clock: one
  of more than 24.8 days has passed already. How late a timer fires is `MaxLate`,
  a bound and no result.
* `ServicesNeedLink`, `ReconnectsUnlessStale` (`WiFiEvents`): services are marked
  only over a connection, or one whose loss is still to be processed; and when
  nothing disturbs it any more the unit gets connected, unless an address that
  cannot be processed is in the way (see 6).
* `AtMostOneLeftOut`, `FoundInTime`, `SearchEnds` (`BootGuard`): a boot leaves out
  one item at most; a single item that crashes `setup()` is left out before the
  byte has gone round; and the unit is up again and again. The bound is the byte
  because a restart before the network connects counts as a failed boot and leads
  the search past the culprit. What follows from the same code and is no
  property: the item is not remembered, so that it is left out of that boot only;
  a build written during the search saves the settings without it; an item that
  crashes the unit after the network is connected is never looked for, and two
  items never found.

The bounds are small because the effects are local: a property of two elements
and the one in flight needs three samples; a comparison of two time stamps
relative to the present needs a clock a few times the longest interval; the
wrap happens many times in each run. Each bound is a named constant
(`MaxSamples`, `MaxMessages`, `MaxConnects`, `MaxIdle`, `MaxLate`, `MaxBusy`,
`MaxWait`, `MaxEvents`, `MaxFiles`, `MaxResets`, `MaxFake`, `MaxLines`, `MaxQueue`,
`MaxFailures`, `MaxFaults`, `MaxMissed`); `Limit`, `Bytes`, `MaxIf`, `MaxNesting` and
`HalfMax` are parameters of the code with smaller values. The history variables
`row` and `failures` are capped where a larger value changes nothing.
`MaxLate` and `MaxBusy` are also assumptions about load: see the hazard on
`process_task_device_timer()`, which counts the next read from the last one, so
that a task slower than its own interval starves the timers behind it.

## 4. Fairness

* `DelayQueue`: weak fairness of `Process` (the fall-back timer runs the process
  function every second, `Scheduler.ino:206-226`) and of `FinishSend` (connect,
  write and read have time-outs). No fairness for success, memory or network;
  `QueueDrains` assumes that the network stays.
* `QueueTimer`: weak fairness of time, of the run of the timer and of the return
  of `do_process`; strong fairness of `StartSend` says that the allocation of the
  settings does not fail for ever.
* `Scheduler`: weak fairness of passes and returns (`loop()` never stops), strong
  fairness of `Tick`: no millisecond has room for infinitely many passes.
* `MqttQueue`: weak fairness of the two timers, which the scheduler sets again
  each time they run. None for the network, the broker, or success.
* `RuleEvents`: weak fairness of `ReadRules`, which opens, closes and returns from
  files (rules are finite; commands may come or not), of the loop of
  `rulesTimers()` and of time; strong fairness of `RulesTimers`, which the
  scheduler runs every second whatever commands come between.
* `WiFiEvents`: weak fairness of the loop; strong fairness of `Timeout`, which is
  possible only between two passes; weak fairness of what the SDK does when
  nothing disturbs it (the station associates, gets an address, reports the end
  of a connection) and of clients leaving the access point.
* `BootGuard`: weak fairness of the processor: it boots, and it crashes or goes on.
  None for `Loop`, `Restart` or the power.

## 5. Proofs

| Theorem | Says | Argument |
|---|---|---|
| `TypeCorrect` (`DelayQueueProofs`) | `Spec => []TypeOK`, for all depths, retries, values and settings | inductive `TypeInv`: `TypeOK` and that the element in flight implies a non-empty history; `attempt` needs `getNext()` before each attempt |
| `EvictionIsOldestFirst` | `Spec => []OldestFirst` | inductive `OrderInv`: the queue is increasing and below `offered`; what is evicted is smaller than what is queued; the element in flight is no newer than the front |
| `QueueIsChannel` | `Spec => ImplementsChannel` | inductive `PassedInv`: what was sent is no newer than what is queued or being sent, and of these only values `checkDone()` has counted; each step sends nothing or one value newer than all before |
| `FrontIsSent`, `SentCompletely`, `OwnRetries` | `Spec => []InFlightIsFront`, `[]SentIsComplete`, `[]GivenUpAfterMaxRetries`, if no settings delete the oldest (`IgnoresNew`): with `delete_oldest` the element in flight may be evicted and its successor be taken for it | inductive `FrontInv`: only settings in use apply; the attempts counted are those of the front element; the values counted as sent of an element were passed on; `FewestRetries` exists by well-founded induction on the naturals |
| `TimeDiffMeasures`, `TimeDiffToCome`, `TimeDiffWraps` (`QueueTimerProofs`) | what `timeDiff()` returns for every distance, and where its sign turns | arithmetic, for every `HalfMax` |
| `IntervalWithinStep` | the next run of a late interval timer is 0 to one interval ahead | cases of `setNextTimeInterval()` over `TimeDiffMeasures` |
| `Spaced`, `TypeCorrect` | `Spec => SpacedAfterSuccess`, `[]TypeOK`, for every word size, every set of intervals and any idle time | inductive `SpacedInv`: while no interval has passed, `elapsed` is what the clock shows since `lastSend`, and a queue that is not empty waits for `lastSend` plus an interval; nothing has to be known of later times |
| `RestRecovered` (`RtcCacheProofs`) | `Spec => []RestIsRecoverable` | inductive `Consistent`: between the two writes of a save the metadata is that of the buffer, and the data lacks only the cells to be saved |
| `LoadsGenuine` | `Spec => []LoadedIsGenuine` | inductive `GenuineInv`: what a checksum was computed of was a run of samples, and a sample is newer than all in the buffer |
| `InTime` | `Spec => []ServedInTime`, if half the range of the clock exceeds the intervals and the idle time (`Ample`); beyond it the sign of `timeDiff()` turns (`TimeDiffWraps`) | inductive `WaitInv` and `ElapsedInv`: a queue that waits is due, or is when its interval ends, or one msec later when that is at 0; the clock shows what has passed, up to the bounds |
| `SamplesKept` | `Spec => []NoSampleForgotten` | inductive `KeptInv`: while a buffer is emptied a file ends with what it held; during a save the last cell is the sample |
| `OnlyTornSavesLose`, `TypeCorrect` | `Spec => LossNeedsTornSave`, `[]TypeOK` | inductive `SafeInv`: outside a save, RTC memory and the files make up for all that is in the buffer |
| `SamplesInOrder` | `Spec => []OlderIsRepeated` | inductive `OrderInv`: where a file has a newer sample than one in a later file, or in the buffer, it has that one before it. It must be the same file, since others are removed, and before, since files are cut; what a reset would load follows the files as the buffer does |
| `TypeCorrect` (`SchedulerProofs`) | `Spec => []TypeInv` | inductive as it stands; that the list is one of timers is part of `InOrder` |
| `AlwaysInOrder`, `NobodyIsForgotten` | `Spec => []InOrder`, `[]NobodyForgotten`, for any jobs, tasks and intervals, if `MaxLate <= HalfMax` (`NotTooLate`) | inductive `ListInv`: the list is sorted and no timer is further ahead or behind than half the range, so that a msec changes each lateness by one and no order; `Insert` keeps every timer but that of its id (`InsertFacts`), and the loop of `ScheduleAll` keeps what each of its steps keeps |
| `JobsAlwaysWithinStep` | `Spec => []JobsWithinStep`, if `NotTooLate` | inductive `JobsOnTime`, from `IntervalWithinStep` for the next run |
| `EventsNeverStarved` | `Spec => []EventsNotStarved`, if `WaitBounded`: handlers take time, and the bound is within half the range of the clock | inductive `EventsWait`: how long events wait in idle time, in a handler and in the background tasks; no assumption on how late timers get |
| `SchedulerImplementsAlarms` | `Spec => ImplementsAlarms`, if `NotTooLate` | step simulation: in a sorted list `Due` is the one timer of each id, the front one is as late as any, and inserting timers is `Register` |
| `TypeCorrect`, `OwnRetries`, `Announced` (`MqttQueueProofs`) | `Spec => []TypeOK`, `GivenUpAfterRetries`, `AnnouncedOnce`, for every set of configurations and threshold | inductive `IInv`: the attempts counted are those of the front message, unless it is among `heirs`, and those behind it have none; messages wait in order behind those published; length and attempts are within what some configuration allows; a client that is connected is known to be. The two action properties follow step by step from it |
| `QueueIsChannel` | `Spec => ImplementsChannel` | each step sends nothing or one message newer than all before |
| `WithinBounds`, `InnermostIsEnough` (`RulesProofs`, about `RuleBlocks`) | `BlocksSpec => []BlocksTypeOK`, `[]OuterBranchesTaken`, for every nesting level | both are inductive |
| `BlocksAreConditionals` | `BlocksSpec => ImplementsConditionals` | step simulation with one lemma per kind of line, from the two invariants: `InnermostDecides` says that a command runs just if it is in the branch taken of every `if` around it |
| `LevelIsKept` (`RulesProofs`, about `RuleEvents`) | `Spec => []LevelIsNesting`, whatever commands come from rules and background tasks | inductive `StackInv`: every call but the innermost has a file open or runs the background tasks, and at most one runs them; the level is failures and open files |
| `TypeCorrect` | `Spec => []TypeOK`, with `Len(frames) <= MaxNesting + 2` | from `StackInv`: the open files are at most `MaxNesting`, one more call runs the background tasks, and one is the innermost |
| `TimersAreCountdowns` | `Spec => ImplementsCountdowns` | inductive `TimersInv`, one `TimerOK` per timer: of the frames that pause or resume it one is the outermost, and it is the only one and finds the timer as it was unless the timer was meddled with; a timer that runs is `-MaxLate` to `HalfMax` ahead, where `timeDiff()` measures in both directions. Then one lemma per command, return and scan: each touches one timer, by one step of its countdown |
| `TypeCorrect`, `ServicesBacked` (`WiFiEventsProofs`) | `Spec => []TypeOK`, `[]ServicesNeedLink`, for any number of disturbances | inductive `IInv`: what a pass has taken for a connection (`Backed`) at each place where the loop waits; it needs that the flag of the address never outlives the pass that sets it and comes only with that of the connection, also while `processGotIP()` waits, and that there is no flag while the loop waits after a disconnect |
| `TypeCorrect`, `OneLeftOut` (`BootGuardProofs`) | `Spec => []TypeOK`, `[]AtMostOneLeftOut`, for any items | inductive `IInv`: what is loaded lacks the set of items of one rank in one kind, which has one element at most, since rank is increasing |
| `CulpritIsFound` | `Spec => []FoundInTime`, for any items, limit and size of the byte | inductive `SInv`: with a single culprit the crashes in a row are not more than the way the counter has come, around the wrap, from the value that finds it (`Dist`, `Goal`); the first boot of a new build is one more |

They assume the named `ASSUME`s of the modules, which TLC evaluates in the runs,
and what the table says of single theorems. `NotTooLate` is a property of
`millis()`, not of the model: a timer that is later than half the range (24.8
days) has the sign of a timer to come, and the list is then in no order. With
that and the other two assumptions about time (`Ample`, `WaitBounded`) hold the
constants of the runs as well. `MaxLate` is a bound of the model for load: time
does not pass while a timer is that late. The theorems hold for each `MaxLate`
up to half the range, so that they are about all behaviours in which none gets
later.

A number of these proofs need induction: over the files, over the loop of
`ScheduleAll`, over the places of a list. It is done with the least element of a
set of naturals (`LeastExists`, from the well-foundedness of `<`); a recursive
function is shown to exist by induction over how far it is defined
(`RecursionExists`).

Each safety invariant, action property and refinement that a passing run checks
is stated by a theorem. Model-checked only is liveness (`QueueDrains`,
`QueueIsServed`, `JobsRun`, `LossIsNoted`, `TimersFire`, `ReconnectsUnlessStale`,
`SearchEnds`), which is out of the prover's reach with its fairness.

## 6. Findings

Two runs show disagreements between the code and its own comments, with the
quotation in `PROJECT.json`:

* `mqtt_offline`: "Retries without a connection to wifi do not count as retry", but
  those of the MQTT queue do, and failed attempts are repeated at once: a message
  that is queued while the unit is offline is dropped within moments.
* `wifi_retry`: when the connection is lost while the event of its address waits,
  that event cannot be processed and stays; `WiFiConnected()` returns while an
  event waits, before it looks at the timeout. No attempt is made any more until
  a command or another event comes.

Other disagreements met while modelling. The models behave as the code does, and
the properties are stated around them:

* `addToQueue()` with "delete oldest" removes the front element and leaves
  `attempt` to the next one (`ControllerDelayHandlerStruct.h:90`). If the element
  was being sent, `markProcessed()` removes another one that was never sent
  (`:221`).
* An element of several values counts each success but the last as an attempt
  (`:137`), and its values are sent without the minimum interval between them
  (`:135`), since `markProcessed(false)` does not set `lastSend`.
* After more than half the range of `millis()` without a message, the sign of the
  difference turns, and the next one is scheduled ahead instead of at once
  (`:146`).
* `TaskDisable` calls the plugin for a task that is none, takes the failure for an
  answer and disables nothing (`src/Commands/Tasks.cpp:53`).
* The first samples after a power failure do not survive a reset: the checksum
  covers the whole buffer, of which only the changed part is saved, so that zeros
  in RAM stand beside whatever RTC memory held (`ESPEasyRTC.ino:437`, and `:462`).
* With "delete oldest", the MQTT queue deletes nothing when it is full: the
  message is refused before `addToQueue()` is called (`Controller.ino:432`).
* With "delete oldest" and low heap the eviction is in the MQTT queue as well, and
  the message behind is given up for attempts that were not its own.
* A connection that is lost while the topics are subscribed gets no event
  `MQTT#Connected` (`Controller.ino:211-216`), and no `MQTT#Disconnected`.
* Commands for a timer in the rules for its own pause or resumption, or that come
  from the web at that moment, are overwritten (`src/Commands/Timer.cpp:52`,
  `:79`): a timer that is set there is paused or resumed all the same, one that is
  cleared stays off if it was to be paused, and fires at once if it was to be
  resumed.
* A timer that would end when `millis()` is 0 never fires
  (`src/Commands/Timer.cpp:23`, `ESPEasyRules.ino:1065`).
* A wake-up from deep sleep, or a restart, before the network was connected counts
  as a failed boot (`ESPEasy.ino:244`); `docs/source/Reference/RTC.rst` has the
  count to find the source of crashes.

## 7. Not modelled

* Text and formats (18 protocols, HTML, JSON, logs), hardware (90 plugins, GPIO),
  time zones, formulas, notifications, OTA and vendored libraries: no control
  worth checking, or pure input and output.
* Plugin and GPIO timers: the list of timers they are in is that of `Scheduler`;
  the map of their data beside it has keys mixed by bit operations, and where two
  tasks share a key they collide with certainty.
* P2P network: datagrams that nothing answers, retries or promises.
* Settings storage: files at fixed offsets.
* Ethernet: a copy of the connection in one flag.
* Of WiFi: scanning, the choice of credentials, wrong ones, the setup wizard, the
  mode of the access point, and ESP32, whose events come through another handler.
* The ESP32 build that runs the scheduler in a second thread, which the code
  itself disables (`ESPEasy.ino:299`), and deep sleep mode, which runs jobs
  without the scheduler.
* Rules that are turned off while events wait or timers run: rules are enabled in
  `RuleEvents`. A rules file that a command executes by name is taken for one of
  the files of an event.
* The back-off of `TIMER_MQTT` and other times in `MqttQueue` and `WiFiEvents`:
  runs and timeouts come at any time there, so that what is shown holds for every
  back-off.

## 8. Plan

Done: the modules of section 2 and the theorems of section 5. What would come
next, the most important first:

1. Weaker assumptions where a theorem has one: `IgnoresNew` of `FrontIsSent` and
   `SentCompletely`, for the elements queued while nothing is evicted.
2. `PluginTimers`: the map of timer data beside the list of `Scheduler`.
3. A second queue beside the one of `DelayQueue`, for the connections that
   controllers share.
